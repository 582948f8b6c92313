\* The comment at worker_pool.h:52: one worker and one delivering thread, no spurious wakeup.
CONSTANTS
  NumWorkers = 1
  Deliverers = {d1}
  Actions = {a1, a2}
  NoAction = NoAction
  WriteOutcomes = {"loaded"}
  MaxSpurious = 0
SPECIFICATION Spec
INVARIANT
  NoInnerException
