\* Three workers, so that the scan order matters, two delivering threads,
\* three actions, one spurious wakeup.
CONSTANTS
  NumWorkers = 3
  Deliverers = {d1, d2}
  Actions = {a1, a2, a3}
  NoAction = NoAction
  WriteOutcomes = {"loaded", "refused", "exception"}
  MaxSpurious = 1
SYMMETRY Symmetry
SPECIFICATION Spec
INVARIANTS
  TypeOK
  MutualExclusion
  NoLostWakeup
  AcceptedHasOneWorker
  WrittenOnce
  CloseDrains
  PermitConservation
  PermitsBacked
  NeverDry
PROPERTIES
  ImplementsActionPool
