\* Liveness: no symmetry, two workers, one delivering thread, two actions.
CONSTANTS
  NumWorkers = 2
  Deliverers = {d1}
  Actions = {a1, a2}
  NoAction = NoAction
  WriteOutcomes = {"loaded", "refused", "exception"}
  MaxSpurious = 1
SPECIFICATION FairSpec
PROPERTY
  ImplementsFairActionPool
