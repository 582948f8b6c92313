\* The comment at action.h:6: the database may refuse a batch.
CONSTANTS
  NumWorkers = 1
  Deliverers = {d1}
  Actions = {a1, a2}
  NoAction = NoAction
  WriteOutcomes = {"loaded", "refused"}
  MaxSpurious = 0
SPECIFICATION Spec
INVARIANT
  SuccessMeansStored
