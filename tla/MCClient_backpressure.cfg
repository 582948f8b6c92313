\* Batches of one record and two workers, so that three records can be under way.
CONSTANTS
  r1 = r1  r2 = r2  r3 = r3  s1 = s1  s2 = s2
  AppThreads = {t1, t2}
  Owner = t1
  Watcher = watcher
  Shards = {s1}
  Records = {r1, r2, r3}
  ShardOf <- OneShard
  RecordSize <- AllSmall
  TargetNumRecords = 1
  TargetMemorySize = 3
  RawStatus = {"other"}
  MaxFlushes = 0
  NumWorkers = 2
  Actions = {1, 2, 3, 4}
  NoAction = NoAction
  WriteOutcomes = {"loaded"}
  MaxSpurious = 0
SYMMETRY AllAlike
SPECIFICATION Spec
INVARIANTS
  Pipeline
  Backpressure
