\* One application thread that also calls flush(), beside the watcher.
CONSTANTS
  r1 = r1  r2 = r2  r3 = r3  s1 = s1  s2 = s2
  AppThreads = {t1}
  Owner = t1
  Watcher = watcher
  Shards = {s1}
  Records = {r1, r2}
  ShardOf <- OneShard
  RecordSize <- OneLarge
  TargetNumRecords = 2
  TargetMemorySize = 2
  RawStatus = {"other"}
  MaxFlushes = 1
  NumWorkers = 2
  Actions = {1, 2, 3, 4}
  NoAction = NoAction
  WriteOutcomes = {"loaded"}
  MaxSpurious = 0
SPECIFICATION Spec
INVARIANT
  FlushKeepsOrder
