\* The comment at client.h:13, if the memory of the client held zeroes.
CONSTANTS
  r1 = r1  r2 = r2  r3 = r3  s1 = s1  s2 = s2
  AppThreads = {t1, t2}
  Owner = t1
  Watcher = watcher
  Shards = {s1}
  Records = {r1, r2, r3}
  ShardOf <- OneShard
  RecordSize <- OneLarge
  TargetNumRecords = 2
  TargetMemorySize = 3
  RawStatus = {"UNAVAILABLE", "other"}
  MaxFlushes = 0
  NumWorkers = 1
  Actions = {1, 2, 3, 4}
  NoAction = NoAction
  WriteOutcomes = {"loaded"}
  MaxSpurious = 0
SPECIFICATION Spec
INVARIANT
  RunningHasWatcher
