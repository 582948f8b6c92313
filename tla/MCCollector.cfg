\* Two threads that put into two tables and flush, beside the watcher.
CONSTANTS
  a = a  b = b  r1 = r1  r2 = r2  r3 = r3
  AppThreads = {t1, t2}
  Owner = t1
  Watcher = watcher
  Configs <- MCConfigs
  Answers = {0, 2}
  Records = {r1, r2, r3}
  TableOf <- MCTableOf
  IdOf <- MCIdOf
  NotANumber = NotANumber
  MaxPuts = 3
  WordSize = 256
SPECIFICATION FairSpec
INVARIANTS
  TypeOK
  Reachable
  SameShard
  OneNumber
  ShardCount
PROPERTIES
  SettledForGood
  WatcherReaches
