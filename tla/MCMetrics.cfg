\* Two workers and two putting threads that count, the watcher and the destructor
\* that report.
CONSTANTS
  AppThreads = {t1, t2}
  Owner = t1
  Watcher = watcher
  Client = client
  NumWorkers = 2
  Executions = {e1, e2}
  Waits = {u1, u2}
  NoEvent = NoEvent
  Interval = 2
  MaxClock = 5
SYMMETRY Alike
SPECIFICATION Spec
INVARIANTS
  TypeOK
  NothingLost
  ReportedOnce
  JunkOnce
  FinalReport
  WatcherNeverDivides
