\* One turn from start to end: an executor and a second thread that cancels,
\* replies or rebuilds the bundle at every point.
CONSTANTS
  Runs = {r1}
  Sessions = {s1}
  Tools = {search}
  AskUser = ask_user
  NoRun = NoRun
  Threads = {t1, t2}
  MaxRounds = 1
  MaxConts = 1
  MaxChunks = 1
  MaxCalls = 1
  MaxCrashes = 0
  MaxVersion = 3

SPECIFICATION Spec
CHECK_DEADLOCK FALSE
SYMMETRY Symmetry

INVARIANTS
  TypeOK
  SoleExecutor
  ExecutorInv
  SnapshotComplete
PROPERTIES
  GrantsNeverExpand
  ImplementsLifecycle
