\* Liveness, across one crash: a thread is never stopped for good but by a crash.
CONSTANTS
  Runs = {r1}
  Sessions = {s1}
  Tools = {search}
  AskUser = ask_user
  NoRun = NoRun
  Threads = {t1, t2}
  MaxRounds = 0
  MaxConts = 1
  MaxChunks = 1
  MaxCalls = 1
  MaxCrashes = 1
  MaxVersion = 2

SPECIFICATION FairSpec
CHECK_DEADLOCK FALSE

INVARIANT
  OneDone
PROPERTIES
  RunsEnd
  CancelAnnounced
