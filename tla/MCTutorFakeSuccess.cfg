\* Two threads construct the bundle at once; the recovery of the second meets a
\* live run.
CONSTANTS
  Runs = {r1}
  Sessions = {s1}
  Tools = {}
  AskUser = ask_user
  NoRun = NoRun
  Threads = {t1, t2}
  MaxRounds = 0
  MaxConts = 0
  MaxChunks = 0
  MaxCalls = 1
  MaxCrashes = 0
  MaxVersion = 1

SPECIFICATION Spec
CHECK_DEADLOCK FALSE
SYMMETRY Symmetry

INVARIANT
  NoFakeSuccess
