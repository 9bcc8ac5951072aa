\* Two turns of one session, begun, regenerated, resumed and cancelled by two threads.
CONSTANTS
  Runs = {r1, r2}
  Sessions = {s1}
  Tools = {}
  AskUser = ask_user
  NoRun = NoRun
  Threads = {t1, t2}
  MaxRounds = 0
  MaxConts = 0
  MaxChunks = 0
  MaxCalls = 1
  MaxCrashes = 0
  MaxVersion = 2

SPECIFICATION Spec
CHECK_DEADLOCK FALSE
SYMMETRY Symmetry

INVARIANTS
  OneActivePerSession
  CancelWins
