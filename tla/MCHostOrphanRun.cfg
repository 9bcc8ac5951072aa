\* A session deleted beside a start.
CONSTANTS
  Runs = {r1}
  Sessions = {s1}
  Tools = {}
  AskUser = ask_user
  NoRun = NoRun
  Turns = {k1}
  NoTurn = NoTurn
  EventsLimit = 9
  ReplayLimit = 9
  Threads = {t1, t2}
  MaxRounds = 0
  MaxConts = 0
  MaxChunks = 0
  MaxCalls = 1
  MaxCrashes = 0
  MaxVersion = 2

SPECIFICATION HostSpec
CHECK_DEADLOCK FALSE
SYMMETRY Symmetry

INVARIANT NoRunWithoutSession
