\* One turn of one session started, answered, cancelled and deleted by two threads,
\* with a crash of the process.
CONSTANTS
  Runs = {r1}
  Sessions = {s1}
  Tools = {}
  AskUser = ask_user
  NoRun = NoRun
  Turns = {k1}
  NoTurn = NoTurn
  EventsLimit = 7
  ReplayLimit = 5
  Threads = {t1, t2}
  MaxRounds = 0
  MaxConts = 0
  MaxChunks = 0
  MaxCalls = 1
  MaxCrashes = 1
  MaxVersion = 2

SPECIFICATION HostSpec
CHECK_DEADLOCK FALSE
SYMMETRY Symmetry

INVARIANTS
  HostTypeOK
  EndedTurnEndedRun
  Mirrors
