\* A turn cancelled when its log is longer than one replay.
CONSTANTS
  Runs = {r1}
  Sessions = {s1}
  Tools = {}
  AskUser = ask_user
  NoRun = NoRun
  Turns = {k1}
  NoTurn = NoTurn
  EventsLimit = 9
  ReplayLimit = 4
  Threads = {t1}
  MaxRounds = 0
  MaxConts = 0
  MaxChunks = 0
  MaxCalls = 1
  MaxCrashes = 0
  MaxVersion = 2

SPECIFICATION HostSpec
CHECK_DEADLOCK FALSE

INVARIANT CancelShown
