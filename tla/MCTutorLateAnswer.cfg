\* A cancellation between the check of a stream item and its event.
CONSTANTS
  Runs = {r1}
  Sessions = {s1}
  Tools = {}
  AskUser = ask_user
  NoRun = NoRun
  Threads = {t1, t2}
  MaxRounds = 0
  MaxConts = 0
  MaxChunks = 1
  MaxCalls = 1
  MaxCrashes = 0
  MaxVersion = 1

SPECIFICATION Spec
CHECK_DEADLOCK FALSE
SYMMETRY Symmetry

INVARIANT
  NoAnswerAfterCancel
