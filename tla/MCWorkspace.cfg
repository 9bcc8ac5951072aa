SPECIFICATION MCSpec
CONSTANTS
  s1 = s1
  s2 = s2
  e1 = e1
  e2 = e2
  r1 = r1
  r2 = r2
  w2 = w2
  Sources = {s1, s2}
  Evidences = {e1, e2}
  Claims = {c1}
  SourceOf <- MCSourceOf
  ResearchThreads = {r1, r2}
  MaxVersions = 2
  Packs = {pk}
  Books = {bk}
  Runs = {run}
  ResearchTopics = {k1, k2, k3, k4}
  MaxQueues = {2, 3}
  MaxOutline = 3
  MaxImported = 1
  Areas = {def, sub}
  DefaultArea = def
  Questions = {q}
  Topics = {w1, w2}
  NoArea = NoArea
  NoQuestion = NoQuestion
  MaxReturns = 1
  AreaThreads = {r1, r2}
  Concepts = {k, l}
  Items = {i}
  Attempts = {a1}
  Proofs = {m1, m2}
  NoConcept = NoConcept
  NoAttempt = NoAttempt
  MasteryStates = 1
  LearnThreads = {r1, r2}
  Documents = {d}
  Revisions = {v1, v2}
  Texts = {x1, x2}
  NoText = NoText
  WriteThreads = {r1, r2}
  Focus = {"claims", "packs", "books", "research", "questions", "learning", "writing"}
SYMMETRY WorkspaceSymmetry
INVARIANTS
  WorkspaceTypeOK
  VerifiedHasBasis
  DerivedIsCurrent
  CompletedIsWhole
  PromotedHasTopic
  EvidenceHasAttempt
  AcceptedOnItsBase
CHECK_DEADLOCK FALSE
