CONSTANTS
  Workers = {w1, w2}
  Requests = {q1, q2}
  Runs = {r1}
  a = a
  b = b
  Names = {a, b}
  Configs <- Files
  Ids = {1, 2, 3, 4}
  Restarts = 1
  AnswersFirst = TRUE
  None = None
SPECIFICATION Spec
INVARIANTS
  CatalogueInv
  SyncIsAtomic
  AnswersHold
