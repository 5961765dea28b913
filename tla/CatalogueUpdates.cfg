\* A creation and an update of what it created.
CONSTANTS
  Workers = {w1}
  Requests = {q1, q2}
  Runs = {r1}
  a = a
  b = b
  Names = {a, b}
  Configs <- Files
  Ids = {1, 2, 3}
  Restarts = 0
  AnswersFirst = FALSE
  None = None
SPECIFICATION Spec
PROPERTIES
  UpdatesAreMade
