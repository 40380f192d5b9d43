SPECIFICATION Spec
CONSTANTS
  w1 = w1
  w2 = w2
  c1 = c1
  Saves = {w1, w2}
  Settings = {c1}
  Requests <- MCRequests
  MaxRestores = 2
  MaxStarts = 1
  Faults = {}
INVARIANTS
  TypeOK
PROPERTIES
  KeepsPromise
  AnswerIsTrue
CHECK_DEADLOCK FALSE
