SPECIFICATION LiveSpec
CONSTANTS
  c1 = c1
  c2 = c2
  c3 = c3
  x1 = x1
  x2 = x2
  None = None
  Callers = {c1, c2, c3}
  Closers = {x1, x2}
  Capacity = 2
CHECK_DEADLOCK FALSE
INVARIANTS
  FileIsPrefix
  AnsweredIsDurable
PROPERTIES
  StoppedWorkerExits
  RecordsAreAnswered
