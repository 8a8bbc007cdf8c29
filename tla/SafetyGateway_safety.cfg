SPECIFICATION Spec
CONSTANTS
  k1 = k1
  k2 = k2
  e1 = e1
  e2 = e2
  b1 = b1
  b2 = b2
  x1 = x1
  None = None
  Cancels = {k1}
  Estops = {e1}
  Beats = {b1}
  Closers = {x1}
  Modes = {"simulation", "hardware"}
  Timeouts = {1, None}
  MaxTime = 3
  MaxResets = 0
  ThreadStartFails = TRUE
CHECK_DEADLOCK FALSE
INVARIANTS
  EndedRunWasStopped
  QuiescedEndIsStill
PROPERTIES
  FaultIsJustified
  NoCommandAfterEnd
