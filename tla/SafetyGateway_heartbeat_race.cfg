SPECIFICATION FairSpec
CONSTANTS
  k1 = k1
  k2 = k2
  e1 = e1
  e2 = e2
  b1 = b1
  b2 = b2
  x1 = x1
  None = None
  Cancels = {}
  Estops = {}
  Beats = {b1}
  Closers = {}
  Modes = {"simulation"}
  Timeouts = {1}
  MaxTime = 3
  MaxResets = 0
  ThreadStartFails = FALSE
CHECK_DEADLOCK FALSE
PROPERTIES
  HeartbeatLossEndsRun
