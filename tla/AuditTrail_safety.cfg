SPECIFICATION Spec
CONSTANTS
  k1 = k1
  e1 = e1
  p1 = p1
  None = None
  Cancellers = {k1}
  Estoppers = {}
  Physicals = {}
  MaxBeats = 0
  MaxSessions = 2
  MayShutDown = TRUE
  WriteFails = TRUE
CHECK_DEADLOCK FALSE
INVARIANTS
  TrailIsHistory
  MotionIsRecorded
  RestartAfterMotionIsRefused
