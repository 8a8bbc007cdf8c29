SPECIFICATION LiveSpec
CONSTANTS
  k1 = k1
  e1 = e1
  p1 = p1
  None = None
  Cancellers = {}
  Estoppers = {e1}
  Physicals = {p1}
  MaxBeats = 1
  MaxSessions = 1
  MayShutDown = FALSE
  WriteFails = TRUE
CHECK_DEADLOCK FALSE
PROPERTIES
  AuditFailureStops
  DrainsReturn
