SPECIFICATION LiveSpec
CONSTANTS
  k1 = k1
  e1 = e1
  None = None
  Cancellers = {}
  Estoppers = {e1}
  Stages = 2
  BurstCount = 1
  ZeroCapacity = 16
  PublishFails = TRUE
CHECK_DEADLOCK FALSE
PROPERTIES
  RunEventuallyEnds
  NoStageSurvives
