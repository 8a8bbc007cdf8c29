SPECIFICATION LiveSpec
CONSTANTS
  k1 = k1
  e1 = e1
  None = None
  Cancellers = {}
  Estoppers = {}
  Stages = 2
  BurstCount = 3
  ZeroCapacity = 16
  PublishFails = TRUE
CHECK_DEADLOCK FALSE
PROPERTIES
  SuccessfulStopsForGood
  UnattendedMotionStops
