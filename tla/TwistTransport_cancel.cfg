SPECIFICATION Spec
CONSTANTS
  k1 = k1
  e1 = e1
  None = None
  Cancellers = {k1}
  Estoppers = {}
  Stages = 1
  BurstCount = 3
  ZeroCapacity = 16
  PublishFails = FALSE
CHECK_DEADLOCK FALSE
INVARIANTS
  SuccessfulStopIsZero
