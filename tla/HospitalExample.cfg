SPECIFICATION ExampleSpec
CONSTANTS
  None = None
  MayTimeOut = TRUE
  CallsFail = TRUE
  Stages = 2
  WaypointsPerStage = 1
  MissionTimeout = 1
  OdomTimeout = 0
  ObstacleFailAfter = 0
  ProgressTimeout = 0
  ZeroBurst = 2
  MaxDistance = 1
  MaxTurn = 1
  Unset = Unset
INVARIANTS
  StopHoldsMission
  CancelledStartIsUndone
  CleanStopIsStill
  RouteInOrder
PROPERTIES
  StopBeforeMotion
CHECK_DEADLOCK FALSE
