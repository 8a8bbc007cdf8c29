SPECIFICATION AllSpec
CONSTANTS
  Starters = {s1, s2}
  Stoppers = {p1, p2}
  None = None
  MayKill = TRUE
  Callers = {c1, c2}
  Closers = {x1}
  MaxControllers = 2
  NoGateway = NoGateway
  Consumers = {k1, k2}
  Tokens = {t1, t2}
  TimeToLive = 1
  MaxNow = 2
  MaxBoots = 2
  Nil = Nil
  Cancellers = {a1}
  Stages = 2
  BurstCount = 1
  MayTimeOut = TRUE
  CallsFail = TRUE
SYMMETRY Symmetry
CHECK_DEADLOCK FALSE
INVARIANTS
  StateIsTruthful
  EndedRunCancelsGoal
  RunningLaunchIsKnown
  OneLaunch
  StoppedStartsStayDown
  OneRuntime
  StoppedStaysDown
  OneGateway
  SingleUse
