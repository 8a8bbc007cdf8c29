SPECIFICATION FairSpec
CONSTANTS
  c1 = c1
  c2 = c2
  o1 = o1
  s1 = s1
  t1 = t1
  t2 = t2
  Calls = {c1, c2}
  OwnedCalls = {o1}
  Stops = {s1}
  Starts = {t1, t2}
  Capacity = 1
  None = None
  Refused = Refused
  Worker = Worker
INVARIANTS
  AnswerMatchesExecution
  NoLostWakeup
PROPERTIES
  ClosedMeansSilent
  ImplementsGate
  CallsReturn
  CloseEndsWorker
