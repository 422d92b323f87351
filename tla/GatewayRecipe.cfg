\* A recipe of two steps over two connections, under fairness.
SPECIFICATION FairDelivery
CONSTANTS
  s1 = s1
  s2 = s2
  d1 = d1
  m1 = m1
  c1 = c1
  None = None
  Session = {s1, s2}
  Diag = {}
  Mod = {m1}
  Coll = {}
  Sched = {}
  Manual = {}
  StepCount = 2
  MayResend = TRUE
  AckStatus = {"acknowledged"}
  ResultStatus = {"succeeded", "failed"}
  Supports <- AllSupported
INVARIANTS OperationRows StepsInOrder NeverSentTwice
PROPERTIES KeepsPromise Redelivered EveryOperationEnds
CHECK_DEADLOCK FALSE
