\* One diagnostic operation beside one scheduled context collection.
SPECIFICATION Spec
CONSTANTS
  s1 = s1
  s2 = s2
  d1 = d1
  m1 = m1
  c1 = c1
  None = None
  Session = {s1, s2}
  Diag = {d1}
  Mod = {}
  Coll = {c1}
  Sched = {c1}
  Manual = {}
  StepCount = 1
  MayResend = TRUE
  AckStatus = {"acknowledged", "running"}
  ResultStatus = {"succeeded", "failed"}
  Supports <- AllSupported
INVARIANTS LocksHold TerminalOnce CanceledNeverSent
SYMMETRY SessionSymmetry
CHECK_DEADLOCK FALSE
