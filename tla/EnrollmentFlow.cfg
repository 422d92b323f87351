SPECIFICATION MCSpec
CONSTANTS
  w1 = w1  w2 = w2  t1 = t1  l1 = l1
  pc1 = pc1  pc2 = pc2  c2 = c2
  Nil = Nil
  Campaigns = {c1, c2}
  Installs = {w1, w2, l1, t1}
  Machines = {pc1, pc2}
  Claims = {k1, k2}
  Machine <- MCMachine
  Kind <- MCKind
  MaxUses = 2
  MaxStarts = 2
  RetryAttempts = 2
  MaxRotations = 1
INVARIANTS
  UsesAreDevices
  OwnPair
PROPERTIES
  RefusedForGood
  RetryServed
SYMMETRY
  Interchangeable
CHECK_DEADLOCK FALSE
