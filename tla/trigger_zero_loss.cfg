SPECIFICATION Spec
CONSTANTS
  Msg = {m1, m2}
  Reconcile = {}
  Worker = {w1, w2}
  w1 = w1
  w2 = w2
  m2 = m2
  MaxAttempts = 2
  Batch = 2
  HasUrl = {w1, w2}
  MayStall = FALSE
  Redelivered = {}
  MaxFaults = 0
INVARIANT ZeroLoss
