SPECIFICATION SpecPast
CONSTANTS
  Msg = {m1, m2}
  Reconcile = {rc}
  Worker = {w1, w2}
  w1 = w1
  w2 = w2
  m2 = m2
  MaxAttempts = 2
  Batch = 2
  HasUrl <- OnlyFirstHasUrl
  MayStall = TRUE
  Redelivered = {m1}
  MaxFaults = 1
INVARIANTS UnreadIsCovered ReconcileToldOnce
PROPERTY EventuallyRead
\* Once every message is handled the poller finds nothing due: nothing changes.
CHECK_DEADLOCK FALSE
