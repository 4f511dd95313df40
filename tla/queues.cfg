SPECIFICATION SpecQueues
CONSTANTS
  Receipt = {r1, r2}
  Worker = {w1, w2}
  Nobody = Nobody
  MaxAttempts = 2
  BatchSize = 2
  MaxFaults = 2
  Notice = {u1, d1}
  Urgent = {u1}
  BatchLimit = 1
  NoticeFaults = 1
  Job = {j1, j2}
  j2 = j2
  Tick = {t1, t2}
  MayStall = FALSE
INVARIANTS FenceIsExact NoSecondMessage OutageBurnsNoJob DoneOnce
PROPERTIES QueuesDrain LeadNotStuck
\* When every row is settled and the bounds are used up nothing is left to do.
CHECK_DEADLOCK FALSE
