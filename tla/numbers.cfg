SPECIFICATION SpecNumbers
CONSTANTS
  Loop = {p1, p2}
  p1 = p1
  p2 = p2
  MaxProbes = 2
  MaxTurns = 1
  MaxMessages = 1
  MaxFaults = 1
  Watcher = {w1, w2}
  MaxNotices = 2
  MaxChanges = 1
INVARIANTS ReceivedIsNotDown OneNoticeEach EpisodesAgree
PROPERTIES VerdictStands Reconciled Announced
CHECK_DEADLOCK FALSE
