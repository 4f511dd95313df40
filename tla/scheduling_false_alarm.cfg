SPECIFICATION FairSpec
CONSTANTS
  Caller = {c1}
  Loop = {"cleaner", "reconciler"}
  Days = {2}
  Instants = {9, 60}
  Ranges <- Ranges1
  Duration = 1
  MinAdvance = 4
  MaxResults = 1
  MaxEvents = 2
  MaxUpsets = 1

PROPERTY NoFalseAlarm
CHECK_DEADLOCK FALSE
