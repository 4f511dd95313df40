SPECIFICATION Spec
CONSTANTS
  Judge = {j1}
  MaxOpps = 1
  MaxMessages = 1
  MaxWrites = 2
  MaxFaults = 0
PROPERTY HumanPrevails
CHECK_DEADLOCK FALSE
