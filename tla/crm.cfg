SPECIFICATION Spec
CONSTANTS
  Judge = {j1, j2}
  MaxOpps = 2
  MaxMessages = 2
  MaxWrites = 2
  MaxFaults = 1
INVARIANT OneOpen
PROPERTIES SaleStands CascadesOnly
CHECK_DEADLOCK FALSE
