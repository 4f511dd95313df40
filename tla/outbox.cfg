SPECIFICATION FairSpec
CONSTANTS
  Event = {e1}
  Subscriber = {crm, lua}
  Worker = {w1, w2}
  crm = crm
  MaxAttempts = 2
  Batch = 2
  Configs <- OneLeaves
  MayStall = FALSE
  MaxFaults = 1
  MaxReplays = 1
INVARIANTS DispatchedHasDeliveries SingleInFlight DeliveredMeansAccepted
PROPERTIES ImplementsPromise EventuallySettled
