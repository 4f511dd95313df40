SPECIFICATION FairSpec
CONSTANTS
  NumEpisodes = 1
  MaxRevision = 1
  Worker = {b1}
  Bootstrap = {b1}
  Scope = {1}
  Empty = {1}
  MaxAttempts = 2
  MaxFaults = 0
  MaxOps = 0
PROPERTY DrainEnds
