SPECIFICATION SpecPast
CONSTANTS
  NumEpisodes = 1
  MaxRevision = 2
  Worker = {n1, b1}
  Bootstrap = {b1}
  Scope = {1}
  Empty = {}
  MaxAttempts = 2
  MaxFaults = 1
  MaxOps = 1
  FactEpisode = {1, 2, 3}
  Occurs <- OccursAt
  Imports <- FirstTwice
  Talks <- Spoken
  Clashes = {"supersedes"}
  FactAttempts = 1
  Container = {c1}
  Fact = {1, 2, 3}
  Nights = 2
  Mondays = {1}
INVARIANT BothAreInserted
\* The facts and the nights of the bound are over at some point.
CHECK_DEADLOCK FALSE
