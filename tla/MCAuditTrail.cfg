SPECIFICATION TrailSpec
CONSTANTS
  live = live
  ghost = ghost
  acme = acme
  beta = beta
  Writer = {w1, w2, w3}
  Run = {live, ghost}
  Project = {acme, beta}
  NoProject = NoProject
  NoHash = NoHash
  Owner <- MCOwner
  MaxChainRetries = 2
  EventsMax = 2
  MaxDamage = 1
INVARIANTS
  TypeOK
  NoFork
  IdOrderIsChainOrder
  RetriesHaveWinners
  NoFalseAlarm
PROPERTIES
  LinearChain
  IntactMeansWhole
  EmitEnds
