SPECIFICATION FairSpec
CONSTANTS
  NTrials = 2
  NRows = 2
  RowId = {1}
  IdOf <- MCIdOf
  NLayers = 2
  Concurrency = 2
  Cap = 2
  MaxRetries = 1
  Key <- MCKey
  KeyOf <- MCKeyOf
  CallCost = {1}
  FailCost = {1}
  Outcome = {"pass", "fail", "none"}
  Blocking = {1}
  RunMode = "short_circuit_blocking_only"
  FailFast = {TRUE, FALSE}
  Strategy = {"all", "any"}
  GateConfig <- MCGateConfig
  Baseline <- MCBaseline
  Tagged = {1}
INVARIANTS
  TypeOK
  ChargesReachTotal
  TrailTellsRows
  FailsClosed
  CapBound
  PassRateAgrees
PROPERTIES
  CapIsFinal
  RunEnds
