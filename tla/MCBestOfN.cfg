SPECIFICATION Spec
CONSTANTS
  NTrials = 2
  NRows = 1
  RowId = {1}
  IdOf <- MCIdOf
  NLayers = 1
  Concurrency = 1
  Cap = 0
  MaxRetries = 0
  Key <- MCKey
  KeyOf <- MCKeyOf
  CallCost = {1}
  FailCost = {0, 1}
  Outcome = {"pass", "fail"}
  Blocking = {1}
  RunMode = "short_circuit_blocking_only"
  FailFast = {FALSE}
  Strategy = {"any"}
  GateConfig <- MCLenient
  Baseline <- MCBaseline
  Tagged = {1}
INVARIANTS
  BestOfN
