SPECIFICATION FairSpec
CONSTANTS
  r1 = r1
  r2 = r2
  r3 = r3
  w1 = w1
  w2 = w2
  Request = {r1, r2}
  Worker = {w1, w2}
  WorkerOf <- OneEach
  Provider = {p1, p2}
  Cost = {0, 2}
  Cap = 2
  EvaluatorEscapes = TRUE
  MaxInFlight = 2
  MaxDay = 2
PROPERTIES
  BrokenEvaluatorIsAScore
