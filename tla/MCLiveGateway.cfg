SPECIFICATION FairSpec
CONSTANTS
  r1 = r1
  r2 = r2
  r3 = r3
  w1 = w1
  w2 = w2
  Request = {r1, r2, r3}
  Worker = {w1, w2}
  WorkerOf <- TwoShare
  Provider = {p1, p2}
  Cost = {1}
  Cap = 0
  EvaluatorEscapes = FALSE
  MaxInFlight = 3
  MaxDay = 1
INVARIANTS
  TypeOK
  AggregatesAgree
  EmitNeverRaces
PROPERTIES
  PostsToLedger
  CallAnswered
