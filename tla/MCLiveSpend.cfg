SPECIFICATION Spec
CONSTANTS
  r1 = r1
  r2 = r2
  r3 = r3
  w1 = w1
  w2 = w2
  Request = {r1, r2, r3}
  Worker = {w1, w2}
  WorkerOf <- TwoShare
  Provider = {p1}
  Cost = {0, 2}
  Cap = 2
  EvaluatorEscapes = FALSE
  MaxInFlight = 2
  MaxDay = 2
INVARIANTS
  SpendBound
  ChargedAccounted
  AnswersMatchLedger
  OvershootWarned
SYMMETRY SwapSharers
