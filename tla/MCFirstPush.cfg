SPECIFICATION Spec
CONSTANTS
  c1 = c1
  c2 = c2
  o1 = o1
  o2 = o2
  t1 = t1
  t2 = t2
  run_1 = run_1
  Client = {c1, c2}
  Jobs <- MCJobs
  Worker = {"w"}
  WorkerOf <- OneWorker
  Kept <- MCKept
  NoTrace = NoTrace
  RowSecurity = TRUE
  MaxRetries <- MCMaxRetries
  MaxCrashes = 1
INVARIANTS
  RaceSafe
