---------------------------- MODULE LiveGateway ----------------------------
(***************************************************************************)
(* POST /v1/projects/{slug}/invoke for one project: routes/invoke.py and   *)
(* the live-run bookkeeping of live.py, by the workers of one server on    *)
(* one database.                                                           *)
(*                                                                         *)
(* The handler is a coroutine.  It lets go of its worker's event loop only *)
(* where it awaits, at the provider call and in the evaluators; the short  *)
(* transactions before and after run on the loop without a pause, so two   *)
(* transactions are interleaved only if they belong to different workers.  *)
(* The database is PostgreSQL at READ COMMITTED: an UPDATE holds its row   *)
(* until the transaction ends, an INSERT waits for an open transaction     *)
(* that holds its key.  On SQLite writers are serialised, a special case.  *)
(***************************************************************************)
EXTENDS Integers, Sequences, FiniteSetsExt, Sums

CONSTANTS
  Request,          \* calls of POST .../invoke
  Worker,           \* server processes, one event loop each
  WorkerOf,         \* which worker serves a request
  Provider,         \* first providers of the configs the project has had
  Cost,             \* what a provider may charge for a call, in some unit
  Cap,              \* cost_cap_usd_daily, 0 if there is none
  EvaluatorEscapes, \* whether a config has an evaluator that breaks the handler
  MaxInFlight,      \* bound: invoke requests the clients keep open
  MaxDay            \* bound: UTC days of a behaviour

ASSUME GatewayAssumption ==
  /\ WorkerOf \in [Request -> Worker]
  /\ Provider # {}
  /\ Cost \subseteq Nat
  /\ Cap \in Nat
  /\ EvaluatorEscapes \in BOOLEAN
  /\ MaxInFlight \in Nat \ {0}
  /\ MaxDay \in Nat \ {0}

Day == 1..MaxDay

\* What a call has been charged: nothing if no provider took it.
Charge == Cost \cup {0}

VARIABLES
  day,        \* utc_date_str(), common to the workers
  run_rows,   \* committed rows of live calls
  runs,       \* committed totals of the live run of each day
  trials,     \* committed totals of the live trial of each day and provider
  event_rows, \* committed chain of each live run
  have_run,   \* days whose live run row is committed
  have_trial, \* day and provider pairs whose trial row is committed
  pc,         \* where each request is in the handler
  call,       \* its provider_id, and error, cost_usd and passed
  tx,         \* what its transaction holds and has not committed
  status,     \* what the client got
  reconcile,  \* requests logged CRITICAL phase3_failed_after_provider_charge
  warned,     \* requests logged WARNING cost_cap_overshot
  raced       \* requests whose event met a tip that had moved

database == <<run_rows, runs, trials, event_rows, have_run, have_trial>>
request == <<pc, call, tx, status>>
logs == <<reconcile, warned, raced>>
vars == <<day, database, request, logs>>

\* Phase 3, from the last await to the end of its transaction.
Transaction ==
  {"select_run", "insert_run", "select_trial", "insert_trial", "record", "tip", "event", "commit"}

\* After the UPDATE of the runs row, and after the INSERT of the event.
HoldsRun == {"tip", "event", "commit"}

Errors == {"none", "failed", "throttled", "cost_capped"}
NoCall == [provider |-> CHOOSE p \in Provider : TRUE,
           error |-> "none", cost |-> 0, passed |-> FALSE]

InFlight == {r \in Request : pc[r] \notin {"idle", "answered"}}

Zero == [rows |-> 0, pass |-> 0, fail |-> 0, cost |-> 0]

\* The transaction of a request: the day of its run_id, what it has inserted
\* of "run" and "trial", the totals its UPDATEs have written, and the length
\* of the chain when it last read the tip.
NoTx == [day |-> 1, makes |-> {}, run |-> Zero, trial |-> Zero, tip |-> 0]

\* row_count + 1, row_pass_count + :p, row_fail_count + :f, cost_usd + :c.
Add(totals, o) ==
  [rows |-> totals.rows + 1,
   pass |-> totals.pass + (IF o.passed THEN 1 ELSE 0),
   fail |-> totals.fail + (IF o.passed THEN 0 ELSE 1),
   cost |-> totals.cost + o.cost]

\* Mutant: the cap is reached only when it is exceeded.
CapReachedStrict(spent) == Cap > 0 /\ spent > Cap

\* cost_cap_usd > 0 and today_cost_usd >= cost_cap_usd.
CapReached(spent) == Cap > 0 /\ spent >= Cap

\* live_trial_id.
TrialOf(r) == <<tx[r].day, call[r].provider>>

\* Mutants of the row lock: one per trial; none.
RunLockedByTrial(r) ==
  \E q \in Request \ {r} :
    pc[q] \in HoldsRun /\ TrialOf(q) = TrialOf(r)
RunUnlocked(r) == FALSE

\* Another transaction has updated the runs row this one is about to update.
RunLocked(r) ==
  \E q \in Request \ {r} : pc[q] \in HoldsRun /\ tx[q].day = tx[r].day

\* Another transaction has inserted the key this one is about to insert.
RunPending(r) ==
  \E q \in Request \ {r} : "run" \in tx[q].makes /\ tx[q].day = tx[r].day
TrialPending(r) ==
  \E q \in Request \ {r} :
    "trial" \in tx[q].makes /\ TrialOf(q) = TrialOf(r)
EventPending(r) ==
  \E q \in Request \ {r} :
    pc[q] = "commit" /\ tx[q].day = tx[r].day /\ tx[q].tip = tx[r].tip

\* Mutant: an evaluator never awaits, and holds the loop until it returns.
HasLoopBlockedByEvaluators(r) ==
  \A q \in Request \ {r} : WorkerOf[q] = WorkerOf[r] => pc[q] \notin Transaction \cup {"evaluating"}

\* No other request of the same worker is between its last await and the end
\* of its transaction: the event loop can run this one.
HasLoop(r) ==
  \A q \in Request \ {r} : WorkerOf[q] = WorkerOf[r] => pc[q] \notin Transaction

-----------------------------------------------------------------------------
Init ==
  /\ day = 1
  /\ run_rows = {}
  /\ runs = [d \in Day |-> Zero]
  /\ trials = [t \in Day \X Provider |-> Zero]
  /\ event_rows = [d \in Day |-> <<>>]
  /\ have_run = {}
  /\ have_trial = {}
  /\ pc = [r \in Request |-> "idle"]
  /\ call = [r \in Request |-> NoCall]
  /\ tx = [r \in Request |-> NoTx]
  /\ status = [r \in Request |-> "none"]
  /\ reconcile = {}
  /\ warned = {}
  /\ raced = {}

\* What the handler's locals say of the call.
Note(r, provider, error, cost, passed) ==
  call' = [call EXCEPT ![r] =
    [provider |-> provider, error |-> error, cost |-> cost, passed |-> passed]]

Goto(r, label) == pc' = [pc EXCEPT ![r] = label]

\* The handler returns or raises; a transaction that is open has ended.
Answer(r, code) ==
  /\ Goto(r, "answered")
  /\ status' = [status EXCEPT ![r] = code]
  /\ tx' = [tx EXCEPT ![r] = NoTx]

\* Mutant: a capped request is answered 402 at once.
ResolveCapAnswers(r) ==
  /\ pc[r] = "idle"
  /\ HasLoop(r)
  /\ Cardinality(InFlight) < MaxInFlight
  /\ \/ /\ Answer(r, IF CapReached(runs[day].cost) THEN "402" ELSE "refused")
        /\ UNCHANGED call
     \/ /\ ~CapReached(runs[day].cost)
        /\ \E p \in Provider : Note(r, p, "none", 0, FALSE)
        /\ Goto(r, "calling")
        /\ UNCHANGED <<status, tx>>
  /\ UNCHANGED <<day, database, logs>>

\* Phase 1: the project, its latest config and today's spend are read, and
\* the request is refused (404, 429 of the key, 422), passed on to the
\* provider, or, over the cap, straight to phase 3.
Resolve(r) ==
  /\ pc[r] = "idle"
  /\ HasLoop(r)
  /\ Cardinality(InFlight) < MaxInFlight
  /\ \/ /\ Answer(r, "refused")
        /\ UNCHANGED call
     \/ /\ \E p \in Provider :
             Note(r, p, IF CapReached(runs[day].cost) THEN "cost_capped" ELSE "none", 0, FALSE)
        /\ Goto(r, IF CapReached(runs[day].cost) THEN "select_run" ELSE "calling")
        /\ UNCHANGED <<status, tx>>
  /\ UNCHANGED <<day, database, logs>>

\* Phase 2: the provider answers, within the time wait_for gives it, or
\* fails, or times out.  It may have been charged and fail all the same: its
\* cost is kept before its latency is converted.
CallProvider(r) ==
  /\ pc[r] = "calling"
  /\ HasLoop(r)
  /\ \E error \in {"none", "failed", "throttled"}, cost \in Cost :
       /\ Note(r, call[r].provider, error, IF error = "throttled" THEN 0 ELSE cost, FALSE)
       /\ Goto(r, IF error = "none" THEN "evaluating" ELSE "select_run")
  /\ UNCHANGED <<day, database, tx, status, logs>>

\* The evaluators run.  One that raises is a failed score; but the score of a
\* broken one is built, and the scores of a sound one are read, outside the
\* try, so a layer that is no number or a result that is no list ends the
\* handler there.
Evaluate(r) ==
  /\ pc[r] = "evaluating"
  /\ HasLoop(r)
  /\ \E passed \in BOOLEAN, raises \in {FALSE, EvaluatorEscapes} :
       IF raises
         THEN Answer(r, "500") /\ UNCHANGED call
         ELSE /\ Note(r, call[r].provider, call[r].error, call[r].cost, passed)
              /\ Goto(r, "select_run")
              /\ UNCHANGED <<tx, status>>
  /\ UNCHANGED <<day, database, logs>>

\* ensure_live_run: the run is the one of the day it is now.
SelectRun(r) ==
  /\ pc[r] = "select_run"
  /\ HasLoop(r)
  /\ tx' = [tx EXCEPT ![r].day = day]
  /\ Goto(r, IF day \in have_run THEN "select_trial" ELSE "insert_run")
  /\ UNCHANGED <<day, database, call, status, logs>>

\* The INSERT of the run; the IntegrityError of the loser is swallowed.
InsertRun(r) ==
  /\ pc[r] = "insert_run"
  /\ HasLoop(r)
  /\ ~RunPending(r)
  /\ tx' = [tx EXCEPT ![r].makes = IF tx[r].day \in have_run THEN @ ELSE @ \cup {"run"}]
  /\ Goto(r, "select_trial")
  /\ UNCHANGED <<day, database, call, status, logs>>

\* ensure_live_trial, which has the same shape.
SelectTrial(r) ==
  /\ pc[r] = "select_trial"
  /\ HasLoop(r)
  /\ Goto(r, IF TrialOf(r) \in have_trial THEN "record" ELSE "insert_trial")
  /\ UNCHANGED <<day, database, call, tx, status, logs>>

InsertTrial(r) ==
  /\ pc[r] = "insert_trial"
  /\ HasLoop(r)
  /\ ~TrialPending(r)
  /\ tx' = [tx EXCEPT ![r].makes = IF TrialOf(r) \in have_trial THEN @ ELSE @ \cup {"trial"}]
  /\ Goto(r, "record")
  /\ UNCHANGED <<day, database, call, status, logs>>

\* record_call: the row, then the UPDATEs of runs and trials, which see the
\* committed totals once the row of the run is theirs.
Record(r) ==
  /\ pc[r] = "record"
  /\ HasLoop(r)
  /\ ~RunLocked(r)
  /\ tx' = [tx EXCEPT ![r] =
       [@ EXCEPT !.run = Add(runs[tx[r].day], call[r]),
                 !.trial = Add(trials[TrialOf(r)], call[r])]]
  /\ Goto(r, "tip")
  /\ UNCHANGED <<day, database, call, status, logs>>

\* emit_event, as far as this caller can tell: the tip is read,
ReadTip(r) ==
  /\ pc[r] = "tip"
  /\ HasLoop(r)
  /\ tx' = [tx EXCEPT ![r].tip = Len(event_rows[tx[r].day])]
  /\ Goto(r, "event")
  /\ UNCHANGED <<day, database, call, status, logs>>

\* Mutant: the spend is read again as it was before this call.
OvershootCommitted(r) == Cap > 0 /\ call[r].cost > 0 /\ runs[tx[r].day].cost > Cap

\* The read after the write, in the same transaction.
Overshoot(r) == Cap > 0 /\ call[r].cost > 0 /\ tx[r].run.cost > Cap

\* The row and the event of a request, as they are committed.
RowOf(r) ==
  [req |-> r, day |-> tx[r].day, provider |-> call[r].provider,
   passed |-> call[r].passed, cost |-> call[r].cost]

EventOf(r) ==
  [req |-> r, kind |-> IF call[r].error = "none" THEN "provider.called" ELSE "provider.failed"]

\* Mutant: the event is committed on its own.
InsertEventAutocommit(r) ==
  /\ pc[r] = "event"
  /\ HasLoop(r)
  /\ event_rows' = [event_rows EXCEPT ![tx[r].day] = Append(@, EventOf(r))]
  /\ Goto(r, "commit")
  /\ UNCHANGED <<day, run_rows, runs, trials, have_run, have_trial, call, tx, status, logs>>

\* and the event inserted on it, or the tip read again if it has moved; the
\* overshoot of the cap is logged.  The loop's limit is in AuditChain; that
\* it runs out is one of the failures of Fail.
InsertEvent(r) ==
  /\ pc[r] = "event"
  /\ HasLoop(r)
  /\ ~EventPending(r)
  /\ IF tx[r].tip = Len(event_rows[tx[r].day])
       THEN /\ warned' = IF Overshoot(r) THEN warned \cup {r} ELSE warned
            /\ Goto(r, "commit")
            /\ UNCHANGED raced
       ELSE /\ raced' = raced \cup {r}
            /\ Goto(r, "tip")
            /\ UNCHANGED warned
  /\ UNCHANGED <<day, database, call, tx, status, reconcile>>

CodeOf(error) ==
  CASE error = "none" -> "200"
    [] error = "cost_capped" -> "402"
    [] error = "throttled" -> "429"
    [] error = "failed" -> "502"

Commit(r) ==
  /\ pc[r] = "commit"
  /\ HasLoop(r)
  /\ run_rows' = run_rows \cup {RowOf(r)}
  /\ runs' = [runs EXCEPT ![tx[r].day] = tx[r].run]
  /\ trials' = [trials EXCEPT ![TrialOf(r)] = tx[r].trial]
  /\ event_rows' = [event_rows EXCEPT ![tx[r].day] = Append(@, EventOf(r))]
  /\ have_run' = have_run \cup (IF "run" \in tx[r].makes THEN {tx[r].day} ELSE {})
  /\ have_trial' = have_trial \cup (IF "trial" \in tx[r].makes THEN {TrialOf(r)} ELSE {})
  /\ Answer(r, CodeOf(call[r].error))
  /\ UNCHANGED <<day, call, logs>>

\* Mutants: only a charge for an answer is logged; the transaction goes on
\* holding what it holds.
FailLogsAnswersOnly(r) ==
  /\ pc[r] \in Transaction
  /\ HasLoop(r)
  /\ reconcile' = IF call[r].error = "none" /\ call[r].cost > 0
                    THEN reconcile \cup {r} ELSE reconcile
  /\ Answer(r, "500")
  /\ UNCHANGED <<day, database, call, warned, raced>>

FailWithoutRollback(r) ==
  /\ pc[r] \in Transaction
  /\ HasLoop(r)
  /\ reconcile' = IF call[r].cost > 0 THEN reconcile \cup {r} ELSE reconcile
  /\ Goto(r, "answered")
  /\ status' = [status EXCEPT ![r] = "500"]
  /\ UNCHANGED <<day, database, call, tx, warned, raced>>

\* Any statement of phase 3 raises: the transaction is rolled back, and a
\* charge that will not be recorded is logged.
Fail(r) ==
  /\ pc[r] \in Transaction
  /\ HasLoop(r)
  /\ reconcile' = IF call[r].cost > 0 THEN reconcile \cup {r} ELSE reconcile
  /\ Answer(r, "500")
  /\ UNCHANGED <<day, database, call, warned, raced>>

\* A worker dies with all that it had in flight.
Crash(w) ==
  /\ \E r \in InFlight : WorkerOf[r] = w
  /\ LET dead == {r \in InFlight : WorkerOf[r] = w}
     IN  /\ pc' = [r \in Request |-> IF r \in dead THEN "answered" ELSE pc[r]]
         /\ status' = [r \in Request |-> IF r \in dead THEN "dropped" ELSE status[r]]
         /\ tx' = [r \in Request |-> IF r \in dead THEN NoTx ELSE tx[r]]
  /\ UNCHANGED <<day, database, call, logs>>

Midnight ==
  /\ day < MaxDay
  /\ day' = day + 1
  /\ UNCHANGED <<database, request, logs>>

AllAnswered ==
  /\ \A r \in Request : pc[r] = "answered"
  /\ UNCHANGED vars

\* What the worker does by itself once the provider's time is up or phase 3
\* has begun.
Proceed(r) ==
  \/ CallProvider(r)
  \/ SelectRun(r)
  \/ InsertRun(r)
  \/ SelectTrial(r)
  \/ InsertTrial(r)
  \/ Record(r)
  \/ ReadTip(r)
  \/ InsertEvent(r)
  \/ Commit(r)

Next ==
  \/ \E r \in Request :
       \/ Resolve(r)
       \/ Proceed(r)
       \/ Evaluate(r)
       \/ Fail(r)
  \/ \E w \in Worker : Crash(w)
  \/ Midnight
  \/ AllAnswered

Spec == Init /\ [][Next]_vars

\* The loop runs what is ready and wait_for ends every provider call; nothing
\* bounds an evaluator.
FairSpec == Spec /\ \A r \in Request : WF_vars(Proceed(r))
-----------------------------------------------------------------------------
Totals == [rows : Nat, pass : Nat, fail : Nat, cost : Nat]

\* Every variable stays in its type, and only an open transaction
\* holds anything.
TypeOK ==
  /\ day \in Day
  /\ run_rows \subseteq
       [req : Request, day : Day, provider : Provider, passed : BOOLEAN, cost : Charge]
  /\ runs \in [Day -> Totals]
  /\ trials \in [Day \X Provider -> Totals]
  /\ event_rows \in [Day -> Seq([req : Request, kind : {"provider.called", "provider.failed"}])]
  /\ have_run \subseteq Day
  /\ have_trial \subseteq Day \X Provider
  /\ pc \in [Request -> {"idle", "calling", "evaluating", "answered"} \cup Transaction]
  /\ call \in [Request ->
       [provider : Provider, error : Errors, cost : Charge, passed : BOOLEAN]]
  /\ tx \in [Request ->
       [day : Day, makes : SUBSET {"run", "trial"}, run : Totals, trial : Totals, tip : Nat]]
  /\ \A r \in Request : tx[r] # NoTx => pc[r] \in Transaction
  /\ status \in [Request ->
       {"none", "200", "402", "429", "502", "500", "refused", "dropped"}]
  /\ reconcile \subseteq Request
  /\ warned \subseteq Request
  /\ raced \subseteq Request

\* The totals a run and its trials carry are those of the rows under them:
\* "we never end up with a row whose aggregate counters disagree".
CostOf(rows) == SumOf(rows, [row \in rows |-> row.cost])

TotalsOf(rows) ==
  [rows |-> Cardinality(rows),
   pass |-> Cardinality({row \in rows : row.passed}),
   fail |-> Cardinality({row \in rows : ~row.passed}),
   cost |-> CostOf(rows)]

AggregatesAgree ==
  \A d \in Day :
    /\ runs[d] = TotalsOf({row \in run_rows : row.day = d})
    /\ \A p \in Provider :
         trials[<<d, p>>] = TotalsOf({row \in run_rows : row.day = d /\ row.provider = p})

\* The check of the cap is made before the call and the charge after it, so
\* the cap can be passed: but only by the calls that were open when it was
\* reached, on the day it was read or, over midnight, on the next.
SpendBound ==
  Cap > 0 => \A d \in Day : runs[d].cost < Cap + MaxInFlight * Max(Charge)

\* A charge is in the ledger or in the log an operator reconciles from, if
\* the worker lived to write either.
ChargedAccounted ==
  \A r \in Request :
    pc[r] = "answered" /\ call[r].cost > 0 /\ status[r] # "dropped" =>
      \/ r \in reconcile
      \/ \E row \in run_rows : row.req = r /\ row.cost = call[r].cost

\* Spend over the cap has been announced, by a call that is in the ledger.
OvershootWarned ==
  Cap > 0 => \A d \in Day :
    runs[d].cost > Cap => \E row \in run_rows : row.day = d /\ row.req \in warned

\* The row of the run that record_call holds keeps other calls off the chain:
\* no call of the proxy ever spends a retry of emit_event.
EmitNeverRaces == raced = {}

\* The answer tells the client what the ledger holds: every 200, 402, 429 of
\* the provider and 502 has its row and its event, on the same day; no other
\* answer has either.
AnswersMatchLedger ==
  \A r \in Request : status[r] \notin {"none", "dropped"} =>
    LET rows == {row \in run_rows : row.req = r}
    IN  IF status[r] \in {"200", "402", "429", "502"}
          THEN \E row \in rows :
                 /\ row.passed => status[r] = "200"
                 /\ \E i \in 1..Len(event_rows[row.day]) : event_rows[row.day][i] = EventOf(r)
          ELSE rows = {}

\* No request waits for ever on the workers' locks or loops: past the
\* evaluators it is answered, and before them the provider's time runs out.
\* There are finitely many, and sooner or later none is on its way.
CallAnswered == <>[](\A r \in Request : pc[r] \notin Transaction \cup {"calling"})

\* "One broken evaluator must not poison the whole call": evaluation ends in
\* phase 3, or with the worker.
BrokenEvaluatorIsAScore ==
  [][\A r \in Request :
       pc[r] = "evaluating" /\ pc'[r] = "answered" => status'[r] = "dropped"]_vars

\* The committed tables are a ledger.
Ledger == INSTANCE LiveLedger WITH Cost <- Charge

PostsToLedger == Ledger!Spec
=============================================================================
