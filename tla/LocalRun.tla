------------------------------ MODULE LocalRun ------------------------------
(***************************************************************************)
(* One `evalguard run': execute of local_executor.py with retry.py and     *)
(* cache.py under it, and the verdict of run_cmd.py on what it recorded.   *)
(*                                                                         *)
(* The providers of the config are tried one after the other.  The rows of *)
(* a trial are coroutines of one event loop: they are interleaved only     *)
(* where they await, which is at the semaphore, the provider call, the     *)
(* backoff and the evaluators.  The bodies under cost_lock do not await,   *)
(* so the lock is never contended.                                         *)
(***************************************************************************)
EXTENDS Gates, Sums

CONSTANTS
  NTrials,      \* providers of the config: a trial each
  NRows,        \* rows of the dataset
  RowId,        \* what rows may call themselves
  IdOf,         \* row_id: the "id" of the row, which others may have too
  NLayers,      \* evaluator layers in use
  Concurrency,
  Cap,          \* cost_cap_usd, 0 if there is none
  MaxRetries,   \* max_retries of the retry policy
  Key,          \* cache keys
  KeyOf,        \* the key of a row under a trial: rows may repeat or override
  CallCost,     \* what a call that answers may cost
  FailCost,     \* what a call that raises may have been charged
  Outcome,      \* of a layer: all its scores pass, one fails, it has none
  Blocking,     \* layers with a block-severity gate
  RunMode,      \* run_mode
  FailFast,     \* the values of --fail-fast
  Strategy,     \* the values of gate_strategy
  GateConfig,   \* the sets of gates a config may have
  Baseline      \* what --baseline may load: [there, rows]

Trial == 1..NTrials
Row == 1..NRows
Layer == 1..NLayers

ASSUME RunAssumption ==
  /\ NTrials \in Nat \ {0}
  /\ NRows \in Nat \ {0}
  /\ IdOf \in [Row -> RowId]
  /\ NLayers \in Nat \ {0}
  /\ Concurrency \in Nat \ {0}
  /\ Cap \in Nat
  /\ MaxRetries \in Nat
  /\ KeyOf \in [Trial \X Row -> Key]
  /\ CallCost \subseteq Nat
  /\ FailCost \subseteq Nat
  /\ Outcome \subseteq {"pass", "fail", "none"}
  /\ Blocking \subseteq Layer
  /\ RunMode \in {"always", "short_circuit", "short_circuit_blocking_only"}
  /\ FailFast \subseteq BOOLEAN
  /\ Strategy \subseteq {"all", "any"}
  /\ Tagged \subseteq Row
  /\ \A gates \in GateConfig :
       /\ {gate.layer : gate \in {g \in gates : g.severity = "block"}} = Blocking
       /\ \A gate \in gates :
            /\ gate.evaluator \in BOOLEAN
            /\ {gate.min, gate.max} \subseteq {<<>>} \cup (Int \X (Nat \ {0}))

VARIABLES
  fail_fast,  \* --fail-fast
  phase,      \* where execute and run are
  trial,      \* the provider whose turn it is
  row,        \* the coroutines of its rows
  aborted,    \* the trial's abort event
  capped,     \* cost_capped, the run's event
  total,      \* total_cost
  cached,     \* keys on disk
  stored,     \* run_rows, each with its scores
  events,     \* the row events of the audit log
  announced,  \* the number of run.cost_capped events
  summary,    \* the records of the trials that were executed
  judged,     \* strategy, gates and baseline, which only the verdict reads
  exit,       \* how the process ended
  billed      \* ghost: everything providers have charged

vars == <<fail_fast, phase, trial, row, aborted, capped, total, cached, stored,
          events, announced, summary, judged, exit, billed>>

\* A coroutine: where it is, the attempt it makes, what its failed attempts
\* were charged, its layer, the layers scored and failed, and what it returns.
Fresh == [at |-> "waiting", attempt |-> 0, spent |-> 0, layer |-> 1,
          scored |-> {}, failed |-> {}, cost |-> 0, passed |-> FALSE, attempted |-> FALSE]

Holders == {r \in Row : row[r].at \in {"calling", "backoff", "evaluating"}}

\* The semaphore is fair, so rows begin in the order of the dataset.
MayBegin(r) ==
  /\ row[r].at = "waiting"
  /\ \A q \in Row : row[q].at = "waiting" => q >= r
  /\ Cardinality(Holders) < Concurrency

\* Mutant: the cap has to be passed.
AtCapStrict(cost) == Cap > 0 /\ cost > Cap

AtCap(cost) == Cap > 0 /\ cost >= Cap

\* _should_short_circuit.
ShortCircuits(layer) ==
  \/ RunMode = "short_circuit"
  \/ RunMode = "short_circuit_blocking_only" /\ layer \in Blocking

Event(r, kind) == [trial |-> trial, row |-> r, kind |-> kind]

NotJudged == [strategy |-> "none", gates |-> {}, baseline |-> [there |-> FALSE, rows |-> {}]]

\* What insert_row and insert_scores write of a row, under its id; `called' is
\* FALSE if the provider failed.  `row' says which row it is, as the key of
\* run_rows does and its row_id does not.  `dropped' is a ghost: what attempts
\* that failed before the one that answered were charged.
StoredRow(r, called, scored, failed) ==
  [trial |-> trial, row |-> r, id |-> IdOf[r],
   called |-> called, scored |-> scored, failed |-> failed,
   cost |-> IF called THEN row[r].cost ELSE 0,
   dropped |-> IF called THEN row[r].spent ELSE 0]

-----------------------------------------------------------------------------
Init ==
  /\ fail_fast \in FailFast
  /\ phase = "trials"
  /\ trial = 1
  /\ row = [r \in Row |-> Fresh]
  /\ aborted = FALSE
  /\ capped = FALSE
  /\ total = 0
  /\ cached \in {{}, {KeyOf[<<1, 1>>]}}
  /\ stored = {}
  /\ events = {}
  /\ announced = 0
  /\ summary = <<>>
  /\ judged = NotJudged
  /\ exit = "none"
  /\ billed = 0

\* A provider's turn.  None is tried once the cost cap is reached.
BeginTrial ==
  /\ phase = "trials"
  /\ trial <= NTrials
  /\ IF capped
       THEN trial' = trial + 1 /\ UNCHANGED <<phase, row, aborted>>
       ELSE /\ phase' = "rows"
            /\ row' = [r \in Row |-> Fresh]
            /\ aborted' = FALSE
            /\ UNCHANGED trial
  /\ UNCHANGED <<fail_fast, capped, total, cached, stored, events, announced, summary, judged, exit, billed>>

Executing == phase \in {"rows", "unwinding"}

\* ContentCache: the answer to this row's key is on disk.
CacheHit(r) == KeyOf[<<trial, r>>] \in cached

\* A row gets the semaphore: it is dropped if the trial is aborted or the cap
\* is reached, and else answered from the cache or passed to the provider.
Begin(r) ==
  /\ Executing
  /\ MayBegin(r)
  /\ IF aborted \/ AtCap(total)
       THEN /\ row' = [row EXCEPT ![r].at = "done"]
            /\ aborted' = TRUE
            /\ capped' = (capped \/ ~aborted)
            /\ UNCHANGED events
       ELSE /\ IF CacheHit(r)
                 THEN /\ row' = [row EXCEPT ![r].at = "evaluating"]
                      /\ events' = events \cup {Event(r, "provider.called")}
                 ELSE /\ row' = [row EXCEPT ![r].at = "calling"]
                      /\ UNCHANGED events
            /\ UNCHANGED <<aborted, capped>>
  /\ UNCHANGED <<fail_fast, phase, trial, total, cached, stored, announced, summary, judged, exit, billed>>

\* The provider answers: the answer is cached, its cost is added, and the row
\* whose cost reaches the cap says so.
Answer(r) ==
  /\ Executing
  /\ row[r].at = "calling"
  /\ \E cost \in CallCost :
       /\ row' = [row EXCEPT ![r].at = "evaluating", ![r].cost = cost]
       /\ total' = total + cost
       /\ billed' = billed + cost
  /\ cached' = cached \cup {KeyOf[<<trial, r>>]}
  /\ aborted' = (aborted \/ AtCap(total'))
  /\ capped' = (capped \/ AtCap(total'))
  /\ announced' = IF AtCap(total') /\ ~capped THEN announced + 1 ELSE announced
  /\ events' = events \cup {Event(r, "provider.called")}
  /\ UNCHANGED <<fail_fast, phase, trial, stored, summary, judged, exit>>

\* Mutant: what a failed call was charged is lost.
CreditNothing(spent) == UNCHANGED <<total, capped>>

\* What ProviderFailed was charged is added to the run's cost.
Credit(spent) ==
  /\ total' = total + spent
  /\ capped' = (capped \/ (spent > 0 /\ AtCap(total')))

\* The RetryPolicy allows another attempt.
AttemptsLeft(r) == row[r].attempt < MaxRetries

\* Mutant: one attempt too many.
RetryOnceMore(r) ==
  /\ Executing
  /\ row[r].at = "calling"
  /\ row[r].attempt <= MaxRetries
  /\ \E cost \in FailCost :
       /\ row' = [row EXCEPT ![r].at = "backoff", ![r].spent = @ + cost]
       /\ billed' = billed + cost
  /\ events' = events \cup {Event(r, "provider.retry")}
  /\ UNCHANGED <<fail_fast, phase, trial, aborted, capped, total, cached, stored, announced,
                 summary, judged, exit>>

\* The provider raises, and there is another attempt.
Retry(r) ==
  /\ Executing
  /\ row[r].at = "calling"
  /\ AttemptsLeft(r)
  /\ \E cost \in FailCost :
       /\ row' = [row EXCEPT ![r].at = "backoff", ![r].spent = @ + cost]
       /\ billed' = billed + cost
  /\ events' = events \cup {Event(r, "provider.retry")}
  /\ UNCHANGED <<fail_fast, phase, trial, aborted, capped, total, cached, stored, announced,
                 summary, judged, exit>>

\* It raises what is not retried, or for the last time: the row is recorded
\* as failed, at no cost.
GiveUp(r) ==
  /\ Executing
  /\ row[r].at = "calling"
  /\ \E cost \in FailCost :
       LET spent == row[r].spent + cost
       IN  /\ Credit(spent)
           /\ aborted' = (aborted \/ fail_fast \/ (spent > 0 /\ AtCap(total')))
           /\ billed' = billed + cost
           /\ row' = [row EXCEPT ![r].at = "done", ![r].spent = spent, ![r].attempted = TRUE]
  /\ events' = events \cup {Event(r, "provider.failed")}
  /\ stored' = stored \cup {StoredRow(r, FALSE, {}, {})}
  /\ UNCHANGED <<fail_fast, phase, trial, cached, announced, summary, judged, exit>>

\* Mutants: the backoff does not look at the abort; it does not end once the
\* trial is aborted; a cancelled row is recorded.
WakeUnchecked(r) ==
  /\ Executing
  /\ row[r].at = "backoff"
  /\ row' = [row EXCEPT ![r].at = "calling", ![r].attempt = @ + 1]
  /\ UNCHANGED <<fail_fast, phase, trial, aborted, capped, total, cached, stored, events, announced,
                 summary, judged, exit, billed>>

WakeUnaborted(r) ==
  /\ Executing
  /\ row[r].at = "backoff"
  /\ ~aborted
  /\ row' = [row EXCEPT ![r].at = "calling", ![r].attempt = @ + 1]
  /\ UNCHANGED <<fail_fast, phase, trial, aborted, capped, total, cached, stored, events, announced,
                 summary, judged, exit, billed>>

WakeRecorded(r) ==
  /\ Executing
  /\ row[r].at = "backoff"
  /\ IF aborted
       THEN /\ Credit(row[r].spent)
            /\ row' = [row EXCEPT ![r].at = "done", ![r].cost = row[r].spent]
            /\ stored' = stored \cup {StoredRow(r, FALSE, {}, {})}
       ELSE /\ row' = [row EXCEPT ![r].at = "calling", ![r].attempt = @ + 1]
            /\ UNCHANGED <<total, capped, stored>>
  /\ UNCHANGED <<fail_fast, phase, trial, aborted, cached, events, announced, summary,
                 judged, exit, billed>>

\* The backoff ends: with the next attempt, or, if the trial has been aborted
\* meanwhile, with nothing recorded but the cost.
Wake(r) ==
  /\ Executing
  /\ row[r].at = "backoff"
  /\ IF aborted
       THEN /\ Credit(row[r].spent)
            /\ row' = [row EXCEPT ![r].at = "done", ![r].cost = row[r].spent]
       ELSE /\ row' = [row EXCEPT ![r].at = "calling", ![r].attempt = @ + 1]
            /\ UNCHANGED <<total, capped>>
  /\ UNCHANGED <<fail_fast, phase, trial, aborted, cached, stored, events, announced, summary,
                 judged, exit, billed>>

\* The evaluators of a layer; the row is recorded after the last one, or
\* after one that fails and short-circuits the rest.
Evaluate(r) ==
  /\ Executing
  /\ row[r].at = "evaluating"
  /\ \E outcome \in Outcome :
       LET layer  == row[r].layer
           scored == IF outcome = "none" THEN row[r].scored ELSE row[r].scored \cup {layer}
           failed == IF outcome = "fail" THEN row[r].failed \cup {layer} ELSE row[r].failed
           short  == outcome = "fail" /\ ShortCircuits(layer)
       IN  /\ row' = [row EXCEPT ![r].scored = scored, ![r].failed = failed,
                ![r].layer = IF short \/ layer = NLayers THEN layer ELSE layer + 1,
                ![r].at = IF short \/ layer = NLayers THEN "done" ELSE "evaluating",
                ![r].passed = failed = {} /\ layer = NLayers,
                ![r].attempted = short \/ layer = NLayers]
           /\ IF short \/ layer = NLayers
                THEN /\ stored' = stored \cup {StoredRow(r, TRUE, scored, failed)}
                     /\ aborted' = (aborted \/ (fail_fast /\ failed # {}))
                ELSE UNCHANGED <<stored, aborted>>
           /\ events' = IF short THEN events \cup {Event(r, "row.short_circuited")} ELSE events
  /\ UNCHANGED <<fail_fast, phase, trial, capped, total, cached, announced, summary, judged, exit, billed>>

\* A row raises: a template names a field it does not have, an evaluator is
\* broken, the disk is full.  gather raises in turn; until the loop is closed
\* the other rows may go on.
Raise(r) ==
  /\ phase = "rows"
  /\ r \in Holders \/ MayBegin(r)
  /\ phase' = "unwinding"
  /\ row' = [row EXCEPT ![r].at = "done"]
  /\ UNCHANGED <<fail_fast, trial, aborted, capped, total, cached, stored, events, announced,
                 summary, judged, exit, billed>>

Unwind ==
  /\ phase = "unwinding"
  /\ phase' = "ended"
  /\ exit' = "infra_error"
  /\ UNCHANGED <<fail_fast, trial, row, aborted, capped, total, cached, stored, events, announced,
                 summary, judged, billed>>

TrialStatus(pass, fail) ==
  IF capped /\ pass + fail < NRows THEN "cost_capped"
  ELSE IF fail = 0 /\ pass = NRows THEN "passed"
  ELSE "failed"

\* gather returns: the trial is recorded and the next provider's turn comes.
EndTrial ==
  /\ phase = "rows"
  /\ \A r \in Row : row[r].at = "done"
  /\ LET pass == Cardinality({r \in Row : row[r].attempted /\ row[r].passed})
         fail == Cardinality({r \in Row : row[r].attempted /\ ~row[r].passed})
         cost == SumOf(Row, [r \in Row |-> row[r].cost])
     IN  summary' = [t \in DOMAIN summary \cup {trial} |->
           IF t = trial
             THEN [status |-> TrialStatus(pass, fail), pass |-> pass, fail |-> fail, cost |-> cost]
             ELSE summary[t]]
  /\ trial' = trial + 1
  /\ phase' = "trials"
  /\ UNCHANGED <<fail_fast, row, aborted, capped, total, cached, stored, events, announced, judged, exit, billed>>

\* row_status of the run.
RunStatus ==
  IF capped THEN "cost_capped"
  ELSE IF \A t \in DOMAIN summary : summary[t].status = "passed" THEN "passed"
  ELSE "failed"

\* Trials with a blocking gate that fails.  `worse' are those that Welch's test
\* finds worse than the baseline.
Blocked(gates, baseline, worse) ==
  {t \in DOMAIN summary :
    BlockingGateFails(gates, {s \in stored : s.trial = t}, baseline, t \in worse)}

BlockingFailed(strategy, blocked) ==
  IF strategy = "any" THEN summary # <<>> /\ blocked = DOMAIN summary ELSE blocked # {}

\* _exit_code_for the overall status.
ExitCode(strategy, blocked) ==
  IF \/ BlockingFailed(strategy, blocked)
     \/ RunStatus = "cost_capped"
     \/ RunStatus = "failed" /\ strategy = "all"
    THEN "gate_fail" ELSE "pass"

\* The gates of the config are evaluated on what each trial has recorded.  A
\* baseline that cannot be read ends the process before them.
Judge ==
  /\ phase = "trials"
  /\ trial > NTrials
  /\ phase' = "ended"
  /\ \/ \E strategy \in Strategy, gates \in GateConfig, baseline \in Baseline :
          \E worse \in SUBSET DOMAIN summary :
            /\ judged' = [strategy |-> strategy, gates |-> gates, baseline |-> baseline]
            /\ exit' = ExitCode(strategy, Blocked(gates, baseline, worse))
     \/ exit' = "infra_error" /\ UNCHANGED judged
  /\ UNCHANGED <<fail_fast, trial, row, aborted, capped, total, cached, stored, events, announced,
                 summary, billed>>

Ended == phase = "ended" /\ UNCHANGED vars

CallStep(r) ==
  \/ Begin(r)
  \/ Answer(r)
  \/ Retry(r)
  \/ GiveUp(r)
  \/ Wake(r)

Next ==
  \/ BeginTrial
  \/ \E r \in Row : CallStep(r) \/ Evaluate(r) \/ Raise(r)
  \/ Unwind
  \/ EndTrial
  \/ Judge
  \/ Ended

Spec == Init /\ [][Next]_vars

\* The loop runs what is ready and the providers' clients have timeouts.
\* Evaluators have none.
FairSpec ==
  /\ Spec
  /\ WF_vars(BeginTrial \/ EndTrial \/ Unwind \/ Judge)
  /\ \A r \in Row : WF_vars(CallStep(r))
-----------------------------------------------------------------------------
\* Every variable stays in its type; no more rows than Concurrency hold the
\* semaphore, and no row makes more attempts than its policy allows.
TypeOK ==
  /\ fail_fast \in FailFast
  /\ phase \in {"trials", "rows", "unwinding", "ended"}
  /\ trial \in 1..NTrials + 1
  /\ row \in [Row ->
       [at : {"waiting", "calling", "backoff", "evaluating", "done"},
        attempt : 0..MaxRetries, spent : Nat, layer : Layer,
        scored : SUBSET Layer, failed : SUBSET Layer, cost : Nat,
        passed : BOOLEAN, attempted : BOOLEAN]]
  /\ Cardinality(Holders) <= Concurrency
  /\ aborted \in BOOLEAN
  /\ capped \in BOOLEAN
  /\ total \in Nat
  /\ cached \subseteq Key
  /\ stored \subseteq
       [trial : Trial, row : Row, id : RowId, called : BOOLEAN, scored : SUBSET Layer,
        failed : SUBSET Layer, cost : Nat, dropped : Nat]
  /\ events \subseteq
       [trial : Trial, row : Row,
        kind : {"provider.called", "provider.retry", "provider.failed", "row.short_circuited"}]
  /\ announced \in Nat
  /\ DOMAIN summary \subseteq Trial
  /\ \A t \in DOMAIN summary :
       summary[t] \in [status : {"passed", "failed", "cost_capped"},
                       pass : 0..NRows, fail : 0..NRows, cost : Nat]
  /\ judged.strategy \in Strategy \cup {"none"}
  /\ judged.gates \in GateConfig \cup {{}}
  /\ exit \in {"none", "pass", "gate_fail", "infra_error"}
  /\ billed \in Nat

\* What one row can add to the run's cost: its answer, or all its failures.
RowCost == Max({Max(CallCost), (MaxRetries + 1) * Max(FailCost)})

\* The cap is checked before a row and charged after it, so it can be passed,
\* but only by the rows that hold the semaphore when it is reached: however
\* calls, retries and failures interleave, and over all the trials.
CapBound == Cap > 0 => total < Cap + Concurrency * RowCost

\* Once the cap is reached no row of any trial begins, and none comes out of
\* its backoff with another attempt.
CapIsFinal ==
  [][capped => \A r \in Row :
       row[r].at \in {"waiting", "backoff"} => row'[r].at \notin {"calling", "evaluating"}]_vars

\* What answers have cost, recorded or not yet.
AnswersCost ==
  SumOf(stored, [s \in stored |-> s.cost])
    + SumOf(Row, [r \in Row |-> IF row[r].at = "evaluating" THEN row[r].cost ELSE 0])

\* The audit log says at most once that the cap was reached, and says it
\* unless calls that failed had a part in it.
CapAnnounced ==
  /\ announced <= 1
  /\ capped /\ announced = 0 /\ exit # "infra_error" /\ phase # "unwinding" => total > AnswersCost

\* Every charge reaches the run's cost, except that of an attempt that failed
\* before one that answered.
ChargesReachTotal ==
  phase = "trials" => billed = total + SumOf(stored, [s \in stored |-> s.dropped])

\* The two counts of passing rows, the executor's in the trial and the store's
\* under pass_rate, differ by these rows and no others: the store misses a row
\* whose id no evaluator scored, and one that failed nothing but has a namesake
\* that did; the executor misses a row whose provider failed and that has the
\* scores of a namesake, all passing.
PassRateAgrees ==
  \A t \in DOMAIN summary :
    LET rows == {s \in stored : s.trial = t}
        answered == {s \in rows : s.called /\ s.failed = {}}
        scored == {s.id : s \in {q \in rows : q.scored # {}}}
        failed == {s.id : s \in {q \in rows : q.failed # {}}}
        silent == {s \in answered : s.id \notin scored}
        blamed == {s \in answered : s.id \in failed}
        borrowing == {s \in rows : ~s.called /\ s.id \in scored \ failed}
    IN  summary[t].pass + Cardinality(borrowing) =
          Cardinality({s \in rows : RowPasses(s, rows)}) + Cardinality(silent) + Cardinality(blamed)

\* After a trial the audit log and the rows tell one story: a row is recorded
\* if and only if a call of it answered or finally failed, never both, and
\* counted by the trial; one that was short-circuited failed.  It also tells
\* when the cost cap was reached.
TrailTellsRows ==
  /\ CapAnnounced
  /\ \A t \in DOMAIN summary :
      /\ summary[t].pass + summary[t].fail = Cardinality({s \in stored : s.trial = t})
      /\ \A r \in Row :
           LET kinds == {e.kind : e \in {e \in events : e.trial = t /\ e.row = r}}
               rows  == {s \in stored : s.trial = t /\ s.row = r}
           IN  /\ Cardinality(rows) = Cardinality(kinds \cap {"provider.called", "provider.failed"})
               /\ \A s \in rows : s.called <=> "provider.called" \in kinds
               /\ "row.short_circuited" \in kinds => \E s \in rows : s.failed # {}

\* What the gates ask of a trial, said of its scores: a minimum needs scores,
\* enough of which passed; a maximum of failures is kept; the whole is no worse
\* than the baseline by more than it allows.
GatesHold(t) ==
  LET rows == {s \in stored : s.trial = t}
      scores(gate) == Cardinality({s \in rows : gate.layer \in s.scored})
      failures(gate) == Cardinality({s \in rows : gate.layer \in s.failed})
  IN  \A gate \in {g \in judged.gates : g.severity = "block"} :
        /\ gate.aggregation = "pass_rate" /\ gate.min # <<>> /\ gate.min[1] > 0 =>
             /\ scores(gate) > 0
             /\ failures(gate) * gate.min[2] <= scores(gate) * (gate.min[2] - gate.min[1])
        /\ gate.aggregation = "count_failures" /\ gate.max # <<>> =>
             /\ failures(gate) * gate.max[2] <= gate.max[1]
             /\ gate.evaluator => scores(gate) > 0

\* "CI cannot pass a run whose own summary says model outputs failed": under
\* gate_strategy all, exit code 0 means that every row of every provider was
\* tried, answered and failed no evaluator, and that every blocking gate holds;
\* under any, that all of them hold for one provider.
FailsClosed ==
  /\ exit = "pass" /\ judged.strategy = "all" =>
       /\ \A t \in Trial, r \in Row :
            \E s \in stored : s.trial = t /\ s.row = r /\ s.called /\ s.failed = {}
       /\ \A t \in Trial : GatesHold(t)
  /\ exit = "pass" /\ judged.strategy = "any" => \E t \in Trial : GatesHold(t)

\* "any -> at least one trial must pass".
BestOfN ==
  exit = "pass" => \E t \in DOMAIN summary : summary[t].status = "passed"

\* A run comes to an end if its evaluators return: retries are bounded, an
\* aborted trial is not waited for, and the providers that the cap leaves out
\* are passed over.
RunEnds ==
  (\A r \in Row : []<>(row[r].at # "evaluating")) => <>(phase = "ended")
=============================================================================
