# EvalGuard in TLA+

TLA+ models of EvalGuard, their model checks with TLC and proofs with TLAPS.
Paths are relative to `src/`; `api/` stands for
`apps/api/evalguard_api/`, `cli/` for `packages/cli/evalguard_cli/`,
`evaluators/` for `packages/evaluators/evalguard_evaluators/`.
`PROJECT.json` maps every definition to its lines.

## The system

EvalGuard evaluates LLM applications. It has a **local side**, a CLI that runs a
dataset through providers and evaluators and decides an exit code for CI, and a
**control plane**, a FastAPI server on PostgreSQL or SQLite that takes the runs
the CLI pushes, proxies live calls (`invoke`), and serves a dashboard. Both keep
a hash-chained audit trail.

| component | where | state | operations |
|---|---|---|---|
| Audit trail | `api/audit_persistence.py`, `api/schema.py`, `evaluators/audit.py`, `api/routes/audit.py` | table `event_rows`: per run a chain of hashes, with two unique indexes | `emit_event` (tip, build, insert under a savepoint, retry); `audit/verify` (count, list, walk) |
| Invoke proxy and live runs | `api/routes/invoke.py`, `api/live.py` | `runs`, `trials`, `run_rows` of the daily `live_...` runs; the log | resolve, call the provider, evaluate, record, answer |
| Rate limiter | `api/quotas.py` | per process, a deque of stamps per API key | `rate_limit_check`, sweep of idle keys |
| Local executor | `cli/local/*.py`, `cli/commands/run_cmd.py` | local SQLite, cache directory, the run's cost, abort and cap events | `execute`, `process_row`, `call_with_retry`, gates, the verdict |
| Run ingest, push client, OTLP | `api/routes/runs.py`, `cli/commands/push_cmd.py`, `api/routes/otlp.py`, `api/otlp.py`, `api/sampling.py` | `projects`, `runs` and all tables under them | one transaction per request; client retries; collector redelivery |
| Project configs | `api/routes/configs.py` | `project_configs`, content-addressed; the newest is served | push, get, history |
| Reviews, golden candidates | `api/routes/reviews.py`, `golden.py`, `cli/commands/golden_cmd.py` | `human_reviews`, `golden_candidates`, the exported file | submit, promote, un-promote, export |
| Calls list and other reads | `api/routes/calls.py`, `runs.py`, `live.py`, `assets.py` | none | seek pagination over a growing table, aggregates, drift |
| Tenancy and keys | `api/auth.py`, `db.py`, `deps.py`, `main.py` | `orgs`, `projects`, `api_keys` | bootstrap, create, authenticate, revoke |
| The rest | | | evaluators and providers, YAML, statistics, migrations, dashboard, GitHub Action |

How they interact: `invoke` asks the rate limiter, reads the newest config, and
in one transaction writes the live tables and calls `emit_event`; `audit/verify`
reads what other transactions commit meanwhile. The executor writes the local
store, and `push` sends what it wrote to the ingest route. `invoke` is the only
caller of `emit_event`. Golden candidates and reviews hang on rows of any run,
pages and aggregates read the rows that ingest and invoke write, and every
request of the control plane starts with its key.

### What is hard, and what makes each part correct

- *Audit trail.* Concurrent transactions append to one list, each on the tip it
  read. The chain must not fork; the order in which ids are drawn, which is
  the order of the list, must be the order of the chain although refused
  inserts lose their ids; retries must be bounded and spent only on winners; a
  verifier that uses two statements, each with its own snapshot, must neither
  bless a prefix or a damaged row nor cry wolf.
- *Invoke.* Money is spent between two transactions. The cap is checked before
  and charged after; midnight, a crash, a failing statement or another worker
  may come between. The totals must equal the rows; a charge must be in the
  ledger or in the reconciliation log; the answer must agree with what was
  committed; nobody may wait for ever on row locks held across statements.
- *Rate limiter.* A closed window, a bounded deque, limits that differ by
  project for one key, rounding to whole seconds, and a sweep triggered by
  other keys.
- *Executor.* Rows are interleaved at every await, under a semaphore, with
  a shared abort, a shared cap, retries with backoff, and a cache shared
  by trials. The cap must stop everything that has not begun, charges
  must add up, the log and the rows must agree, and exit code 0 must mean what
  CI takes it to mean.
- *Ingest.* Success is sent before the commit. A retry overtakes the original,
  first pushes race on the project's unique key, collectors redeliver and split
  batches, and one handler runs its statements on the event loop. What a client
  was told must agree with the store, and a trace must be stored once.
- *Control plane.* A key is revoked while requests are in flight; servers boot
  side by side; reviewers and promoters race without savepoints; a cursor walks
  a table that grows; an export is many requests. Revocation must bind, only one
  racer may be told that it created something, a reader must see what was committed before it asked,
  and only of its own org.

`PROJECT.json` lists these as hazards, each at its line with the properties that
would catch it, or with a note why none forbids it.

## The modules

| module | extends | models |
|---|---|---|
| `EventChain` | | abstract: a run's trail is a list that grows at its tip |
| `AuditChain` | | `emit_event` as concurrent transactions, statement by statement; implements `EventChain` |
| `AuditVerify` | `AuditChain` | `audit/verify` against those writers, and damage to stored rows |
| `LiveLedger` | | abstract: a call is posted at once with its row, event and totals, or not at all |
| `LiveGateway` | | `invoke` and `live.py` on several workers; implements `LiveLedger` |
| `RateLimiter` | | `quotas.py` and the limit `invoke.py` derives |
| `Gates` | | metrics, gates and baseline of the CLI, as operators on a trial's rows |
| `LocalRun` | `Gates` | `execute`, `process_row`, `call_with_retry`, the cache and the verdict of `evalguard run` |
| `RunStore` | | abstract: a store that only grows, by whole runs with new ids |
| `RunIngest` | | push clients, collectors, `POST /v1/runs` and the OTLP route; implements `RunStore` |
| `Tenancy` | | transactions and authentication of the control plane; orgs, projects, keys, server start |
| `ConfigRegistry` | `Tenancy` | push and read of project configs |
| `CallsPages` | `Tenancy` | the seek cursor of the calls list, and inserts under it |
| `Curation` | `CallsPages` | reviews, golden candidates, `golden export` |
| `Listings` | `ConfigRegistry`, `Curation` | the other GET routes |
| `ControlPlane` | `Listings` | composes these, with the properties of the whole |
| `Sums` | | sums over sets as cardinalities, for the ledgers |
| `AuditTrailProofs`, `LiveGatewayProofs`, `RateLimiterProofs`, `RunIngestProofs`, `LocalRunProofs`, `ControlPlaneProofs`, `ReadsProofs`, `SumsProofs` | | theorems and their lemmas |
| `MCAuditTrail`, `MCLiveGateway`, `MCLocalRun`, `MCRunIngest`, `MCControlPlane` | | constants for TLC |

Definitions whose names begin with that of an action or operator and whose
comment says *Mutant* are not part of a model: they are plausible bugs, and each
property of a passing run is violated when one of them takes the place of the
definition it varies (`mutants` in `PROJECT.json`).

### AuditChain and AuditVerify

A writer is one transaction: `Call` is the ownership check of `emit_event`,
`ReadTip` is `chain_tip_for_run`, `StartInsert` draws the id, `InsertAccepted`
and `InsertRefused` are the outcome of the two unique indexes (a key held by an
open transaction makes the insert wait), `Commit` and `Rollback` are the
caller's. The hash of an event is the attempt that built it: sha256 over a
record that holds a fresh event id is taken as injective. The writers hold no
lock here: what `emit_event` promises does not rest on its caller.
`AuditVerify` adds one verify request, two reads of committed rows with whatever
commits between them, and `Damage`, which makes a row's JSON unreadable or
changes it (tampering with stored JSON is what verification is for).

### LiveGateway

The handler is a coroutine and touches the database synchronously. So phase 1
is one step (`Resolve`), the provider call and the evaluators are one step each,
and phase 3 is a sequence of statements that only *other workers* can interleave:
`HasLoop` says that no other request of the same worker is between its last await
and the end of its transaction. `Record` is the row's INSERT with the two
UPDATEs; from there to the commit the transaction holds the runs row (`RunLocked`),
the keys it has inserted (`RunPending`, `TrialPending`, `EventPending`) and staged totals
(`tx`). `Commit` publishes all at once. `Fail` is any statement raising,
`Crash` a dying worker, `Midnight` the date changing in between. A call that
fails after it was charged is real: `cost_usd` is assigned before
`int(result.latency_ms)` (`invoke.py:361`) can raise.
Assumed: READ COMMITTED; on SQLite writers are serialised, a special case.
The cap is constant in a behaviour. A commit whose acknowledgement is lost and the
limits of the connection pool are left out.

### RateLimiter

`Check` is one call of `rate_limit_check` (atomic: it runs on the loop under one
lock and does not await), `Tick` the clock. `granted` and `promise` are ghosts: what
was really granted, and what the last refusal told the client. Each process has a
limiter of its own: a limit is per worker, and a restart forgets.

### Gates and LocalRun

The rows of a trial are coroutines of one loop: `Begin` is what a row does once
it has the semaphore, up to its first await; `Answer`, `Retry` and `GiveUp` follow the provider
call; `Wake` follows the backoff; `Evaluate` follows the evaluators of a layer
and, after the last, records the row. `cost_lock` is never contended, because its
bodies do not await. `EndTrial` is what follows `gather`, `Judge` what `run` does with
the result, `Raise` and `Unwind` an exception that leaves a row. `Gates` computes the metrics that a
gate reads from the trial's rows (rationals as pairs), its thresholds, tags, baseline and custom check;
what Welch's test says is left open. A row has two identities, as in the store: which row of the dataset it is
(`row`), and the `id` it calls itself by (`IdOf`), which nothing makes unique. Scores name the id, so whatever
joins them to rows sees those of all `Namesakes`. The cache is keyed by what is sent, so a row that overrides
its provider shares its key across trials (`MCKeyOf`). `dropped` and `billed` are ghosts.

### RunIngest

A client is at one attempt at a time, and each attempt is a request of its own, which goes
on in the server after its client has given it up: `GatewayError` and `ConnectionLost` only move
the client. `Start` to `PersistRows` are the statements of the two handlers, `Reply` sends
the answer and `Commit` follows it: the locked FastAPI leaves a dependency with `yield` after the response.
`ingest_run` runs on a thread, so its statements interleave with everything;
`ingest_traces` is a coroutine that never awaits between its statements and so holds the loop
(`OnLoop`), which the answer and the commit of every request of that worker need (`LoopFree`).
An insert waits for the open transaction that holds its key (`WaitsFor`). A batch is a sequence of blocks of
spans; `Payload` parses, samples and groups them, and draws deterministic ids.

### Tenancy, ConfigRegistry, CallsPages, Curation, Listings, ControlPlane

One database of rows by key (`db`), one private set of writes per transaction (`tx`), one request
per client: `Send`, `Authenticate` (a transaction of its own), optionally `TouchLastUsed`, the
handler's statements, `Reply`, `Commit`. Each route is the statements between `Begin` and `Return`
or `Refuse`; `Fault` is any of them failing, `Die` the worker. Clients that make several requests (`golden export`, a
walk over pages, the retries of a config push) go back to `sent` or `idle` with the rest in `mem`.
`barred`, `lost_acks` and `mem.before` are ghosts: who was revoked before it sent, who was told of success
that was never committed, and what was committed when a reader asked. Timestamps are `clock`.

## Runs

| run | instance | shows |
|---|---|---|
| `audit_trail` | 3 writers, 2 runs (one of nobody), 2 projects, 2 attempts, page of 2, 1 damaged row; 141 099 states | no fork, id order, bounded and deserved retries, the refinement of `EventChain`, verify's two promises, every emit ends |
| `rate_limiter` | 2 keys, limits unset, 1, 3 (unset means 2), deque of 3, window of 2 s in half seconds, horizon 9; 1.3 M | cap over every window, honest Retry-After, nothing forgotten |
| `limit_above_deque` | limit 3, deque 2 | **violation**: the limit is never reached |
| `live_gateway` | 3 calls, 2 workers (two calls share one), 2 providers, no cap, all open; 362 240 | totals equal rows, no emit race, refinement of `LiveLedger`, no call waits for ever on locks or loops |
| `live_spend` | as above, 1 provider, costs 0 and 2, cap 2, 2 days, 2 open; 476 905 | bound of the overshoot, charges accounted for, overshoot announced, answers match the ledger |
| `evaluator_escape` | 2 calls, an evaluator that escapes | **violation**: a charged call ends in a 500 without a trace |
| `local_run` | 2 trials, 2 rows with one id, 2 layers, 1 retry, cap 2, both strategies, fail-fast or not, gates on a layer or an evaluator or broken, with a baseline or none; 523 469 | cap final and bounded, charges add up, log and rows agree, the two pass counts differ exactly as they should, exit 0 is honest, the run ends |
| `best_of_n` | 2 trials, 1 row, strategy any, a gate that allows a failure | **violation**: exit 0 with every trial failed |
| `ingest` | 9 pairs of clients (pushes of one run, with and without the replay header and from two orgs; push and collector; collectors in opposite order; repeated and untraced blocks), one retries, 1 crash, a worker each; 131 113 | answers agree with the store, a trace is stored once, refinement of `RunStore`, every request ends |
| `retry_conflict` | a push that retries, a collector of the same project | **violation**: the retry is told 409 for the run its first attempt stores |
| `first_push_race` | the pairs of `ingest` on one worker | **violation**: a wait that nothing in the program ends |
| `control_plane` | groups of up to 3 requests on small databases of two orgs, 2 failures (a statement or a worker), pages of 2; 88 276 | revocation binds, one creator, readers get what was committed, exports lose nothing, curations land |

Why the bounds are enough. Three writers make a loser race a second winner,
which is what a second attempt and its exhaustion need; a page of two events is
exceeded and met exactly. In the gateway, with two calls on one worker and a third
on another, there is both interleaving and its absence, and two providers make calls that
share a run and no trial; an overshoot needs two open calls, a later day the third. In
the limiter the horizon is more than two windows, so stamps age, are swept and
granted anew; the deque, the limits and the sweep threshold are met and exceeded. In
the executor two slots suffice for a row to be answered while the other
backs off or is evaluated when the cap is reached, and two trials for the cap, the cache and the
strategy to matter across them. The two rows share an id,
so the pass rate sees a row alone and a row with a namesake. With as many slots as rows the run says nothing of rows that
wait for a slot, and with one id nothing of a join that would mix ids up: those rest on `CapBounds` and `PassRatesAgree`,
which are proved for any number of rows and slots and any ids. Requests of ingest and of the control plane meet on
a key, a row or a lock, two at a time; a third is there where a race has a witness
(a reader, a revoker). The control plane has two failures so that a retry of what failed can fail too;
in ingest one crash is enough, as the store after a crash is the store before it.

`MaxInFlight`, `MaxDay`, `Horizon`, `MaxDamage`, `MaxCrashes` and `MaxFailures` are bounds of the
models, not of the code; `ListLimit` and `PageLimit` are the code's with small values. `SwapSharers` (symmetry of
the two calls that share a worker) is used for invariants and action properties only.

### Fairness

- `AuditChain`: weak fairness of each writer's statements; a thread that runs
  `emit_event` keeps running it. None on `Call` and `Rollback`.
- `LiveGateway`: weak fairness of the loop (`Proceed`), because a coroutine that
  is ready is run, database waits end with the transaction waited for, and the
  provider call is under `wait_for` of 60 s. Nothing bounds an evaluator, so there is none on
  `Evaluate`, and `CallAnswered` claims nothing of a call that is being evaluated.
- `LocalRun`: weak fairness of the loop and of the provider calls, whose clients have
  timeouts; none on evaluators: `RunEnds` assumes that they return.
- `RunIngest`: weak fairness of the steps of each request (threads and loops run, PostgreSQL
  picks a deadlock victim). None on clients, networks, faults and crashes. `IngestEnds` is
  checked with a worker per request; on one worker it is what `first_push_race` shows to fail.
- The other modules claim safety only.

### Disagreements met

The five violation runs; the findings in `PROJECT.json` quote the lines. Read while
modelling, without a run of their own:

*Limiter.*
- A configured limit of 0 means the default of 60 (`routes/invoke.py:211`, `EffectiveLimit`), although `routes/configs.py:379`
  says "0 disables the per-key rate limit" and `quotas.py:79` the same of the check.

*Executor and gates.*
- The `run.cost_capped` event is missing if the charge that reaches the cap is that of a
  failed call (`local_executor.py:374-379`), although `README.md:399` lists the event
  for a reached cap. `CapAnnounced`, a part of `TrailTellsRows`, says exactly when it may be missing.
- The charges of attempts that failed before one that answered are in no total
  (`retry.py:188` returns the answer, `local_executor.py:370-373` credits only a final
  failure: "never silently lose it"). `ChargesReachTotal` excepts exactly these.
- A trial's cost omits the charges of its failed rows (`local_executor.py:421`), the run's does not.
- Evaluators that return no score make a row pass in the executor and fail in the
  pass rate (`sqlite_store.py:442-467`), while the pass rate by tag
  (`sqlite_store.py:548-568`) counts rows without scores as passing.
- Rows with one `id` share their scores in the pass rate, in the pass rate by tag and in `row_pass_rate`, which counts
  ids. `golden export` writes such rows. The executor counts one of two namesakes as passed and the store none
  (one failed) or both (one was not answered, so that a row without scores passes, `sqlite_store.py:442-445` notwithstanding).
  `PassRateAgrees` says which rows the two counts
  differ by: those whose id has no score, those blamed for a namesake, those that borrow from one.
- A gate on a layer without scores reads a pass rate of 0 and a fail count of 0, so a `max` threshold
  passes (`gate.py:193` speaks of fail-closed modes); a t-test with too few samples and a relative threshold
  without a baseline are skipped; `--save-baseline` saves a failed run too.

*Ingest.*
- A success is sent before its commit, `deps.py:7` notwithstanding ("commits on a clean
  return"): a worker that dies in between leaves a 201 for nothing. `AnswersTellStore` excepts exactly
  these (`lost_acks`); a COMMIT that fails does the same and is not modelled.
- A push that retries while its original is uncommitted gets a 409 it does not retry (`retry_conflict`): only in a
  project that exists, since in a new one the retry waits at the project's key and is then a replay. `push_cmd.py:44` says that
  timeouts are retried, but `TimeoutError` and `RemoteDisconnected` of a response are no `URLError`.
- A push of the same run id with other data is answered 200 as a replay, and stores nothing.
- A batch that splits a trace differently than before has a run id that exists: its new spans are acknowledged
  and dropped, while the answer counts what was kept and dropped (`routes/otlp.py:24-27`). `SpansKeepTrace` in
  `RunIngestProofs` is the assumption that this does not happen. Spans without a trace id are stored at every delivery.
- The OTLP run id leaves out the org: a collector with an admin key takes another org's run of the same project
  name and trace for its own.

*Control plane.*
- Calls pages: on PostgreSQL runs without `ingested_at` sort first, and a cursor without a time ends the
  walk before the runs that have one (`docs/observability.md`: "without skips or duplicates"). `ReadsWhole` is checked for
  runs that have one, as every run stored by the present code has: migration 0007 filled it in for the others.
- A key that is revoked while a request that authenticated with it is in flight does not stop that request.
  `RevocationHolds` is about requests sent after the revocation has committed.
- The loser of two concurrent submissions of one reviewer gets a 500, although `reviews.py:7-10` says that a verdict submitted again
  updates the review: `CurationLands` permits it. A promotion that updates a
  candidate deleted meanwhile answers 201 and stores nothing.
- Two promoters of one row make two candidates with one row id, which one export writes twice; an overwrite export
  whose every fetch fails leaves an empty file; an export reads at most 500 candidates, the newest.
- Pushing again the bytes of an older config answers 200 and leaves the newer one the latest. `configs.py:5-7` documents the
  200, and nothing promises more, so no property forbids it.
- `push-config` retries other answers than its server's 500 too. A retry after a proxy's answer, with the first attempt
  still in the server, is modelled as a second request for the same bytes.
- A server that starts while a request creates its default org or project fails to start; migrations run before the
  advisory lock that orders servers (`main.py`), whose check reads a column `bypassrls` (PostgreSQL has `rolbypassrls`).
- The review queue uses `GROUP_CONCAT`, which PostgreSQL does not have; `expand=row` of golden candidates reads
  run payloads, which live calls do not have.
- Since answers precede commits, a reviewer may see in the queue the row just reviewed.
- `list_runs` and the assets order by `ingested_at` alone, so ties come in any order.

## Proofs

TLAPS checks the following for all values of the constants, within the assumptions on constants that the
modules state and TLC evaluates in every run, and the further hypotheses named here.

**`AuditTrailProofs`** (any number of writers, runs, projects, retries; any page size).
`NoFork` and `IdOrderIsChainOrder` are not inductive. `IndInv` adds to the types: ids and
hashes are never used twice (`Fresh`); a writer that has read a tip inserts above it
(`Built`); rows that the indexes have let in but that are not committed share no key with each
other or with a committed row (`Reserved`); and a run's committed rows hang together
from one root, each that is not the newest being followed by one whose id is not
beyond any later row's (`Linked`). The last is the heart of the order: an insert that is let in on a tip
can only be on the newest row, because any other already has a successor in the index.
From `Invariance` follow `TypeCorrect`, `ForkFree` (`NoFork`), `ListOrderIsChainOrder`
(`IdOrderIsChainOrder`), `RetriesWon` (`RetriesHaveWinners`) and `ImplementsEventChain`: `Commit` is
`AppendEvent` at the tip, all else stutters. `TrailHasWriters` carries all of it to the trail with its reader:
every step of the trail is one of the writers' or leaves their state alone. With `CountStands`, what the count
has established by the time of the list (at most `EventsMax` rows, nothing uncounted below or between them),
it gives `VerifyNeverCriesWolf` (`NoFalseAlarm`) and `IntactIsWhole` (`IntactMeansWhole`).

**`LiveGatewayProofs`** (any number of workers, requests, providers, days, any cap).
`IndInv` adds to the types: at most one transaction per day has passed `Record`
(`OneHolder`); what it staged is the committed totals plus its call (`StagedFresh`); the tip it read
is the tip (`TipFresh`); rows belong to answered calls (`RowsAreAnswered`); and what is known
of a call at each label (`CallSoFar`). From it: `TypeCorrect`, `NoEmitRace` (`EmitNeverRaces`),
`ImplementsLedger` (`PostsToLedger`: `Commit` is `Post`, since the staged totals are fresh and the call
has no row yet), and `ChargesAccounted` (`ChargedAccounted`), which needs `EvaluatorEscapes = FALSE`:
the `evaluator_escape` run shows why.

Its second half builds on that invariant. `AnswersMatch` (`AnswersMatchLedger`) needs one fact of each
call, whether the ledger holds it as it was answered (`Matches`). `AggregatesTrue` (`AggregatesAgree`) is
`CountersAgree`, counts and sums of every day and trial against their rows: a commit adds one row
and, its totals being fresh, its own numbers. `OvershootAnnounced` is `OvershootWarned`. `SpendBounded`
(`SpendBound`) is the deepest: once a day has reached the cap, what it has spent and one greatest charge for each
open request that may still add to it stay below the bound (`Room`). No request joins those later (`CappedFree`: what
read a spend at the cap is not charged; `FutureFree`: a day that has not come has spent nothing). It assumes that
charges have a maximum (`CostBounded`): without one there is no bound to state.
`BrokenIsAScore` (`BrokenEvaluatorIsAScore`) holds where evaluators keep to their contract, which the
`evaluator_escape` run shows they need not.

**`RateLimiterProofs`** (any keys, settings, maxlen, window, clock resolution). What `rate_limit_check` reads of a key is
its deque less the stamps that have left the window; the invariant relates this view, not the deque, to
the grants: it is the last `MaxLen` of those still in the window (`Remembered`), so pruning, the sweep of stale keys
and the clock each need one lemma on sequences. `Promised` says what a
Retry-After is worth. From these: `TypeCorrect`, `Remembers` (`NothingForgotten`), `RetryAfterKept`
(`RetryAfterHonest`), `CapsUpToDeque` and `CapHolds` (`WindowCapped`) for settings up to the maxlen of the deque:
beyond it the property is false, which the `limit_above_deque` run shows and `CapsUpToDeque` delimits.

**`RunIngestProofs`** (any clients, jobs, batches, workers, retries, crashes). `IndInv` is
`Types`, with where each request is in its payload (`Place`) and which attempts are ahead of its client
(`Ahead`), and `Fresh`: stored runs have distinct ids and are runs that some request asked for; the runs an open transaction
has made are stored by nobody else and made by no other (`Staged`). What keeps it is `PersistRun`: it
waits for holders of the key and is refused if the key is taken. From it: `TypeCorrect`;
`GrowsByWholeRuns` (`StoreGrows`: `Commit` adds runs with new ids, all else stutters; the run whose
rows are being written never reaches `Commit`); and `StoredOnce` (`TelemetryOnce`), for collectors that do not
split traces differently between deliveries (`SpansKeepTrace`): the id of a run with a traced span follows from
its project and that trace. `AnswersTrue` (`AnswersTellStore`) adds `Progress`, what of its payload a request has stored
or staged at each label, and `WasTold`, what its client heard. It is stated for PostgreSQL with row level security (SQLite has
none, and there a collector does take another org's run for its own) and for run ids of the two routes that are apart
(`IdsApart`: `run_otlp...` and `run_` with 16 hex digits).

**`LocalRunProofs`** (any providers, rows, layers, concurrency, cap, retries, gates). `Types` bounds the holders of the semaphore
(`Turns`), the ledger and the verdict. On it rest:
- `CapEnds` (`CapIsFinal`): a run that is capped and still executing is aborted (`CapAborts`), and what is aborted starts nothing.
- `CapBounds` (`CapBound`): each row that holds the semaphore and may still be charged has a place between the total and the
  bound (`Reserved`), and has spent no more than its attempts allow (`SpentBounded`). Costs of a call have maxima (`CostsHaveMaxima`).
- `ChargesReach` (`ChargesReachTotal`): what was billed is the total, what was dropped and what rows still owe (`Balance`).
- `PassRatesAgree` (`PassRateAgrees`), for any assignment of ids to rows (`PassesById` turns the keyed join into sets of ids), and `TrailTells` (`TrailTellsRows`): one record per row that is done (`Records`), the
  summaries count them (`Summaries`), the log has the events of each row that is told and none of one that is not (`Trail`),
  and the cap is announced once, unless failed calls reached it (`Announces`).
- `ClosedOnFailure` (`FailsClosed`): a verdict is a function of the records (`Judged`), whose scores are counted by cardinality, so the
  comparisons of rates with thresholds are of integers. `RunAssumption` types the gates: a threshold is a rational with a
  positive denominator (every float is one) or absent.

**`ControlPlaneProofs`** (any requests of every kind, on any finite database). Its hypotheses, which TLC evaluates on the
instance: keys that are made are new, since `api_keys.py` draws them at random, and stored keys have their org, admin bit and
`revoked_at` (`TenancyAssumption`); requests that ingest store new and different runs (`IngestsApart`: what one run stored twice does is
`RunIngest`'s subject), and stored calls belong to stored runs; stored candidates have an id, an author and a stored run
(`CurationAssumption`: run rows and candidates refer to runs, and no run is ever deleted). `IndInv` says of an open transaction which
rows it may have written and what they are (`Written`), that no two have written one row (`Apart`), what stored keys
are (`Keyed`), and where a request of each kind is with what it was asked for. What commits leave alone (`CommitKeeps`,
`MovesKeep`) follows: nothing but a candidate is deleted, a revoked key stays revoked, and a row keeps its maker. From it:
- `TypeCorrect` (`TypeOK`).
- `RevocationKept` (`RevocationHolds`): a request whose key was revoked before it was sent (`barred`) finds the
  key revoked whenever it authenticates, whatever has committed in between.
- `OneCreator` (`CreatedOnce`): one `create` of an org or project, or one `push` of a revision, that answers 201 made the row;
  servers that start together all start unless a request made the default org or project under them.
- `CurationKept` (`CurationLands`) needs `CurationInv`: a candidate that a promotion has found by its key, or whose id it has
  read, is still there or was deleted by an acknowledged `un_promote` (`Curating`). No row of a run is written by others than
  its curators, and a promotion keeps the id of the candidate it overwrites (`Curated`).
- `ExportLosesNothing` (`ExportWhole`) needs `StoreInv`: a stored run has all its rows from one commit on, and what they
  hold never changes (`RunsStored`, `RowOfStays`), so an export that reads a candidate's row long after listing it reads what
  was there. `ExportInv` then bounds, at each step, the candidates that are neither in the file, nor fetched, nor to be
  fetched still (`Lost`): a failed fetch adds at most one to them and one to `failures`.

**`ReadsProofs`** (as `ControlPlaneProofs`, any limit of a listing, any positive size of a page) proves `ReadersServed`
(`ReadsWhole`). Three more hypotheses, which TLC evaluates on the instance. Stored rows are well-formed (`WellFormed`): a run
belongs to a stored project and has a call for each row of its payload, or is live and has no payload; a call belongs to
its run's project; a stored config is one `push_config` lets pass. No two stored projects have one `created_at`: it has
microseconds, and an admin's slug stands for the oldest project of that name, which a tie would leave to the database. The project of an
ingest is there before it (what is made on the fly is `RunIngest`'s subject). The invariant, `ReadsInv`, has two halves.
- `ShapeInv`: what is stored stays well-formed and what open transactions have drafted will be (`Drafts`: a run is
  drafted with all its calls), and projects have timestamps apart, committed or not (`Stamped`), so that a slug
  stands for the same project throughout a walk (`ResolveBack`).
- `Asks`: what a reader has is right at each of its steps. Rows of another org are never among it (`Theirs`). An answer from one
  statement is right when it is made and stays right as others commit (`ReadStays`), because commits only add rows, reviews and candidates
  apart (`MovesGrow`). A drift has all samples of the runs it has read, since a run is committed whole (`Sampled`).
  A walk has, after each page, every call it is for that was there when it began, or the cursor has still to pass it (`Walks`):
  the stream is totally ordered by time and id (`StreamTotal`), and the cursor is its last row's place (`CursorOrder`).

**`SumsProofs`**: the sums of the ledgers. A fold over a set cannot be reasoned about without induction over data, so `SumOf` counts
the units of the numbers: a cardinality, for which the library has its theorems. `MCLiveGateway` assumes, and so TLC
evaluates, that it is the fold.

Only model-checked: liveness (`EmitEnds`, `CallAnswered`, `RunEnds`, `IngestEnds`), which is out of the prover's
reach. Every invariant and every action property of a passing run is the subject of a theorem.

## Not modelled

Evaluators' and providers' own logic (nondeterministic results and failures here), YAML, serialisation and
statistics, migrations, the dashboard, the GitHub Action and the reporting commands: they keep no state that
several actors change. Health probes keep none at all. Redaction and payload formatting are abstracted; within
the executor the evaluators of a layer share an outcome, and an unwritable cache and a killed process are left out.

`tlc -config X.cfg M` in this directory repeats a run; `tlapm M.tla` a proof.
