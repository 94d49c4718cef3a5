----------------------------- MODULE RunIngest -----------------------------
(***************************************************************************)
(* How runs get into the server: POST /v1/runs with the retry loop of      *)
(* `evalguard push` as its client, and POST /v1/otlp/v1/traces with        *)
(* collectors that redeliver their batches.                                *)
(*                                                                         *)
(* deps.get_conn gives a request one transaction.  The locked FastAPI      *)
(* leaves a dependency with yield after the response has been sent, so a   *)
(* handler that returns is answered first and committed next, while one    *)
(* that raises is rolled back before its error is sent.                    *)
(*                                                                         *)
(* ingest_run is a plain function and runs on a thread; ingest_traces is a *)
(* coroutine without an await between its statements, and holds the event  *)
(* loop of its worker while a statement waits.  Answers and commits of all *)
(* requests of a worker need its loop.  The database is PostgreSQL at READ *)
(* COMMITTED: an INSERT waits for an open transaction that holds its key.  *)
(***************************************************************************)
EXTENDS Integers, Sequences, FiniteSets

CONSTANTS
  Client,        \* evalguard push processes and collectors
  Jobs,          \* what the clients may have to deliver: see Job below
  Worker,
  WorkerOf,      \* the worker that serves each client's attempts
  Kept,          \* traces whose hash is below the sample rate
  NoTrace,       \* a span without a traceId
  RowSecurity,   \* row level security is on: PostgreSQL, not SQLite
  MaxRetries,    \* _PUSH_MAX_RETRIES of a push, the retries of a collector
  MaxCrashes     \* bound: crashes of workers

AttemptsOf(c) == 1..(MaxRetries[c] + 1)
Request == UNION {{c} \X AttemptsOf(c) : c \in Client}

\* A push is one run.  A batch is a sequence of resourceSpans, each with the
\* project it names and its spans in order.
IsJob(j) ==
  /\ j.kind \in {"push", "otlp"}
  /\ j.kind = "push" => {"id", "project", "keyed"} \subseteq DOMAIN j
  /\ j.kind = "otlp" =>
       /\ j.admin \in BOOLEAN
       /\ DOMAIN j.batch = 1..Len(j.batch) /\ Len(j.batch) \in Nat
       /\ \A i \in DOMAIN j.batch :
            /\ {"project", "spans"} \subseteq DOMAIN j.batch[i]
            /\ DOMAIN j.batch[i].spans \subseteq Nat

ASSUME IngestAssumption ==
  /\ \A jobs \in Jobs : \A c \in Client : IsJob(jobs[c])
  /\ WorkerOf \in [Request -> Worker]
  /\ NoTrace \in Kept
  /\ RowSecurity \in BOOLEAN
  /\ MaxRetries \in [Client -> Nat]
  /\ MaxCrashes \in Nat

VARIABLES
  job,        \* what each client delivers, fixed
  client,     \* where each client is, and its attempt
  projects,   \* committed rows of projects, as <<org, slug>>
  runs,       \* committed runs with all their rows
  pc,         \* where each request is in its handler
  tx,         \* its payload, its place in it, what its transaction has made
  code,       \* the answer it is going to give
  lost_acks,  \* clients told of success by a request that then died
  crashes

database == <<projects, runs>>
request == <<pc, tx, code>>
vars == <<job, client, database, request, lost_acks, crashes>>

Handler == {"already", "project", "new_project", "existing", "persist", "rows"}
Open == Handler \cup {"reply", "refuse", "commit"}
NoTx == [payload |-> <<>>, next |-> 1, made |-> {}, runs |-> {}]

JobOf(r) == job[r[1]]
OrgOf(r) == JobOf(r).org
IsPush(r) == JobOf(r).kind = "push"
-----------------------------------------------------------------------------
\* Telemetry to runs.

\* Spans of a block, by position.  filter_otlp_spans keeps or drops a trace as a
\* whole; of the kept spans those with a gen_ai attribute become rows.
FilterSpans(spans) == {i \in DOMAIN spans : spans[i].trace \in Kept}

RowsOf(spans) == {i \in FilterSpans(spans) : spans[i].gen_ai}

First(S) == CHOOSE i \in S : \A k \in S : i <= k

\* The first traceId of a row that is not empty.
TraceOf(spans) ==
  LET named == {i \in RowsOf(spans) : spans[i].trace # NoTrace}
  IN  IF named = {} THEN NoTrace ELSE spans[First(named)].trace

\* Mutant: ids are drawn at random even if the trace has an id.
DeterministicIdRandom(project, trace, draw) == <<project, draw>>

\* _deterministic_ids: from the project and the trace; without a trace a draw
\* that no other block of any request makes.
DeterministicId(project, trace, draw) ==
  IF trace = NoTrace THEN <<project, draw>> ELSE <<project, trace>>

\* _resource_spans_to_run of the i-th block.
RunOf(block, r, i) ==
  [id |-> DeterministicId(block.project, TraceOf(block.spans), <<r, i>>),
   org |-> OrgOf(r),
   project |-> block.project,
   rows |-> {block.spans[k] : k \in RowsOf(block.spans)}]

\* The rows of a pushed run, as one.
PushedRow == [n |-> 0, trace |-> NoTrace]

\* The runs a request asks to store, in order.
Payload(r) ==
  LET j == JobOf(r)
  IN  IF IsPush(r)
        THEN <<[id |-> j.id, org |-> j.org, project |-> j.project, rows |-> {PushedRow}]>>
        ELSE [i \in DOMAIN j.batch |-> RunOf(j.batch[i], r, i)]

\* parse_traces skips the blocks that have no row.
From(payload, i) == {k \in i..Len(payload) : payload[k].rows # {}}

Current(r) == tx[r].payload[tx[r].next]
ProjectOf(r) == <<OrgOf(r), Current(r).project>>
-----------------------------------------------------------------------------
\* Keys, locks and loops.

\* Mutant: the primary key of runs is taken within a project only.
SameKeyInProject(x, y) == x.id = y.id /\ x.org = y.org /\ x.project = y.project

\* runs.run_id is the primary key, for all orgs together.
SameKey(x, y) == x.id = y.id

Taken(r) == \E x \in runs : SameKey(x, Current(r))

\* apply_rls_context: under row level security a caller without the admin scope
\* sees the rows of its own org.
Sees(r, x) == RowSecurity => x.org = OrgOf(r) \/ JobOf(r).admin

\* r's INSERT waits for q's transaction, which holds the key.
WaitsFor(r, q) ==
  /\ q # r
  /\ \/ /\ pc[r] = "new_project"
        /\ ProjectOf(r) \in tx[q].made
     \/ /\ pc[r] = "persist"
        /\ \E x \in tx[q].runs : SameKey(x, Current(r))

\* The coroutine is between its first and its last statement.
OnLoop(q) == ~IsPush(q) /\ pc[q] \in Handler

LoopFree(r) == \A q \in Request \ {r} : WorkerOf[q] = WorkerOf[r] => ~OnLoop(q)
-----------------------------------------------------------------------------
Init ==
  /\ job \in Jobs
  /\ client = [c \in Client |-> [at |-> "sending", attempt |-> 1]]
  /\ projects = {}
  /\ runs = {}
  /\ pc = [r \in Request |-> "idle"]
  /\ tx = [r \in Request |-> NoTx]
  /\ code = [r \in Request |-> "none"]
  /\ lost_acks = {}
  /\ crashes = 0

\* Mutant: one attempt too many.
RetryOnceMore(c) ==
  IF client[c].attempt <= MaxRetries[c] + 1
    THEN [at |-> "sending", attempt |-> client[c].attempt + 1]
    ELSE [client[c] EXCEPT !.at = "failed"]

\* The push loop and a collector: try again while attempts are left.
Retry(c) ==
  IF client[c].attempt <= MaxRetries[c]
    THEN [at |-> "sending", attempt |-> client[c].attempt + 1]
    ELSE [client[c] EXCEPT !.at = "failed"]

\* URLError: nothing reached the server.
Unreachable(c) ==
  /\ client[c].at = "sending"
  /\ client' = [client EXCEPT ![c] = Retry(c)]
  /\ UNCHANGED <<job, database, request, lost_acks, crashes>>

Send(c) ==
  LET r == <<c, client[c].attempt>>
  IN  /\ client[c].at = "sending"
      /\ client' = [client EXCEPT ![c].at = "waiting"]
      /\ pc' = [pc EXCEPT ![r] = "queued"]
      /\ UNCHANGED <<job, database, tx, code, lost_acks, crashes>>

\* A proxy between client and server answers 502, 503, 504, 408 or 425 while
\* the request is wherever it is.
GatewayError(c) ==
  /\ client[c].at = "waiting"
  /\ client' = [client EXCEPT ![c] = Retry(c)]
  /\ UNCHANGED <<job, database, request, lost_acks, crashes>>

\* The connection breaks, or 30 s pass, after the request was sent: urllib
\* raises no URLError for that, so push ends; a collector delivers again.
ConnectionLost(c) ==
  /\ client[c].at = "waiting"
  /\ client' = [client EXCEPT ![c] =
       IF job[c].kind = "push" THEN [@ EXCEPT !.at = "failed"] ELSE Retry(c)]
  /\ UNCHANGED <<job, database, request, lost_acks, crashes>>

\* What the answer to r does to its client, if that still waits for it.
Told(r) ==
  LET c == r[1]
  IN  IF client[c] # [at |-> "waiting", attempt |-> r[2]]
        THEN client
        ELSE [client EXCEPT ![c] =
               CASE code[r] = "success" -> [@ EXCEPT !.at = "ok"]
                 [] code[r] = "conflict" -> [@ EXCEPT !.at = "conflict"]
                 [] OTHER -> Retry(c)]
-----------------------------------------------------------------------------
\* The handlers.

Unchanged == UNCHANGED <<job, client, database, lost_acks, crashes>>

\* The coroutine goes on to the next run, from position i of its payload.
Turn(r, payload, i, stored) ==
  LET left == From(payload, i)
  IN  /\ pc' = [pc EXCEPT ![r] = IF left = {} THEN "reply" ELSE "already"]
      /\ tx' = [tx EXCEPT ![r] =
           [payload |-> payload, next |-> IF left = {} THEN i ELSE First(left),
            made |-> @.made, runs |-> stored]]

Start(r) ==
  /\ pc[r] = "queued"
  /\ LoopFree(r)
  /\ IF IsPush(r)
       THEN /\ pc' = [pc EXCEPT ![r] = "project"]
            /\ tx' = [tx EXCEPT ![r].payload = Payload(r)]
       ELSE Turn(r, Payload(r), 1, {})
  /\ code' = [code EXCEPT ![r] = "success"]
  /\ Unchanged

\* upsert_project: SELECT; an INSERT in a savepoint; SELECT after the
\* IntegrityError.
Found(r) == pc' = [pc EXCEPT ![r] = IF IsPush(r) THEN "existing" ELSE "persist"]

SelectProject(r) ==
  /\ pc[r] = "project"
  /\ IF ProjectOf(r) \in projects \cup tx[r].made
       THEN Found(r)
       ELSE pc' = [pc EXCEPT ![r] = "new_project"]
  /\ UNCHANGED <<tx, code>> /\ Unchanged

InsertProject(r) ==
  /\ pc[r] = "new_project"
  /\ ProjectOf(r) \notin projects
  /\ \A q \in Request : ~WaitsFor(r, q)
  /\ tx' = [tx EXCEPT ![r].made = @ \cup {ProjectOf(r)}]
  /\ Found(r)
  /\ UNCHANGED code /\ Unchanged

ProjectTaken(r) ==
  /\ pc[r] = "new_project"
  /\ ProjectOf(r) \in projects
  /\ Found(r)
  /\ UNCHANGED <<tx, code>> /\ Unchanged

\* Mutant: the lookup is not scoped to the caller's project.
ReplayAnyProject(r) == \E x \in runs : x.id = Current(r).id

\* ingest_run's SELECT, scoped to the caller's project.
Replay(r) ==
  \E x \in runs :
    x.id = Current(r).id /\ x.org = OrgOf(r) /\ x.project = Current(r).project

SelectExisting(r) ==
  /\ pc[r] = "existing"
  /\ IF ~Replay(r)
       THEN pc' = [pc EXCEPT ![r] = "persist"] /\ UNCHANGED code
       ELSE IF JobOf(r).keyed
         THEN pc' = [pc EXCEPT ![r] = "reply"] /\ UNCHANGED code
         ELSE /\ pc' = [pc EXCEPT ![r] = "refuse"]
              /\ code' = [code EXCEPT ![r] = "conflict"]
  /\ UNCHANGED tx /\ Unchanged

\* The coroutine goes on to the run after the current one.
Advance(r, stored) == Turn(r, tx[r].payload, tx[r].next + 1, stored)

\* Mutant: a duplicate is not stepped over.
SelectAlreadyAgain(r) ==
  /\ pc[r] = "already"
  /\ ~\E x \in runs \cup tx[r].runs :
       x.id = Current(r).id /\ Sees(r, x)
  /\ pc' = [pc EXCEPT ![r] = "project"]
  /\ UNCHANGED <<tx, code>> /\ Unchanged

\* ingest_traces: SELECT 1 FROM runs WHERE run_id, over the rows it can see.
SelectAlready(r) ==
  /\ pc[r] = "already"
  /\ IF \E x \in runs \cup tx[r].runs :
          x.id = Current(r).id /\ Sees(r, x)
       THEN Advance(r, tx[r].runs)
       ELSE pc' = [pc EXCEPT ![r] = "project"] /\ UNCHANGED tx
  /\ UNCHANGED code /\ Unchanged

\* _persist_run: first the run...
PersistRun(r) ==
  /\ pc[r] = "persist"
  /\ ~Taken(r)
  /\ \A q \in Request : ~WaitsFor(r, q)
  /\ tx' = [tx EXCEPT ![r].runs = @ \cup {[Current(r) EXCEPT !.rows = {}]}]
  /\ pc' = [pc EXCEPT ![r] = "rows"]
  /\ UNCHANGED code /\ Unchanged

\* ...and then its assets, trials, rows, gates and events, which clash with
\* nothing.
PersistRows(r) ==
  LET others == {x \in tx[r].runs : ~SameKey(x, Current(r))}
  IN  /\ pc[r] = "rows"
      /\ IF IsPush(r)
           THEN tx' = [tx EXCEPT ![r].runs = {Current(r)}] /\ pc' = [pc EXCEPT ![r] = "reply"]
           ELSE Advance(r, others \cup {Current(r)})
      /\ UNCHANGED code /\ Unchanged

Raise(r, c) ==
  /\ pc' = [pc EXCEPT ![r] = "refuse"]
  /\ code' = [code EXCEPT ![r] = c]
  /\ UNCHANGED tx /\ Unchanged

\* IntegrityError: 409 from ingest_run, an unhandled 500 from ingest_traces.
PersistRefused(r) ==
  /\ pc[r] = "persist"
  /\ Taken(r)
  /\ Raise(r, IF IsPush(r) THEN "conflict" ELSE "error")

\* Any other error of any statement.
Fault(r) == pc[r] \in Handler /\ Raise(r, "error")

\* PostgreSQL ends one of two transactions that wait for each other.
DeadlockVictim(r) ==
  /\ \E q \in Request : WaitsFor(r, q) /\ WaitsFor(q, r)
  /\ Raise(r, "error")

\* Success is sent first...
Reply(r) ==
  /\ pc[r] = "reply"
  /\ LoopFree(r)
  /\ client' = Told(r)
  /\ pc' = [pc EXCEPT ![r] = "commit"]
  /\ UNCHANGED <<job, database, tx, code, lost_acks, crashes>>

\* ...and committed next; an error is sent after the rollback.
Commit(r) ==
  /\ pc[r] = "commit"
  /\ LoopFree(r)
  /\ projects' = projects \cup tx[r].made
  /\ runs' = runs \cup tx[r].runs
  /\ tx' = [tx EXCEPT ![r] = NoTx]
  /\ pc' = [pc EXCEPT ![r] = "done"]
  /\ UNCHANGED <<job, client, code, lost_acks, crashes>>

Refuse(r) ==
  /\ pc[r] = "refuse"
  /\ LoopFree(r)
  /\ client' = Told(r)
  /\ tx' = [tx EXCEPT ![r] = NoTx]
  /\ pc' = [pc EXCEPT ![r] = "done"]
  /\ UNCHANGED <<job, database, code, lost_acks, crashes>>

\* A worker dies with its requests and their transactions.
Crash(w) ==
  LET dead == {r \in Request : WorkerOf[r] = w /\ pc[r] \in Open \cup {"queued"}}
  IN  /\ crashes < MaxCrashes
      /\ dead # {}
      /\ crashes' = crashes + 1
      /\ pc' = [r \in Request |-> IF r \in dead THEN "lost" ELSE pc[r]]
      /\ tx' = [r \in Request |-> IF r \in dead THEN NoTx ELSE tx[r]]
      /\ lost_acks' = lost_acks \cup
           {c \in Client : client[c].at = "ok" /\ \E r \in dead : r[1] = c /\ pc[r] = "commit"}
      /\ UNCHANGED <<job, client, database, code>>

Serve(r) ==
  \/ Start(r)
  \/ SelectProject(r) \/ InsertProject(r) \/ ProjectTaken(r)
  \/ SelectExisting(r) \/ SelectAlready(r)
  \/ PersistRun(r) \/ PersistRows(r) \/ PersistRefused(r) \/ DeadlockVictim(r)
  \/ Reply(r) \/ Commit(r) \/ Refuse(r)

\* Clients and requests are through.
AllDone ==
  /\ \A c \in Client : client[c].at \in {"ok", "conflict", "failed"}
  /\ \A r \in Request : pc[r] \in {"idle", "done", "lost"}
  /\ UNCHANGED vars

Next ==
  \/ \E c \in Client : Unreachable(c) \/ Send(c) \/ GatewayError(c) \/ ConnectionLost(c)
  \/ \E r \in Request : Serve(r) \/ Fault(r)
  \/ \E w \in Worker : Crash(w)
  \/ AllDone

Spec == Init /\ [][Next]_vars

\* A request that can go on does; nothing makes clients, networks or
\* databases fail.
FairSpec == Spec /\ \A r \in Request : WF_vars(Serve(r))
-----------------------------------------------------------------------------
\* Every variable stays in its type: no client goes past its last attempt and
\* no request past the end of its payload.
TypeOK ==
  /\ job \in Jobs
  /\ client \in [Client -> [at : {"sending", "waiting", "ok", "conflict", "failed"}, attempt : Nat]]
  /\ \A c \in Client : client[c].attempt \in AttemptsOf(c)
  /\ \A x \in runs : x.org \in {job[c].org : c \in Client}
  /\ pc \in [Request -> Open \cup {"idle", "queued", "done", "lost"}]
  /\ \A r \in Request : pc[r] \in Handler => tx[r].next \in DOMAIN tx[r].payload
  /\ code \in [Request -> {"none", "success", "conflict", "error"}]
  /\ lost_acks \subseteq Client
  /\ crashes \in 0..MaxCrashes

\* Each request of a client is its one job again.
Stored(c, k) ==
  \A i \in DOMAIN Payload(<<c, k>>) :
    LET run == Payload(<<c, k>>)[i]
    IN  run.rows # {} => \E x \in runs :
          /\ x.id = run.id /\ x.project = run.project /\ x.rows # {}
          /\ x.org = run.org \/ (~IsPush(<<c, k>>) /\ job[c].admin)

\* What a client was told agrees with the store.  After a success every run it
\* sent is stored with rows under its own project, or is about to be, or its
\* worker died between the answer and the commit.  After a conflict the id is
\* taken.  (A collector with the admin scope sees all orgs: it takes the
\* run of another org, with the project name and trace of its own, for its own.)
AnswersTellStore ==
  \A c \in Client :
    /\ client[c].at = "ok" =>
         \/ \E k \in AttemptsOf(c) : Stored(c, k)
         \/ \E k \in AttemptsOf(c) : pc[<<c, k>>] = "commit"
         \/ c \in lost_acks
    /\ client[c].at = "conflict" => \E x \in runs : x.id = job[c].id

\* A span that has a traceId is in one run of a project, however often and by
\* however many collectors its batch is delivered.
TelemetryOnce ==
  \A x, y \in runs :
    /\ x.org = y.org
    /\ x.project = y.project
    /\ \E s \in x.rows \cap y.rows : s.trace # NoTrace
    => x = y

\* The store of runs only grows, by whole runs with new ids.
Store == INSTANCE RunStore WITH store <- runs
StoreGrows == Store!Spec

\* Every request that is being served ends, whichever keys it must wait for:
\* there are finitely many attempts, and sooner or later none is open.
IngestEnds == <>[](\A r \in Request : pc[r] \notin Open \cup {"queued"})

\* "A CI re-run that pushes the same run_id should not 409": a push that names its
\* run as the Idempotency-Key meets a conflict only with another project's run.
RetrySeesSuccess ==
  \A c \in Client :
    client[c].at = "conflict" /\ job[c].keyed =>
      \A x \in runs : x.id = job[c].id => <<x.org, x.project>> # <<job[c].org, job[c].project>>

\* upsert_project is "race-safe": no transaction waits for a key whose holder
\* cannot go on before it.
RaceSafe ==
  \A r, q \in Request :
    WaitsFor(r, q) /\ OnLoop(r) => WorkerOf[q] # WorkerOf[r]
=============================================================================
