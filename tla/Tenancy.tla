------------------------------ MODULE Tenancy ------------------------------
(***************************************************************************)
(* Requests to the control plane of the server: their database             *)
(* transactions, authentication, and the routes for orgs, projects and API *)
(* keys, together with the bootstrap of a starting server.                 *)
(*                                                                         *)
(* All these handlers are plain functions that run on threads, so their    *)
(* statements interleave.  The database is PostgreSQL at READ COMMITTED: a *)
(* statement sees what is committed and what its own transaction wrote, a  *)
(* write waits for an open transaction that wrote the same row or key.  A  *)
(* handler that returns is answered first and committed next, one that     *)
(* raises is rolled back first (see RunIngest).                            *)
(***************************************************************************)
EXTENDS Integers, Sequences, FiniteSets

CONSTANTS
  Request,      \* HTTP requests and starts of server processes
  Scenario,     \* initial databases, with what each request asks for
  None,
  MaxFailures   \* bound: faults of statements and deaths of workers

VARIABLES
  job,        \* what each request asks for, fixed
  db,         \* committed rows: a function from keys to rows
  tx,         \* what each open transaction has written: rows or Gone
  pc,
  who,        \* the principal of each request
  mem,        \* what its handler remembers between statements
  answer,     \* the answers that were sent
  clock,      \* the last timestamp or serial id drawn
  barred,     \* ghost: requests sent after their key's revocation committed
  lost_acks,  \* ghost: requests answered with success by a worker that died
  failures    \* statements that failed, workers and detail fetches that died

history == <<barred, lost_acks>>
vars == <<job, db, tx, pc, who, mem, answer, clock, history, failures>>

Gone == [gone |-> TRUE]
NoTx == [k \in {} |-> Gone]
NoMem == [code |-> 0, id |-> 0, time |-> 0, seen |-> <<>>, todo |-> <<>>,
          written |-> FALSE, before |-> {}]
Nobody == [key |-> None, org |-> None, admin |-> FALSE]

Kind(r) == job[r].kind

\* What a SELECT ... ORDER BY ... LIMIT n may return: rows that the order does
\* not tell apart come in any order.
Select(S, n, Precedes(_, _)) ==
  {rows \in [{m \in 1..n : m <= Cardinality(S)} -> S] :
    \A i \in DOMAIN rows :
      /\ \A j \in DOMAIN rows : rows[j] = rows[i] => j = i
      /\ \A y \in S : Precedes(y, rows[i]) => \E j \in DOMAIN rows : j < i /\ rows[j] = y}
-----------------------------------------------------------------------------
\* Transactions.

\* A row for r: its own write, or what is committed.
Has(r, k) == IF k \in DOMAIN tx[r] THEN tx[r][k] # Gone ELSE k \in DOMAIN db
Row(r, k) == IF k \in DOMAIN tx[r] THEN tx[r][k] ELSE db[k]
Keys(r) == {k \in DOMAIN db \cup DOMAIN tx[r] : Has(r, k)}

Locked(r, k) == \E q \in Request \ {r} : k \in DOMAIN tx[q]

Write(r, k, row) ==
  tx' = [tx EXCEPT ![r] = [l \in DOMAIN tx[r] \cup {k} |-> IF l = k THEN row ELSE tx[r][l]]]

\* The handler goes on to its statement `step'.
Goto(r, step) == pc' = [pc EXCEPT ![r] = step]

Unchanged == UNCHANGED <<job, db, who, answer, history, failures>>

\* It returns with this status code...
Return(r, code) ==
  /\ mem' = [mem EXCEPT ![r].code = code]
  /\ Goto(r, "reply")

\* ...or raises: its transaction is rolled back and the error is sent.
Refuse(r, code) ==
  /\ tx' = [tx EXCEPT ![r] = NoTx]
  /\ answer' = [answer EXCEPT ![r] = code]
  /\ Goto(r, "done")
  /\ UNCHANGED <<job, db, who, mem, clock, history, failures>>

Step(r, step) == pc[r] = step

\* Success is sent, and committed next.
Reply(r) ==
  /\ Step(r, "reply")
  /\ answer' = [answer EXCEPT ![r] = mem[r].code]
  /\ Goto(r, "commit")
  /\ UNCHANGED <<job, db, tx, who, mem, clock, history, failures>>

Commit(r) ==
  /\ Step(r, "commit")
  /\ db' = [k \in Keys(r) |-> Row(r, k)]
  /\ tx' = [tx EXCEPT ![r] = NoTx]
  /\ Goto(r, "done")
  /\ UNCHANGED <<job, who, mem, answer, clock, history, failures>>

\* The handler runs; the other places are between requests of a client.
Open(r) == pc[r] \notin {"idle", "sent", "done", "details"}

\* A statement fails: no handler catches anything but an IntegrityError.
Fault(r) ==
  /\ Open(r)
  /\ pc[r] \notin {"reply", "commit"}
  /\ failures < MaxFailures
  /\ failures' = failures + 1
  /\ tx' = [tx EXCEPT ![r] = NoTx]
  /\ answer' = [answer EXCEPT ![r] = 500]
  /\ Goto(r, "done")
  /\ UNCHANGED <<job, db, who, mem, clock, history>>

\* The worker dies, with the transaction.
Die(r) ==
  /\ Open(r)
  /\ failures < MaxFailures
  /\ failures' = failures + 1
  /\ tx' = [tx EXCEPT ![r] = NoTx]
  /\ lost_acks' = IF pc[r] = "commit" THEN lost_acks \cup {r} ELSE lost_acks
  /\ Goto(r, "done")
  /\ UNCHANGED <<job, db, who, mem, answer, clock, barred>>
-----------------------------------------------------------------------------
\* Authentication.

KeyRow(key) == <<"key", key>>

Readers == {"get_config", "invoke", "walk", "read"}

\* A request and its bearer token are on their way.  Ghost mem.before: what
\* was committed when a reader's first request was sent.
Send(r) ==
  /\ Step(r, "idle")
  /\ Kind(r) \notin {"boot", "nothing"}
  /\ mem' = IF Kind(r) \in Readers /\ mem[r].seen = <<>>
              THEN [mem EXCEPT ![r].before = DOMAIN db] ELSE mem
  /\ barred' = IF KeyRow(job[r].key) \in DOMAIN db /\ db[KeyRow(job[r].key)].revoked
                 THEN barred \cup {r} ELSE barred
  /\ Goto(r, "sent")
  /\ UNCHANGED <<job, db, tx, who, answer, clock, lost_acks, failures>>

\* Mutant: revoked keys are found.
FindKeyAny(key) == KeyRow(key) \in DOMAIN db

\* find_key_by_hash: a key that is not revoked.
FindKey(key) == KeyRow(key) \in DOMAIN db /\ ~db[KeyRow(key)].revoked

\* require_principal, in a transaction of its own.  A key not used for five
\* minutes has its last_used_at written before that commits.
Authenticate(r) ==
  /\ Step(r, "sent")
  /\ IF FindKey(job[r].key)
       THEN /\ who' = [who EXCEPT ![r] =
                 [key |-> job[r].key,
                  org |-> db[KeyRow(job[r].key)].org,
                  admin |-> db[KeyRow(job[r].key)].admin]]
            /\ \E step \in {"touch", "begin"} : Goto(r, step)
            /\ UNCHANGED answer
       ELSE /\ answer' = [answer EXCEPT ![r] = 401]
            /\ Goto(r, "done")
            /\ UNCHANGED who
  /\ UNCHANGED <<job, db, tx, mem, clock, history, failures>>

TouchLastUsed(r) ==
  /\ Step(r, "touch")
  /\ ~Locked(r, KeyRow(who[r].key))
  /\ Goto(r, "begin")
  /\ UNCHANGED <<tx, mem, clock>> /\ Unchanged

\* A handler of this kind runs its first statement.
Begin(r, kind) == Step(r, "begin") /\ Kind(r) = kind
At(r, kind, step) == Step(r, step) /\ Kind(r) = kind

Member(r, org) == who[r].org = org \/ who[r].admin
-----------------------------------------------------------------------------
\* Orgs and projects.

OrgRow(org) == <<"org", org>>
ProjectRow(org, slug) == <<"project", org, slug>>
RunRow(run) == <<"run", run>>

\* The key of the row a create handler inserts.
NewRow(r) ==
  IF Kind(r) = "create_org" THEN OrgRow(job[r].org) ELSE ProjectRow(job[r].org, job[r].slug)

\* create of orgs.py and of projects.py, up to their INSERT.
SelectOrg(r) ==
  /\ Begin(r, "create_org")
  /\ IF ~who[r].admin THEN Refuse(r, 403)
     ELSE IF Has(r, NewRow(r)) THEN Refuse(r, 409)
     ELSE Goto(r, "insert") /\ UNCHANGED <<tx, mem, clock>> /\ Unchanged

SelectProject(r) ==
  /\ Begin(r, "create_project")
  /\ IF ~Member(r, job[r].org) THEN Refuse(r, 403)
     ELSE IF ~Has(r, OrgRow(job[r].org)) THEN Refuse(r, 404)
     ELSE IF Has(r, NewRow(r)) THEN Refuse(r, 409)
     ELSE Goto(r, "insert") /\ UNCHANGED <<tx, mem, clock>> /\ Unchanged

\* Mutant: the INSERT does not wait for the other transaction nor clash.
InsertNewUnchecked(r) ==
  /\ Step(r, "insert")
  /\ Kind(r) \in {"create_org", "create_project"}
  /\ Write(r, NewRow(r), [created |-> clock + 1, by |-> r])
  /\ clock' = clock + 1
  /\ Return(r, 201)
  /\ Unchanged

\* The INSERT in its savepoint; an IntegrityError becomes a 409.
InsertNew(r) ==
  /\ Step(r, "insert")
  /\ Kind(r) \in {"create_org", "create_project"}
  /\ ~Locked(r, NewRow(r))
  /\ IF Has(r, NewRow(r))
       THEN Refuse(r, 409)
       ELSE /\ Write(r, NewRow(r), [created |-> clock + 1, by |-> r])
            /\ clock' = clock + 1
            /\ Return(r, 201)
            /\ Unchanged

\* resolve_project_or_404: in the caller's org; for an admin, if it is not
\* there, the oldest of all orgs.
Resolve(r, slug) ==
  LET own == ProjectRow(who[r].org, slug)
      all == {k \in Keys(r) : k[1] = "project" /\ k[3] = slug}
  IN  IF Has(r, own) THEN own
      ELSE IF who[r].admin /\ all # {}
        THEN CHOOSE k \in all : \A l \in all : Row(r, k).created <= Row(r, l).created
      ELSE None
-----------------------------------------------------------------------------
\* API keys.

\* create_api_key.
NewKeyRecord(org, admin) == [org |-> org, admin |-> admin, revoked |-> FALSE]

CreateKey(r) ==
  /\ Begin(r, "create_key")
  /\ IF ~Member(r, job[r].org) \/ (job[r].admin /\ ~who[r].admin) THEN Refuse(r, 403)
     ELSE IF ~Has(r, OrgRow(job[r].org)) THEN Refuse(r, 404)
     ELSE /\ Write(r, KeyRow(job[r].new), NewKeyRecord(job[r].org, job[r].admin))
          /\ Return(r, 201)
          /\ UNCHANGED clock
          /\ Unchanged

SelectKey(r) ==
  /\ Begin(r, "revoke_key")
  /\ LET k == KeyRow(job[r].target)
     IN  IF ~Has(r, k) THEN Refuse(r, 404)
         ELSE IF ~Member(r, Row(r, k).org) THEN Refuse(r, 403)
         ELSE /\ IF Row(r, k).revoked
                   THEN Return(r, 204)
                   ELSE Goto(r, "revoke") /\ UNCHANGED mem
              /\ UNCHANGED <<tx, clock>>
              /\ Unchanged

\* UPDATE ... WHERE revoked_at IS NULL.
RevokeKey(r) ==
  /\ At(r, "revoke_key", "revoke")
  /\ LET k == KeyRow(job[r].target)
     IN  /\ ~Locked(r, k)
         /\ Write(r, k, [Row(r, k) EXCEPT !.revoked = TRUE])
  /\ Return(r, 204)
  /\ UNCHANGED clock
  /\ Unchanged
-----------------------------------------------------------------------------
\* A server starts: the default org and project and the key of the
\* environment, one after the other, in one transaction under an advisory
\* lock.

BootRows(r) ==
  <<OrgRow(job[r].org), ProjectRow(job[r].org, job[r].slug), KeyRow(job[r].key)>>

BootRow(r, i) ==
  IF i = 3 THEN NewKeyRecord(job[r].org, TRUE) ELSE [created |-> clock + 1, by |-> r]

Booting(r) == Kind(r) = "boot" /\ pc[r] \in {"ensure", "boot_insert"}

\* Mutant: the lock is not taken.
BootWithoutLock(r) ==
  /\ Step(r, "idle")
  /\ Kind(r) = "boot"
  /\ mem' = [mem EXCEPT ![r].id = 1]
  /\ Goto(r, "ensure")
  /\ UNCHANGED <<tx, clock>> /\ Unchanged

Boot(r) ==
  /\ Step(r, "idle")
  /\ Kind(r) = "boot"
  /\ \A q \in Request : ~Booting(q)
  /\ mem' = [mem EXCEPT ![r].id = 1]
  /\ Goto(r, "ensure")
  /\ UNCHANGED <<tx, clock>> /\ Unchanged

\* The SELECTs of ensure_default_tenancy, and key_hash_exists.
BootExists(r, k) == Has(r, k)

\* The last row is there: the transaction commits and the server is ready.
Ensure(r) ==
  /\ Step(r, "ensure")
  /\ IF mem[r].id > 3
       THEN /\ db' = [k \in Keys(r) |-> Row(r, k)]
            /\ tx' = [tx EXCEPT ![r] = NoTx]
            /\ answer' = [answer EXCEPT ![r] = 200]
            /\ Goto(r, "done")
            /\ UNCHANGED mem
       ELSE /\ IF BootExists(r, BootRows(r)[mem[r].id])
                 THEN mem' = [mem EXCEPT ![r].id = @ + 1] /\ UNCHANGED pc
                 ELSE Goto(r, "boot_insert") /\ UNCHANGED mem
            /\ UNCHANGED <<db, tx, answer>>
  /\ UNCHANGED <<job, who, clock, history, failures>>

BootInsert(r) ==
  LET k == BootRows(r)[mem[r].id]
  IN  /\ Step(r, "boot_insert")
      /\ ~Locked(r, k)
      /\ IF Has(r, k)
           THEN Refuse(r, 500)
           ELSE /\ Write(r, k, BootRow(r, mem[r].id))
                /\ clock' = clock + 1
                /\ mem' = [mem EXCEPT ![r].id = @ + 1]
                /\ Goto(r, "ensure")
                /\ Unchanged
-----------------------------------------------------------------------------
\* A database is finite, and every request asks for something.  Stored keys have their
\* org, admin bit and revoked_at, and a key that is made is random: nobody has it yet.
ASSUME TenancyAssumption ==
  /\ MaxFailures \in Nat
  /\ \A s \in Scenario :
       /\ DOMAIN s.job = Request
       /\ IsFiniteSet(DOMAIN s.db)
       /\ \A k \in DOMAIN s.db :
            k[1] = "key" => {"org", "admin", "revoked"} \subseteq DOMAIN s.db[k] /\ s.db[k].revoked \in BOOLEAN
       /\ \A r \in Request :
            s.job[r].kind = "create_key" =>
              /\ KeyRow(s.job[r].new) \notin DOMAIN s.db
              /\ \A q \in Request \ {r} :
                   /\ s.job[q].kind = "create_key" => s.job[q].new # s.job[r].new
                   /\ s.job[q].kind = "boot" => s.job[q].key # s.job[r].new

TenancyInit ==
  /\ \E s \in Scenario : job = s.job /\ db = s.db
  /\ tx = [r \in Request |-> NoTx]
  /\ pc = [r \in Request |-> "idle"]
  /\ who = [r \in Request |-> Nobody]
  /\ mem = [r \in Request |-> NoMem]
  /\ answer = [r \in Request |-> 0]
  /\ clock = Cardinality(DOMAIN db)
  /\ barred = {}
  /\ lost_acks = {}
  /\ failures = 0

Served(r) ==
  \/ Send(r) \/ Authenticate(r) \/ TouchLastUsed(r) \/ Reply(r) \/ Commit(r)
  \/ Fault(r) \/ Die(r)

Tenancies(r) ==
  \/ SelectOrg(r) \/ SelectProject(r) \/ InsertNew(r)
  \/ CreateKey(r) \/ SelectKey(r) \/ RevokeKey(r)
  \/ Boot(r) \/ Ensure(r) \/ BootInsert(r)
=============================================================================
