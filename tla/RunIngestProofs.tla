-------------------------- MODULE RunIngestProofs --------------------------
(***************************************************************************)
(* Proofs about RunIngest, for any clients, jobs, workers, retries and     *)
(* crashes.                                                                *)
(*                                                                         *)
(* The inductive invariant says where each request is in its payload       *)
(* (Types), and that the ids of the stored runs and of all runs that open  *)
(* transactions have made are distinct (Fresh).  The INSERT of a run keeps *)
(* that: it waits for transactions that hold the key and is refused when   *)
(* the key is taken.  A commit then adds whole runs with new ids, and a    *)
(* span with a trace, whose run's id follows from project and trace, has   *)
(* one run to be in.                                                       *)
(*                                                                         *)
(* That the answers are true (AnswersTrue) takes three more facts: the two *)
(* ingest routes make run ids of different shapes (IdsApart), what a       *)
(* request may answer is already in the store or in its own transaction    *)
(* (Progress), and what a client was told is what one of its attempts      *)
(* answered (WasTold).                                                     *)
(***************************************************************************)
EXTENDS RunIngest, TLAPS, WellFoundedInduction

\* Run x has the fields of a run and no other.
IsRun(x) == x = [id |-> x.id, org |-> x.org, project |-> x.project, rows |-> x.rows]

\* So has every transaction those of NoTx.
Shape ==
  tx = [r \in Request |-> [payload |-> tx[r].payload, next |-> tx[r].next,
                           made |-> tx[r].made, runs |-> tx[r].runs]]

\* Where a request is in its payload.
Place(r) ==
  /\ pc[r] \in Open => tx[r].payload = Payload(r)
  /\ pc[r] \notin Open => tx[r] = NoTx
  /\ \A x \in tx[r].runs : IsRun(x) /\ x.org = OrgOf(r)
  /\ pc[r] \in Handler => tx[r].next \in DOMAIN Payload(r)
  /\ IsPush(r) =>
       /\ pc[r] # "already"
       /\ pc[r] \in Handler => tx[r].next = 1
       /\ pc[r] \in {"project", "new_project", "existing", "persist"} => tx[r].runs = {}
  /\ ~IsPush(r) => pc[r] # "existing"

\* The attempts that a client has not begun.
Ahead ==
  \A c \in Client, k \in Nat :
    /\ k \in AttemptsOf(c)
    /\ k > client[c].attempt \/ (k = client[c].attempt /\ client[c].at = "sending")
    => pc[<<c, k>>] = "idle"

Types ==
  /\ TypeOK
  /\ Ahead
  /\ Shape
  /\ \A r \in Request : Place(r)

-----------------------------------------------------------------------------
\* A set of positions that is not empty has a first.
LEMMA FirstIs ==
  ASSUME NEW S \in SUBSET Nat, S # {}
  PROVE  First(S) \in S /\ \A k \in S : First(S) <= k
<1>1. PICK i \in S : \A k \in S : <<k, i>> \notin OpToRel(<, Nat)
  BY NatLessThanWellFounded, WFMin, Zenon
<1>2. \A k \in S : i <= k
  <2>1. SUFFICES ASSUME NEW k \in S PROVE ~(k < i)
    OBVIOUS
  <2>2. QED
    BY <1>1, Zenon DEF OpToRel
<1>3. QED
  BY <1>2 DEF First

LEMMA RequestIs ==
  ASSUME NEW r \in Request
  PROVE  /\ r = <<r[1], r[2]>>
         /\ r[1] \in Client
         /\ r[2] \in AttemptsOf(r[1])
BY DEF Request

\* What a request delivers.
LEMMA PayloadIs ==
  ASSUME NEW r \in Request, job \in Jobs
  PROVE  /\ Len(Payload(r)) \in Nat
         /\ DOMAIN Payload(r) = 1..Len(Payload(r))
         /\ \A i \in DOMAIN Payload(r) :
              /\ IsRun(Payload(r)[i])
              /\ Payload(r)[i].org = OrgOf(r)
         /\ IsPush(r) =>
              /\ DOMAIN Payload(r) = {1}
              /\ Payload(r)[1].id = JobOf(r).id
              /\ Payload(r)[1].rows = {PushedRow}
         /\ ~IsPush(r) => \A i \in DOMAIN Payload(r) :
              /\ i \in DOMAIN JobOf(r).batch
              /\ Payload(r)[i] = RunOf(JobOf(r).batch[i], r, i)
              /\ \E t : Payload(r)[i].id = <<Payload(r)[i].project, t>>
<1>1. IsJob(JobOf(r))
  BY RequestIs, IngestAssumption DEF JobOf
<1>2. CASE IsPush(r)
  BY <1>2 DEF Payload, IsRun, OrgOf
<1>3. CASE ~IsPush(r)
  <2> DEFINE batch == JobOf(r).batch
  <2>1. JobOf(r).kind = "otlp" /\ DOMAIN batch = 1..Len(batch) /\ Len(batch) \in Nat
    BY <1>1, <1>3 DEF IsJob, IsPush
  <2>2. Payload(r) = [i \in 1..Len(batch) |-> RunOf(batch[i], r, i)]
    BY <1>3, <2>1 DEF Payload
  <2>3. Len(Payload(r)) = Len(batch)
    BY <2>1, <2>2
  <2>4. \A i \in 1..Len(batch) :
          IsRun(RunOf(batch[i], r, i)) /\ RunOf(batch[i], r, i).org = OrgOf(r)
    BY DEF RunOf, IsRun
  <2>5. \A i \in 1..Len(batch) : \E t : RunOf(batch[i], r, i).id = <<RunOf(batch[i], r, i).project, t>>
    BY DEF RunOf, DeterministicId
  <2>6. QED
    BY <1>3, <2>1, <2>2, <2>3, <2>4, <2>5
<1>4. QED
  BY <1>2, <1>3

LEMMA FromIs ==
  ASSUME NEW r \in Request, job \in Jobs, NEW i \in Nat \ {0}
  PROVE  LET left == From(Payload(r), i)
         IN  /\ left \subseteq DOMAIN Payload(r)
             /\ left # {} =>
                  /\ First(left) \in DOMAIN Payload(r)
                  /\ First(left) \in Nat
                  /\ First(left) >= i
                  /\ Payload(r)[First(left)].rows # {}
             /\ \A k \in DOMAIN Payload(r) :
                  k >= i /\ Payload(r)[k].rows # {} => left # {} /\ First(left) <= k
<1> DEFINE left == From(Payload(r), i)
<1>1. left \subseteq DOMAIN Payload(r) /\ left \in SUBSET Nat
  BY PayloadIs DEF From
<1>2. \A k \in left : k >= i /\ Payload(r)[k].rows # {}
  BY PayloadIs DEF From
<1>3. \A k \in DOMAIN Payload(r) : k >= i /\ Payload(r)[k].rows # {} => k \in left
  BY PayloadIs DEF From
<1>4. left # {} => First(left) \in left /\ \A k \in left : First(left) <= k
  BY <1>1, FirstIs
<1> HIDE DEF left
<1>5. QED
  BY <1>1, <1>2, <1>3, <1>4 DEF left
-----------------------------------------------------------------------------
\* Types.

Label == Open \cup {"idle", "queued", "done", "lost"}
Code == {"none", "success", "conflict", "error"}

ClientTyped ==
  /\ client \in [Client -> [at : {"sending", "waiting", "ok", "conflict", "failed"}, attempt : Nat]]
  /\ \A c \in Client : client[c].attempt \in AttemptsOf(c)

OrgsKnown == \A x \in runs : x.org \in {job[c].org : c \in Client}

\* A transaction, in its three parts that change.
IsTx(t) == t = [payload |-> t.payload, next |-> t.next, made |-> t.made, runs |-> t.runs]

LEMMA RetryTyped ==
  ASSUME ClientTyped, NEW c \in Client
  PROVE  /\ Retry(c) \in [at : {"sending", "failed"}, attempt : Nat]
         /\ Retry(c).attempt \in AttemptsOf(c)
         /\ Retry(c).attempt >= client[c].attempt
         /\ Retry(c).at = "sending" => Retry(c).attempt > client[c].attempt
<1>1. MaxRetries[c] \in Nat /\ client[c].attempt \in 1..(MaxRetries[c] + 1)
  BY IngestAssumption DEF ClientTyped, AttemptsOf
<1>2. CASE client[c].attempt <= MaxRetries[c]
  BY <1>1, <1>2 DEF Retry, AttemptsOf
<1>3. CASE ~(client[c].attempt <= MaxRetries[c])
  BY <1>1, <1>3 DEF Retry, AttemptsOf, ClientTyped
<1>4. QED
  BY <1>2, <1>3

\* Clients go on to later attempts only.
ClientsGoOn ==
  \A c \in Client :
    /\ client'[c].attempt >= client[c].attempt
    /\ client'[c].at = "sending" =>
         client'[c] = client[c] \/ client'[c].attempt > client[c].attempt

LEMMA ToldTyped ==
  ASSUME ClientTyped, NEW r \in Request, client' = Told(r)
  PROVE  ClientTyped' /\ ClientsGoOn
<1> DEFINE c == r[1]
<1>1. c \in Client
  BY RequestIs
<1>2. /\ Retry(c) \in [at : {"sending", "failed"}, attempt : Nat]
      /\ Retry(c).attempt \in AttemptsOf(c)
      /\ Retry(c).attempt >= client[c].attempt
      /\ Retry(c).at = "sending" => Retry(c).attempt > client[c].attempt
  BY <1>1, RetryTyped
<1>3. \E to \in {client[c], [client[c] EXCEPT !.at = "ok"], [client[c] EXCEPT !.at = "conflict"], Retry(c)} :
        client' = [client EXCEPT ![c] = to]
  BY DEF Told, ClientTyped
<1>4. PICK to \in {client[c], [client[c] EXCEPT !.at = "ok"], [client[c] EXCEPT !.at = "conflict"], Retry(c)} :
        client' = [client EXCEPT ![c] = to]
  BY <1>3
<1>5. /\ \A d \in Client \ {c} : client'[d] = client[d]
      /\ client'[c] = to
      /\ client[c].attempt \in AttemptsOf(c) /\ client[c].attempt \in Nat
  BY <1>1, <1>4 DEF ClientTyped
<1>6. /\ to.attempt >= client[c].attempt
      /\ to.at = "sending" => to = client[c] \/ to.attempt > client[c].attempt
      /\ to \in [at : {"sending", "waiting", "ok", "conflict", "failed"}, attempt : Nat]
      /\ to.attempt \in AttemptsOf(c)
  BY <1>1, <1>2, <1>5 DEF ClientTyped
<1>7. ClientsGoOn
  BY <1>5, <1>6 DEF ClientsGoOn, ClientTyped
<1>8. QED
  BY <1>1, <1>4, <1>6, <1>7 DEF ClientTyped

LEMMA RecordIsTx ==
  \A p, n, m, s : IsTx([payload |-> p, next |-> n, made |-> m, runs |-> s])
BY DEF IsTx

LEMMA TxParts ==
  ASSUME NEW t, IsTx(t), NEW x
  PROVE  /\ [t EXCEPT !.payload = x] =
              [payload |-> x, next |-> t.next, made |-> t.made, runs |-> t.runs]
         /\ [t EXCEPT !.made = x] =
              [payload |-> t.payload, next |-> t.next, made |-> x, runs |-> t.runs]
         /\ [t EXCEPT !.runs = x] =
              [payload |-> t.payload, next |-> t.next, made |-> t.made, runs |-> x]
<1>1. PICK p, n, m, s : t = [payload |-> p, next |-> n, made |-> m, runs |-> s]
  BY DEF IsTx
<1>2. QED
  BY <1>1

\* What a step of one request has to show.
LEMMA KeepTypes ==
  ASSUME Types, NEW r \in Request, NEW label \in Label, NEW t,
         UNCHANGED <<job, crashes>>,
         pc[r] # "idle", ClientsGoOn,
         pc' = [pc EXCEPT ![r] = label],
         tx' = [tx EXCEPT ![r] = t], IsTx(t),
         code' \in [Request -> Code],
         ClientTyped', OrgsKnown', lost_acks' \subseteq Client,
         Place(r)'
  PROVE  Types'
<1>1. /\ pc'[r] = label /\ tx'[r] = t
      /\ \A q \in Request \ {r} : pc'[q] = pc[q] /\ tx'[q] = tx[q]
      /\ pc' \in [Request -> Label]
  BY DEF Types, TypeOK, Shape, Label
<1>2. Shape'
  BY <1>1 DEF Types, Shape, IsTx
<1>3. \A q \in Request :
        Payload(q)' = Payload(q) /\ IsPush(q)' = IsPush(q) /\ OrgOf(q)' = OrgOf(q)
  BY DEF Payload, IsPush, JobOf, RunOf, OrgOf
<1>4. \A q \in Request \ {r} : Place(q)'
  BY <1>1, <1>3 DEF Types, Place
<1>5. \A q \in Request : pc'[q] \in Handler => tx'[q].next \in DOMAIN tx'[q].payload
  BY <1>4 DEF Place, Open
<1>6. TypeOK'
  BY <1>1, <1>5 DEF Types, TypeOK, Label, Code, ClientTyped, OrgsKnown
<1>7. Ahead'
  <2>1. SUFFICES ASSUME NEW c \in Client, NEW k \in Nat, k \in AttemptsOf(c),
                        k > client'[c].attempt \/ (k = client'[c].attempt /\ client'[c].at = "sending")
                 PROVE  pc'[<<c, k>>] = "idle"
    BY DEF Ahead
  <2>2. client[c].attempt \in Nat /\ client'[c].attempt \in Nat
    BY DEF Types, TypeOK, ClientTyped
  <2>3. k > client[c].attempt \/ (k = client[c].attempt /\ client[c].at = "sending")
    BY <2>1, <2>2 DEF ClientsGoOn
  <2>4. pc[<<c, k>>] = "idle" /\ <<c, k>> \in Request
    BY <2>1, <2>3 DEF Types, Ahead, Request
  <2>5. QED
    BY <1>1, <2>4
<1>8. QED
  BY <1>2, <1>4, <1>6, <1>7 DEF Types

\* The parts of a transaction change one by one.
LEMMA TxIs ==
  ASSUME Types, NEW r \in Request
  PROVE  /\ IsTx(tx[r])
         /\ tx = [tx EXCEPT ![r] = tx[r]]
         /\ \A m : [tx EXCEPT ![r].made = m] =
              [tx EXCEPT ![r] = [tx[r] EXCEPT !.made = m]]
         /\ \A s : [tx EXCEPT ![r].runs = s] =
              [tx EXCEPT ![r] = [tx[r] EXCEPT !.runs = s]]
         /\ \A p : [tx EXCEPT ![r].payload = p] =
              [tx EXCEPT ![r] = [tx[r] EXCEPT !.payload = p]]
BY DEF Types, Shape, IsTx

\* A run without its rows.
LEMMA BareIs ==
  ASSUME NEW x, IsRun(x)
  PROVE  LET bare == [x EXCEPT !.rows = {}]
         IN  IsRun(bare) /\ bare.id = x.id /\ bare.org = x.org /\ bare.project = x.project
             /\ bare.rows = {}
<1>1. PICK i, o, p, s : x = [id |-> i, org |-> o, project |-> p, rows |-> s]
  BY DEF IsRun
<1>2. [x EXCEPT !.rows = {}] = [id |-> i, org |-> o, project |-> p, rows |-> {}]
  BY <1>1
<1>3. QED
  BY <1>1, <1>2 DEF IsRun

LEMMA CurrentIs ==
  ASSUME Types, NEW r \in Request, pc[r] \in Handler
  PROVE  /\ tx[r].payload = Payload(r)
         /\ tx[r].next \in DOMAIN Payload(r)
         /\ tx[r].next \in Nat \ {0}
         /\ Current(r) = Payload(r)[tx[r].next]
         /\ IsRun(Current(r))
         /\ Current(r).org = OrgOf(r)
<1>1. job \in Jobs
  BY DEF Types, TypeOK
<1>2. tx[r].payload = Payload(r) /\ tx[r].next \in DOMAIN Payload(r)
  BY DEF Types, Place, Open
<1>3. QED
  BY <1>1, <1>2, PayloadIs DEF Current

\* A step that changes nothing but its request.
LEMMA QuietTypes ==
  ASSUME Types, NEW r \in Request, NEW label \in Label, NEW t,
         Unchanged, pc[r] # "idle",
         pc' = [pc EXCEPT ![r] = label],
         tx' = [tx EXCEPT ![r] = t], IsTx(t),
         code' \in [Request -> Code],
         Place(r)'
  PROVE  Types'
<1>1. ClientTyped' /\ OrgsKnown' /\ lost_acks' \subseteq Client
  BY DEF Types, TypeOK, Unchanged, database, ClientTyped, OrgsKnown
<1>2. UNCHANGED <<job, crashes>>
  BY DEF Unchanged
<1>3. ClientsGoOn
  BY <1>1 DEF Unchanged, ClientsGoOn, ClientTyped
<1>4. QED
  BY <1>1, <1>2, <1>3, KeepTypes

\* The coroutine goes on.
LEMMA TurnTypes ==
  ASSUME Types, NEW r \in Request, ~IsPush(r), NEW i \in Nat \ {0}, NEW stored,
         \A x \in stored : IsRun(x) /\ x.org = OrgOf(r),
         Turn(r, Payload(r), i, stored),
         Unchanged, pc[r] # "idle",
         code' \in [Request -> Code]
  PROVE  Types'
<1> DEFINE left == From(Payload(r), i)
           label == IF left = {} THEN "reply" ELSE "already"
           t == [payload |-> Payload(r), next |-> IF left = {} THEN i ELSE First(left),
                 made |-> tx[r].made, runs |-> stored]
<1>1. tx' = [tx EXCEPT ![r] = t] /\ pc' = [pc EXCEPT ![r] = label]
  BY DEF Turn, Types, Shape
<1>2. pc'[r] = label /\ tx'[r] = t
  BY <1>1 DEF Types, TypeOK, Shape
<1>3. job \in Jobs /\ job' = job
  BY DEF Types, TypeOK, Unchanged
<1>4. left # {} => First(left) \in DOMAIN Payload(r)
  BY <1>3, FromIs
<1> HIDE DEF left
<1>5. /\ Payload(r)' = Payload(r)
      /\ IsPush(r)' = IsPush(r)
      /\ OrgOf(r)' = OrgOf(r)
  BY <1>3 DEF Payload, IsPush, JobOf, RunOf, OrgOf
<1>6. Place(r)'
  BY <1>2, <1>4, <1>5 DEF Place, Open, Handler
<1>7. label \in Label /\ IsTx(t)
  BY DEF Label, Open, Handler, IsTx
<1>8. QED
  BY <1>1, <1>6, <1>7, QuietTypes

\* Requests of the handlers that only go to another statement.
LEMMA GotoTypes ==
  ASSUME Types, NEW r \in Request, pc[r] \in Handler,
         NEW label \in Handler \cup {"reply", "refuse"},
         pc' = [pc EXCEPT ![r] = label],
         UNCHANGED tx, Unchanged,
         code' \in [Request -> Code],
         IsPush(r) =>
           /\ label # "already"
           /\ label \in {"project", "new_project", "existing", "persist"} =>
                pc[r] \in {"project", "new_project", "existing", "persist"},
         ~IsPush(r) => label # "existing"
  PROVE  Types'
<1>1. IsTx(tx[r]) /\ tx' = [tx EXCEPT ![r] = tx[r]]
  BY TxIs
<1>2. pc'[r] = label /\ tx'[r] = tx[r]
  BY DEF Types, TypeOK
<1>3. /\ Payload(r)' = Payload(r)
      /\ IsPush(r)' = IsPush(r)
      /\ OrgOf(r)' = OrgOf(r)
  BY DEF Payload, IsPush, JobOf, RunOf, OrgOf, Unchanged
<1>4. Place(r)
  BY DEF Types
<1>5. Place(r)'
  BY <1>2, <1>3, <1>4 DEF Place, Open
<1>6. label \in Label /\ pc[r] # "idle"
  BY DEF Label, Open, Handler
<1>7. QED
  BY <1>1, <1>5, <1>6, QuietTypes

LEMMA CodeTyped ==
  ASSUME Types, NEW r \in Request, NEW c \in Code
  PROVE  code \in [Request -> Code] /\ [code EXCEPT ![r] = c] \in [Request -> Code]
BY DEF Types, TypeOK, Code

\* Every action keeps the types.
LEMMA StartTypes ==
  ASSUME Types, NEW r \in Request, Start(r)
  PROVE  Types'
<1>1. tx[r] = NoTx /\ job \in Jobs /\ pc[r] # "idle"
  BY DEF Start, Types, TypeOK, Place, Open, Handler
<1>2. code' \in [Request -> Code]
  BY CodeTyped DEF Start, Code
<1>3. CASE IsPush(r)
  <2> DEFINE t == [payload |-> Payload(r), next |-> 1, made |-> {}, runs |-> {}]
  <2>1. /\ pc' = [pc EXCEPT ![r] = "project"]
        /\ tx' = [tx EXCEPT ![r] = [tx[r] EXCEPT !.payload = Payload(r)]]
    <3>1. pc' = [pc EXCEPT ![r] = "project"] /\ tx' = [tx EXCEPT ![r].payload = Payload(r)]
      BY <1>3 DEF Start
    <3>2. [tx EXCEPT ![r].payload = Payload(r)] =
            [tx EXCEPT ![r] = [tx[r] EXCEPT !.payload = Payload(r)]]
      BY TxIs
    <3>3. QED
      BY <3>1, <3>2
  <2>2. IsTx(t) /\ [tx[r] EXCEPT !.payload = Payload(r)] = t
    <3>1. IsTx(t)
      BY RecordIsTx
    <3>2. IsTx(tx[r]) /\ tx[r].next = 1 /\ tx[r].made = {} /\ tx[r].runs = {}
      BY <1>1, TxIs DEF NoTx
    <3>3. [tx[r] EXCEPT !.payload = Payload(r)] = t
      <4>1. [tx[r] EXCEPT !.payload = Payload(r)] =
              [payload |-> Payload(r), next |-> tx[r].next, made |-> tx[r].made, runs |-> tx[r].runs]
        BY <3>2, TxParts, Zenon
      <4>2. QED
        BY <3>2, <4>1
    <3>4. QED
      BY <3>1, <3>3
  <2>3. pc'[r] = "project" /\ tx'[r] = t
    BY <2>1, <2>2 DEF Types, TypeOK, Shape
  <2>4. /\ Payload(r)' = Payload(r)
        /\ IsPush(r)' = IsPush(r)
    BY DEF Payload, IsPush, JobOf, RunOf, OrgOf, Start, Unchanged
  <2>5. 1 \in DOMAIN Payload(r)
    BY <1>1, <1>3, PayloadIs
  <2>6. Place(r)'
    BY <1>3, <2>2, <2>3, <2>4, <2>5 DEF Place, Open, Handler
  <2>7. Unchanged /\ "project" \in Label
    BY DEF Start, Label, Open, Handler
  <2>8. QED
    BY <1>1, <1>2, <2>1, <2>2, <2>6, <2>7, QuietTypes
<1>4. CASE ~IsPush(r)
  <2>1. Turn(r, Payload(r), 1, {}) /\ Unchanged
    BY <1>4 DEF Start
  <2>2. QED
    BY <1>1, <1>2, <1>4, <2>1, TurnTypes
<1>5. QED
  BY <1>3, <1>4

LEMMA ProjectTypes ==
  ASSUME Types, NEW r \in Request,
         SelectProject(r) \/ ProjectTaken(r) \/ InsertProject(r)
  PROVE  Types'
<1>1. PICK label \in {"new_project", "existing", "persist"} :
        /\ pc' = [pc EXCEPT ![r] = label]
        /\ label = "existing" => IsPush(r)
  BY DEF SelectProject, ProjectTaken, InsertProject, Found
<1>2. /\ pc[r] \in {"project", "new_project"}
      /\ Unchanged
      /\ code' \in [Request -> Code]
  BY CodeTyped DEF SelectProject, ProjectTaken, InsertProject, Code
<1>3. CASE SelectProject(r) \/ ProjectTaken(r)
  BY <1>1, <1>2, <1>3, GotoTypes DEF SelectProject, ProjectTaken, Handler
<1>4. CASE InsertProject(r)
  <2> DEFINE made == tx[r].made \cup {ProjectOf(r)}
             t == [payload |-> tx[r].payload, next |-> tx[r].next, made |-> made, runs |-> tx[r].runs]
  <2>1. tx' = [tx EXCEPT ![r] = t] /\ IsTx(t)
    <3>1. tx' = [tx EXCEPT ![r] = [tx[r] EXCEPT !.made = made]]
      BY <1>4, TxIs DEF InsertProject
    <3> HIDE DEF made
    <3>2. [tx[r] EXCEPT !.made = made] = t
      BY TxIs, TxParts
    <3>3. QED
      BY <3>1, <3>2, RecordIsTx
  <2>2. pc'[r] = label /\ tx'[r] = t
    BY <1>1, <2>1 DEF Types, TypeOK, Shape
  <2>3. t.payload = tx[r].payload /\ t.next = tx[r].next /\ t.runs = tx[r].runs
    OBVIOUS
  <2>4. /\ Payload(r)' = Payload(r)
        /\ IsPush(r)' = IsPush(r)
        /\ OrgOf(r)' = OrgOf(r)
    BY <1>2 DEF Payload, IsPush, JobOf, RunOf, OrgOf, Unchanged
  <2>5. Place(r)
    BY DEF Types
  <2> HIDE DEF t
  <2>6. Place(r)'
    BY <1>1, <1>2, <2>2, <2>3, <2>4, <2>5 DEF Place, Open, Handler
  <2>7. label \in Label
    BY DEF Label, Open, Handler
  <2>8. QED
    BY <1>1, <1>2, <2>1, <2>6, <2>7, QuietTypes
<1>5. QED
  BY <1>3, <1>4

LEMMA SelectTypes ==
  ASSUME Types, NEW r \in Request, SelectExisting(r) \/ SelectAlready(r)
  PROVE  Types'
<1>1. CASE SelectExisting(r)
  <2>1. /\ pc[r] = "existing" /\ Unchanged /\ UNCHANGED tx
        /\ code' \in [Request -> Code]
        /\ \E label \in {"persist", "reply", "refuse"} : pc' = [pc EXCEPT ![r] = label]
    BY <1>1, CodeTyped DEF SelectExisting, Code
  <2>2. QED
    BY <2>1, GotoTypes DEF Handler
<1>2. CASE SelectAlready(r)
  <2>1. pc[r] = "already" /\ Unchanged /\ code' \in [Request -> Code] /\ ~IsPush(r)
    BY <1>2, CodeTyped DEF SelectAlready, Types, Place, Code
  <2>2. CASE UNCHANGED tx /\ pc' = [pc EXCEPT ![r] = "project"]
    BY <2>1, <2>2, GotoTypes DEF Handler
  <2>3. CASE Advance(r, tx[r].runs)
    <3>1. /\ tx[r].payload = Payload(r) /\ tx[r].next + 1 \in Nat \ {0}
          /\ \A x \in tx[r].runs : IsRun(x) /\ x.org = OrgOf(r)
      BY <2>1, CurrentIs DEF Types, Place, Handler
    <3>2. QED
      BY <2>1, <2>3, <3>1, TurnTypes DEF Advance
  <2>4. QED
    BY <1>2, <2>2, <2>3 DEF SelectAlready
<1>3. QED
  BY <1>1, <1>2

LEMMA PersistRunTypes ==
  ASSUME Types, NEW r \in Request, PersistRun(r)
  PROVE  Types'
<1> DEFINE bare == [Current(r) EXCEPT !.rows = {}]
           stored == tx[r].runs \cup {bare}
           t == [payload |-> tx[r].payload, next |-> tx[r].next, made |-> tx[r].made, runs |-> stored]
<1>1. pc[r] \in Handler /\ pc[r] = "persist" /\ Unchanged
      /\ pc' = [pc EXCEPT ![r] = "rows"] /\ code' \in [Request -> Code]
  BY CodeTyped DEF PersistRun, Handler, Code
<1>2. IsRun(bare) /\ bare.org = OrgOf(r)
  BY <1>1, CurrentIs, BareIs
<1>3. tx' = [tx EXCEPT ![r] = t] /\ IsTx(t)
  <2>1. tx' = [tx EXCEPT ![r] = [tx[r] EXCEPT !.runs = stored]]
    BY TxIs DEF PersistRun
  <2> HIDE DEF stored
  <2>2. [tx[r] EXCEPT !.runs = stored] = t
    BY TxIs, TxParts
  <2>3. QED
    BY <2>1, <2>2, RecordIsTx
<1>4. pc'[r] = "rows" /\ tx'[r] = t
  BY <1>1, <1>3 DEF Types, TypeOK, Shape
<1>5. /\ Payload(r)' = Payload(r)
      /\ IsPush(r)' = IsPush(r)
      /\ OrgOf(r)' = OrgOf(r)
  BY <1>1 DEF Payload, IsPush, JobOf, RunOf, OrgOf, Unchanged
<1>6. Place(r)
  BY DEF Types
<1>7. \A x \in stored : IsRun(x) /\ x.org = OrgOf(r)
  BY <1>2, <1>6 DEF Place
<1> HIDE DEF stored
<1>8. Place(r)'
  BY <1>1, <1>4, <1>5, <1>6, <1>7 DEF Place, Open, Handler
<1>9. "rows" \in Label
  BY DEF Label, Open, Handler
<1>10. QED
  BY <1>1, <1>3, <1>8, <1>9, QuietTypes

LEMMA PersistRowsTypes ==
  ASSUME Types, NEW r \in Request, PersistRows(r)
  PROVE  Types'
<1> DEFINE others == {x \in tx[r].runs : ~SameKey(x, Current(r))}
<1>1. pc[r] \in Handler /\ pc[r] # "idle" /\ Unchanged /\ code' \in [Request -> Code]
  BY CodeTyped DEF PersistRows, Handler, Code
<1>2. IsRun(Current(r)) /\ Current(r).org = OrgOf(r)
  BY <1>1, CurrentIs
<1>3. \A x \in others \cup {Current(r)} : IsRun(x) /\ x.org = OrgOf(r)
  BY <1>2 DEF Types, Place
<1>4. CASE IsPush(r)
  <2> DEFINE t == [payload |-> tx[r].payload, next |-> tx[r].next, made |-> tx[r].made,
                   runs |-> {Current(r)}]
  <2>1. pc' = [pc EXCEPT ![r] = "reply"] /\ tx' = [tx EXCEPT ![r] = [tx[r] EXCEPT !.runs = {Current(r)}]]
    BY <1>4, TxIs DEF PersistRows
  <2>2. tx' = [tx EXCEPT ![r] = t] /\ IsTx(t)
    <3>1. [tx[r] EXCEPT !.runs = {Current(r)}] = t
      BY TxIs, TxParts
    <3>2. QED
      BY <2>1, <3>1, RecordIsTx
  <2>3. pc'[r] = "reply" /\ tx'[r] = t
    BY <2>1, <2>2 DEF Types, TypeOK, Shape
  <2>4. /\ Payload(r)' = Payload(r)
        /\ IsPush(r)' = IsPush(r)
        /\ OrgOf(r)' = OrgOf(r)
    BY <1>1 DEF Payload, IsPush, JobOf, RunOf, OrgOf, Unchanged
  <2>5. tx[r].payload = Payload(r)
    BY <1>1, CurrentIs
  <2>6. Place(r)'
    BY <1>2, <1>4, <2>3, <2>4, <2>5 DEF Place, Open, Handler
  <2>7. "reply" \in Label
    BY DEF Label, Open
  <2>8. QED
    BY <1>1, <2>1, <2>2, <2>6, <2>7, QuietTypes
<1>5. CASE ~IsPush(r)
  <2>1. Advance(r, others \cup {Current(r)})
    BY <1>5 DEF PersistRows
  <2>2. tx[r].payload = Payload(r) /\ tx[r].next + 1 \in Nat \ {0}
    BY <1>1, CurrentIs
  <2>3. QED
    BY <1>1, <1>3, <1>5, <2>1, <2>2, TurnTypes DEF Advance
<1>6. QED
  BY <1>4, <1>5

LEMMA RaiseTypes ==
  ASSUME Types, NEW r \in Request, PersistRefused(r) \/ Fault(r) \/ DeadlockVictim(r)
  PROVE  Types'
<1>1. pc[r] \in Handler
  BY DEF PersistRefused, Fault, DeadlockVictim, WaitsFor, Handler
<1>2. \E c \in Code : Raise(r, c)
  BY DEF PersistRefused, Fault, DeadlockVictim, Code
<1>3. /\ pc' = [pc EXCEPT ![r] = "refuse"] /\ UNCHANGED tx /\ Unchanged
      /\ code' \in [Request -> Code]
  BY <1>2, CodeTyped DEF Raise
<1>4. QED
  BY <1>1, <1>3, GotoTypes DEF Handler

\* What a finished request leaves.
LEMMA NoTxIs == IsTx(NoTx) /\ NoTx.runs = {}
BY DEF NoTx, IsTx

LEMMA EndTypes ==
  ASSUME Types, NEW r \in Request, Reply(r) \/ Commit(r) \/ Refuse(r)
  PROVE  Types'
<1>1. /\ UNCHANGED <<job, crashes, lost_acks, code>> /\ code' \in [Request -> Code]
      /\ pc[r] # "idle"
  BY CodeTyped DEF Reply, Commit, Refuse, Code
<1>2. ClientTyped
  BY DEF Types, TypeOK, ClientTyped
<1>3. ClientTyped' /\ ClientsGoOn
  <2>1. CASE Commit(r)
    BY <1>2, <2>1 DEF Commit, ClientTyped, ClientsGoOn
  <2>2. CASE Reply(r) \/ Refuse(r)
    BY <1>2, <2>2, ToldTyped DEF Reply, Refuse
  <2>3. QED
    BY <2>1, <2>2
<1>4. Place(r)
  BY DEF Types
<1>5. OrgsKnown'
  <2>1. \A x \in tx[r].runs : x.org \in {job[c].org : c \in Client}
    BY <1>4, RequestIs DEF Place, OrgOf, JobOf
  <2>2. \A x \in runs' : x \in runs \/ x \in tx[r].runs
    BY DEF Reply, Commit, Refuse, database
  <2>3. QED
    BY <1>1, <2>1, <2>2 DEF OrgsKnown, Types, TypeOK
<1>6. /\ Payload(r)' = Payload(r)
      /\ IsPush(r)' = IsPush(r)
      /\ OrgOf(r)' = OrgOf(r)
  BY <1>1 DEF Payload, IsPush, JobOf, RunOf, OrgOf
<1>7. lost_acks' \subseteq Client
  BY <1>1 DEF Types, TypeOK
<1>8. CASE Reply(r)
  <2>1. pc[r] = "reply" /\ pc' = [pc EXCEPT ![r] = "commit"] /\ tx' = tx
    BY <1>8 DEF Reply
  <2>2. pc'[r] = "commit"
    BY <2>1 DEF Types, TypeOK
  <2>3. Place(r)'
    BY <1>4, <1>6, <2>1, <2>2 DEF Place, Open, Handler
  <2>4. tx' = [tx EXCEPT ![r] = tx[r]] /\ IsTx(tx[r]) /\ "commit" \in Label
    BY <2>1, TxIs DEF Label, Open
  <2>5. QED
    BY <1>1, <1>3, <1>5, <1>7, <2>1, <2>3, <2>4, KeepTypes
<1>9. CASE Commit(r) \/ Refuse(r)
  <2>1. pc' = [pc EXCEPT ![r] = "done"] /\ tx' = [tx EXCEPT ![r] = NoTx]
    BY <1>9 DEF Commit, Refuse
  <2>2. pc'[r] = "done" /\ tx'[r] = NoTx
    BY <2>1 DEF Types, TypeOK, Shape
  <2>3. Place(r)'
    BY <1>6, <2>2, NoTxIs DEF Place, Open, Handler
  <2>4. "done" \in Label
    BY DEF Label
  <2>5. QED
    BY <1>1, <1>3, <1>5, <1>7, <2>1, <2>3, <2>4, NoTxIs, KeepTypes
<1>10. QED
  BY <1>8, <1>9

LEMMA ClientTypes ==
  ASSUME Types, NEW c \in Client,
         Unreachable(c) \/ Send(c) \/ GatewayError(c) \/ ConnectionLost(c)
  PROVE  Types'
<1>1. ClientTyped
  BY DEF Types, TypeOK, ClientTyped
<1>2. /\ Retry(c) \in [at : {"sending", "failed"}, attempt : Nat]
      /\ Retry(c).attempt \in AttemptsOf(c)
      /\ Retry(c).attempt >= client[c].attempt
      /\ Retry(c).at = "sending" => Retry(c).attempt > client[c].attempt
  BY <1>1, RetryTyped
<1>3. client[c].attempt \in Nat /\ client[c].attempt \in AttemptsOf(c)
  BY <1>1 DEF ClientTyped
<1>4. PICK to : client' = [client EXCEPT ![c] = to] /\ to \in
        {Retry(c), [client[c] EXCEPT !.at = "failed"], [client[c] EXCEPT !.at = "waiting"]}
  BY DEF Unreachable, Send, GatewayError, ConnectionLost
<1>5. /\ to \in [at : {"sending", "waiting", "failed"}, attempt : Nat]
      /\ to.attempt \in AttemptsOf(c)
      /\ to.attempt >= client[c].attempt
      /\ to.at = "sending" => to.attempt > client[c].attempt
  BY <1>1, <1>2, <1>3, <1>4 DEF ClientTyped
<1>6. client'[c] = to /\ \A d \in Client \ {c} : client'[d] = client[d]
  BY <1>1, <1>4 DEF ClientTyped
<1>7. ClientTyped' /\ ClientsGoOn
  BY <1>1, <1>4, <1>5, <1>6 DEF ClientTyped, ClientsGoOn
<1>8. UNCHANGED <<job, database, tx, code, lost_acks, crashes>>
  BY DEF Unreachable, Send, GatewayError, ConnectionLost, request
<1>9. \A q \in Request :
        Payload(q)' = Payload(q) /\ IsPush(q)' = IsPush(q) /\ OrgOf(q)' = OrgOf(q)
  BY <1>8 DEF Payload, IsPush, JobOf, RunOf, OrgOf
<1>10. /\ pc' \in [Request -> Label]
       /\ \A q \in Request : pc'[q] = pc[q] \/ (pc[q] = "idle" /\ pc'[q] = "queued")
       /\ \A q \in Request : pc'[q] # pc[q] =>
            q = <<c, client[c].attempt>> /\ to.at = "waiting" /\ to.attempt = client[c].attempt
  <2>1. CASE UNCHANGED pc
    BY <2>1 DEF Types, TypeOK, Label
  <2>2. CASE Send(c)
    <3> DEFINE r == <<c, client[c].attempt>>
    <3>1. pc' = [pc EXCEPT ![r] = "queued"] /\ client[c].at = "sending"
          /\ client' = [client EXCEPT ![c].at = "waiting"]
      BY <2>2 DEF Send
    <3>2. pc[r] = "idle" /\ r \in Request
      BY <1>3, <3>1 DEF Types, Ahead, Request
    <3>3. to.at = "waiting" /\ to.attempt = client[c].attempt
      BY <1>1, <1>6, <3>1 DEF ClientTyped
    <3>4. pc \in [Request -> Label]
      BY DEF Types, TypeOK, Label
    <3> HIDE DEF r
    <3>5. QED
      BY <3>1, <3>2, <3>3, <3>4 DEF Label, r
  <2>3. QED
    BY <2>1, <2>2 DEF Unreachable, GatewayError, ConnectionLost, request
<1>11. Ahead'
  <2>1. SUFFICES ASSUME NEW d \in Client, NEW k \in Nat, k \in AttemptsOf(d),
                        k > client'[d].attempt \/ (k = client'[d].attempt /\ client'[d].at = "sending")
                 PROVE  pc'[<<d, k>>] = "idle"
    BY DEF Ahead
  <2>2. client[d].attempt \in Nat /\ client'[d].attempt \in Nat
    BY <1>1, <1>7 DEF ClientTyped
  <2>3. k > client[d].attempt \/ (k = client[d].attempt /\ client[d].at = "sending")
    BY <1>7, <2>1, <2>2 DEF ClientsGoOn
  <2>4. pc[<<d, k>>] = "idle" /\ <<d, k>> \in Request
    BY <2>1, <2>3 DEF Types, Ahead, Request
  <2>5. CASE d = c
    BY <1>6, <1>10, <2>1, <2>2, <2>4, <2>5
  <2>6. CASE d # c
    BY <1>10, <2>4, <2>6
  <2>7. QED
    BY <2>5, <2>6
<1>12. Shape'
  BY <1>8 DEF Types, Shape
<1>13. \A q \in Request : Place(q)'
  BY <1>8, <1>9, <1>10 DEF Types, Place, Open, Handler
<1>14. TypeOK'
  <2>1. \A q \in Request : pc'[q] \in Handler => pc'[q] = pc[q]
    BY <1>10 DEF Handler
  <2>2. QED
    BY <1>7, <1>8, <1>10, <2>1 DEF Types, TypeOK, ClientTyped, Label, database
<1>15. QED
  BY <1>11, <1>12, <1>13, <1>14 DEF Types

LEMMA CrashTypes ==
  ASSUME Types, NEW w \in Worker, Crash(w)
  PROVE  Types'
<1> DEFINE dead == {r \in Request : WorkerOf[r] = w /\ pc[r] \in Open \cup {"queued"}}
<1>1. /\ pc' = [r \in Request |-> IF r \in dead THEN "lost" ELSE pc[r]]
      /\ tx' = [r \in Request |-> IF r \in dead THEN NoTx ELSE tx[r]]
      /\ UNCHANGED <<job, client, database, code>>
      /\ crashes < MaxCrashes /\ crashes' = crashes + 1
      /\ lost_acks' \subseteq lost_acks \cup Client
  BY DEF Crash
<1>2. \A q \in Request :
        Payload(q)' = Payload(q) /\ IsPush(q)' = IsPush(q) /\ OrgOf(q)' = OrgOf(q)
  BY <1>1 DEF Payload, IsPush, JobOf, RunOf, OrgOf
<1>3. \A q \in Request :
        \/ pc'[q] = "lost" /\ tx'[q] = NoTx /\ pc[q] # "idle"
        \/ pc'[q] = pc[q] /\ tx'[q] = tx[q]
  BY <1>1 DEF Open, Handler
<1>4. Shape'
  <2> HIDE DEF dead
  <2>1. \A q \in Request : IsTx(tx'[q])
    BY <1>3, NoTxIs, TxIs
  <2>2. QED
    BY <1>1, <2>1 DEF Shape, IsTx
<1>5. \A q \in Request : Place(q)'
  BY <1>2, <1>3, NoTxIs DEF Types, Place, Open, Handler
<1>6. Ahead'
  <2>1. \A q \in Request : pc[q] = "idle" => pc'[q] = "idle"
    BY <1>3
  <2>2. \A c \in Client : \A k \in AttemptsOf(c) : <<c, k>> \in Request
    BY DEF Request
  <2>3. Ahead /\ client' = client
    BY <1>1 DEF Types
  <2> HIDE DEF dead
  <2>4. QED
    BY <2>1, <2>2, <2>3 DEF Ahead
<1>7. TypeOK'
  <2>1. crashes' \in 0..MaxCrashes
    BY <1>1, IngestAssumption DEF Types, TypeOK
  <2>2. \A q \in Request : pc'[q] \in Handler => tx'[q].next \in DOMAIN tx'[q].payload
    BY <1>3 DEF Types, TypeOK, Handler
  <2>3. pc' \in [Request -> Label]
    <3> HIDE DEF dead
    <3>1. QED
      BY <1>1 DEF Types, TypeOK, Label
  <2>4. QED
    BY <1>1, <2>1, <2>2, <2>3 DEF Types, TypeOK, Label, database
<1>8. QED
  BY <1>4, <1>5, <1>6, <1>7 DEF Types

LEMMA InitTypes ==
  ASSUME Init
  PROVE  Types
<1>1. Shape /\ \A r \in Request : Place(r)
  BY NoTxIs DEF Init, Shape, Place, Open, Handler, IsTx
<1>2. TypeOK
  BY IngestAssumption DEF Init, TypeOK, AttemptsOf, Open, Handler
<1>3. Ahead
  BY DEF Init, Ahead, Request
<1>4. QED
  BY <1>1, <1>2, <1>3 DEF Types

LEMMA NextTypes ==
  ASSUME Types, [Next]_vars
  PROVE  Types'
<1>1. CASE UNCHANGED vars
  <2>1. \A q \in Request :
          Payload(q)' = Payload(q) /\ IsPush(q)' = IsPush(q) /\ OrgOf(q)' = OrgOf(q)
    BY <1>1 DEF Payload, IsPush, JobOf, RunOf, OrgOf, vars
  <2>2. \A q \in Request : Place(q)'
    BY <1>1, <2>1 DEF Types, Place, vars, request
  <2>3. QED
    BY <1>1, <2>2 DEF Types, TypeOK, Shape, Ahead, vars, request, database
<1>2. ASSUME NEW c \in Client,
             Unreachable(c) \/ Send(c) \/ GatewayError(c) \/ ConnectionLost(c)
      PROVE  Types'
  BY <1>2, ClientTypes
<1>3. ASSUME NEW r \in Request, Serve(r) \/ Fault(r)
      PROVE  Types'
  BY <1>3, StartTypes, ProjectTypes, SelectTypes, PersistRunTypes, PersistRowsTypes,
     RaiseTypes, EndTypes DEF Serve
<1>4. ASSUME NEW w \in Worker, Crash(w)
      PROVE  Types'
  BY <1>4, CrashTypes
<1>5. QED
  BY <1>1, <1>2, <1>3, <1>4 DEF Next, AllDone

-----------------------------------------------------------------------------
\* What is staged and stored.

Once(S) == \A x, y \in S : x.id = y.id => x = y

Bare(r) == [Current(r) EXCEPT !.rows = {}]

\* What a request has staged: runs of its payload with new ids, of which the
\* current one may still be without rows.
Staged(r) ==
  /\ Once(tx[r].runs)
  /\ \A x \in tx[r].runs, y \in runs : x.id # y.id
  /\ pc[r] \in Handler => Current(r).rows # {}
  /\ pc[r] \in {"project", "new_project", "existing", "persist"} =>
       \A x \in tx[r].runs : x.id # Current(r).id
  /\ pc[r] = "rows" => Bare(r) \in tx[r].runs
  /\ pc[r] \in Open \ {"refuse"} => \A x \in tx[r].runs :
       \/ x.rows # {} /\ \E i \in DOMAIN Payload(r) : x = Payload(r)[i]
       \/ pc[r] = "rows" /\ x = Bare(r)

Fresh ==
  /\ Once(runs)
  /\ \A x \in runs :
       x.rows # {} /\ \E q \in Request : \E i \in DOMAIN Payload(q) : x = Payload(q)[i]
  /\ \A r \in Request : Staged(r)
  /\ \A q, r \in Request : q # r => \A x \in tx[q].runs, y \in tx[r].runs : x.id # y.id

\* A step of a request leaves the others alone.
LEMMA Apart ==
  ASSUME Types, NEW r \in Request, Serve(r) \/ Fault(r)
  PROVE  /\ job' = job
         /\ \A q \in Request \ {r} : pc'[q] = pc[q] /\ tx'[q] = tx[q] /\ code'[q] = code[q]
         /\ \A q \in Request :
              Payload(q)' = Payload(q) /\ IsPush(q)' = IsPush(q) /\ OrgOf(q)' = OrgOf(q)
<1> USE DEF Types, TypeOK, Shape
<1>1. job' = job
  BY DEF Serve, Start, SelectProject, InsertProject, ProjectTaken, SelectExisting, SelectAlready,
     PersistRun, PersistRows, PersistRefused, DeadlockVictim, Fault, Raise, Reply, Commit, Refuse,
     Unchanged
<1>2. \A q \in Request \ {r} : pc'[q] = pc[q]
  BY DEF Serve, Start, SelectProject, InsertProject, ProjectTaken, SelectExisting, SelectAlready,
     PersistRun, PersistRows, PersistRefused, DeadlockVictim, Fault, Raise, Reply, Commit, Refuse,
     Found, Advance, Turn
<1>3. \A q \in Request \ {r} : tx'[q] = tx[q]
  BY DEF Serve, Start, SelectProject, InsertProject, ProjectTaken, SelectExisting, SelectAlready,
     PersistRun, PersistRows, PersistRefused, DeadlockVictim, Fault, Raise, Reply, Commit, Refuse,
     Found, Advance, Turn
<1>4. \A q \in Request \ {r} : code'[q] = code[q]
  BY DEF Serve, Start, SelectProject, InsertProject, ProjectTaken, SelectExisting, SelectAlready,
     PersistRun, PersistRows, PersistRefused, DeadlockVictim, Fault, Raise, Reply, Commit, Refuse
<1>5. \A q \in Request :
        Payload(q)' = Payload(q) /\ IsPush(q)' = IsPush(q) /\ OrgOf(q)' = OrgOf(q)
  BY <1>1 DEF Payload, IsPush, JobOf, RunOf, OrgOf
<1>6. QED
  BY <1>1, <1>2, <1>3, <1>4, <1>5

\* What such a step has to show.
LEMMA KeepFresh ==
  ASSUME Types, Fresh, NEW r \in Request, Serve(r) \/ Fault(r), runs' = runs,
         Staged(r)',
         \A x \in tx'[r].runs :
           \/ \E y \in tx[r].runs : x.id = y.id
           \/ \A q \in Request \ {r} : \A y \in tx[q].runs : x.id # y.id
  PROVE  Fresh'
<1>1. \A q \in Request \ {r} : pc'[q] = pc[q] /\ tx'[q] = tx[q] /\ Payload(q)' = Payload(q)
  BY Apart
<1>2. \A q \in Request \ {r} : Staged(q)'
  <2>1. SUFFICES ASSUME NEW q \in Request \ {r} PROVE Staged(q)'
    OBVIOUS
  <2>2. Current(q)' = Current(q) /\ Bare(q)' = Bare(q)
    BY <1>1 DEF Current, Bare
  <2>3. Staged(q)
    BY DEF Fresh
  <2>4. Once(tx[q].runs)'
    BY <1>1, <2>3 DEF Staged, Once
  <2>5. QED
    BY <1>1, <2>2, <2>3, <2>4 DEF Staged
<1>3. \A q \in Request \ {r} : \A x \in tx'[r].runs, y \in tx'[q].runs : x.id # y.id
  BY <1>1 DEF Fresh
<1>4. \A q, p \in Request : q # p => \A x \in tx'[q].runs, y \in tx'[p].runs : x.id # y.id
  BY <1>1, <1>3 DEF Fresh
<1>5. \A x \in runs' : x.rows # {} /\ \E q \in Request : \E i \in DOMAIN Payload(q)' : x = Payload(q)'[i]
  BY Apart DEF Fresh
<1>6. Once(runs)'
  BY DEF Fresh, Once
<1>7. QED
  BY <1>2, <1>4, <1>5, <1>6 DEF Fresh

\* Steps that stage nothing.
LEMMA SameFresh ==
  ASSUME Types, Fresh, NEW r \in Request, Serve(r) \/ Fault(r), runs' = runs,
         tx'[r].runs = tx[r].runs, tx'[r].payload = tx[r].payload, tx'[r].next = tx[r].next,
         \/ /\ pc[r] \in Handler \ {"already", "rows"}
            /\ pc'[r] \in {"project", "new_project", "existing", "persist", "reply"}
         \/ pc'[r] = "refuse"
         \/ pc[r] = "reply" /\ pc'[r] = "commit"
         \/ /\ pc[r] = "already" /\ pc'[r] = "project"
            /\ \A x \in tx[r].runs : x.id # Current(r).id
  PROVE  Fresh'
<1>1. Current(r)' = Current(r) /\ Bare(r)' = Bare(r) /\ Payload(r)' = Payload(r)
  BY Apart DEF Current, Bare
<1>2. Staged(r)
  BY DEF Fresh
<1>3. Once(tx[r].runs)'
  BY <1>2 DEF Staged, Once
<1>4. Staged(r)'
  BY <1>1, <1>2, <1>3 DEF Staged, Open, Handler
<1>5. QED
  BY <1>4, KeepFresh

LEMMA TurnFresh ==
  ASSUME Types, Fresh, NEW r \in Request, Serve(r) \/ Fault(r), runs' = runs, ~IsPush(r),
         NEW i \in Nat \ {0}, NEW stored,
         Turn(r, Payload(r), i, stored),
         Once(stored),
         \A x \in stored :
           /\ \E y \in tx[r].runs : x.id = y.id
           /\ x.rows # {} /\ \E k \in DOMAIN Payload(r) : x = Payload(r)[k]
  PROVE  Fresh'
<1> DEFINE left == From(Payload(r), i)
<1>1. /\ pc'[r] = IF left = {} THEN "reply" ELSE "already"
      /\ tx'[r] = [payload |-> Payload(r), next |-> IF left = {} THEN i ELSE First(left),
                   made |-> tx[r].made, runs |-> stored]
  BY DEF Turn, Types, TypeOK, Shape
<1>2. left # {} => Payload(r)[First(left)].rows # {}
  BY FromIs DEF Types, TypeOK
<1>3. left # {} => Current(r)'.rows # {}
  BY <1>1, <1>2 DEF Current
<1>4. Payload(r)' = Payload(r)
  BY Apart
<1>5. \A x \in stored, y \in runs : x.id # y.id
  BY DEF Fresh, Staged
<1> HIDE DEF left
<1>6. tx'[r].runs = stored /\ Once(tx[r].runs)'
  BY <1>1 DEF Once
<1>7. Staged(r)'
  BY <1>1, <1>3, <1>4, <1>5, <1>6 DEF Staged, Handler
<1>8. QED
  BY <1>6, <1>7, KeepFresh

LEMMA StartFresh ==
  ASSUME Types, Fresh, NEW r \in Request, Start(r)
  PROVE  Fresh'
<1>1. /\ Serve(r) /\ runs' = runs
      /\ job \in Jobs
      /\ tx[r] = NoTx /\ tx[r].runs = {}
  BY NoTxIs DEF Start, Serve, Unchanged, database, Types, TypeOK, Place, Open, Handler
<1>2. CASE ~IsPush(r)
  <2>1. Turn(r, Payload(r), 1, {}) /\ Once({})
    BY <1>2 DEF Start, Once
  <2>2. QED
    BY <1>1, <1>2, <2>1, TurnFresh
<1>3. CASE IsPush(r)
  <2>1. pc'[r] = "project" /\ tx'[r].runs = {}
    <3>1. r \in DOMAIN pc /\ r \in DOMAIN tx
      BY DEF Types, TypeOK, Shape
    <3>2. pc' = [pc EXCEPT ![r] = "project"] /\ tx' = [tx EXCEPT ![r].payload = Payload(r)]
      BY <1>3 DEF Start
    <3>3. QED
      BY <1>1, <3>1, <3>2 DEF NoTx
  <2>2. tx'[r].next = 1 /\ tx'[r].payload = Payload(r)
    <3>1. tx' = [tx EXCEPT ![r] = [tx[r] EXCEPT !.payload = Payload(r)]]
      BY <1>3, TxIs DEF Start
    <3>2. tx'[r] = [tx[r] EXCEPT !.payload = Payload(r)]
      BY <3>1 DEF Types, Shape
    <3>3. tx[r].next = 1
      BY <1>1 DEF NoTx
    <3>4. QED
      BY <3>2, <3>3, TxIs, TxParts
  <2>3. Current(r)' = Payload(r)[1]
    BY <2>2 DEF Current
  <2>4. Current(r)'.rows # {}
    BY <1>1, <1>3, <2>3, PayloadIs
  <2>5. Staged(r)'
    BY <2>1, <2>4 DEF Staged, Once
  <2>6. QED
    BY <1>1, <2>1, <2>5, KeepFresh
<1>4. QED
  BY <1>2, <1>3

LEMMA SelectFresh ==
  ASSUME Types, Fresh, NEW r \in Request,
         SelectProject(r) \/ ProjectTaken(r) \/ InsertProject(r) \/ SelectExisting(r)
  PROVE  Fresh'
<1>1. Serve(r) /\ runs' = runs
  BY DEF Serve, SelectProject, ProjectTaken, InsertProject, SelectExisting, Unchanged, database
<1>2. /\ pc[r] \in Handler \ {"already", "rows"}
      /\ pc'[r] \in {"new_project", "existing", "persist", "reply", "refuse"}
  BY DEF SelectProject, ProjectTaken, InsertProject, SelectExisting, Found, Handler, Types, TypeOK
<1>3. tx'[r].runs = tx[r].runs /\ tx'[r].payload = tx[r].payload /\ tx'[r].next = tx[r].next
  <2>1. CASE tx' = tx
    BY <2>1
  <2>2. CASE InsertProject(r)
    BY <2>2 DEF InsertProject, Types, Shape
  <2>3. QED
    BY <2>1, <2>2 DEF SelectProject, ProjectTaken, SelectExisting
<1>4. QED
  BY <1>1, <1>2, <1>3, SameFresh

\* A run of its own is in a request's sight.
LEMMA SelectAlreadyFresh ==
  ASSUME Types, Fresh, NEW r \in Request, SelectAlready(r)
  PROVE  Fresh'
<1>1. /\ Serve(r) /\ runs' = runs /\ pc[r] = "already" /\ ~IsPush(r)
  BY DEF Serve, SelectAlready, Unchanged, database, Types, Place
<1>2. Staged(r)
  BY DEF Fresh
<1>3. CASE Advance(r, tx[r].runs)
  <2>1. tx[r].payload = Payload(r) /\ tx[r].next + 1 \in Nat \ {0}
    BY <1>1, CurrentIs DEF Handler
  <2>2. \A x \in tx[r].runs : x.rows # {} /\ \E k \in DOMAIN Payload(r) : x = Payload(r)[k]
    BY <1>1, <1>2 DEF Staged, Open, Handler
  <2>3. Once(tx[r].runs)
    BY <1>2 DEF Staged
  <2>4. QED
    BY <1>1, <1>3, <2>1, <2>2, <2>3, TurnFresh DEF Advance
<1>4. CASE ~Advance(r, tx[r].runs)
  <2>1. /\ pc'[r] = "project" /\ tx' = tx
        /\ \A x \in runs \cup tx[r].runs : ~(x.id = Current(r).id /\ Sees(r, x))
    BY <1>4 DEF SelectAlready, Types, TypeOK
  <2>2. \A x \in tx[r].runs : Sees(r, x)
    BY DEF Sees, Types, Place
  <2>3. QED
    BY <1>1, <2>1, <2>2, SameFresh DEF Handler
<1>5. QED
  BY <1>3, <1>4

LEMMA PersistRunFresh ==
  ASSUME Types, Fresh, NEW r \in Request, PersistRun(r)
  PROVE  Fresh'
<1>1. /\ Serve(r) /\ runs' = runs /\ pc[r] = "persist" /\ pc'[r] = "rows"
      /\ tx'[r].runs = tx[r].runs \cup {Bare(r)}
      /\ tx'[r].payload = tx[r].payload /\ tx'[r].next = tx[r].next
  BY DEF PersistRun, Serve, Unchanged, database, Types, TypeOK, Shape, Bare
<1>2. Current(r)' = Current(r) /\ Bare(r)' = Bare(r) /\ Payload(r)' = Payload(r)
  BY <1>1, Apart DEF Current, Bare
<1>3. Bare(r).id = Current(r).id
  BY <1>1, CurrentIs, BareIs DEF Bare, Handler
<1>4. \A x \in runs : x.id # Current(r).id
  BY DEF PersistRun, Taken, SameKey
<1>5. \A q \in Request \ {r} : \A y \in tx[q].runs : y.id # Current(r).id
  BY <1>1 DEF PersistRun, WaitsFor, SameKey
<1>6. Staged(r)
  BY DEF Fresh
<1>7. \A x \in tx[r].runs : x.id # Current(r).id
  BY <1>1, <1>6 DEF Staged
<1>8. Once(tx[r].runs)'
  BY <1>1, <1>3, <1>6, <1>7 DEF Once, Staged
<1>9. Staged(r)'
  BY <1>1, <1>2, <1>3, <1>4, <1>6, <1>8 DEF Staged, Open, Handler
<1>10. QED
  BY <1>1, <1>3, <1>5, <1>9, KeepFresh

LEMMA PersistRowsFresh ==
  ASSUME Types, Fresh, NEW r \in Request, PersistRows(r)
  PROVE  Fresh'
<1> DEFINE others == {x \in tx[r].runs : ~SameKey(x, Current(r))}
<1>1. Serve(r) /\ runs' = runs /\ pc[r] = "rows"
  BY DEF PersistRows, Serve, Unchanged, database
<1>2. Staged(r)
  BY DEF Fresh
<1>3. Bare(r) \in tx[r].runs /\ Bare(r).id = Current(r).id
  BY <1>1, <1>2, CurrentIs, BareIs DEF Staged, Bare, Handler
<1>4. /\ Current(r).rows # {} /\ tx[r].payload = Payload(r)
      /\ \E k \in DOMAIN Payload(r) : Current(r) = Payload(r)[k]
      /\ tx[r].next + 1 \in Nat \ {0}
  BY <1>1, <1>2, CurrentIs DEF Staged, Handler
<1>5. \A x \in others : x \in tx[r].runs /\ x.id # Current(r).id /\ x # Bare(r)
  BY <1>3 DEF SameKey
<1>6. \A x \in others : x.rows # {} /\ \E k \in DOMAIN Payload(r) : x = Payload(r)[k]
  BY <1>1, <1>2, <1>5 DEF Staged, Open, Handler
<1>7. Once(others \cup {Current(r)})
  BY <1>2, <1>5 DEF Once, Staged
<1>8. CASE ~IsPush(r)
  <2>1. Turn(r, Payload(r), tx[r].next + 1, others \cup {Current(r)})
    BY <1>4, <1>8 DEF PersistRows, Advance
  <2>2. \A x \in others \cup {Current(r)} :
           /\ \E y \in tx[r].runs : x.id = y.id
           /\ x.rows # {} /\ \E k \in DOMAIN Payload(r) : x = Payload(r)[k]
    BY <1>3, <1>4, <1>5, <1>6
  <2> HIDE DEF others
  <2>3. QED
    BY <1>1, <1>4, <1>7, <1>8, <2>1, <2>2, TurnFresh
<1>9. CASE IsPush(r)
  <2>1. pc'[r] = "reply" /\ tx'[r].runs = {Current(r)}
    BY <1>9 DEF PersistRows, Types, TypeOK, Shape
  <2>2. \A y \in runs : y.id # Current(r).id
    BY <1>2, <1>3 DEF Staged
  <2>3. Payload(r)' = Payload(r)
    BY <1>1, Apart
  <2>4. Once(tx[r].runs)'
    BY <2>1 DEF Once
  <2>5. Staged(r)'
    BY <1>1, <1>4, <2>1, <2>2, <2>3, <2>4 DEF Staged, Open, Handler
  <2>6. QED
    BY <1>1, <1>3, <2>1, <2>5, KeepFresh
<1>10. QED
  BY <1>8, <1>9

LEMMA RaiseFresh ==
  ASSUME Types, Fresh, NEW r \in Request,
         PersistRefused(r) \/ DeadlockVictim(r) \/ Fault(r) \/ Reply(r)
  PROVE  Fresh'
<1>1. (Serve(r) \/ Fault(r)) /\ runs' = runs /\ tx' = tx
  BY DEF PersistRefused, DeadlockVictim, Fault, Raise, Reply, Serve, Unchanged, database
<1>2. pc'[r] = "refuse" \/ (pc[r] = "reply" /\ pc'[r] = "commit")
  BY DEF PersistRefused, DeadlockVictim, Fault, Raise, Reply, Types, TypeOK
<1>3. QED
  BY <1>1, <1>2, SameFresh

\* What Commit adds is new.
LEMMA CommitIsNew ==
  ASSUME Types, Fresh, NEW r \in Request, Commit(r)
  PROVE  /\ Once(tx[r].runs)
         /\ \A x \in tx[r].runs, y \in runs : x.id # y.id
         /\ \A x \in tx[r].runs :
              x.rows # {} /\ \E i \in DOMAIN Payload(r) : x = Payload(r)[i]
         /\ runs' = runs \cup tx[r].runs
<1>1. Staged(r) /\ pc[r] = "commit"
  BY DEF Fresh, Commit
<1>2. QED
  BY <1>1 DEF Staged, Open, Handler, Commit

LEMMA EndFresh ==
  ASSUME Types, Fresh, NEW r \in Request, Commit(r) \/ Refuse(r)
  PROVE  Fresh'
<1>1. Serve(r) /\ pc'[r] = "done" /\ tx'[r].runs = {}
  BY NoTxIs DEF Serve, Commit, Refuse, Types, TypeOK, Shape
<1>2. Once({})
  BY DEF Once
<1>3. Staged(r)'
  BY <1>1, <1>2 DEF Staged, Open, Handler, Once
<1>4. CASE Refuse(r)
  BY <1>1, <1>3, <1>4, KeepFresh DEF Refuse, database
<1>5. CASE Commit(r)
  <2>1. /\ Once(tx[r].runs)
        /\ \A x \in tx[r].runs, y \in runs : x.id # y.id
        /\ \A x \in tx[r].runs :
             x.rows # {} /\ \E i \in DOMAIN Payload(r) : x = Payload(r)[i]
        /\ runs' = runs \cup tx[r].runs
    BY <1>5, CommitIsNew
  <2>2. \A q \in Request : Payload(q)' = Payload(q)
    BY <1>1, Apart
  <2>3. \A q \in Request \ {r} : pc'[q] = pc[q] /\ tx'[q] = tx[q]
    BY <1>1, Apart
  <2>4. Once(runs)'
    BY <2>1 DEF Fresh, Once
  <2>5. \A x \in runs' : x.rows # {} /\ \E q \in Request : \E i \in DOMAIN Payload(q)' : x = Payload(q)'[i]
    BY <2>1, <2>2 DEF Fresh
  <2>6. \A q, p \in Request : q # p => \A x \in tx'[q].runs, y \in tx'[p].runs : x.id # y.id
    BY <1>1, <2>3 DEF Fresh
  <2>7. ASSUME NEW q \in Request \ {r} PROVE Staged(q)'
    <3>1. Staged(q) /\ \A x \in tx[q].runs, y \in tx[r].runs : x.id # y.id
      BY DEF Fresh
    <3>2. Current(q)' = Current(q) /\ Bare(q)' = Bare(q)
      BY <2>3 DEF Current, Bare
    <3>3. Once(tx[q].runs)' /\ \A x \in tx'[q].runs, y \in runs' : x.id # y.id
      BY <2>1, <2>3, <3>1 DEF Staged, Once
    <3>4. QED
      BY <2>2, <2>3, <3>1, <3>2, <3>3 DEF Staged
  <2>8. QED
    BY <1>3, <2>4, <2>5, <2>6, <2>7 DEF Fresh
<1>6. QED
  BY <1>4, <1>5

LEMMA InitFresh ==
  ASSUME Init
  PROVE  Fresh
<1>1. \A r \in Request : tx[r].runs = {} /\ pc[r] = "idle"
  BY NoTxIs DEF Init
<1>2. \A r \in Request : Staged(r)
  BY <1>1 DEF Staged, Once, Open, Handler
<1>3. runs = {} /\ Once(runs)
  BY DEF Init, Once
<1>4. QED
  BY <1>1, <1>2, <1>3 DEF Fresh

\* A step that stores nothing and after which a request is where it was, in the
\* queue, or without a transaction.
LEMMA DroppedFresh ==
  ASSUME Types, Fresh, UNCHANGED <<job, runs>>,
         \A q \in Request :
           \/ pc'[q] = pc[q] /\ tx'[q] = tx[q]
           \/ pc'[q] \in {"queued", "lost"} /\ tx'[q].runs = {}
  PROVE  Fresh'
<1>1. \A q \in Request : Payload(q)' = Payload(q)
  BY DEF Payload, IsPush, JobOf, RunOf, OrgOf
<1>2. ASSUME NEW q \in Request PROVE Staged(q)'
  <2>1. CASE pc'[q] = pc[q] /\ tx'[q] = tx[q]
    <3>1. Staged(q)
      BY DEF Fresh
    <3>2. Current(q)' = Current(q) /\ Bare(q)' = Bare(q)
      BY <2>1 DEF Current, Bare
    <3>3. Once(tx[q].runs)'
      BY <2>1, <3>1 DEF Staged, Once
    <3>4. QED
      BY <1>1, <2>1, <3>1, <3>2, <3>3 DEF Staged
  <2>2. CASE pc'[q] \in {"queued", "lost"} /\ tx'[q].runs = {}
    BY <2>2 DEF Staged, Once, Open, Handler
  <2>3. QED
    BY <2>1, <2>2
<1>3. \A q, p \in Request : q # p => \A x \in tx'[q].runs, y \in tx'[p].runs : x.id # y.id
  BY DEF Fresh
<1>4. Once(runs)'
  BY DEF Fresh, Once
<1>5. \A x \in runs' : x.rows # {} /\ \E q \in Request : \E i \in DOMAIN Payload(q)' : x = Payload(q)'[i]
  BY <1>1 DEF Fresh
<1>6. QED
  BY <1>2, <1>3, <1>4, <1>5 DEF Fresh

\* Where the steps of a client and of a worker leave the requests.
LEMMA Dropped ==
  ASSUME Types,
         \/ \E c \in Client :
              Unreachable(c) \/ Send(c) \/ GatewayError(c) \/ ConnectionLost(c)
         \/ \E w \in Worker : Crash(w)
         \/ UNCHANGED vars
  PROVE  /\ UNCHANGED <<job, database, code>>
         /\ \A q \in Request :
              \/ pc'[q] = pc[q] /\ tx'[q] = tx[q]
              \/ pc'[q] \in {"queued", "lost"} /\ pc[q] # "done" /\ tx'[q].runs = {}
<1>1. UNCHANGED <<job, database, code>>
  BY DEF Unreachable, Send, GatewayError, ConnectionLost, Crash, vars, request
<1>2. CASE \E w \in Worker : Crash(w)
  BY <1>1, <1>2, NoTxIs DEF Crash, Open, Handler
<1>3. ASSUME NEW c \in Client, Send(c)
      PROVE  \A q \in Request :
               \/ pc'[q] = pc[q] /\ tx'[q] = tx[q]
               \/ pc'[q] \in {"queued", "lost"} /\ pc[q] # "done" /\ tx'[q].runs = {}
  <2> DEFINE r == <<c, client[c].attempt>>
  <2>1. pc' = [pc EXCEPT ![r] = "queued"] /\ tx' = tx /\ client[c].at = "sending"
    BY <1>3 DEF Send
  <2>2. r \in Request /\ pc[r] = "idle"
    BY <2>1 DEF Types, TypeOK, Ahead, Request
  <2>3. tx[r].runs = {}
    BY <2>2, NoTxIs DEF Types, Place, Open, Handler
  <2> HIDE DEF r
  <2>4. QED
    BY <2>1, <2>2, <2>3 DEF Types, TypeOK
<1>4. ASSUME \/ \E c \in Client : Unreachable(c) \/ GatewayError(c) \/ ConnectionLost(c)
             \/ UNCHANGED vars
      PROVE  pc' = pc /\ tx' = tx
  BY <1>4 DEF Unreachable, GatewayError, ConnectionLost, vars, request
<1>5. CASE \E c \in Client : Send(c)
  BY <1>1, <1>3, <1>5
<1>6. CASE \/ \E c \in Client : Unreachable(c) \/ GatewayError(c) \/ ConnectionLost(c)
           \/ UNCHANGED vars
  <2>1. pc' = pc /\ tx' = tx
    BY <1>4, <1>6
  <2>2. QED
    BY <1>1, <2>1
<1>7. QED
  BY <1>2, <1>5, <1>6

LEMMA NextFresh ==
  ASSUME Types, Fresh, [Next]_vars
  PROVE  Fresh'
<1>1. ASSUME NEW r \in Request, Serve(r) \/ Fault(r)
      PROVE  Fresh'
  BY <1>1, StartFresh, SelectFresh, SelectAlreadyFresh, PersistRunFresh, PersistRowsFresh,
     RaiseFresh, EndFresh DEF Serve
<1>2. CASE \/ \E c \in Client :
                Unreachable(c) \/ Send(c) \/ GatewayError(c) \/ ConnectionLost(c)
           \/ \E w \in Worker : Crash(w)
           \/ UNCHANGED vars
  BY <1>2, Dropped, DroppedFresh DEF database
<1>3. QED
  BY <1>1, <1>2 DEF Next, AllDone

IndInv == Types /\ Fresh

\* The inductive invariant: whatever is staged has an id that neither the
\* store nor another transaction has, and is a run of its request's payload.
THEOREM Invariance == Spec => []IndInv
<1>1. Init => IndInv
  BY InitTypes, InitFresh DEF IndInv
<1>2. IndInv /\ [Next]_vars => IndInv'
  BY NextTypes, NextFresh DEF IndInv
<1>3. QED
  BY <1>1, <1>2, PTL DEF Spec

\* Variables stay in their types; no request goes past the end of its payload.
THEOREM TypeCorrect == Spec => []TypeOK
<1>1. IndInv => TypeOK
  BY DEF IndInv, Types
<1>2. QED
  BY <1>1, Invariance, PTL

\* A step of the store: nothing, or new runs with new ids.
LEMMA StoreStep ==
  ASSUME IndInv, [Next]_vars
  PROVE  [Store!Next]_runs
<1>1. ASSUME NEW r \in Request, Commit(r)
      PROVE  [Store!Next]_runs
  <2>1. /\ Once(tx[r].runs)
        /\ \A x \in tx[r].runs, y \in runs : x.id # y.id
        /\ runs' = runs \cup tx[r].runs
    BY <1>1, CommitIsNew DEF IndInv
  <2>2. CASE tx[r].runs = {}
    BY <2>1, <2>2
  <2>3. CASE tx[r].runs # {}
    <3>1. runs' \ runs = tx[r].runs
      BY <2>1
    <3>2. Store!IdsOf(runs' \ runs) \cap Store!IdsOf(runs) = {}
      BY <2>1, <3>1 DEF Store!IdsOf
    <3>3. QED
      BY <2>1, <2>3, <3>1, <3>2 DEF Store!Next, Once
  <2>4. QED
    BY <2>2, <2>3
<1>2. ASSUME NEW r \in Request, Serve(r) \/ Fault(r), ~Commit(r)
      PROVE  runs' = runs
  BY <1>2 DEF Serve, Start, SelectProject, InsertProject, ProjectTaken, SelectExisting, SelectAlready,
     PersistRun, PersistRows, PersistRefused, DeadlockVictim, Fault, Raise, Reply, Refuse,
     Unchanged, database
<1>3. CASE \/ \E c \in Client :
                Unreachable(c) \/ Send(c) \/ GatewayError(c) \/ ConnectionLost(c)
           \/ \E w \in Worker : Crash(w)
           \/ UNCHANGED vars
  BY <1>3, Dropped DEF database, IndInv
<1>4. QED
  BY <1>1, <1>2, <1>3 DEF Next, AllDone

\* Whichever clients retry, deliver twice or race, and whoever crashes, what is
\* stored only grows, by whole runs with ids that were free.
THEOREM GrowsByWholeRuns == Spec => StoreGrows
<1>1. Init => Store!Init
  BY DEF Init, Store!Init
<1>2. QED
  BY <1>1, Invariance, StoreStep, PTL DEF Spec, StoreGrows, Store!Spec

-----------------------------------------------------------------------------
\* Telemetry.

\* What collectors must keep to: a span that is delivered again, or in another
\* batch, is delivered among rows that are identified by the same trace.
SpansKeepTrace ==
  \A jobs \in Jobs : \A c, d \in Client :
    jobs[c].kind = "otlp" /\ jobs[d].kind = "otlp" =>
      \A i \in DOMAIN jobs[c].batch, k \in DOMAIN jobs[d].batch :
        LET x == jobs[c].batch[i].spans
            y == jobs[d].batch[k].spans
        IN  (\E a \in RowsOf(x), b \in RowsOf(y) : x[a] = y[b] /\ x[a].trace # NoTrace)
              => TraceOf(x) = TraceOf(y)

\* A row with a trace makes its block one with a trace.
LEMMA TracedBlock ==
  ASSUME NEW spans, DOMAIN spans \subseteq Nat,
         NEW a \in RowsOf(spans), spans[a].trace # NoTrace
  PROVE  TraceOf(spans) # NoTrace
<1> DEFINE named == {i \in RowsOf(spans) : spans[i].trace # NoTrace}
<1>1. named \in SUBSET Nat /\ named # {}
  BY DEF RowsOf, FilterSpans
<1>2. First(named) \in named
  BY <1>1, FirstIs
<1>3. QED
  BY <1>1, <1>2 DEF TraceOf

\* So the traced span of a stored run tells its request and its block.
LEMMA TracedRun ==
  ASSUME job \in Jobs, NEW q \in Request, NEW i \in DOMAIN Payload(q),
         NEW s \in Payload(q)[i].rows, s.trace # NoTrace
  PROVE  /\ ~IsPush(q)
         /\ i \in DOMAIN JobOf(q).batch
         /\ LET block == JobOf(q).batch[i]
            IN  /\ \E a \in RowsOf(block.spans) : block.spans[a] = s
                /\ Payload(q)[i].id = <<Payload(q)[i].project, TraceOf(block.spans)>>
<1>1. ~IsPush(q)
  <2>1. PushedRow.trace = NoTrace
    BY DEF PushedRow
  <2>2. QED
    BY <2>1, PayloadIs
<1> DEFINE block == JobOf(q).batch[i]
<1>2. i \in DOMAIN JobOf(q).batch /\ Payload(q)[i] = RunOf(block, q, i)
  BY <1>1, PayloadIs
<1>3. PICK a \in RowsOf(block.spans) : block.spans[a] = s
  BY <1>2 DEF RunOf
<1>4. DOMAIN block.spans \subseteq Nat
  <2>1. IsJob(JobOf(q)) /\ JobOf(q).kind = "otlp"
    BY <1>1, RequestIs, IngestAssumption DEF JobOf, IsPush, IsJob
  <2>2. QED
    BY <1>2, <2>1 DEF IsJob
<1> HIDE DEF block
<1>5. TraceOf(block.spans) # NoTrace
  BY <1>3, <1>4, TracedBlock
<1>6. RunOf(block, q, i).id = <<RunOf(block, q, i).project, TraceOf(block.spans)>>
  BY <1>5 DEF RunOf, DeterministicId
<1>7. QED
  BY <1>1, <1>2, <1>3, <1>6 DEF block

\* A span with a trace id is stored once in a project, however often it is
\* delivered, by collectors that do not split traces otherwise than before.
THEOREM StoredOnce ==
  ASSUME SpansKeepTrace
  PROVE  Spec => []TelemetryOnce
<1>1. IndInv => TelemetryOnce
  <2>1. SUFFICES ASSUME IndInv, NEW x \in runs, NEW y \in runs, x.project = y.project,
                        NEW s \in x.rows \cap y.rows, s.trace # NoTrace
                 PROVE  x = y
    BY DEF TelemetryOnce
  <2>2. job \in Jobs
    BY <2>1 DEF IndInv, Types, TypeOK
  <2>3. PICK q \in Request : \E i \in DOMAIN Payload(q) : x = Payload(q)[i]
    BY <2>1 DEF IndInv, Fresh
  <2>4. PICK i \in DOMAIN Payload(q) : x = Payload(q)[i]
    BY <2>3
  <2>12. PICK r \in Request : \E k \in DOMAIN Payload(r) : y = Payload(r)[k]
    BY <2>1 DEF IndInv, Fresh
  <2>13. PICK k \in DOMAIN Payload(r) : y = Payload(r)[k]
    BY <2>12
  <2> DEFINE b == JobOf(q).batch[i]
             d == JobOf(r).batch[k]
  <2>5. /\ ~IsPush(q) /\ i \in DOMAIN JobOf(q).batch
        /\ \E a \in RowsOf(b.spans) : b.spans[a] = s
        /\ x.id = <<x.project, TraceOf(b.spans)>>
    BY <2>1, <2>2, <2>4, TracedRun
  <2>6. /\ ~IsPush(r) /\ k \in DOMAIN JobOf(r).batch
        /\ \E a \in RowsOf(d.spans) : d.spans[a] = s
        /\ y.id = <<y.project, TraceOf(d.spans)>>
    BY <2>1, <2>2, <2>13, TracedRun
  <2>7. /\ JobOf(q) = job[q[1]] /\ JobOf(r) = job[r[1]]
        /\ q[1] \in Client /\ r[1] \in Client
    BY RequestIs DEF JobOf
  <2>8. JobOf(q).kind = "otlp" /\ JobOf(r).kind = "otlp"
    BY <2>2, <2>5, <2>6, <2>7, IngestAssumption DEF IsPush, IsJob
  <2>9. TraceOf(b.spans) = TraceOf(d.spans)
    <3>1. \A j \in DOMAIN job[q[1]].batch, l \in DOMAIN job[r[1]].batch :
            LET u == job[q[1]].batch[j].spans
                v == job[r[1]].batch[l].spans
            IN  (\E m \in RowsOf(u), n \in RowsOf(v) : u[m] = v[n] /\ u[m].trace # NoTrace)
                  => TraceOf(u) = TraceOf(v)
      <4>1. job \in Jobs /\ q[1] \in Client /\ r[1] \in Client
        BY <2>2, <2>7
      <4>2. job[q[1]].kind = "otlp" /\ job[r[1]].kind = "otlp"
        BY <2>7, <2>8
      <4>3. QED
        BY <4>1, <4>2, Zenon DEF SpansKeepTrace
    <3>2. \E m \in RowsOf(b.spans), n \in RowsOf(d.spans) :
            b.spans[m] = d.spans[n] /\ b.spans[m].trace # NoTrace
      BY <2>1, <2>5, <2>6
    <3>3. /\ job[q[1]].batch[i].spans = b.spans /\ i \in DOMAIN job[q[1]].batch
          /\ job[r[1]].batch[k].spans = d.spans /\ k \in DOMAIN job[r[1]].batch
      BY <2>5, <2>6, <2>7
    <3> HIDE DEF b, d
    <3>4. (\E m \in RowsOf(b.spans), n \in RowsOf(d.spans) :
             b.spans[m] = d.spans[n] /\ b.spans[m].trace # NoTrace)
               => TraceOf(b.spans) = TraceOf(d.spans)
      <4>1. PICK u : u = job[q[1]].batch[i].spans
        OBVIOUS
      <4>2. PICK v : v = job[r[1]].batch[k].spans
        OBVIOUS
      <4>3. (\E m \in RowsOf(u), n \in RowsOf(v) : u[m] = v[n] /\ u[m].trace # NoTrace) => TraceOf(u) = TraceOf(v)
        BY <3>1, <3>3, <4>1, <4>2, Zenon
      <4>4. u = b.spans /\ v = d.spans
        BY <3>3, <4>1, <4>2
      <4>5. QED
        BY <4>3, <4>4, Zenon
    <3>5. QED
      BY <3>2, <3>4
  <2>10. x.id = y.id
    BY <2>1, <2>5, <2>6, <2>9
  <2>11. QED
    BY <2>1, <2>10 DEF IndInv, Fresh, Once
<1>2. QED
  BY <1>1, Invariance, PTL
-----------------------------------------------------------------------------
\* Answers.

\* The ids evalguard push draws ("run_" and 16 hex digits) are none of those
\* ingest_traces derives or draws ("run_otlp...").
IdsApart ==
  \A jobs \in Jobs : \A c \in Client :
    jobs[c].kind = "push" => \A project, t : jobs[c].id # <<project, t>>

\* Run i of a request is among S, or the run a collector takes for it.
Held(r, i, S) ==
  LET run == Payload(r)[i]
  IN  run.rows # {} => \E x \in S :
        /\ x.id = run.id /\ x.project = run.project /\ x.rows # {}
        /\ x.org = run.org \/ (~IsPush(r) /\ JobOf(r).admin)

\* What a request may answer, by how far it is.
Progress(r) ==
  /\ pc[r] \in {"idle", "queued"} => code[r] = "none"
  /\ pc[r] \in Handler \cup {"reply", "commit"} => code[r] = "success"
  /\ pc[r] = "refuse" => code[r] \in {"conflict", "error"}
  /\ pc[r] \in Handler /\ ~IsPush(r) =>
       \A i \in DOMAIN Payload(r) : i < tx[r].next => Held(r, i, runs \cup tx[r].runs)
  /\ pc[r] \in {"reply", "commit"} \/ (pc[r] = "done" /\ code[r] = "success") =>
       \A i \in DOMAIN Payload(r) : Held(r, i, runs \cup tx[r].runs)
  /\ code[r] = "conflict" => IsPush(r) /\ \E x \in runs : x.id = JobOf(r).id

\* Where the answer of a client came from.
WasTold(c) ==
  /\ client[c].at = "ok" =>
       \/ c \in lost_acks
       \/ \E k \in AttemptsOf(c) :
            pc[<<c, k>>] \in {"commit", "done"} /\ code[<<c, k>>] = "success"
  /\ client[c].at = "conflict" => \E k \in AttemptsOf(c) : code[<<c, k>>] = "conflict"

\* A request that does not move keeps its progress.
LEMMA ProgressStays ==
  ASSUME job' = job, runs \subseteq runs', NEW q \in Request, Progress(q),
         pc'[q] = pc[q], tx'[q] = tx[q], code'[q] = code[q]
  PROVE  Progress(q)'
<1>1. /\ Payload(q)' = Payload(q) /\ IsPush(q)' = IsPush(q) /\ JobOf(q)' = JobOf(q)
  BY DEF Payload, IsPush, JobOf, RunOf, OrgOf
<1>2. \A i \in DOMAIN Payload(q) :
        Held(q, i, runs \cup tx[q].runs) => Held(q, i, runs \cup tx[q].runs)'
  BY <1>1 DEF Held
<1>3. QED
  BY <1>1, <1>2 DEF Progress

\* Two runs with one id are of one project, and both telemetry or one run
\* pushed.
LEMMA SameIdSameProject ==
  ASSUME IdsApart, Types, NEW r \in Request, NEW q \in Request, ~IsPush(r),
         NEW i \in DOMAIN Payload(r), NEW k \in DOMAIN Payload(q),
         Payload(r)[i].id = Payload(q)[k].id
  PROVE  Payload(r)[i].project = Payload(q)[k].project
<1>0. job \in Jobs
  BY DEF Types, TypeOK
<1>1. PICK t : Payload(r)[i].id = <<Payload(r)[i].project, t>>
  BY <1>0, PayloadIs
<1>2. ~IsPush(q)
  <2>1. SUFFICES ASSUME IsPush(q) PROVE FALSE
    OBVIOUS
  <2>2. k = 1 /\ Payload(q)[k].id = JobOf(q).id
    BY <1>0, <2>1, PayloadIs
  <2>3. JobOf(q).kind = "push" /\ JobOf(q) = job[q[1]] /\ q[1] \in Client
    BY <2>1, RequestIs DEF IsPush, JobOf
  <2>4. QED
    BY <1>0, <1>1, <2>2, <2>3 DEF IdsApart
<1>3. PICK u : Payload(q)[k].id = <<Payload(q)[k].project, u>>
  BY <1>0, <1>2, PayloadIs
<1>4. <<Payload(r)[i].project, t>> = <<Payload(q)[k].project, u>>
  BY <1>1, <1>3
<1>5. QED
  BY <1>4

\* Where the coroutine turns to the next run, it has left nothing behind.
LEMMA TurnProgress ==
  ASSUME Types, NEW r \in Request, ~IsPush(r), NEW i \in Nat \ {0}, NEW stored,
         Turn(r, Payload(r), i, stored), job' = job, runs' = runs, code'[r] = "success",
         \A k \in DOMAIN Payload(r) : k < i => Held(r, k, runs \cup stored)
  PROVE  Progress(r)'
<1> DEFINE left == From(Payload(r), i)
<1>1. /\ pc'[r] = IF left = {} THEN "reply" ELSE "already"
      /\ tx'[r].next = IF left = {} THEN i ELSE First(left)
      /\ tx'[r].runs = stored
  BY DEF Turn, Types, TypeOK, Shape
<1>2. \A k \in DOMAIN Payload(r) :
        k >= i /\ Payload(r)[k].rows # {} => left # {} /\ First(left) <= k
  BY FromIs DEF Types, TypeOK
<1>3. DOMAIN Payload(r) \subseteq Nat /\ (left # {} => First(left) \in Nat)
  BY PayloadIs, FromIs DEF Types, TypeOK
<1>4. Payload(r)' = Payload(r) /\ IsPush(r)' = IsPush(r) /\ JobOf(r)' = JobOf(r)
  BY DEF Payload, IsPush, JobOf, RunOf, OrgOf
<1> HIDE DEF left
<1>5. ASSUME NEW k \in DOMAIN Payload(r), left = {} \/ k < First(left)
      PROVE  Held(r, k, runs \cup tx[r].runs)'
  <2>1. CASE k < i
    <3>1. Held(r, k, runs \cup stored)
      BY <2>1
    <3>2. QED
      BY <1>1, <1>4, <3>1 DEF Held
  <2>2. CASE ~(k < i)
    <3>1. Payload(r)[k].rows = {}
      BY <1>2, <1>3, <1>5, <2>2
    <3>2. QED
      BY <1>4, <3>1 DEF Held
  <2>3. QED
    BY <2>1, <2>2
<1>6. CASE left = {}
  BY <1>1, <1>4, <1>5, <1>6 DEF Progress, Handler
<1>7. CASE left # {}
  BY <1>1, <1>4, <1>5, <1>7 DEF Progress, Handler
<1>8. QED
  BY <1>6, <1>7

LEMMA StartProgress ==
  ASSUME Types, NEW r \in Request, Start(r)
  PROVE  Progress(r)'
<1>1. /\ job \in Jobs /\ job' = job /\ runs' = runs /\ code'[r] = "success"
  BY DEF Start, Unchanged, database, Types, TypeOK
<1>2. CASE IsPush(r)
  <2>1. pc'[r] = "project" /\ IsPush(r)'
    BY <1>1, <1>2 DEF Start, Types, TypeOK, IsPush, JobOf
  <2>2. QED
    BY <1>1, <2>1 DEF Progress, Handler
<1>3. CASE ~IsPush(r)
  <2>1. Turn(r, Payload(r), 1, {})
    BY <1>3 DEF Start
  <2>2. \A k \in DOMAIN Payload(r) : ~(k < 1)
    BY <1>1, PayloadIs
  <2>3. QED
    BY <1>1, <1>3, <2>1, <2>2, TurnProgress
<1>4. QED
  BY <1>2, <1>3

\* A step from statement to statement for one run.
LEMMA StayProgress ==
  ASSUME Types, NEW r \in Request, Progress(r), job' = job, runs' = runs,
         pc[r] \in Handler, pc'[r] \in Handler, code'[r] = code[r],
         tx'[r].next = tx[r].next, tx[r].runs \subseteq tx'[r].runs
  PROVE  Progress(r)'
<1>1. Payload(r)' = Payload(r) /\ IsPush(r)' = IsPush(r) /\ JobOf(r)' = JobOf(r)
  BY DEF Payload, IsPush, JobOf, RunOf, OrgOf
<1>2. \A i \in DOMAIN Payload(r) :
        Held(r, i, runs \cup tx[r].runs) => Held(r, i, runs \cup tx[r].runs)'
  BY <1>1 DEF Held
<1>3. QED
  BY <1>1, <1>2 DEF Progress, Handler

LEMMA RaiseProgress ==
  ASSUME NEW r \in Request, job' = job, runs' = runs, pc'[r] = "refuse",
         \/ code'[r] = "error"
         \/ /\ code'[r] = "conflict" /\ IsPush(r)
            /\ \E x \in runs : x.id = JobOf(r).id
  PROVE  Progress(r)'
BY DEF Progress, Handler, IsPush, JobOf

\* A collector that finds the id of its run has found the run, if row security
\* confines it to its own org.
LEMMA AlreadyHeld ==
  ASSUME IdsApart, RowSecurity, Types, Fresh, NEW r \in Request, pc[r] = "already",
         NEW x \in runs \cup tx[r].runs, x.id = Current(r).id, Sees(r, x)
  PROVE  Held(r, tx[r].next, runs \cup tx[r].runs)
<1>1. /\ ~IsPush(r) /\ tx[r].next \in DOMAIN Payload(r)
      /\ Current(r) = Payload(r)[tx[r].next] /\ Current(r).org = OrgOf(r)
  BY CurrentIs DEF Types, Place, Handler
<1>2. x.rows # {} /\ \E q \in Request : \E k \in DOMAIN Payload(q) : x = Payload(q)[k]
  <2>1. CASE x \in runs
    BY <2>1 DEF Fresh
  <2>2. CASE x \in tx[r].runs
    BY <2>2 DEF Fresh, Staged, Open, Handler
  <2>3. QED
    BY <2>1, <2>2
<1>3. PICK q \in Request : \E k \in DOMAIN Payload(q) : x = Payload(q)[k]
  BY <1>2
<1>4. PICK k \in DOMAIN Payload(q) : x = Payload(q)[k]
  BY <1>3
<1>5. x.project = Current(r).project
  BY <1>1, <1>4, SameIdSameProject
<1>6. x.org = OrgOf(r) \/ JobOf(r).admin
  BY DEF Sees
<1>7. QED
  BY <1>1, <1>2, <1>5, <1>6 DEF Held

LEMMA SelectAlreadyProgress ==
  ASSUME IdsApart, RowSecurity, Types, Fresh, NEW r \in Request, Progress(r), SelectAlready(r)
  PROVE  Progress(r)'
<1>1. /\ pc[r] = "already" /\ ~IsPush(r) /\ job' = job /\ runs' = runs
      /\ code' = code /\ code[r] = "success"
  BY DEF SelectAlready, Unchanged, database, Types, Place, Progress, Handler
<1>2. /\ tx[r].payload = Payload(r) /\ tx[r].next \in Nat \ {0}
      /\ DOMAIN Payload(r) \subseteq Nat
  BY <1>1, CurrentIs, PayloadIs DEF Handler, Types, TypeOK
<1>3. CASE \E x \in runs \cup tx[r].runs : x.id = Current(r).id /\ Sees(r, x)
  <2>1. Turn(r, Payload(r), tx[r].next + 1, tx[r].runs)
    BY <1>2, <1>3 DEF SelectAlready, Advance
  <2>2. Held(r, tx[r].next, runs \cup tx[r].runs)
    BY <1>1, <1>3, AlreadyHeld
  <2>3. \A k \in DOMAIN Payload(r) : k < tx[r].next => Held(r, k, runs \cup tx[r].runs)
    BY <1>1 DEF Progress, Handler
  <2>4. \A k \in DOMAIN Payload(r) : k < tx[r].next + 1 => k < tx[r].next \/ k = tx[r].next
    BY <1>2
  <2>5. \A k \in DOMAIN Payload(r) : k < tx[r].next + 1 => Held(r, k, runs \cup tx[r].runs)
    BY <2>2, <2>3, <2>4
  <2>6. tx[r].next + 1 \in Nat \ {0}
    BY <1>2
  <2>7. QED
    BY <1>1, <2>1, <2>5, <2>6, TurnProgress
<1>4. CASE ~\E x \in runs \cup tx[r].runs : x.id = Current(r).id /\ Sees(r, x)
  <2>1. pc'[r] = "project" /\ tx' = tx
    BY <1>4 DEF SelectAlready, Types, TypeOK
  <2>2. QED
    BY <1>1, <2>1, StayProgress DEF Handler
<1>5. QED
  BY <1>3, <1>4

LEMMA SelectExistingProgress ==
  ASSUME Types, Fresh, NEW r \in Request, Progress(r), SelectExisting(r)
  PROVE  Progress(r)'
<1>1. /\ pc[r] = "existing" /\ IsPush(r) /\ job' = job /\ runs' = runs
      /\ tx' = tx /\ code[r] = "success" /\ job \in Jobs
  BY DEF SelectExisting, Unchanged, database, Types, TypeOK, Place, Progress, Handler
<1>2. /\ tx[r].next = 1 /\ Current(r) = Payload(r)[1] /\ Current(r).id = JobOf(r).id
      /\ DOMAIN Payload(r) = {1} /\ Payload(r)[1].org = OrgOf(r)
  BY <1>1, CurrentIs, PayloadIs DEF Types, Place, Handler
<1>3. CASE ~Replay(r)
  <2>1. pc'[r] = "persist" /\ code' = code
    BY <1>3 DEF SelectExisting, Types, TypeOK
  <2>2. QED
    BY <1>1, <2>1, StayProgress DEF Handler
<1>4. CASE Replay(r)
  <2>1. PICK x \in runs :
          x.id = Current(r).id /\ x.org = OrgOf(r) /\ x.project = Current(r).project
    BY <1>4 DEF Replay
  <2>2. CASE JobOf(r).keyed
    <3>1. pc'[r] = "reply" /\ code' = code
      BY <1>4, <2>2 DEF SelectExisting, Types, TypeOK
    <3>2. x.rows # {}
      BY DEF Fresh
    <3>3. Held(r, 1, runs \cup tx[r].runs)
      BY <1>2, <2>1, <3>2 DEF Held
    <3>4. Payload(r)' = Payload(r) /\ IsPush(r)' = IsPush(r) /\ JobOf(r)' = JobOf(r)
      BY <1>1 DEF Payload, IsPush, JobOf, RunOf, OrgOf
    <3>5. Held(r, 1, runs \cup tx[r].runs)'
      BY <1>1, <3>3, <3>4 DEF Held
    <3>6. QED
      BY <1>1, <1>2, <3>1, <3>4, <3>5 DEF Progress, Handler
  <2>3. CASE ~JobOf(r).keyed
    <3>1. pc'[r] = "refuse" /\ code'[r] = "conflict"
      BY <1>4, <2>3 DEF SelectExisting, Types, TypeOK
    <3>2. QED
      BY <1>1, <1>2, <2>1, <3>1, RaiseProgress
  <2>4. QED
    BY <2>2, <2>3
<1>5. QED
  BY <1>3, <1>4

LEMMA ProjectProgress ==
  ASSUME Types, NEW r \in Request, Progress(r),
         SelectProject(r) \/ InsertProject(r) \/ ProjectTaken(r) \/ PersistRun(r)
  PROVE  Progress(r)'
<1>1. pc[r] \in Handler /\ code' = code /\ job' = job /\ runs' = runs
  BY DEF SelectProject, InsertProject, ProjectTaken, PersistRun, Unchanged, database, Handler
<1>2. pc'[r] \in Handler
  BY DEF SelectProject, InsertProject, ProjectTaken, PersistRun, Found, Handler, Types, TypeOK
<1>3. tx'[r].next = tx[r].next /\ tx[r].runs \subseteq tx'[r].runs
  <2>1. CASE tx' = tx
    BY <2>1
  <2>2. CASE InsertProject(r)
    BY <2>2 DEF InsertProject, Types, Shape
  <2>3. CASE PersistRun(r)
    BY <2>3 DEF PersistRun, Types, Shape
  <2>4. QED
    BY <2>1, <2>2, <2>3 DEF SelectProject, ProjectTaken
<1>4. QED
  BY <1>1, <1>2, <1>3, StayProgress

LEMMA PersistRowsProgress ==
  ASSUME Types, Fresh, NEW r \in Request, Progress(r), PersistRows(r)
  PROVE  Progress(r)'
<1> DEFINE others == {x \in tx[r].runs : ~SameKey(x, Current(r))}
           n == tx[r].next
<1>1. /\ pc[r] = "rows" /\ job' = job /\ runs' = runs /\ code' = code /\ code[r] = "success"
  BY DEF PersistRows, Unchanged, database, Progress, Handler
<1>2. /\ tx[r].payload = Payload(r) /\ n \in Nat \ {0} /\ n \in DOMAIN Payload(r)
      /\ DOMAIN Payload(r) \subseteq Nat
      /\ Current(r) = Payload(r)[n]
  BY <1>1, CurrentIs, PayloadIs DEF Handler, Types, TypeOK
<1>3. Staged(r)
  BY DEF Fresh
<1>4. /\ Bare(r) \in tx[r].runs /\ Bare(r).id = Current(r).id /\ Bare(r).rows = {}
      /\ Current(r).rows # {}
  BY <1>1, <1>3, CurrentIs, BareIs DEF Staged, Bare, Handler
<1>5. Held(r, n, runs \cup (others \cup {Current(r)}))
  BY <1>2, <1>4 DEF Held
<1>6. \A x \in tx[r].runs : x \in others \/ x.rows = {}
  BY <1>3, <1>4 DEF Staged, Once, SameKey
<1>7. CASE ~IsPush(r)
  <2>1. Turn(r, Payload(r), n + 1, others \cup {Current(r)})
    BY <1>2, <1>7 DEF PersistRows, Advance
  <2>2. \A k \in DOMAIN Payload(r) : k < n => Held(r, k, runs \cup tx[r].runs)
    BY <1>1, <1>7 DEF Progress, Handler
  <2> HIDE DEF others
  <2>3. \A k \in DOMAIN Payload(r) : k < n => Held(r, k, runs \cup (others \cup {Current(r)}))
    BY <1>6, <2>2 DEF Held
  <2>4. \A k \in DOMAIN Payload(r) : k < n + 1 => k < n \/ k = n
    BY <1>2
  <2> HIDE DEF n
  <2>5. \A k \in DOMAIN Payload(r) : k < n + 1 => Held(r, k, runs \cup (others \cup {Current(r)}))
    BY <1>5, <2>3, <2>4
  <2>6. n + 1 \in Nat \ {0}
    BY <1>2
  <2>7. QED
    BY <1>1, <1>7, <2>1, <2>5, <2>6, TurnProgress
<1>8. CASE IsPush(r)
  <2>1. pc'[r] = "reply" /\ tx'[r].runs = {Current(r)}
    BY <1>8 DEF PersistRows, Types, TypeOK, Shape
  <2>2. n = 1 /\ DOMAIN Payload(r) = {1}
    BY <1>1, <1>8, PayloadIs DEF Types, TypeOK, Place, Handler
  <2>3. Payload(r)' = Payload(r) /\ IsPush(r)' = IsPush(r) /\ JobOf(r)' = JobOf(r)
    BY <1>1 DEF Payload, IsPush, JobOf, RunOf, OrgOf
  <2>4. Held(r, 1, runs \cup tx[r].runs)'
    BY <1>1, <1>2, <1>4, <2>1, <2>2, <2>3 DEF Held
  <2>5. QED
    BY <1>1, <2>1, <2>2, <2>3, <2>4 DEF Progress, Handler
<1>9. QED
  BY <1>7, <1>8

LEMMA RefusedProgress ==
  ASSUME Types, Fresh, NEW r \in Request, Progress(r),
         PersistRefused(r) \/ DeadlockVictim(r) \/ Fault(r)
  PROVE  Progress(r)'
<1>1. job' = job /\ runs' = runs /\ pc'[r] = "refuse"
  BY DEF PersistRefused, DeadlockVictim, Fault, Raise, Unchanged, database, Types, TypeOK
<1>2. CASE code'[r] = "error"
  BY <1>1, <1>2, RaiseProgress
<1>3. CASE code'[r] # "error"
  <2>1. IsPush(r) /\ code'[r] = "conflict" /\ Taken(r) /\ pc[r] = "persist"
    BY <1>3 DEF PersistRefused, DeadlockVictim, Fault, Raise, Types, TypeOK
  <2>2. Current(r).id = JobOf(r).id
    BY <2>1, CurrentIs, PayloadIs DEF Types, TypeOK, Place, Handler
  <2>3. \E x \in runs : x.id = JobOf(r).id
    BY <2>1, <2>2 DEF Taken, SameKey
  <2>4. QED
    BY <1>1, <2>1, <2>3, RaiseProgress
<1>4. QED
  BY <1>2, <1>3

LEMMA EndProgress ==
  ASSUME Types, Fresh, NEW r \in Request, Progress(r), Reply(r) \/ Commit(r) \/ Refuse(r)
  PROVE  Progress(r)'
<1>1. job' = job /\ code' = code /\ runs \subseteq runs'
  BY DEF Reply, Commit, Refuse, database
<1>2. Payload(r)' = Payload(r) /\ IsPush(r)' = IsPush(r) /\ JobOf(r)' = JobOf(r)
  BY <1>1 DEF Payload, IsPush, JobOf, RunOf, OrgOf
<1>3. CASE Reply(r)
  <2>1. pc[r] = "reply" /\ pc'[r] = "commit" /\ tx' = tx /\ runs' = runs
    BY <1>3 DEF Reply, database, Types, TypeOK
  <2>2. \A i \in DOMAIN Payload(r) : Held(r, i, runs \cup tx[r].runs)'
    BY <1>2, <2>1 DEF Progress, Held
  <2>3. QED
    BY <1>1, <1>2, <2>1, <2>2 DEF Progress, Handler
<1>4. CASE Commit(r)
  <2>1. pc[r] = "commit" /\ pc'[r] = "done" /\ runs' = runs \cup tx[r].runs /\ tx'[r].runs = {}
    BY <1>4, NoTxIs DEF Commit, Types, TypeOK, Shape
  <2>2. \A i \in DOMAIN Payload(r) : Held(r, i, runs \cup tx[r].runs)'
    BY <1>2, <2>1 DEF Progress, Held
  <2>3. QED
    BY <1>1, <1>2, <2>1, <2>2 DEF Progress, Handler
<1>5. CASE Refuse(r)
  <2>1. pc[r] = "refuse" /\ pc'[r] = "done"
    BY <1>5 DEF Refuse, Types, TypeOK
  <2>2. QED
    BY <1>1, <1>2, <2>1 DEF Progress, Handler
<1>6. QED
  BY <1>3, <1>4, <1>5

\* A request that is put in the queue or dies has nothing more to deliver.
LEMMA ProgressStep ==
  ASSUME IdsApart, RowSecurity, Types, Fresh, [Next]_vars,
         \A r \in Request : Progress(r),
         NEW q \in Request
  PROVE  Progress(q)'
<1>1. ASSUME NEW r \in Request, Serve(r) \/ Fault(r) PROVE Progress(q)'
  <2>1. CASE q = r
    BY <1>1, <2>1, StartProgress, ProjectProgress, SelectExistingProgress,
       SelectAlreadyProgress, PersistRowsProgress, RefusedProgress, EndProgress DEF Serve
  <2>2. CASE q # r
    <3>1. job' = job /\ pc'[q] = pc[q] /\ tx'[q] = tx[q] /\ code'[q] = code[q]
      BY <1>1, <2>2, Apart
    <3>2. runs \subseteq runs'
      BY <1>1 DEF Serve, Start, SelectProject, InsertProject, ProjectTaken, SelectExisting,
         SelectAlready, PersistRun, PersistRows, PersistRefused, DeadlockVictim, Fault, Raise,
         Reply, Commit, Refuse, Unchanged, database
    <3>3. QED
      BY <3>1, <3>2, ProgressStays
  <2>3. QED
    BY <2>1, <2>2
<1>2. CASE \/ \E c \in Client :
                Unreachable(c) \/ Send(c) \/ GatewayError(c) \/ ConnectionLost(c)
           \/ \E w \in Worker : Crash(w)
           \/ UNCHANGED vars
  <2>1. UNCHANGED <<job, runs, code>>
    BY <1>2, Dropped DEF database
  <2>2. CASE pc'[q] = pc[q] /\ tx'[q] = tx[q]
    BY <2>1, <2>2, ProgressStays
  <2>3. CASE ~(pc'[q] = pc[q] /\ tx'[q] = tx[q])
    <3>1. pc'[q] = "lost" \/ (pc'[q] = "queued" /\ pc[q] = "idle")
      <4>1. ASSUME NEW c \in Client, Send(c)
            PROVE  pc'[q] = pc[q] \/ (pc'[q] = "queued" /\ pc[q] = "idle")
        <5> DEFINE r == <<c, client[c].attempt>>
        <5>1. r \in Request /\ pc[r] = "idle" /\ pc' = [pc EXCEPT ![r] = "queued"]
          BY <4>1 DEF Send, Types, TypeOK, Ahead, Request
        <5> HIDE DEF r
        <5>2. QED
          BY <5>1 DEF Types, TypeOK
      <4>2. ASSUME NEW w \in Worker, Crash(w) PROVE pc'[q] = "lost" \/ pc'[q] = pc[q]
        BY <4>2 DEF Crash
      <4>3. pc'[q] # pc[q]
        BY <1>2, <2>3 DEF Unreachable, Send, GatewayError, ConnectionLost, Crash, Open, Handler,
           vars, request
      <4>4. QED
        BY <1>2, <4>1, <4>2, <4>3 DEF Unreachable, GatewayError, ConnectionLost, vars, request
    <3>2. QED
      BY <2>1, <3>1 DEF Progress, Handler, IsPush, JobOf
  <2>4. QED
    BY <2>2, <2>3
<1>3. QED
  BY <1>1, <1>2 DEF Next, AllDone
\* A client's answer stays that of one of its attempts.
LEMMA WasToldStays ==
  ASSUME NEW c \in Client, WasTold(c), client'[c].at = client[c].at,
         lost_acks \subseteq lost_acks',
         \A k \in AttemptsOf(c) :
           /\ code[<<c, k>>] = "conflict" => code'[<<c, k>>] = "conflict"
           /\ pc[<<c, k>>] \in {"commit", "done"} /\ code[<<c, k>>] = "success" =>
                \/ pc'[<<c, k>>] \in {"commit", "done"} /\ code'[<<c, k>>] = "success"
                \/ client[c].at = "ok" => c \in lost_acks'
  PROVE  WasTold(c)'
BY DEF WasTold

LEMMA ToldStep ==
  ASSUME Types, \A r \in Request : Progress(r), \A c \in Client : WasTold(c),
         [Next]_vars, NEW c \in Client
  PROVE  WasTold(c)'
<1>1. \A k \in AttemptsOf(c) : <<c, k>> \in Request
  BY DEF Request
<1>2. ASSUME NEW r \in Request, Serve(r) \/ Fault(r) PROVE WasTold(c)'
  <2>1. lost_acks' = lost_acks
    BY <1>2 DEF Serve, Start, SelectProject, InsertProject, ProjectTaken, SelectExisting,
       SelectAlready, PersistRun, PersistRows, PersistRefused, DeadlockVictim, Fault, Raise,
       Reply, Commit, Refuse, Unchanged
  <2>2. \A q \in Request \ {r} : pc'[q] = pc[q] /\ code'[q] = code[q]
    BY <1>2, Apart
  <2>3. CASE Commit(r)
    <3>1. /\ pc[r] = "commit" /\ pc'[r] = "done" /\ code' = code /\ client' = client
      BY <2>3 DEF Commit, Types, TypeOK
    <3>2. QED
      BY <1>1, <2>1, <2>2, <3>1, WasToldStays
  <2>4. CASE Reply(r) \/ Refuse(r)
    <3>1. code' = code /\ client' = Told(r) /\ pc[r] \in {"reply", "refuse"}
      BY <2>4 DEF Reply, Refuse
    <3>2. \/ pc'[r] = "commit" /\ code[r] = "success"
          \/ pc'[r] = "done" /\ code[r] \in {"conflict", "error"}
      BY <2>4 DEF Reply, Refuse, Types, TypeOK, Progress
    <3>3. CASE client'[c].at = client[c].at
      <4>1. \A k \in AttemptsOf(c) : pc[<<c, k>>] \in {"commit", "done"} => <<c, k>> # r
        BY <3>1
      <4>2. QED
        BY <1>1, <2>1, <2>2, <3>1, <3>3, <4>1, WasToldStays
    <3>4. CASE client'[c].at # client[c].at
      <4>1. /\ r[1] = c /\ client[c] = [at |-> "waiting", attempt |-> r[2]]
            /\ client'[c].at = "ok" => code[r] = "success"
            /\ client'[c].at = "conflict" => code[r] = "conflict"
        <5>1. /\ r[1] = c /\ client[c] = [at |-> "waiting", attempt |-> r[2]]
          BY <3>1, <3>4 DEF Told, Types, TypeOK
        <5>2. ClientTyped
          BY DEF Types, TypeOK, ClientTyped
        <5>3. Retry(c).at \in {"sending", "failed"}
          BY <5>2, RetryTyped
        <5>4. CASE code[r] = "success"
          BY <3>1, <5>1, <5>4 DEF Told, Types, TypeOK
        <5>5. CASE code[r] = "conflict"
          BY <3>1, <5>1, <5>5 DEF Told, Types, TypeOK
        <5>6. CASE code[r] \notin {"success", "conflict"}
          <6>1. client' = [client EXCEPT ![c] = Retry(c)]
            BY <3>1, <5>1, <5>6 DEF Told
          <6>2. client'[c] = Retry(c)
            BY <6>1 DEF Types, TypeOK
          <6>3. QED
            BY <5>1, <5>3, <6>2
        <5>7. QED
          BY <5>4, <5>5, <5>6
      <4>2. r = <<c, r[2]>> /\ r[2] \in AttemptsOf(c)
        BY <4>1, RequestIs
      <4>3. QED
        BY <3>1, <3>2, <4>1, <4>2 DEF WasTold
    <3>5. QED
      BY <3>3, <3>4
  <2>5. CASE ~(Reply(r) \/ Refuse(r) \/ Commit(r))
    <3>1. pc[r] \in Handler \cup {"queued"} /\ client' = client
      BY <1>2, <2>5 DEF Serve, Start, SelectProject, InsertProject, ProjectTaken, SelectExisting,
         SelectAlready, PersistRun, PersistRows, PersistRefused, DeadlockVictim, WaitsFor, Fault,
         Raise, Unchanged, Handler
    <3>2. pc[r] \notin {"commit", "done"} /\ code[r] # "conflict"
      BY <3>1 DEF Handler, Progress
    <3>3. QED
      BY <1>1, <2>1, <2>2, <3>1, <3>2, WasToldStays
  <2>6. QED
    BY <2>3, <2>4, <2>5
<1>3. ASSUME NEW d \in Client,
             Unreachable(d) \/ Send(d) \/ GatewayError(d) \/ ConnectionLost(d)
      PROVE  WasTold(c)'
  <2>1. code' = code /\ lost_acks' = lost_acks
    BY <1>3 DEF Unreachable, Send, GatewayError, ConnectionLost, request
  <2>2. CASE c = d
    <3>1. ClientTyped
      BY DEF Types, TypeOK, ClientTyped
    <3>2. Retry(d).at \in {"sending", "failed"}
      BY <3>1, RetryTyped
    <3>3. PICK to : client' = [client EXCEPT ![d] = to] /\ to \in
            {Retry(d), [client[d] EXCEPT !.at = "failed"], [client[d] EXCEPT !.at = "waiting"]}
      BY <1>3 DEF Unreachable, Send, GatewayError, ConnectionLost
    <3>4. to.at \in {"sending", "failed", "waiting"}
      BY <3>2, <3>3 DEF Types, TypeOK
    <3>5. client'[c] = to
      BY <2>2, <3>3 DEF Types, TypeOK
    <3>6. QED
      BY <3>4, <3>5 DEF WasTold
  <2>3. CASE c # d
    <3>1. client'[c] = client[c]
      BY <1>3, <2>3 DEF Unreachable, Send, GatewayError, ConnectionLost, Types, TypeOK
    <3>2. \A k \in AttemptsOf(c) : pc'[<<c, k>>] = pc[<<c, k>>]
      BY <1>1, <1>3, <2>3 DEF Unreachable, Send, GatewayError, ConnectionLost, request, Types, TypeOK
    <3>3. QED
      BY <2>1, <3>1, <3>2, WasToldStays
  <2>4. QED
    BY <2>2, <2>3
<1>4. ASSUME NEW w \in Worker, Crash(w) PROVE WasTold(c)'
  <2>1. client' = client /\ code' = code /\ lost_acks \subseteq lost_acks'
    BY <1>4 DEF Crash
  <2>2. ASSUME NEW k \in AttemptsOf(c), pc[<<c, k>>] \in {"commit", "done"},
               pc'[<<c, k>>] \notin {"commit", "done"}, client[c].at = "ok"
        PROVE  c \in lost_acks'
    <3>1. <<c, k>> \in Request
      BY <1>1
    <3>2. /\ WorkerOf[<<c, k>>] = w /\ pc[<<c, k>>] \in Open \cup {"queued"}
          /\ pc[<<c, k>>] = "commit"
      BY <1>4, <2>2, <3>1 DEF Crash, Open, Handler
    <3>3. <<c, k>>[1] = c
      OBVIOUS
    <3> DEFINE dead == {r \in Request : WorkerOf[r] = w /\ pc[r] \in Open \cup {"queued"}}
    <3>4. <<c, k>> \in dead
      BY <3>1, <3>2
    <3>5. lost_acks' = lost_acks \cup
            {d \in Client : client[d].at = "ok" /\ \E r \in dead : r[1] = d /\ pc[r] = "commit"}
      BY <1>4 DEF Crash
    <3> HIDE DEF dead
    <3>6. QED
      BY <2>2, <3>2, <3>3, <3>4, <3>5
  <2>3. QED
    BY <2>1, <2>2, WasToldStays
<1>5. CASE UNCHANGED vars
  <2>1. UNCHANGED <<client, pc, code, lost_acks>>
    BY <1>5 DEF vars, request
  <2>2. QED
    BY <2>1, WasToldStays
<1>6. QED
  BY <1>2, <1>3, <1>4, <1>5 DEF Next, AllDone

\* What a client is told about its run or batch, after whatever retries, lost
\* answers, races for an id and crashes, is true of the store: what was
\* acknowledged is stored with its rows, or is about to be, or its worker died
\* before the commit; and what was refused as a conflict has its id taken.
\* Row level security is needed: without it a collector takes the run of
\* another org for its own.
THEOREM AnswersTrue ==
  ASSUME RowSecurity, IdsApart
  PROVE  Spec => []AnswersTellStore
<1> DEFINE Answers == (\A r \in Request : Progress(r)) /\ (\A c \in Client : WasTold(c))
<1>1. Init => Answers
  BY DEF Init, Progress, WasTold, Handler
<1>2. IndInv /\ Answers /\ [Next]_vars => Answers'
  BY ProgressStep, ToldStep DEF IndInv
<1>3. IndInv /\ Answers => AnswersTellStore
  <2> SUFFICES ASSUME IndInv, Answers, NEW c \in Client
               PROVE  /\ client[c].at = "ok" =>
                           \/ \E k \in AttemptsOf(c) : Stored(c, k)
                           \/ \E k \in AttemptsOf(c) : pc[<<c, k>>] = "commit"
                           \/ c \in lost_acks
                      /\ client[c].at = "conflict" => \E x \in runs : x.id = job[c].id
    BY DEF AnswersTellStore
  <2>1. \A k \in AttemptsOf(c) : <<c, k>> \in Request /\ JobOf(<<c, k>>) = job[c]
    BY DEF Request, JobOf
  <2>2. client[c].at = "conflict" => \E x \in runs : x.id = job[c].id
    BY <2>1 DEF WasTold, Progress
  <2>3. ASSUME NEW k \in AttemptsOf(c), pc[<<c, k>>] = "done", code[<<c, k>>] = "success"
        PROVE  Stored(c, k)
    <3>1. <<c, k>> \in Request /\ JobOf(<<c, k>>) = job[c]
      BY <2>1
    <3>2. tx[<<c, k>>].runs = {}
      BY <2>3, <3>1, NoTxIs DEF IndInv, Types, Place, Open, Handler
    <3>3. \A i \in DOMAIN Payload(<<c, k>>) : Held(<<c, k>>, i, runs \cup tx[<<c, k>>].runs)
      BY <2>3, <3>1 DEF Progress
    <3>4. QED
      BY <3>1, <3>2, <3>3 DEF Stored, Held
  <2>4. QED
    BY <2>2, <2>3 DEF WasTold
<1> HIDE DEF Answers
<1>4. QED
  BY <1>1, <1>2, <1>3, Invariance, PTL DEF Spec
=============================================================================
