------------------------- MODULE ControlPlaneProofs -------------------------
(***************************************************************************)
(* Theorems on ControlPlane, for any number of requests of every kind on   *)
(* any database.                                                           *)
(*                                                                         *)
(* IndInv says of an open transaction which rows it may have written and   *)
(* what they are (Written), that no two have written one row (Apart), and  *)
(* where a request of each kind is with what it was asked for.  That no    *)
(* commit deletes or changes what another request has made, reviews and    *)
(* candidates apart, follows from it (CommitKeeps, MovesKeep). CurationInv *)
(* adds what a request may write about reviews and candidates (Curated),   *)
(* and what it has found of them at each step (Curating).  StoreInv adds   *)
(* that stored runs keep all their rows, and ExportInv what an export has  *)
(* fetched, has still to fetch and has lost.                               *)
(***************************************************************************)
EXTENDS ControlPlane, TLAPS, FiniteSetTheorems

Failure == {400, 401, 403, 404, 409, 422, 500}

Types ==
  /\ \E s \in Scenario : job = s.job
  /\ pc \in [Request -> Steps]
  /\ answer \in [Request -> {0} \cup Success \cup Failure]
  /\ DOMAIN mem = Request /\ DOMAIN tx = Request /\ DOMAIN who = Request
  /\ \A r \in Request : DOMAIN mem[r] = DOMAIN NoMem /\ mem[r].code \in {0} \cup Success
  /\ clock \in Nat
  /\ barred \subseteq Request /\ lost_acks \subseteq Request
  /\ failures \in 0..MaxFailures

\* A handler writes right before it returns, a starting server all the time,
\* and the answer comes last.
Placed(r) ==
  /\ tx[r] # NoTx => pc[r] \in {"reply", "commit"} \/ Booting(r)
  /\ Kind(r) = "boot" => pc[r] \in {"idle", "ensure", "boot_insert", "done"}
  /\ pc[r] \in {"ensure", "boot_insert"} => Kind(r) = "boot"
  /\ pc[r] \notin {"commit", "done"} => answer[r] = 0
  /\ pc[r] = "commit" => answer[r] = mem[r].code

IsKey(row) == {"org", "admin", "revoked"} \subseteq DOMAIN row /\ row.revoked \in BOOLEAN

SameOwner(row, old) == row.org = old.org /\ row.admin = old.admin

\* A row that is new, and signed.
Signed(r, k, row) == k \notin DOMAIN db /\ row # Gone /\ row.by = r

Creators == {"create_org", "create_project"}
Curators == {"review", "promote", "un_promote"}

\* What r may write under the key k.
Written(r, k, row) ==
  \/ Kind(r) \in Creators /\ k = NewRow(r) /\ Signed(r, k, row)
  \/ Kind(r) = "boot" /\ k \in {BootRows(r)[1], BootRows(r)[2]} /\ Signed(r, k, row)
  \/ Kind(r) = "boot" /\ k = BootRows(r)[3] /\ k \notin DOMAIN db /\ IsKey(row)
  \/ Kind(r) = "create_key" /\ k = KeyRow(job[r].new) /\ k \notin DOMAIN db /\ IsKey(row)
  \/ /\ Kind(r) = "revoke_key" /\ k = KeyRow(job[r].target) /\ k \in DOMAIN db
     /\ IsKey(row) /\ row.revoked /\ SameOwner(row, db[k])
  \/ Kind(r) = "push_config" /\ k[1] = "config" /\ k[3] = job[r].config /\ Signed(r, k, row)
  \/ Kind(r) \in Curators /\ k[1] \in {"review", "golden"}
  \/ Kind(r) = "ingest" /\ k = RunRow(job[r].run)
  \/ Kind(r) = "ingest" /\ k[1] = "call" /\ k[3] \in Int /\ k[3] <= clock

Apart == \A q, r \in Request : q # r => DOMAIN tx[q] \cap DOMAIN tx[r] = {}

\* Stored keys, and those that are still to be made.
Keyed ==
  /\ \A k \in DOMAIN db : k[1] = "key" => IsKey(db[k])
  /\ \A r \in Request :
       Kind(r) = "create_key" /\ KeyRow(job[r].new) \in DOMAIN db => pc[r] = "done"

Revoked(key) == KeyRow(key) \in DOMAIN db /\ db[KeyRow(key)].revoked

Barred(r) ==
  r \in barred =>
    /\ Revoked(job[r].key)
    /\ pc[r] = "sent" \/ (pc[r] = "done" /\ answer[r] = 401)

Basis ==
  /\ Types
  /\ Apart
  /\ Keyed
  /\ \A r \in Request : Placed(r) /\ Barred(r) /\ \A k \in DOMAIN tx[r] : Written(r, k, tx[r][k])

-----------------------------------------------------------------------------
\* Where requests of each kind are.

Revokes(r) ==
  Kind(r) = "revoke_key" =>
    LET k == KeyRow(job[r].target)
    IN  /\ pc[r] = "revoke" => k \in DOMAIN db
        /\ pc[r] \in {"reply", "commit"} => k \in DOMAIN tx[r] \/ Revoked(job[r].target)
        /\ Kept(r) => Revoked(job[r].target)

Creates(r) ==
  Kind(r) \in Creators =>
    /\ pc[r] \in {"reply", "commit"} => NewRow(r) \in DOMAIN tx[r]
    /\ Kept(r) => NewRow(r) \in DOMAIN db /\ db[NewRow(r)].by = r
    /\ answer[r] = 409 => NewRow(r) \in DOMAIN db

CreatesKey(r) ==
  Kind(r) = "create_key" =>
    LET k == KeyRow(job[r].new)
    IN  /\ pc[r] \in {"reply", "commit"} => k \in DOMAIN tx[r]
        /\ Kept(r) => k \in DOMAIN db

IsRevision(r, k) == k[1] = "config" /\ k[3] = job[r].config

Pushes(r) ==
  Kind(r) = "push_config" =>
    /\ pc[r] = "insert" => IsRevision(r, mem[r].seen[1])
    /\ pc[r] \in {"reply", "commit"} =>
         \/ mem[r].code = 200 /\ \E k \in DOMAIN db : IsRevision(r, k)
         \/ mem[r].code = 201 /\ \E k \in DOMAIN tx[r] : IsRevision(r, k)
    /\ Kept(r) =>
         \E k \in DOMAIN db : IsRevision(r, k) /\ (answer[r] = 201 => db[k].by = r)

Boots == {q \in Request : Kind(q) = "boot"}

\* Row i of a starting server is there and no server made it.
MadeByOther(r, i) ==
  /\ BootRows(r)[i] \in DOMAIN db
  /\ i < 3
  /\ db[BootRows(r)[i]].by \notin Boots

Starts(r) ==
  Kind(r) = "boot" =>
    /\ Booting(r) =>
         /\ mem[r].id \in 1..4
         /\ \A i \in 1..3 : i < mem[r].id => BootRows(r)[i] \in DOMAIN db \cup DOMAIN tx[r]
    /\ pc[r] = "boot_insert" =>
         /\ mem[r].id \in 1..3
         /\ BootRows(r)[mem[r].id] \notin DOMAIN tx[r]
         /\ BootRows(r)[mem[r].id] \in DOMAIN db => MadeByOther(r, mem[r].id)
    /\ answer[r] = 500 => failures > 0 \/ \E i \in 1..3 : MadeByOther(r, i)
    /\ Kept(r) => \A i \in 1..3 : BootRows(r)[i] \in DOMAIN db

OneStarts == \A q, r \in Request : Booting(q) /\ Booting(r) => q = r

IndInv ==
  /\ Basis
  /\ OneStarts
  /\ \A r \in Request : Revokes(r) /\ Creates(r) /\ CreatesKey(r) /\ Pushes(r) /\ Starts(r)
-----------------------------------------------------------------------------
(* Steps *)

LEMMA Jobs ==
  ASSUME Types
  PROVE  /\ DOMAIN job = Request
         /\ MaxFailures \in Nat
         /\ \A r \in Request, q \in Request :
              Kind(r) = "create_key" /\ q # r =>
                /\ Kind(q) = "create_key" => job[q].new # job[r].new
                /\ Kind(q) = "boot" => job[q].key # job[r].new
         /\ \A r \in Request : Kind(r) = "ingest" =>
              /\ Len(job[r].calls) \in Nat
              /\ \A q \in Request \ {r} : Kind(q) = "ingest" => job[q].run # job[r].run
<1>1. PICK s \in Scenario : job = s.job
  BY DEF Types
<1>2. DOMAIN job = Request /\ MaxFailures \in Nat
  BY <1>1, TenancyAssumption
<1>3. \A r \in Request, q \in Request :
        Kind(r) = "create_key" /\ q # r =>
          /\ Kind(q) = "create_key" => job[q].new # job[r].new
          /\ Kind(q) = "boot" => job[q].key # job[r].new
  BY <1>1, TenancyAssumption DEF Kind
<1>4. \A r \in Request : Kind(r) = "ingest" =>
        /\ Len(job[r].calls) \in Nat
        /\ \A q \in Request \ {r} : Kind(q) = "ingest" => job[q].run # job[r].run
  BY <1>1, IngestsApart DEF Kind
<1>5. QED
  BY <1>2, <1>3, <1>4

\* Nothing but the handler of r moves.
Rest(r) ==
  /\ job' = job
  /\ pc' \in [Request -> Steps]
  /\ answer' \in [Request -> {0} \cup Success \cup Failure]
  /\ DOMAIN mem' = Request /\ DOMAIN tx' = Request /\ DOMAIN who' = Request
  /\ \A q \in Request \ {r} :
       /\ pc'[q] = pc[q] /\ answer'[q] = answer[q] /\ mem'[q] = mem[q]
       /\ tx'[q] = tx[q] /\ who'[q] = who[q]
  /\ DOMAIN mem'[r] = DOMAIN NoMem /\ mem'[r].code \in {0} \cup Success
  /\ clock' \in Nat /\ clock' >= clock
  /\ failures' \in failures..MaxFailures

NoneStarts == \A q \in Request : ~Booting(q)

\* It writes and answers nothing.
Quiet(r) ==
  /\ Rest(r)
  /\ UNCHANGED <<db, tx, answer, barred, lost_acks>>
  /\ pc[r] \notin {"reply", "commit", "done"} /\ pc'[r] \notin {"commit", "done"}
  /\ pc'[r] \in {"ensure", "boot_insert"} <=> Kind(r) = "boot"
  /\ pc[r] = "idle" => Kind(r) = "boot" /\ NoneStarts
  /\ pc[r] = "sent" => FindKey(job[r].key)

\* It ends with an error.
Fails(r) ==
  /\ Rest(r)
  /\ UNCHANGED <<db, barred, lost_acks>>
  /\ pc'[r] = "done"
  /\ answer'[r] \in Failure /\ (pc[r] = "sent" => answer'[r] = 401)
  /\ tx'[r] = NoTx \/ (tx'[r] = tx[r] /\ pc[r] = "sent")
  /\ pc[r] \notin {"idle", "reply", "commit", "done"}

\* It writes a row that no other transaction has.
Puts(r, k, row) ==
  /\ Rest(r)
  /\ UNCHANGED <<db, answer, barred, lost_acks>>
  /\ Write(r, k, row)
  /\ pc'[r] = IF Kind(r) = "boot" THEN "ensure" ELSE "reply"
  /\ pc[r] \in {"begin", "insert", "update", "revoke", "delete", "boot_insert"}
  /\ Locked(r, k) => Kind(r) = "create_key" /\ k = KeyRow(job[r].new)

LEMMA RefuseFails ==
  ASSUME Types, NEW r \in Request, NEW code \in Failure, Refuse(r, code),
         pc[r] \notin {"idle", "sent", "reply", "commit", "done"}
  PROVE  Fails(r)
<1>1. Rest(r)
  BY Jobs DEF Refuse, Rest, Goto, Types, Steps
<1>2. QED
  BY <1>1 DEF Refuse, Fails, Goto, history, Types

\* What a handler may do with its memory.
Remembers(r) ==
  /\ DOMAIN mem' = Request
  /\ \A q \in Request \ {r} : mem'[q] = mem[q]
  /\ DOMAIN mem'[r] = DOMAIN NoMem /\ mem'[r].code \in {0} \cup Success

LEMMA NothingNew ==
  ASSUME Types, NEW r \in Request, UNCHANGED mem
  PROVE  Remembers(r)
BY DEF Remembers, Types

LEMMA ReturnRemembers ==
  ASSUME Types, NEW r \in Request, NEW code \in Success, Return(r, code)
  PROVE  Remembers(r) /\ mem'[r].code = code /\ Goto(r, "reply")
BY DEF Return, Remembers, Types, NoMem

LEMMA TurnRest ==
  ASSUME Types, NEW r \in Request, NEW step \in Steps, Goto(r, step), Unchanged,
         Remembers(r), clock' \in Nat /\ clock' >= clock,
         tx' = tx \/ \E k, row : Write(r, k, row)
  PROVE  Rest(r) /\ pc'[r] = step /\ UNCHANGED <<db, answer, barred, lost_acks>>
<1>1. failures' \in failures..MaxFailures
  BY Jobs DEF Unchanged, Types
<1>2. QED
  BY <1>1 DEF Types, Goto, Unchanged, Rest, Remembers, Write, history

LEMMA TurnQuiet ==
  ASSUME Types, NEW r \in Request, NEW step \in Steps, Goto(r, step), Unchanged, tx' = tx,
         Remembers(r), clock' \in Nat /\ clock' >= clock,
         pc[r] \notin {"sent", "reply", "commit", "done"}, step \notin {"commit", "done"},
         step \in {"ensure", "boot_insert"} <=> Kind(r) = "boot",
         pc[r] = "idle" => Kind(r) = "boot" /\ NoneStarts
  PROVE  Quiet(r)
BY TurnRest DEF Quiet

LEMMA TurnPuts ==
  ASSUME Types, NEW r \in Request, NEW k, NEW row, NEW code \in Success,
         Write(r, k, row), Return(r, code), Unchanged,
         clock' \in Nat /\ clock' >= clock, Kind(r) # "boot",
         pc[r] \in {"begin", "insert", "update", "revoke", "delete"},
         Locked(r, k) => Kind(r) = "create_key" /\ k = KeyRow(job[r].new)
  PROVE  Puts(r, k, row) /\ mem'[r].code = code
<1>1. Remembers(r) /\ mem'[r].code = code /\ Goto(r, "reply") /\ "reply" \in Steps
  BY ReturnRemembers DEF Steps
<1>2. Rest(r) /\ pc'[r] = "reply" /\ UNCHANGED <<db, answer, barred, lost_acks>>
  BY <1>1, TurnRest
<1>3. QED
  BY <1>1, <1>2 DEF Puts

LEMMA SameClock == ASSUME Types, UNCHANGED clock PROVE clock' \in Nat /\ clock' >= clock
BY DEF Types
LEMMA NextClock == ASSUME Types, clock' = clock + 1 PROVE clock' \in Nat /\ clock' >= clock
BY DEF Types
LEMMA SomeSteps ==
  {"idle", "begin", "insert", "update", "reselect", "revoke", "delete", "samples", "ensure", "boot_insert",
   "details", "reply"} \subseteq Steps
BY DEF Steps

LEMMA AnswerQuiet ==
  ASSUME Types, NEW r \in Request, NEW rows, Answer(r, rows), Kind(r) # "boot",
         pc[r] \in {"begin", "samples"}
  PROVE  Quiet(r)
<1>1. Remembers(r)
  BY DEF Answer, Remembers, Types, NoMem, Success
<1>2. Goto(r, "reply") /\ tx' = tx /\ Unchanged /\ UNCHANGED clock
  BY DEF Answer
<1>3. QED
  BY <1>1, <1>2, SameClock, SomeSteps, TurnQuiet

Turn(r) == Quiet(r) \/ Fails(r) \/ \E k, row : Puts(r, k, row)

LEMMA ReadsTurn ==
  ASSUME Types, NEW r \in Request, Reads(r)
  PROVE  Quiet(r) \/ Fails(r)
<1>1. ASSUME NEW rows, Answer(r, rows), Kind(r) = "read", pc[r] = "begin"
      PROVE  Quiet(r)
  BY <1>1, AnswerQuiet
<1>2. ASSUME NEW code \in Failure, Refuse(r, code), Kind(r) = "read", pc[r] = "begin"
      PROVE  Fails(r)
  BY <1>2, RefuseFails
<1>3. ASSUME NEW k, NEW sees, AnswerOne(r, k, sees), Kind(r) = "read", pc[r] = "begin"
      PROVE  Quiet(r) \/ Fails(r)
  <2>1. (\E rows : Answer(r, rows)) \/ Refuse(r, 404)
    BY <1>3 DEF AnswerOne
  <2>2. QED
    BY <1>1, <1>2, <1>3, <2>1 DEF Failure
<1>4. SelectPair(r) => Quiet(r) \/ Fails(r)
  <2>1. ASSUME SelectPair(r) PROVE Kind(r) = "read" /\ pc[r] = "begin"
    BY <2>1 DEF SelectPair, Reading, Begin, Step
  <2>2. ASSUME SelectPair(r), Goto(r, "samples"), UNCHANGED <<tx, clock>>, Unchanged,
               mem' = [mem EXCEPT ![r].todo = <<job[r].run, job[r].vs>>]
        PROVE  Quiet(r)
    <3>1. Remembers(r)
      BY <2>2 DEF Remembers, Types, NoMem
    <3>2. QED
      BY <2>1, <2>2, <3>1, SameClock, SomeSteps, TurnQuiet
  <2>3. QED
    BY <1>2, <2>1, <2>2 DEF SelectPair, Failure
<1>5. Sample(r) => Quiet(r)
  <2> SUFFICES ASSUME Sample(r) PROVE Quiet(r)
    OBVIOUS
  <2>1. Remembers(r)
    BY DEF Sample, Remembers, Types, NoMem, Success
  <2>2. PICK step \in {"reply", "samples"} : Goto(r, step)
    BY DEF Sample
  <2>3. /\ UNCHANGED <<tx, clock>> /\ Unchanged /\ pc[r] = "samples" /\ Kind(r) = "read"
    BY DEF Sample, At, Step
  <2>4. QED
    BY <2>1, <2>2, <2>3, SameClock, SomeSteps, TurnQuiet
<1>6. ListOrgs(r) => Quiet(r)
  BY <1>1 DEF ListOrgs, Reading, Begin, Step
<1>7. GetOrg(r) \/ GetRun(r) => Quiet(r) \/ Fails(r)
  BY <1>3 DEF GetOrg, GetRun, Reading, Begin, Step
<1>8. ListProjects(r) \/ GetProject(r) \/ ListKeys(r) => Quiet(r) \/ Fails(r)
  <2>1. ListProjects(r) => Quiet(r) \/ Fails(r)
    BY <1>1, <1>2, <1>3 DEF ListProjects, Reading, Begin, Step, Failure
  <2>2. GetProject(r) => Quiet(r) \/ Fails(r)
    BY <1>1, <1>2 DEF GetProject, AnswerOne, Reading, Begin, Step, Failure
  <2>3. ListKeys(r) => Quiet(r) \/ Fails(r)
    BY <1>1, <1>2, <1>3 DEF ListKeys, Reading, Begin, Step, Failure
  <2>4. QED
    BY <2>1, <2>2, <2>3
<1>9. ListRuns(r) => Quiet(r)
  BY <1>1 DEF ListRuns, AnswerLatest, Reading, Begin, Step
<1>10. ListHistory(r) \/ GetRevision(r) => Quiet(r) \/ Fails(r)
  <2>1. ListHistory(r) => Quiet(r) \/ Fails(r)
    <3> SUFFICES ASSUME ListHistory(r) PROVE Quiet(r) \/ Fails(r)
      OBVIOUS
    <3>1. Kind(r) = "read" /\ pc[r] = "begin"
      BY DEF ListHistory, Reading, Begin, Step
    <3>2. Refuse(r, 404) \/ \E rows : Answer(r, rows)
      BY Zenon DEF ListHistory, AnswerLatest
    <3>3. QED
      BY <1>1, <1>2, <3>1, <3>2 DEF Failure
  <2>2. GetRevision(r) => Quiet(r) \/ Fails(r)
    BY <1>1, <1>2 DEF GetRevision, Reading, Begin, Step, Failure
  <2>3. QED
    BY <2>1, <2>2
<1>11. ReviewQueue(r) \/ ListReviews(r) \/ ListExpanded(r) => Quiet(r) \/ Fails(r)
  <2>1. ReviewQueue(r) => Quiet(r) \/ Fails(r)
    <3> SUFFICES ASSUME ReviewQueue(r) PROVE Quiet(r) \/ Fails(r)
      OBVIOUS
    <3>1. Kind(r) = "read" /\ pc[r] = "begin"
      BY DEF ReviewQueue, Reading, Begin, Step
    <3>2. Refuse(r, 404) \/ \E rows : Answer(r, rows)
      BY Zenon DEF ReviewQueue
    <3>3. QED
      BY <1>1, <1>2, <3>1, <3>2 DEF Failure
  <2>2. ListReviews(r) => Quiet(r) \/ Fails(r)
    BY <1>1, <1>2, <1>3 DEF ListReviews, Reading, Begin, Step, Failure
  <2>3. ListExpanded(r) => Quiet(r) \/ Fails(r)
    <3> SUFFICES ASSUME ListExpanded(r) PROVE Quiet(r) \/ Fails(r)
      OBVIOUS
    <3>1. Kind(r) = "read" /\ pc[r] = "begin"
      BY DEF ListExpanded, Reading, Begin, Step
    <3>2. Refuse(r, 404) \/ \E rows : Answer(r, rows)
      BY Zenon DEF ListExpanded
    <3>3. QED
      BY <1>1, <1>2, <3>1, <3>2 DEF Failure
  <2>4. QED
    BY <2>1, <2>2, <2>3
<1>12. Timeline(r) \/ Aggregate(r) => Quiet(r) \/ Fails(r)
  <2>1. Timeline(r) => Quiet(r) \/ Fails(r)
    <3> SUFFICES ASSUME Timeline(r) PROVE Quiet(r) \/ Fails(r)
      OBVIOUS
    <3>1. Kind(r) = "read" /\ pc[r] = "begin"
      BY DEF Timeline, Reading, Begin, Step
    <3>2. Refuse(r, 404) \/ \E rows : Answer(r, rows)
      BY Zenon DEF Timeline, AnswerLatest
    <3>3. QED
      BY <1>1, <1>2, <3>1, <3>2 DEF Failure
  <2>2. Aggregate(r) => Quiet(r) \/ Fails(r)
    BY <1>1, <1>2 DEF Aggregate, Reading, Begin, Step, Failure
  <2>3. QED
    BY <2>1, <2>2
<1>13. ListAssets(r) \/ AssetVersions(r) => Quiet(r) \/ Fails(r)
  <2>1. ListAssets(r) => Quiet(r) \/ Fails(r)
    <3> SUFFICES ASSUME ListAssets(r) PROVE Quiet(r) \/ Fails(r)
      OBVIOUS
    <3>1. Kind(r) = "read" /\ pc[r] = "begin"
      BY DEF ListAssets, Reading, Begin, Step
    <3>2. \E rows : Answer(r, rows)
      BY Zenon DEF ListAssets
    <3>3. QED
      BY <1>1, <3>1, <3>2
  <2>2. AssetVersions(r) => Quiet(r) \/ Fails(r)
    <3> SUFFICES ASSUME AssetVersions(r) PROVE Quiet(r) \/ Fails(r)
      OBVIOUS
    <3>1. Kind(r) = "read" /\ pc[r] = "begin"
      BY DEF AssetVersions, Reading, Begin, Step
    <3>2. Refuse(r, 404) \/ \E rows : Answer(r, rows)
      BY Zenon DEF AssetVersions
    <3>3. QED
      BY <1>1, <1>2, <3>1, <3>2 DEF Failure
  <2>3. QED
    BY <2>1, <2>2
<1>14. QED
  BY <1>4, <1>5, <1>6, <1>7, <1>8, <1>9, <1>10, <1>11, <1>12, <1>13 DEF Reads

LEMMA CallsTurn ==
  ASSUME Types, NEW r \in Request, ReadPage(r) \/ StampCalls(r)
  PROVE  Quiet(r) \/ Fails(r)
<1>1. CASE ReadPage(r)
  <2>1. Kind(r) = "walk" /\ pc[r] = "begin"
    BY <1>1 DEF ReadPage, Begin, Step
  <2>2. \/ Refuse(r, 404)
        \/ \E rows : \E step \in {"idle", "reply"} :
             /\ mem' = [mem EXCEPT ![r].code = 200, ![r].seen = rows]
             /\ Goto(r, step) /\ UNCHANGED <<tx, clock>> /\ Unchanged
    BY <1>1, Zenon DEF ReadPage
  <2>3. ASSUME NEW rows, NEW step \in {"idle", "reply"},
               mem' = [mem EXCEPT ![r].code = 200, ![r].seen = rows],
               Goto(r, step), UNCHANGED <<tx, clock>>, Unchanged
        PROVE  Quiet(r)
    <3>1. Remembers(r)
      BY <2>3 DEF Remembers, Types, NoMem, Success
    <3>2. QED
      BY <2>1, <2>3, <3>1, SameClock, SomeSteps, TurnQuiet
  <2>4. QED
    BY <2>1, <2>2, <2>3, RefuseFails DEF Failure
<1>2. CASE StampCalls(r)
  <2>1. Kind(r) = "ingest" /\ pc[r] = "begin"
    BY <1>2 DEF StampCalls, Begin, Step
  <2>2. Remembers(r)
    BY <1>2 DEF StampCalls, Remembers, Types, NoMem
  <2>3. Goto(r, "insert") /\ tx' = tx /\ Unchanged /\ clock' = clock + 1
    BY <1>2 DEF StampCalls
  <2>4. QED
    BY <2>1, <2>2, <2>3, NextClock, SomeSteps, TurnQuiet
<1>3. QED
  BY <1>1, <1>2

\* The handlers of orgs, projects and keys, by the rows they write.
LEMMA TenanciesTurn ==
  ASSUME Types, NEW r \in Request,
         SelectOrg(r) \/ SelectProject(r) \/ SelectKey(r) \/ Boot(r)
  PROVE  Quiet(r) \/ Fails(r)
<1>1. ASSUME NEW code \in Failure, Refuse(r, code), pc[r] = "begin"
      PROVE  Fails(r)
  BY <1>1, RefuseFails
<1>2. ASSUME NEW step \in {"insert", "revoke"}, Goto(r, step), UNCHANGED <<tx, mem, clock>>, Unchanged,
             pc[r] = "begin", Kind(r) # "boot"
      PROVE  Quiet(r)
  BY <1>2, NothingNew, SameClock, SomeSteps, TurnQuiet
<1>3. CASE SelectOrg(r) \/ SelectProject(r)
  <2>1. /\ Kind(r) # "boot" /\ pc[r] = "begin"
        /\ \/ \E code \in Failure : Refuse(r, code)
           \/ Goto(r, "insert") /\ UNCHANGED <<tx, mem, clock>> /\ Unchanged
    BY <1>3 DEF SelectOrg, SelectProject, Begin, Step, Failure
  <2>2. QED
    BY <1>1, <1>2, <2>1
<1>4. CASE SelectKey(r)
  <2>1. /\ Kind(r) # "boot" /\ pc[r] = "begin"
        /\ \/ \E code \in Failure : Refuse(r, code)
           \/ Goto(r, "revoke") /\ UNCHANGED <<tx, mem, clock>> /\ Unchanged
           \/ Return(r, 204) /\ UNCHANGED <<tx, clock>> /\ Unchanged
    BY <1>4 DEF SelectKey, Begin, Step, Failure
  <2>2. ASSUME Return(r, 204) /\ UNCHANGED <<tx, clock>> /\ Unchanged
        PROVE  Quiet(r)
    <3>1. Remembers(r) /\ Goto(r, "reply")
      BY <2>2, ReturnRemembers DEF Success
    <3>2. QED
      BY <2>1, <2>2, <3>1, SameClock, SomeSteps, TurnQuiet
  <2>3. QED
    BY <1>1, <1>2, <2>1, <2>2
<1>5. CASE Boot(r)
  <2>1. /\ Kind(r) = "boot" /\ pc[r] = "idle" /\ NoneStarts
        /\ Goto(r, "ensure") /\ UNCHANGED <<tx, clock>> /\ Unchanged
    BY <1>5 DEF Boot, Step, NoneStarts
  <2>2. Remembers(r)
    BY <1>5 DEF Boot, Remembers, Types, NoMem
  <2>3. QED
    BY <2>1, <2>2, SameClock, SomeSteps, TurnQuiet
<1>6. QED
  BY <1>3, <1>4, <1>5

LEMMA InsertNewTurn ==
  ASSUME Types, NEW r \in Request, InsertNew(r)
  PROVE  \/ Fails(r) /\ answer'[r] = 409 /\ Has(r, NewRow(r))
         \/ /\ Puts(r, NewRow(r), [created |-> clock + 1, by |-> r])
            /\ ~Locked(r, NewRow(r)) /\ ~Has(r, NewRow(r))
<1>1. Kind(r) \in Creators /\ pc[r] = "insert" /\ ~Locked(r, NewRow(r))
  BY DEF InsertNew, Step, Creators
<1>2. CASE Has(r, NewRow(r))
  <2>1. Refuse(r, 409) /\ 409 \in Failure
    BY <1>2 DEF InsertNew, Failure
  <2>2. answer'[r] = 409
    BY <2>1 DEF Refuse, Types
  <2>3. QED
    BY <1>1, <1>2, <2>1, <2>2, RefuseFails
<1>3. CASE ~Has(r, NewRow(r))
  <2>1. /\ Write(r, NewRow(r), [created |-> clock + 1, by |-> r])
        /\ clock' = clock + 1 /\ Return(r, 201) /\ Unchanged
    BY <1>3 DEF InsertNew
  <2>2. 201 \in Success /\ Kind(r) # "boot"
    BY <1>1 DEF Success, Creators
  <2>3. QED
    BY <1>1, <1>3, <2>1, <2>2, NextClock, TurnPuts
<1>4. QED
  BY <1>2, <1>3

LEMMA CreateKeyTurn ==
  ASSUME Types, NEW r \in Request, CreateKey(r)
  PROVE  Fails(r) \/ Puts(r, KeyRow(job[r].new), NewKeyRecord(job[r].org, job[r].admin))
<1>1. Kind(r) = "create_key" /\ pc[r] = "begin" /\ Kind(r) # "boot"
  BY DEF CreateKey, Begin, Step
<1>2. \/ \E code \in Failure : Refuse(r, code)
      \/ /\ Write(r, KeyRow(job[r].new), NewKeyRecord(job[r].org, job[r].admin))
         /\ Return(r, 201) /\ UNCHANGED clock /\ Unchanged
  BY DEF CreateKey, Failure
<1>3. QED
  BY <1>1, <1>2, RefuseFails, SameClock, TurnPuts DEF Success

LEMMA RevokeKeyTurn ==
  ASSUME Types, NEW r \in Request, RevokeKey(r)
  PROVE  LET k == KeyRow(job[r].target)
         IN  Puts(r, k, [Row(r, k) EXCEPT !.revoked = TRUE]) /\ ~Locked(r, k)
<1> DEFINE k == KeyRow(job[r].target)
           row == [Row(r, k) EXCEPT !.revoked = TRUE]
<1>1. /\ Kind(r) # "boot" /\ pc[r] = "revoke" /\ ~Locked(r, k) /\ Write(r, k, row)
      /\ Return(r, 204) /\ UNCHANGED clock /\ Unchanged
  BY DEF RevokeKey, At, Step
<1> HIDE DEF k, row
<1>2. Puts(r, k, row)
  BY <1>1, SameClock, TurnPuts DEF Success
<1>3. QED
  BY <1>1, <1>2 DEF k, row

LEMMA BootInsertTurn ==
  ASSUME Types, NEW r \in Request, BootInsert(r), Kind(r) = "boot"
  PROVE  LET k == BootRows(r)[mem[r].id]
         IN  /\ pc[r] = "boot_insert"
             /\ \/ Fails(r) /\ Has(r, k)
                \/ /\ Puts(r, k, BootRow(r, mem[r].id))
                   /\ mem'[r].id = mem[r].id + 1
                   /\ ~Locked(r, k) /\ ~Has(r, k)
<1> DEFINE k == BootRows(r)[mem[r].id]
           row == BootRow(r, mem[r].id)
<1>1. pc[r] = "boot_insert" /\ ~Locked(r, k)
  BY DEF BootInsert, Step
<1>2. CASE Has(r, k)
  <2>1. Refuse(r, 500) /\ 500 \in Failure
    BY <1>2 DEF BootInsert, Failure
  <2>2. QED
    BY <1>1, <1>2, <2>1, RefuseFails
<1>3. CASE ~Has(r, k)
  <2>1. /\ Write(r, k, row) /\ clock' = clock + 1
        /\ mem' = [mem EXCEPT ![r].id = @ + 1]
        /\ Goto(r, "ensure") /\ Unchanged
    BY <1>3 DEF BootInsert
  <2> HIDE DEF k, row
  <2>2. Remembers(r) /\ mem'[r].id = mem[r].id + 1
    BY <2>1 DEF Remembers, Types, NoMem
  <2>3. Rest(r) /\ pc'[r] = "ensure" /\ UNCHANGED <<db, answer, barred, lost_acks>>
    BY <2>1, <2>2, NextClock, SomeSteps, TurnRest
  <2>4. Puts(r, k, row)
    BY <1>1, <2>1, <2>3 DEF Puts
  <2>5. QED
    BY <1>1, <1>3, <2>2, <2>4 DEF k, row
<1>4. QED
  BY <1>2, <1>3

\* What it has written is there.
Commits(r) ==
  /\ Rest(r)
  /\ UNCHANGED <<barred, lost_acks>>
  /\ db' = [k \in Keys(r) |-> Row(r, k)]
  /\ tx'[r] = NoTx
  /\ pc'[r] = "done"
  /\ \/ pc[r] = "commit" /\ answer'[r] = answer[r]
     \/ pc[r] = "ensure" /\ mem[r].id > 3 /\ answer'[r] = 200

LEMMA EnsureTurn ==
  ASSUME Types, NEW r \in Request, Ensure(r), Kind(r) = "boot"
  PROVE  /\ pc[r] = "ensure"
         /\ \/ Commits(r) /\ mem[r].id > 3
            \/ /\ Quiet(r) /\ pc'[r] = "ensure" /\ mem'[r].id = mem[r].id + 1
               /\ ~(mem[r].id > 3) /\ Has(r, BootRows(r)[mem[r].id])
            \/ /\ Quiet(r) /\ pc'[r] = "boot_insert" /\ mem'[r].id = mem[r].id
               /\ ~(mem[r].id > 3) /\ ~Has(r, BootRows(r)[mem[r].id])
<1>1. pc[r] = "ensure" /\ UNCHANGED <<job, who, clock, history, failures>>
  BY DEF Ensure, Step
<1>2. CASE mem[r].id > 3
  <2>1. /\ db' = [k \in Keys(r) |-> Row(r, k)] /\ tx' = [tx EXCEPT ![r] = NoTx]
        /\ answer' = [answer EXCEPT ![r] = 200] /\ Goto(r, "done") /\ UNCHANGED mem
    BY <1>2 DEF Ensure
  <2>2. Rest(r)
    BY <1>1, <2>1, Jobs DEF Rest, Types, Goto, Steps, Success
  <2>3. QED
    BY <1>1, <1>2, <2>1, <2>2 DEF Commits, Types, Goto, history
<1>3. CASE ~(mem[r].id > 3)
  <2>1. UNCHANGED <<db, tx, answer>> /\ Unchanged
    BY <1>1, <1>3 DEF Ensure, Unchanged
  <2>2. CASE Has(r, BootRows(r)[mem[r].id])
    <3>1. mem' = [mem EXCEPT ![r].id = @ + 1] /\ UNCHANGED pc
      BY <1>3, <2>2 DEF Ensure, BootExists
    <3>2. Remembers(r) /\ mem'[r].id = mem[r].id + 1
      BY <3>1 DEF Remembers, Types, NoMem
    <3>3. Goto(r, "ensure") /\ pc'[r] = "ensure"
      BY <1>1, <3>1 DEF Goto, Types
    <3>4. Quiet(r)
      BY <1>1, <2>1, <3>2, <3>3, SameClock, SomeSteps, TurnQuiet
    <3>5. QED
      BY <1>1, <1>3, <2>2, <3>2, <3>3, <3>4
  <2>3. CASE ~Has(r, BootRows(r)[mem[r].id])
    <3>1. Goto(r, "boot_insert") /\ UNCHANGED mem /\ pc'[r] = "boot_insert"
      BY <1>3, <2>3 DEF Ensure, BootExists, Goto, Types
    <3>2. Quiet(r)
      BY <1>1, <2>1, <3>1, NothingNew, SameClock, SomeSteps, TurnQuiet
    <3>3. QED
      BY <1>1, <1>3, <2>3, <3>1, <3>2
  <2>4. QED
    BY <2>2, <2>3
<1>4. QED
  BY <1>2, <1>3

-----------------------------------------------------------------------------
(* Configs *)

LEMMA SelectConfigTurn ==
  ASSUME Types, NEW r \in Request, SelectConfig(r)
  PROVE  \/ Fails(r)
         \/ /\ Quiet(r) /\ pc'[r] = "reply" /\ mem'[r].code = 200
            /\ \E k : IsRevision(r, k) /\ Has(r, k)
         \/ Quiet(r) /\ pc'[r] = "insert" /\ IsRevision(r, mem'[r].seen[1])
<1> DEFINE project == Resolve(r, job[r].slug)
           k == ConfigRow(project, job[r].config)
<1>1. Kind(r) = "push_config" /\ pc[r] = "begin"
  BY DEF SelectConfig, Begin, Step
<1>2. IsRevision(r, k)
  BY DEF IsRevision, ConfigRow
<1>3. \/ \E code \in Failure : Refuse(r, code)
      \/ Return(r, 200) /\ UNCHANGED clock /\ Has(r, k) /\ UNCHANGED tx /\ Unchanged
      \/ /\ mem' = [mem EXCEPT ![r].time = clock + 1, ![r].seen = <<k>>]
         /\ clock' = clock + 1 /\ Goto(r, "insert") /\ UNCHANGED tx /\ Unchanged
  BY DEF SelectConfig, Failure
<1> HIDE DEF k
<1>4. ASSUME Return(r, 200), UNCHANGED clock, UNCHANGED tx, Unchanged
      PROVE  Quiet(r) /\ pc'[r] = "reply" /\ mem'[r].code = 200
  <2>1. Remembers(r) /\ Goto(r, "reply") /\ mem'[r].code = 200
    BY <1>4, ReturnRemembers DEF Success
  <2>2. Quiet(r)
    BY <1>1, <1>4, <2>1, SameClock, SomeSteps, TurnQuiet
  <2>3. QED
    BY <2>1, <2>2 DEF Goto, Types
<1>5. ASSUME mem' = [mem EXCEPT ![r].time = clock + 1, ![r].seen = <<k>>],
             clock' = clock + 1, Goto(r, "insert"), UNCHANGED tx, Unchanged
      PROVE  Quiet(r) /\ pc'[r] = "insert" /\ mem'[r].seen[1] = k
  <2>1. Remembers(r) /\ mem'[r].seen[1] = k
    BY <1>5 DEF Remembers, Types, NoMem
  <2>2. Quiet(r)
    BY <1>1, <1>5, <2>1, NextClock, SomeSteps, TurnQuiet
  <2>3. QED
    BY <1>5, <2>1, <2>2 DEF Goto, Types
<1>6. QED
  BY <1>1, <1>2, <1>3, <1>4, <1>5, RefuseFails

LEMMA InsertConfigTurn ==
  ASSUME Types, NEW r \in Request, InsertConfig(r)
  PROVE  LET k == mem[r].seen[1]
         IN  \/ Quiet(r) /\ pc'[r] = "reply" /\ mem'[r].code = 200 /\ Has(r, k)
             \/ /\ Puts(r, k, [id |-> clock + 1, at |-> mem[r].time, by |-> r])
                /\ ~Locked(r, k) /\ ~Has(r, k) /\ mem'[r].code = 201
<1> DEFINE k == mem[r].seen[1]
           row == [id |-> clock + 1, at |-> mem[r].time, by |-> r]
<1>1. Kind(r) = "push_config" /\ Kind(r) # "boot" /\ pc[r] = "insert" /\ ~Locked(r, k) /\ Unchanged
  BY DEF InsertConfig, At, Step
<1>2. \/ Has(r, k) /\ Return(r, 200) /\ UNCHANGED <<tx, clock>>
      \/ ~Has(r, k) /\ Write(r, k, row) /\ clock' = clock + 1 /\ Return(r, 201)
  BY DEF InsertConfig
<1> HIDE DEF k, row
<1>3. CASE Has(r, k) /\ Return(r, 200) /\ UNCHANGED <<tx, clock>>
  <2>1. Remembers(r) /\ Goto(r, "reply") /\ mem'[r].code = 200
    BY <1>3, ReturnRemembers DEF Success
  <2>2. Quiet(r)
    BY <1>1, <1>3, <2>1, SameClock, SomeSteps, TurnQuiet
  <2>3. pc'[r] = "reply"
    BY <2>1 DEF Goto, Types
  <2>4. QED
    BY <1>3, <2>1, <2>2, <2>3 DEF k
<1>4. CASE ~Has(r, k) /\ Write(r, k, row) /\ clock' = clock + 1 /\ Return(r, 201)
  <2>1. Puts(r, k, row) /\ mem'[r].code = 201
    BY <1>1, <1>4, NextClock, TurnPuts DEF Success
  <2>2. QED
    BY <1>1, <1>4, <2>1 DEF k, row
<1>5. QED
  BY <1>2, <1>3, <1>4

LEMMA LatestTurn ==
  ASSUME Types, NEW r \in Request, ReadLatest(r) \/ LoadLatest(r)
  PROVE  Quiet(r) \/ Fails(r)
<1>1. Kind(r) # "boot" /\ pc[r] = "begin"
  BY DEF ReadLatest, LoadLatest, Begin, Step
<1>2. (\E code \in Failure : Refuse(r, code)) \/ \E project : GetsLatest(r, project)
  BY DEF ReadLatest, LoadLatest, Failure
<1>3. ASSUME NEW project, GetsLatest(r, project) PROVE Quiet(r)
  <2>1. Remembers(r)
    BY <1>3 DEF GetsLatest, Remembers, Types, NoMem, Success
  <2>2. Goto(r, "reply") /\ UNCHANGED <<tx, clock>> /\ Unchanged
    BY <1>3 DEF GetsLatest
  <2>3. QED
    BY <1>1, <2>1, <2>2, SameClock, SomeSteps, TurnQuiet
<1>4. QED
  BY <1>1, <1>2, <1>3, RefuseFails

\* The client sends its push again.
Repeats(r) ==
  /\ Rest(r)
  /\ UNCHANGED <<db, tx, barred, lost_acks>>
  /\ pc[r] = "done" /\ Kind(r) = "push_config" /\ answer[r] = 500
  /\ pc'[r] = "idle" /\ answer'[r] = 0

LEMMA PushAgainRepeats ==
  ASSUME Types, NEW r \in Request, PushAgain(r)
  PROVE  Repeats(r)
<1>1. Rest(r)
  <2>1. Remembers(r)
    BY DEF PushAgain, Remembers, Types, NoMem
  <2>2. clock' \in Nat /\ clock' >= clock
    BY SameClock DEF PushAgain
  <2>3. failures' \in failures..MaxFailures
    BY Jobs DEF PushAgain, Types
  <2>4. QED
    BY <2>1, <2>2, <2>3 DEF PushAgain, Rest, Remembers, Types, Goto, Steps
<1>2. QED
  BY <1>1 DEF PushAgain, Repeats, Step, Goto, Types, history

-----------------------------------------------------------------------------
(* Reviews, candidates, exports and ingests *)

Curates(r) ==
  \E k, row : /\ Puts(r, k, row)
              /\ Kind(r) \in Curators /\ k[1] \in {"review", "golden"} /\ ~Locked(r, k)

LEMMA ReviewTurn ==
  ASSUME Types, NEW r \in Request, SelectReview(r) \/ UpdateReview(r) \/ InsertReview(r)
  PROVE  Quiet(r) \/ Fails(r) \/ Curates(r)
<1> DEFINE k == ReviewRow(r)
<1>1. k[1] \in {"review", "golden"}
  BY DEF ReviewRow
<1>2. Kind(r) = "review" /\ pc[r] \in {"begin", "update", "insert"}
  BY DEF SelectReview, UpdateReview, InsertReview, Begin, At, Step
<1>3. \/ \E code \in Failure : Refuse(r, code)
      \/ \E step \in {"update", "insert"} : Goto(r, step) /\ UNCHANGED <<tx, mem, clock>> /\ Unchanged
      \/ /\ ~Locked(r, k) /\ pc[r] \in {"update", "insert"}
         /\ Write(r, k, [by |-> r]) /\ Return(r, 201) /\ UNCHANGED clock /\ Unchanged
  BY DEF SelectReview, UpdateReview, InsertReview, Failure, At, Step
<1> HIDE DEF k
<1>4. ASSUME NEW step \in {"update", "insert"}, Goto(r, step), UNCHANGED <<tx, mem, clock>>, Unchanged
      PROVE  Quiet(r)
  BY <1>2, <1>4, NothingNew, SameClock, SomeSteps, TurnQuiet
<1>5. ASSUME ~Locked(r, k), pc[r] \in {"update", "insert"},
             Write(r, k, [by |-> r]), Return(r, 201), UNCHANGED clock, Unchanged
      PROVE  Curates(r)
  <2>1. Puts(r, k, [by |-> r])
    BY <1>2, <1>5, SameClock, TurnPuts DEF Success
  <2>2. QED
    BY <1>1, <1>2, <1>5, <2>1 DEF Curates, Curators
<1>6. QED
  BY <1>2, <1>3, <1>4, <1>5, RefuseFails

LEMMA GoldenTurn ==
  ASSUME Types, NEW r \in Request,
         \/ SelectGolden(r) \/ UpdateGolden(r) \/ InsertGolden(r) \/ ReselectGolden(r)
         \/ SelectTarget(r) \/ DeleteTarget(r)
  PROVE  Quiet(r) \/ Fails(r) \/ Curates(r)
<1>1. ASSUME NEW code \in Failure, Refuse(r, code), pc[r] \in {"begin", "reselect"}
      PROVE  Fails(r)
  BY <1>1, RefuseFails
<1>2. ASSUME NEW id, NEW step \in {"update", "delete"}, mem' = [mem EXCEPT ![r].id = id], Goto(r, step),
             UNCHANGED <<tx, clock>>, Unchanged,
             Kind(r) \in Curators, pc[r] \in {"begin", "reselect"}
      PROVE  Quiet(r)
  <2>1. Remembers(r)
    BY <1>2 DEF Remembers, Types, NoMem
  <2>2. QED
    BY <1>2, <2>1, SameClock, SomeSteps, TurnQuiet DEF Curators
<1>3. ASSUME NEW step \in {"insert", "reselect"}, Goto(r, step), UNCHANGED <<tx, mem, clock>>, Unchanged,
             Kind(r) \in Curators, pc[r] \in {"begin", "insert"}
      PROVE  Quiet(r)
  BY <1>3, NothingNew, SameClock, SomeSteps, TurnQuiet DEF Curators
<1>4. ASSUME NEW code \in Success, Return(r, code), UNCHANGED <<tx, clock>>, Unchanged,
             Kind(r) \in Curators, pc[r] \in {"update", "delete"}
      PROVE  Quiet(r)
  <2>1. Remembers(r) /\ Goto(r, "reply")
    BY <1>4, ReturnRemembers
  <2>2. QED
    BY <1>4, <2>1, SameClock, SomeSteps, TurnQuiet DEF Curators
<1>5. ASSUME NEW k, NEW row, NEW code \in Success, Write(r, k, row), Return(r, code),
             k[1] \in {"review", "golden"}, ~Locked(r, k),
             clock' \in Nat /\ clock' >= clock, Unchanged,
             Kind(r) \in Curators, pc[r] \in {"update", "delete", "insert"}
      PROVE  Curates(r)
  <2>1. Puts(r, k, row)
    BY <1>5, TurnPuts DEF Curators
  <2>2. QED
    BY <1>5, <2>1 DEF Curates
<1>6. GoldenRow(r)[1] = "golden" /\ TargetRow(r)[1] = "golden" /\ {201, 204} \subseteq Success
  BY DEF GoldenRow, TargetRow, Success
<1>7. CASE SelectGolden(r) \/ ReselectGolden(r) \/ SelectTarget(r)
  <2>1. {403, 404, 500} \subseteq Failure /\ {"promote", "un_promote"} \subseteq Curators
    BY DEF Failure, Curators
  <2>2. CASE SelectGolden(r)
    <3>1. Kind(r) = "promote" /\ pc[r] = "begin"
      BY <2>2 DEF SelectGolden, Begin, Step
    <3>2. \/ Refuse(r, 404)
          \/ /\ mem' = [mem EXCEPT ![r].id = Row(r, GoldenRow(r)).id] /\ Goto(r, "update")
             /\ UNCHANGED <<tx, clock>> /\ Unchanged
          \/ Goto(r, "insert") /\ UNCHANGED <<tx, mem, clock>> /\ Unchanged
      BY <2>2 DEF SelectGolden
    <3>3. QED
      BY <1>1, <1>2, <1>3, <2>1, <3>1, <3>2
  <2>3. CASE ReselectGolden(r)
    <3>1. Kind(r) = "promote" /\ pc[r] = "reselect"
      BY <2>3 DEF ReselectGolden, At, Step
    <3>2. \/ Refuse(r, 500)
          \/ /\ mem' = [mem EXCEPT ![r].id = Row(r, GoldenRow(r)).id] /\ Goto(r, "update")
             /\ UNCHANGED <<tx, clock>> /\ Unchanged
      BY <2>3 DEF ReselectGolden
    <3>3. QED
      BY <1>1, <1>2, <2>1, <3>1, <3>2
  <2>4. CASE SelectTarget(r)
    <3>1. Kind(r) = "un_promote" /\ pc[r] = "begin"
      BY <2>4 DEF SelectTarget, Begin, Step
    <3>2. \/ Refuse(r, 404) \/ Refuse(r, 403)
          \/ /\ mem' = [mem EXCEPT ![r].id = Row(r, TargetRow(r)).id] /\ Goto(r, "delete")
             /\ UNCHANGED <<tx, clock>> /\ Unchanged
      BY <2>4 DEF SelectTarget
    <3>3. QED
      BY <1>1, <1>2, <2>1, <3>1, <3>2
  <2>5. QED
    BY <1>7, <2>2, <2>3, <2>4
<1>8. CASE UpdateGolden(r) \/ InsertGolden(r) \/ DeleteTarget(r)
  <2>1. CASE UpdateGolden(r)
    <3>1. /\ Kind(r) \in Curators /\ pc[r] = "update" /\ ~Locked(r, GoldenRow(r))
          /\ Return(r, 201) /\ UNCHANGED clock /\ Unchanged
          /\ UNCHANGED tx \/ \E row : Write(r, GoldenRow(r), row)
      BY <2>1 DEF UpdateGolden, At, Step, Curators
    <3>2. QED
      BY <1>4, <1>5, <1>6, <3>1, SameClock
  <2>2. CASE InsertGolden(r)
    <3>1. /\ Kind(r) \in Curators /\ pc[r] = "insert" /\ ~Locked(r, GoldenRow(r)) /\ Unchanged
          /\ \/ Goto(r, "reselect") /\ UNCHANGED <<tx, mem, clock>>
             \/ /\ \E row : Write(r, GoldenRow(r), row)
                /\ clock' = clock + 1 /\ Return(r, 201)
      BY <2>2 DEF InsertGolden, At, Step, Curators
    <3>2. QED
      BY <1>3, <1>5, <1>6, <3>1, NextClock
  <2>3. CASE DeleteTarget(r)
    <3>1. /\ Kind(r) \in Curators /\ pc[r] = "delete" /\ ~Locked(r, TargetRow(r))
          /\ Return(r, 204) /\ UNCHANGED clock /\ Unchanged
          /\ UNCHANGED tx \/ \E row : Write(r, TargetRow(r), row)
      BY <2>3 DEF DeleteTarget, At, Step, Curators
    <3>2. QED
      BY <1>4, <1>5, <1>6, <3>1, SameClock
  <2>4. QED
    BY <1>8, <2>1, <2>2, <2>3
<1>9. QED
  BY <1>7, <1>8

\* The export has its answers.
Finishes(r) ==
  /\ Rest(r)
  /\ UNCHANGED <<db, tx, barred, lost_acks>>
  /\ Kind(r) = "export" /\ pc[r] \in {"begin", "details"}
  /\ pc'[r] = "done" /\ answer'[r] = 200

LEMMA ExportTurn ==
  ASSUME Types, NEW r \in Request,
         ListGolden(r) \/ FetchRefused(r) \/ FetchFailed(r) \/ FetchDetail(r) \/ WriteFile(r)
  PROVE  Quiet(r) \/ Fails(r) \/ Finishes(r)
<1>1. ASSUME Remembers(r), answer' = [answer EXCEPT ![r] = 200], Goto(r, "done"),
             UNCHANGED <<job, db, tx, who, clock, history, failures>>,
             Kind(r) = "export", pc[r] \in {"begin", "details"}
      PROVE  Finishes(r)
  <2>1. Rest(r)
    BY <1>1, SameClock, Jobs DEF Rest, Remembers, Types, Goto, Steps, Success
  <2>2. QED
    BY <1>1, <2>1 DEF Finishes, Types, Goto, history
<1>2. ASSUME Remembers(r), UNCHANGED <<pc, tx, clock>>, Unchanged,
             Kind(r) = "export", pc[r] = "details"
      PROVE  Quiet(r)
  <2>1. Goto(r, "details")
    BY <1>2 DEF Goto, Types
  <2>2. QED
    BY <1>2, <2>1, SameClock, SomeSteps, TurnQuiet
<1>3. Skipped(r) => Remembers(r)
  BY DEF Skipped, Remembers, Types, NoMem
<1>4. CASE ListGolden(r)
  <2> DEFINE after(todo, before) == [mem EXCEPT ![r].todo = todo, ![r].before = before]
  <2>1. Kind(r) = "export" /\ pc[r] = "begin"
    BY <1>4 DEF ListGolden, Begin, Step
  <2>2. \/ Refuse(r, 404)
        \/ \E todo, before :
             /\ mem' = after(todo, before)
             /\ \/ answer' = [answer EXCEPT ![r] = 200] /\ Goto(r, "done")
                \/ Goto(r, "details") /\ UNCHANGED answer
             /\ UNCHANGED <<job, db, tx, who, clock, history, failures>>
    BY <1>4, Zenon DEF ListGolden
  <2>3. ASSUME NEW todo, NEW before, mem' = after(todo, before)
        PROVE  Remembers(r)
    BY <2>3 DEF Remembers, Types, NoMem
  <2> HIDE DEF after
  <2>4. ASSUME Remembers(r), Goto(r, "details"), UNCHANGED answer,
               UNCHANGED <<job, db, tx, who, clock, history, failures>>
        PROVE  Quiet(r)
    BY <2>1, <2>4, SameClock, SomeSteps, TurnQuiet DEF Unchanged
  <2>5. QED
    BY <1>1, <2>1, <2>2, <2>3, <2>4, RefuseFails DEF Failure
<1>5. CASE FetchRefused(r)
  <2>1. Kind(r) = "export" /\ pc[r] = "details" /\ Refuse(r, 401)
    BY <1>5 DEF FetchRefused, AtDetail, At, Step
  <2>2. QED
    BY <2>1, RefuseFails DEF Failure
<1>6. CASE FetchFailed(r)
  <2>1. /\ Kind(r) = "export" /\ pc[r] = "details" /\ Skipped(r)
        /\ failures < MaxFailures /\ failures' = failures + 1
        /\ UNCHANGED <<job, db, tx, pc, who, answer, clock, history>>
    BY <1>6 DEF FetchFailed, AtDetail, At, Step
  <2>2. Rest(r)
    <3>1. failures' \in failures..MaxFailures
      BY <2>1, Jobs DEF Types
    <3>2. QED
      BY <1>3, <2>1, <3>1, SameClock DEF Rest, Remembers, Types
  <2>3. QED
    BY <2>1, <2>2 DEF Quiet, history
<1>7. CASE FetchDetail(r)
  <2>1. /\ Kind(r) = "export" /\ pc[r] = "details"
        /\ UNCHANGED <<pc, tx, clock>> /\ Unchanged
        /\ \/ Skipped(r)
           \/ \E id : mem' = [mem EXCEPT ![r].todo = Tail(@), ![r].seen = Append(@, id)]
    BY <1>7 DEF FetchDetail, AtDetail, At, Step
  <2>2. Remembers(r)
    BY <1>3, <2>1 DEF Remembers, Types, NoMem
  <2>3. QED
    BY <1>2, <2>1, <2>2
<1>8. CASE WriteFile(r)
  <2>1. Kind(r) = "export" /\ pc[r] = "details"
    BY <1>8 DEF WriteFile, At, Step
  <2>2. Remembers(r)
    BY <1>8 DEF WriteFile, Remembers, Types, NoMem
  <2>3. QED
    BY <1>1, <1>8, <2>1, <2>2 DEF WriteFile
<1>9. QED
  BY <1>4, <1>5, <1>6, <1>7, <1>8

\* It writes a run and calls with ids that are drawn for them.
Ingests(r) ==
  /\ Rest(r)
  /\ UNCHANGED <<db, answer, barred, lost_acks>>
  /\ Kind(r) = "ingest" /\ pc[r] = "insert" /\ pc'[r] = "reply"
  /\ \A k \in DOMAIN tx'[r] :
       \/ k = RunRow(job[r].run)
       \/ k[1] = "call" /\ k[3] \in Int /\ clock < k[3] /\ k[3] <= clock'

LEMMA InsertCallsIngests ==
  ASSUME Types, NEW r \in Request, InsertCalls(r)
  PROVE  Ingests(r)
<1> DEFINE project == ProjectRow(who[r].org, job[r].slug)
           n == Len(job[r].calls)
           calls == {CallRow(project, clock + i) : i \in 1..n}
           rows == [k \in {RunRow(job[r].run)} \cup calls |->
                     IF k \in calls THEN CallOf(r, k[3] - clock) ELSE RunOf(r, project)]
<1>1. Kind(r) = "ingest" /\ pc[r] = "insert"
  BY DEF InsertCalls, At, Step
<1>2. tx' = [tx EXCEPT ![r] = rows] /\ clock' = clock + n /\ Return(r, 201) /\ Unchanged
  BY DEF InsertCalls
<1>3. n \in Nat
  BY <1>1, Jobs
<1>4. \A k \in DOMAIN rows :
        k = RunRow(job[r].run) \/ (k[1] = "call" /\ k[3] \in Int /\ clock < k[3] /\ k[3] <= clock + n)
  BY <1>3 DEF CallRow, Types
<1> HIDE DEF n, rows
<1>5. tx'[r] = rows /\ DOMAIN tx' = Request /\ \A q \in Request \ {r} : tx'[q] = tx[q]
  BY <1>2 DEF Types
<1>6. Remembers(r) /\ Goto(r, "reply")
  BY <1>2, ReturnRemembers DEF Success
<1>7. clock' \in Nat /\ clock' >= clock /\ failures' \in failures..MaxFailures
  BY <1>2, <1>3, Jobs DEF Unchanged, Types
<1>8. Rest(r)
  BY <1>2, <1>5, <1>6, <1>7 DEF Rest, Remembers, Unchanged, Goto, Types, Steps
<1>9. QED
  BY <1>1, <1>2, <1>4, <1>5, <1>6, <1>8 DEF Ingests, Unchanged, history, Goto, Types

-----------------------------------------------------------------------------
(* What is common to all requests *)

\* A request is sent; it is barred if its key was revoked by then.
Sends(r) ==
  /\ Rest(r)
  /\ UNCHANGED <<db, tx, answer, lost_acks>>
  /\ pc[r] = "idle" /\ Kind(r) # "boot" /\ pc'[r] = "sent"
  /\ barred' = IF Revoked(job[r].key) THEN barred \cup {r} ELSE barred

\* Success is sent.
Replies(r) ==
  /\ Rest(r)
  /\ UNCHANGED <<db, tx, mem, barred, lost_acks>>
  /\ pc[r] = "reply" /\ pc'[r] = "commit" /\ answer'[r] = mem[r].code

\* The worker dies.
Dies(r) ==
  /\ Rest(r)
  /\ UNCHANGED <<db, answer, barred>>
  /\ tx'[r] = NoTx
  /\ pc[r] \notin {"idle", "sent", "done"} /\ pc'[r] = "done"
  /\ lost_acks' = IF pc[r] = "commit" THEN lost_acks \cup {r} ELSE lost_acks
  /\ failures' > 0

LEMMA SendSends ==
  ASSUME Types, NEW r \in Request, Send(r)
  PROVE  Sends(r)
<1>1. Remembers(r)
  BY DEF Send, Remembers, Types, NoMem
<1>2. failures' \in failures..MaxFailures
  BY Jobs DEF Send, Types
<1>3. Rest(r)
  BY <1>1, <1>2, SameClock DEF Send, Rest, Remembers, Goto, Types, Steps
<1>4. QED
  BY <1>3 DEF Send, Sends, Step, Revoked, Goto, Types

LEMMA AuthenticateTurn ==
  ASSUME Types, NEW r \in Request, Placed(r), Authenticate(r) \/ TouchLastUsed(r)
  PROVE  \/ Quiet(r) /\ pc'[r] \in {"touch", "begin"}
         \/ Fails(r) /\ pc[r] = "sent"
<1>1. Kind(r) # "boot" /\ pc[r] \in {"sent", "touch"}
  BY DEF Placed, Authenticate, TouchLastUsed, Step
<1>2. failures' \in failures..MaxFailures
  BY Jobs DEF Authenticate, TouchLastUsed, Unchanged, Types
<1>3. CASE Authenticate(r)
  <2>1. pc[r] = "sent" /\ UNCHANGED <<job, db, tx, mem, clock, history, failures>>
    BY <1>3 DEF Authenticate, Step
  <2>2. CASE FindKey(job[r].key)
    <3>1. PICK step \in {"touch", "begin"} : Goto(r, step)
      BY <1>3, <2>2 DEF Authenticate
    <3>2. \E p : who' = [who EXCEPT ![r] = p]
      BY <1>3, <2>2 DEF Authenticate
    <3>3. UNCHANGED answer
      BY <1>3, <2>2 DEF Authenticate
    <3>4. Rest(r)
      BY <1>2, <2>1, <3>1, <3>2, <3>3, NothingNew, SameClock DEF Rest, Remembers, Goto, Types, Steps
    <3>5. pc'[r] = step
      BY <3>1 DEF Goto, Types
    <3>6. QED
      BY <1>1, <2>1, <2>2, <3>3, <3>4, <3>5 DEF Quiet, history
  <2>3. CASE ~FindKey(job[r].key)
    <3>1. answer' = [answer EXCEPT ![r] = 401] /\ Goto(r, "done") /\ UNCHANGED who
      BY <1>3, <2>3 DEF Authenticate
    <3>2. Rest(r)
      BY <1>2, <2>1, <3>1, NothingNew, SameClock DEF Rest, Remembers, Goto, Types, Steps, Failure
    <3>3. answer'[r] = 401 /\ pc'[r] = "done"
      BY <3>1 DEF Goto, Types
    <3>4. QED
      BY <1>1, <2>1, <3>2, <3>3 DEF Fails, history, Failure
  <2>4. QED
    BY <2>2, <2>3
<1>4. CASE TouchLastUsed(r)
  <2>1. pc[r] = "touch" /\ Goto(r, "begin") /\ UNCHANGED <<tx, mem, clock>> /\ Unchanged
    BY <1>4 DEF TouchLastUsed, Step
  <2>2. Quiet(r)
    BY <1>1, <2>1, NothingNew, SameClock, SomeSteps, TurnQuiet
  <2>3. QED
    BY <2>1, <2>2 DEF Goto, Types
<1>5. QED
  BY <1>3, <1>4

LEMMA EndTurn ==
  ASSUME Types, NEW r \in Request, Reply(r) \/ Commit(r) \/ Fault(r) \/ Die(r)
  PROVE  \/ Replies(r)
         \/ Commits(r) /\ pc[r] = "commit"
         \/ Fails(r) /\ failures' > 0 /\ answer'[r] = 500
         \/ Dies(r)
<1>1. MaxFailures \in Nat /\ failures \in Nat
  BY Jobs DEF Types
<1>2. CASE Reply(r)
  <2>1. /\ pc[r] = "reply" /\ answer' = [answer EXCEPT ![r] = mem[r].code] /\ Goto(r, "commit")
        /\ UNCHANGED <<job, db, tx, who, mem, clock, history, failures>>
    BY <1>2 DEF Reply, Step
  <2>2. Rest(r)
    <3>1. failures' \in failures..MaxFailures
      BY <2>1, Jobs DEF Types
    <3>2. QED
      BY <2>1, <3>1, NothingNew, SameClock DEF Rest, Remembers, Goto, Types, Steps
  <2>3. QED
    BY <2>1, <2>2 DEF Replies, history, Goto, Types
<1>3. CASE Commit(r)
  <2>1. /\ pc[r] = "commit" /\ db' = [k \in Keys(r) |-> Row(r, k)]
        /\ tx' = [tx EXCEPT ![r] = NoTx] /\ Goto(r, "done")
        /\ UNCHANGED <<job, who, mem, answer, clock, history, failures>>
    BY <1>3 DEF Commit, Step
  <2>2. Rest(r)
    <3>1. failures' \in failures..MaxFailures
      BY <2>1, Jobs DEF Types
    <3>2. QED
      BY <2>1, <3>1, NothingNew, SameClock DEF Rest, Remembers, Goto, Types, Steps
  <2>3. QED
    BY <2>1, <2>2 DEF Commits, history, Goto, Types
<1>4. CASE Fault(r)
  <2>1. /\ pc[r] \notin {"idle", "sent", "done", "details", "reply", "commit"}
        /\ failures < MaxFailures /\ failures' = failures + 1
        /\ tx' = [tx EXCEPT ![r] = NoTx] /\ answer' = [answer EXCEPT ![r] = 500] /\ Goto(r, "done")
        /\ UNCHANGED <<job, db, who, mem, clock, history>>
    BY <1>4 DEF Fault, Open
  <2>2. failures' \in failures..MaxFailures /\ failures' > 0
    BY <1>1, <2>1
  <2>3. Rest(r)
    BY <2>1, <2>2, NothingNew, SameClock DEF Rest, Remembers, Goto, Types, Steps, Failure
  <2>4. QED
    BY <2>1, <2>2, <2>3 DEF Fails, history, Goto, Types, Failure
<1>5. CASE Die(r)
  <2>1. /\ pc[r] \notin {"idle", "sent", "done", "details"}
        /\ failures < MaxFailures /\ failures' = failures + 1
        /\ tx' = [tx EXCEPT ![r] = NoTx] /\ Goto(r, "done")
        /\ lost_acks' = IF pc[r] = "commit" THEN lost_acks \cup {r} ELSE lost_acks
        /\ UNCHANGED <<job, db, who, mem, answer, clock, barred>>
    BY <1>5 DEF Die, Open
  <2>2. failures' \in failures..MaxFailures /\ failures' > 0
    BY <1>1, <2>1
  <2>3. Rest(r)
    BY <2>1, <2>2, NothingNew, SameClock DEF Rest, Remembers, Goto, Types, Steps
  <2>4. QED
    BY <2>1, <2>2, <2>3 DEF Dies, Goto, Types
<1>6. QED
  BY <1>2, <1>3, <1>4, <1>5

-----------------------------------------------------------------------------
(* What lasts *)

Lasting == {"org", "project", "config", "key"}

LEMMA Tags ==
  ASSUME NEW r \in Request
  PROVE  /\ Kind(r) \in Creators => NewRow(r)[1] \in {"org", "project"}
         /\ BootRows(r)[1][1] = "org" /\ BootRows(r)[2][1] = "project" /\ BootRows(r)[3][1] = "key"
         /\ \A key : KeyRow(key)[1] = "key" /\ KeyRow(key)[2] = key
         /\ \A run : RunRow(run)[1] = "run" /\ RunRow(run)[2] = run
BY DEF NewRow, BootRows, OrgRow, ProjectRow, KeyRow, RunRow

LEMMA NotGone ==
  /\ \A row : IsKey(row) => row # Gone
  /\ \A a, b : [created |-> a, by |-> b] # Gone
  /\ \A a, b, c : [id |-> a, at |-> b, by |-> c] # Gone
<1>1. DOMAIN Gone = {"gone"}
  BY DEF Gone
<1>2. \A a, b : DOMAIN [created |-> a, by |-> b] = {"created", "by"}
  OBVIOUS
<1>3. \A a, b, c : DOMAIN [id |-> a, at |-> b, by |-> c] = {"id", "at", "by"}
  OBVIOUS
<1>4. QED
  BY <1>1, <1>2, <1>3 DEF IsKey

\* Orgs, projects, configs and keys that are written.
LEMMA WrittenLasts ==
  ASSUME NEW r \in Request, NEW k, NEW row, Written(r, k, row), k[1] \in Lasting
  PROVE  /\ row # Gone
         /\ k \in DOMAIN db =>
              Kind(r) = "revoke_key" /\ k[1] = "key" /\ IsKey(row) /\ row.revoked /\ SameOwner(row, db[k])
         /\ k[1] = "key" => IsKey(row) /\ Kind(r) \in {"boot", "create_key", "revoke_key"}
BY Tags, NotGone DEF Written, Signed, Lasting, Creators, Curators

Keeps ==
  \A k \in DOMAIN db :
    k[1] \in Lasting =>
      /\ k \in DOMAIN db'
      /\ k[1] # "key" => db'[k] = db[k]
      /\ k[1] = "key" => IsKey(db'[k]) /\ (db[k].revoked => db'[k].revoked) /\ SameOwner(db'[k], db[k])

LEMMA CommitKeeps ==
  ASSUME Basis, NEW r \in Request, Commits(r)
  PROVE  /\ Keeps
         /\ \A k \in DOMAIN db' : k \in DOMAIN db \/ (k \in DOMAIN tx[r] /\ db'[k] = tx[r][k])
         /\ \A k \in DOMAIN tx[r] : k[1] \in Lasting => k \in DOMAIN db' /\ db'[k] = tx[r][k]
<1>1. db' = [k \in Keys(r) |-> Row(r, k)]
  BY DEF Commits
<1>2. \A k \in DOMAIN tx[r] : Written(r, k, tx[r][k])
  BY DEF Basis
<1>3. \A k \in DOMAIN db : k[1] = "key" => IsKey(db[k])
  BY DEF Basis, Keyed
<1>4. \A k \in DOMAIN tx[r] :
        k[1] \in Lasting =>
          /\ tx[r][k] # Gone
          /\ k \in DOMAIN db =>
               k[1] = "key" /\ IsKey(tx[r][k]) /\ tx[r][k].revoked /\ SameOwner(tx[r][k], db[k])
  BY <1>2, WrittenLasts
<1>5. \A k : k \in DOMAIN db' <=> k \in DOMAIN db \cup DOMAIN tx[r] /\ Has(r, k)
  BY <1>1 DEF Keys
<1>6. \A k \in DOMAIN db' : db'[k] = IF k \in DOMAIN tx[r] THEN tx[r][k] ELSE db[k]
  BY <1>1 DEF Row
<1>7. \A k \in DOMAIN tx[r] : k[1] \in Lasting => k \in DOMAIN db' /\ db'[k] = tx[r][k]
  BY <1>4, <1>5, <1>6 DEF Has
<1>8. \A k \in DOMAIN db \ DOMAIN tx[r] : k \in DOMAIN db' /\ db'[k] = db[k]
  BY <1>5, <1>6 DEF Has
<1>9. Keeps
  BY <1>3, <1>4, <1>7, <1>8 DEF Keeps, SameOwner
<1>10. QED
  BY <1>5, <1>6, <1>7, <1>9

\* What one request may do.
Lays(r) ==
  \E k, row : Puts(r, k, row) /\ ~Locked(r, k) /\ Written(r, k, row)

Moves(r) ==
  \/ Quiet(r) \/ Fails(r) \/ Lays(r) \/ Ingests(r) \/ Finishes(r)
  \/ Sends(r) \/ Replies(r) \/ Commits(r) \/ Dies(r) \/ Repeats(r)

LEMMA MovesRest ==
  ASSUME NEW r \in Request, Moves(r)
  PROVE  Rest(r)
BY DEF Moves, Quiet, Fails, Lays, Puts, Ingests, Finishes, Sends, Replies, Commits, Dies, Repeats

LEMMA MovesKeep ==
  ASSUME Basis, NEW r \in Request, Moves(r)
  PROVE  /\ Keeps
         /\ \A k \in DOMAIN db' : k \in DOMAIN db \/ (k \in DOMAIN tx[r] /\ db'[k] = tx[r][k] /\ Commits(r))
         /\ db' = db \/ Commits(r)
<1>1. CASE Commits(r)
  BY <1>1, CommitKeeps
<1>2. CASE ~Commits(r)
  <2>1. db' = db
    BY <1>2 DEF Moves, Quiet, Fails, Lays, Puts, Ingests, Finishes, Sends, Replies, Dies, Repeats
  <2>2. QED
    BY <2>1 DEF Keeps, SameOwner, Basis, Keyed
<1>3. QED
  BY <1>1, <1>2

LEMMA NothingWritten ==
  ASSUME NEW r \in Request, Placed(r), pc[r] \notin {"reply", "commit"}, ~Booting(r)
  PROVE  DOMAIN tx[r] = {} /\ \A k : (Has(r, k) <=> k \in DOMAIN db) /\ Row(r, k) = db[k]
<1>1. tx[r] = NoTx
  BY DEF Placed
<1>2. DOMAIN NoTx = {}
  BY DEF NoTx
<1>3. QED
  BY <1>1, <1>2 DEF Has, Row

LEMMA InsertNewLays ==
  ASSUME IndInv, NEW r \in Request, InsertNew(r)
  PROVE  Fails(r) \/ Lays(r)
<1> DEFINE row == [created |-> clock + 1, by |-> r]
<1>1. Types /\ Placed(r)
  BY DEF IndInv, Basis
<1>2. Kind(r) \in Creators /\ pc[r] = "insert"
  BY DEF InsertNew, Step, Creators
<1>3. NewRow(r) \notin DOMAIN db <=> ~Has(r, NewRow(r))
  BY <1>1, <1>2, NothingWritten DEF Booting
<1>4. row # Gone /\ row.by = r
  BY NotGone
<1> HIDE DEF row
<1>5. Fails(r) \/ (Puts(r, NewRow(r), row) /\ ~Locked(r, NewRow(r)) /\ ~Has(r, NewRow(r)))
  BY <1>1, InsertNewTurn DEF row
<1>6. ~Has(r, NewRow(r)) => Written(r, NewRow(r), row)
  BY <1>2, <1>3, <1>4 DEF Written, Signed
<1>7. QED
  BY <1>5, <1>6 DEF Lays

LEMMA CreateKeyLays ==
  ASSUME IndInv, NEW r \in Request, CreateKey(r)
  PROVE  Fails(r) \/ Lays(r)
<1> DEFINE k == KeyRow(job[r].new)
           row == NewKeyRecord(job[r].org, job[r].admin)
<1>1. Types /\ Placed(r) /\ Keyed /\ \A q \in Request : \A l \in DOMAIN tx[q] : Written(q, l, tx[q][l])
  BY DEF IndInv, Basis
<1>2. Kind(r) = "create_key" /\ pc[r] = "begin"
  BY DEF CreateKey, Begin, Step
<1>3. k \notin DOMAIN db
  BY <1>1, <1>2 DEF Keyed
<1>4. IsKey(row)
  BY DEF IsKey, NewKeyRecord
<1> HIDE DEF row
<1>5. ~Locked(r, k)
  <2> SUFFICES ASSUME NEW q \in Request \ {r}, k \in DOMAIN tx[q] PROVE FALSE
    BY DEF Locked
  <2>1. Written(q, k, tx[q][k])
    BY <1>1
  <2>2. k[1] = "key" /\ k[2] = job[r].new
    BY Tags
  <2>3. Kind(q) = "boot" => job[q].key # job[r].new
    BY <1>1, <1>2, Jobs
  <2>4. Kind(q) = "create_key" => job[q].new # job[r].new
    BY <1>1, <1>2, Jobs
  <2>5. BootRows(q)[3] = KeyRow(job[q].key)
    BY DEF BootRows
  <2> HIDE DEF k
  <2>6. k # KeyRow(job[q].new) \/ Kind(q) # "create_key"
    BY <2>2, <2>4, Tags
  <2>7. k # BootRows(q)[3] \/ Kind(q) # "boot"
    BY <2>2, <2>3, <2>5, Tags
  <2>8. k \notin {BootRows(q)[1], BootRows(q)[2]} /\ (Kind(q) \in Creators => k # NewRow(q)) /\ k # RunRow(job[q].run)
    BY <2>2, Tags
  <2>9. QED
    BY <1>3, <2>1, <2>2, <2>6, <2>7, <2>8 DEF Written
<1>6. Fails(r) \/ Puts(r, k, row)
  BY <1>1, CreateKeyTurn DEF row
<1>7. Written(r, k, row)
  BY <1>2, <1>3, <1>4 DEF Written
<1>8. QED
  BY <1>5, <1>6, <1>7 DEF Lays

LEMMA RevokeKeyLays ==
  ASSUME IndInv, NEW r \in Request, RevokeKey(r)
  PROVE  Lays(r) /\ KeyRow(job[r].target) \in DOMAIN tx'[r]
<1> DEFINE k == KeyRow(job[r].target)
           row == [Row(r, k) EXCEPT !.revoked = TRUE]
<1>1. Types /\ Placed(r) /\ Keyed /\ Revokes(r)
  BY DEF IndInv, Basis
<1>2. Kind(r) = "revoke_key" /\ pc[r] = "revoke"
  BY DEF RevokeKey, At, Step
<1>3. k \in DOMAIN db /\ Row(r, k) = db[k]
  BY <1>1, <1>2, NothingWritten DEF Revokes, Booting
<1>4. IsKey(Row(r, k))
  BY <1>1, <1>3, Tags DEF Keyed
<1>5. IsKey(row) /\ row.revoked /\ SameOwner(row, db[k])
  BY <1>3, <1>4 DEF IsKey, SameOwner
<1>6. Puts(r, k, row) /\ ~Locked(r, k)
  BY <1>1, RevokeKeyTurn
<1> HIDE DEF row
<1>7. Written(r, k, row)
  BY <1>2, <1>3, <1>5 DEF Written
<1>8. k \in DOMAIN tx'[r] /\ tx'[r][k] = row
  BY <1>1, <1>6 DEF Puts, Write, Types
<1>9. QED
  BY <1>6, <1>7, <1>8 DEF Lays

LEMMA BootInsertLays ==
  ASSUME IndInv, NEW r \in Request, BootInsert(r)
  PROVE  Fails(r) \/ Lays(r)
<1> DEFINE i == mem[r].id
           k == BootRows(r)[i]
           row == BootRow(r, i)
<1>1. Types /\ Placed(r) /\ Starts(r)
  BY DEF IndInv, Basis
<1>2. Kind(r) = "boot" /\ pc[r] = "boot_insert"
  BY <1>1 DEF BootInsert, Step, Placed
<1>3. i \in 1..3 /\ k \notin DOMAIN tx[r]
  BY <1>1, <1>2 DEF Starts
<1>4. Has(r, k) <=> k \in DOMAIN db
  BY <1>3 DEF Has
<1>5. i = 3 => IsKey(row)
  BY DEF IsKey, BootRow, NewKeyRecord
<1>6. i # 3 => row # Gone /\ row.by = r
  BY NotGone DEF BootRow
<1>7. Fails(r) \/ (Puts(r, k, row) /\ ~Locked(r, k) /\ ~Has(r, k))
  BY <1>1, <1>2, BootInsertTurn
<1> HIDE DEF row
<1>8. ~Has(r, k) => Written(r, k, row)
  <2>1. CASE i = 3
    BY <1>2, <1>4, <1>5, <2>1 DEF Written
  <2>2. CASE i = 1 \/ i = 2
    BY <1>2, <1>4, <1>6, <2>2 DEF Written, Signed
  <2>3. QED
    BY <1>3, <2>1, <2>2
<1>9. QED
  BY <1>7, <1>8 DEF Lays

LEMMA TenanciesMoves ==
  ASSUME IndInv, NEW r \in Request, Tenancies(r)
  PROVE  Moves(r)
<1>1. Types /\ Placed(r)
  BY DEF IndInv, Basis
<1>2. CASE Ensure(r)
  <2>1. Kind(r) = "boot"
    BY <1>1, <1>2 DEF Ensure, Step, Placed
  <2>2. QED
    BY <1>1, <1>2, <2>1, EnsureTurn DEF Moves
<1>3. QED
  BY <1>1, <1>2, TenanciesTurn, InsertNewLays, CreateKeyLays, RevokeKeyLays, BootInsertLays DEF Tenancies, Moves

LEMMA InsertConfigLays ==
  ASSUME IndInv, NEW r \in Request, InsertConfig(r)
  PROVE  Quiet(r) \/ Lays(r)
<1> DEFINE k == mem[r].seen[1]
           row == [id |-> clock + 1, at |-> mem[r].time, by |-> r]
<1>1. Types /\ Placed(r) /\ Pushes(r)
  BY DEF IndInv, Basis
<1>2. Kind(r) = "push_config" /\ pc[r] = "insert"
  BY DEF InsertConfig, At, Step
<1>3. IsRevision(r, k)
  BY <1>1, <1>2 DEF Pushes
<1>4. Has(r, k) <=> k \in DOMAIN db
  BY <1>1, <1>2, NothingWritten DEF Booting
<1>5. row # Gone /\ row.by = r
  BY NotGone
<1>6. Quiet(r) \/ (Puts(r, k, row) /\ ~Locked(r, k) /\ ~Has(r, k))
  BY <1>1, InsertConfigTurn
<1> HIDE DEF k, row
<1>7. ~Has(r, k) => Written(r, k, row)
  BY <1>2, <1>3, <1>4, <1>5 DEF Written, Signed, IsRevision
<1>8. QED
  BY <1>6, <1>7 DEF Lays

LEMMA CuratesLays ==
  ASSUME NEW r \in Request, Curates(r)
  PROVE  Lays(r)
BY DEF Curates, Lays, Written

LEMMA ActionsMove ==
  ASSUME IndInv, NEW r \in Request,
         Served(r) \/ Tenancies(r) \/ Configs(r) \/ Curations(r) \/ Calls(r) \/ Reads(r)
  PROVE  Moves(r)
<1>1. Types /\ Placed(r)
  BY DEF IndInv, Basis
<1>2. CASE Served(r)
  BY <1>1, <1>2, SendSends, AuthenticateTurn, EndTurn DEF Served, Moves
<1>3. CASE Tenancies(r)
  BY <1>3, TenanciesMoves
<1>4. CASE Configs(r)
  BY <1>1, <1>4, SelectConfigTurn, InsertConfigLays, LatestTurn, PushAgainRepeats DEF Configs, Moves
<1>5. CASE Curations(r)
  BY <1>1, <1>5, ReviewTurn, GoldenTurn, ExportTurn, CuratesLays DEF Curations, Moves
<1>6. CASE Calls(r)
  BY <1>1, <1>6, CallsTurn, InsertCallsIngests DEF Calls, Moves
<1>7. CASE Reads(r)
  BY <1>1, <1>7, ReadsTurn DEF Moves
<1>8. QED
  BY <1>2, <1>3, <1>4, <1>5, <1>6, <1>7

-----------------------------------------------------------------------------
(* What every step keeps *)

LEMMA TypesKept ==
  ASSUME Types, NEW r \in Request, Moves(r)
  PROVE  Types'
<1>1. Rest(r)
  BY MovesRest
<1>2. barred' \subseteq Request /\ lost_acks' \subseteq Request
  BY DEF Types, Moves, Quiet, Fails, Lays, Puts, Ingests, Finishes, Sends, Replies, Commits, Dies, Repeats
<1>3. failures' \in 0..MaxFailures
  BY <1>1, Jobs DEF Rest, Types
<1>4. \A q \in Request : DOMAIN mem'[q] = DOMAIN NoMem /\ mem'[q].code \in {0} \cup Success
  BY <1>1 DEF Rest, Types
<1>5. QED
  BY <1>1, <1>2, <1>3, <1>4 DEF Rest, Types

\* The rows of an open transaction.
LEMMA MovesWrite ==
  ASSUME Types, NEW r \in Request, Moves(r)
  PROVE  \/ tx'[r] \in {tx[r], NoTx}
         \/ Ingests(r)
         \/ \E k, row : /\ ~Locked(r, k) /\ Written(r, k, row)
                        /\ DOMAIN tx'[r] = DOMAIN tx[r] \cup {k}
                        /\ \A l \in DOMAIN tx'[r] : tx'[r][l] = IF l = k THEN row ELSE tx[r][l]
<1>1. CASE Lays(r)
  <2>1. PICK k, row : Puts(r, k, row) /\ ~Locked(r, k) /\ Written(r, k, row)
    BY <1>1 DEF Lays
  <2>2. tx'[r] = [l \in DOMAIN tx[r] \cup {k} |-> IF l = k THEN row ELSE tx[r][l]]
    BY <2>1 DEF Puts, Write, Types
  <2>3. QED
    BY <2>1, <2>2
<1>2. CASE ~Lays(r)
  BY <1>2 DEF Moves, Quiet, Fails, Finishes, Sends, Replies, Commits, Dies, Repeats
<1>3. QED
  BY <1>1, <1>2

LEMMA NoKeys == DOMAIN NoTx = {}
BY DEF NoTx

LEMMA IngestsFresh ==
  ASSUME Basis, NEW r \in Request, Ingests(r), NEW q \in Request \ {r}
  PROVE  DOMAIN tx'[r] \cap DOMAIN tx[q] = {}
<1> SUFFICES ASSUME NEW k \in DOMAIN tx'[r], k \in DOMAIN tx[q] PROVE FALSE
  OBVIOUS
<1>1. Kind(r) = "ingest" /\ clock \in Nat
  BY DEF Ingests, Basis, Types
<1>2. k = RunRow(job[r].run) \/ (k[1] = "call" /\ k[3] \in Int /\ clock < k[3])
  BY DEF Ingests
<1>3. k[1] \in {"run", "call"}
  BY <1>2, Tags
<1>4. Written(q, k, tx[q][k])
  BY DEF Basis
<1>5. Kind(q) = "ingest" /\ (k = RunRow(job[q].run) \/ (k[1] = "call" /\ k[3] \in Int /\ k[3] <= clock))
  BY <1>3, <1>4, Tags DEF Written, Creators, Curators
<1>6. job[q].run # job[r].run
  BY <1>1, <1>5, Jobs DEF Basis
<1>7. CASE k = RunRow(job[r].run)
  BY <1>5, <1>6, <1>7, Tags
<1>8. CASE k[1] = "call" /\ k[3] \in Int /\ clock < k[3]
  BY <1>1, <1>5, <1>8, Tags
<1>9. QED
  BY <1>2, <1>7, <1>8

LEMMA ApartKept ==
  ASSUME Basis, NEW r \in Request, Moves(r)
  PROVE  Apart'
<1>1. Rest(r) /\ Types /\ Apart
  BY MovesRest DEF Basis
<1>2. \A q \in Request \ {r} : tx'[q] = tx[q]
  BY <1>1 DEF Rest
<1>3. \A q \in Request \ {r} : DOMAIN tx'[r] \cap DOMAIN tx[q] = {}
  BY <1>1, MovesWrite, IngestsFresh, NoKeys DEF Apart, Locked
<1>4. QED
  BY <1>1, <1>2, <1>3 DEF Apart

\* A row stays one that its writer may write.
LEMMA WrittenKept ==
  ASSUME Basis, NEW r \in Request, Moves(r), NEW q \in Request, NEW k, NEW row, Written(q, k, row),
         k \notin DOMAIN db => k \notin DOMAIN db'
  PROVE  Written(q, k, row)'
<1>1. job' = job /\ clock \in Nat /\ clock' \in Nat /\ clock' >= clock
  BY MovesRest DEF Rest, Basis, Types
<1>2. Kind(q)' = Kind(q) /\ NewRow(q)' = NewRow(q) /\ BootRows(q)' = BootRows(q)
  BY <1>1 DEF Kind, NewRow, BootRows
<1>3. k \in DOMAIN db /\ k[1] = "key" => k \in DOMAIN db' /\ SameOwner(db'[k], db[k])
  BY MovesKeep DEF Keeps, Lasting
<1>4. k[3] \in Int /\ k[3] <= clock => k[3] <= clock'
  BY <1>1
<1>5. QED
  BY <1>1, <1>2, <1>3, <1>4, Tags DEF Written, Signed, SameOwner

LEMMA AllWrittenKept ==
  ASSUME Basis, NEW r \in Request, Moves(r)
  PROVE  \A q \in Request : \A k \in DOMAIN tx'[q] : Written(q, k, tx[q][k])'
<1>1. Rest(r) /\ Types /\ Apart /\ \A q \in Request : \A k \in DOMAIN tx[q] : Written(q, k, tx[q][k])
  BY MovesRest DEF Basis
<1>2. \A q \in Request : \A k \in DOMAIN tx'[q] : k \notin DOMAIN db => k \notin DOMAIN db'
  <2> SUFFICES ASSUME NEW q \in Request, NEW k \in DOMAIN tx'[q], k \notin DOMAIN db, k \in DOMAIN db'
               PROVE  FALSE
    OBVIOUS
  <2>1. k \in DOMAIN tx[r] /\ Commits(r)
    BY MovesKeep
  <2>2. CASE q = r
    BY <2>1, <2>2, NoKeys DEF Commits
  <2>3. CASE q # r
    BY <1>1, <2>1, <2>3 DEF Rest, Apart
  <2>4. QED
    BY <2>2, <2>3
<1>3. ASSUME NEW q \in Request, NEW k \in DOMAIN tx'[q], Written(q, k, tx'[q][k])
      PROVE  Written(q, k, tx[q][k])'
  BY <1>2, <1>3, WrittenKept
<1>4. ASSUME NEW q \in Request \ {r}, NEW k \in DOMAIN tx'[q]
      PROVE  Written(q, k, tx'[q][k])
  BY <1>1, <1>4 DEF Rest
<1>5. ASSUME NEW k \in DOMAIN tx'[r], ~Ingests(r)
      PROVE  Written(r, k, tx'[r][k])
  BY <1>1, <1>5, MovesWrite, NoKeys
<1>6. ASSUME NEW k \in DOMAIN tx'[r], Ingests(r)
      PROVE  Written(r, k, tx[r][k])'
  <2>1. job' = job /\ Kind(r) = "ingest"
    BY <1>1, <1>6 DEF Rest, Ingests
  <2>2. k = RunRow(job[r].run) \/ (k[1] = "call" /\ k[3] \in Int /\ k[3] <= clock')
    BY <1>6 DEF Ingests
  <2>3. QED
    BY <2>1, <2>2 DEF Written, Kind
<1>7. QED
  BY <1>3, <1>4, <1>5, <1>6

LEMMA KeyedKept ==
  ASSUME Basis, NEW r \in Request, Moves(r)
  PROVE  Keyed'
<1>1. Types /\ Keyed /\ Rest(r) /\ \A k \in DOMAIN tx[r] : Written(r, k, tx[r][k])
  BY MovesRest DEF Basis
<1>2. \A k \in DOMAIN db' : k[1] = "key" => IsKey(db'[k])
  BY <1>1, MovesKeep, WrittenLasts DEF Keeps, Lasting
<1>3. ASSUME NEW q \in Request, Kind(q) = "create_key", KeyRow(job[q].new) \in DOMAIN db'
      PROVE  pc'[q] = "done"
  <2> DEFINE k == KeyRow(job[q].new)
  <2>1. CASE k \in DOMAIN db
    <3>1. pc[q] = "done"
      BY <1>1, <1>3, <2>1 DEF Keyed
    <3>2. pc'[q] = "done" \/ q = r
      BY <1>1, <3>1 DEF Rest
    <3>3. q = r => Dies(r) \/ Commits(r) \/ Repeats(r) \/ Fails(r) \/ pc[r] # "done"
      BY DEF Moves, Quiet, Lays, Puts, Ingests, Finishes, Sends, Replies
    <3>4. QED
      BY <1>3, <3>1, <3>2, <3>3 DEF Dies, Commits, Repeats, Fails
  <2>2. CASE k \notin DOMAIN db
    <3>1. k \in DOMAIN tx[r] /\ Commits(r)
      BY <1>3, <2>2, MovesKeep
    <3>2. Written(r, k, tx[r][k]) /\ k[1] = "key" /\ k[2] = job[q].new
      BY <1>1, <3>1, Tags
    <3>3. BootRows(r)[3] = KeyRow(job[r].key)
      BY DEF BootRows
    <3>4. r # q => /\ Kind(r) = "boot" => k # BootRows(r)[3]
                   /\ Kind(r) = "create_key" => k # KeyRow(job[r].new)
      BY <1>1, <1>3, <3>2, <3>3, Jobs, Tags
    <3>5. k \notin {BootRows(r)[1], BootRows(r)[2]} /\ (Kind(r) \in Creators => k # NewRow(r)) /\ k # RunRow(job[r].run)
      BY <3>2, Tags
    <3> HIDE DEF k
    <3>6. r = q
      BY <2>2, <3>2, <3>4, <3>5 DEF Written
    <3>7. QED
      BY <3>1, <3>6 DEF Commits
  <2>3. QED
    BY <2>1, <2>2
<1>4. job' = job
  BY <1>1 DEF Rest
<1>5. QED
  BY <1>2, <1>3, <1>4 DEF Keyed, Kind

LEMMA PlacedKept ==
  ASSUME Basis, NEW r \in Request, Moves(r), NEW q \in Request
  PROVE  Placed(q)'
<1>1. Types /\ Rest(r) /\ Placed(q)
  BY MovesRest DEF Basis
<1>2. job' = job
  BY <1>1 DEF Rest
<1>3. CASE q # r
  BY <1>1, <1>2, <1>3 DEF Rest, Placed, Booting, Kind
<1>4. CASE q = r
  <2>1. Quiet(r) => Placed(r)'
    BY <1>1, <1>2, <1>4 DEF Quiet, Placed, Booting, Kind
  <2>2. Fails(r) => Placed(r)'
    BY <1>1, <1>2, <1>4 DEF Fails, Placed, Booting, Kind
  <2>3. Lays(r) => Placed(r)'
    BY <1>1, <1>2, <1>4 DEF Lays, Puts, Placed, Booting, Kind
  <2>4. Ingests(r) \/ Finishes(r) => Placed(r)'
    BY <1>1, <1>2, <1>4 DEF Ingests, Finishes, Placed, Booting, Kind
  <2>5. Sends(r) \/ Replies(r) => Placed(r)'
    BY <1>1, <1>2, <1>4 DEF Sends, Replies, Placed, Booting, Kind
  <2>6. Commits(r) \/ Dies(r) \/ Repeats(r) => Placed(r)'
    BY <1>1, <1>2, <1>4 DEF Commits, Dies, Repeats, Placed, Booting, Kind
  <2>7. QED
    BY <1>4, <2>1, <2>2, <2>3, <2>4, <2>5, <2>6 DEF Moves
<1>5. QED
  BY <1>3, <1>4

LEMMA RevokedKept ==
  ASSUME Basis, NEW r \in Request, Moves(r), NEW key, Revoked(key)
  PROVE  Revoked(key)'
BY MovesKeep, Tags DEF Revoked, Keeps, Lasting

LEMMA BarredKept ==
  ASSUME Basis, NEW r \in Request, Moves(r), NEW q \in Request
  PROVE  Barred(q)'
<1>1. Types /\ Rest(r) /\ Barred(q)
  BY MovesRest DEF Basis
<1>2. job' = job
  BY <1>1 DEF Rest
<1>3. Revoked(job[q].key) => Revoked(job[q].key)'
  BY <1>2, RevokedKept DEF Revoked
<1>4. q \in barred' => q \in barred \/ (q = r /\ Sends(r) /\ Revoked(job[r].key))
  BY DEF Moves, Quiet, Fails, Lays, Puts, Ingests, Finishes, Sends, Replies, Commits, Dies, Repeats
<1>5. ASSUME q \in barred, q = r
      PROVE  Fails(r) /\ pc[r] = "sent"
  <2>1. Revoked(job[r].key) /\ (pc[r] = "sent" \/ (pc[r] = "done" /\ answer[r] = 401))
    BY <1>1, <1>5 DEF Barred
  <2>2. ~FindKey(job[r].key)
    BY <2>1 DEF FindKey, Revoked
  <2>3. QED
    BY <2>1, <2>2 DEF Moves, Quiet, Fails, Lays, Puts, Ingests, Finishes, Sends, Replies, Commits, Dies, Repeats
<1>6. CASE q \in barred /\ q = r
  <2>1. pc'[q] = "done" /\ answer'[q] = 401
    BY <1>5, <1>6 DEF Fails
  <2>2. QED
    BY <1>1, <1>2, <1>3, <1>6, <2>1 DEF Barred
<1>7. CASE q \in barred /\ q # r
  <2>1. pc'[q] = pc[q] /\ answer'[q] = answer[q]
    BY <1>1, <1>7 DEF Rest
  <2>2. QED
    BY <1>1, <1>2, <1>3, <1>7, <2>1 DEF Barred
<1>8. CASE q \notin barred /\ q \in barred'
  <2>1. pc'[q] = "sent"
    BY <1>4, <1>8 DEF Sends
  <2>2. QED
    BY <1>2, <1>3, <1>4, <1>8, <2>1 DEF Barred
<1>9. QED
  BY <1>6, <1>7, <1>8 DEF Barred

LEMMA BasisKept ==
  ASSUME Basis, NEW r \in Request, Moves(r)
  PROVE  Basis'
<1>1. Types
  BY DEF Basis
<1>2. QED
  BY <1>1, TypesKept, ApartKept, KeyedKept, PlacedKept, BarredKept, AllWrittenKept DEF Basis

LEMMA OneStartsKept ==
  ASSUME IndInv, NEW r \in Request, Moves(r)
  PROVE  OneStarts'
<1>1. Types /\ OneStarts /\ Rest(r) /\ Placed(r)
  BY MovesRest DEF IndInv, Basis
<1>2. job' = job
  BY <1>1 DEF Rest
<1>3. \A q \in Request \ {r} : Booting(q)' => Booting(q)
  BY <1>1, <1>2 DEF Rest, Booting, Kind
<1>4. Booting(r)' => Booting(r) \/ NoneStarts
  BY <1>1, <1>2 DEF Booting, Kind, Placed,
     Moves, Quiet, Fails, Lays, Puts, Ingests, Finishes, Sends, Replies, Commits, Dies, Repeats
<1>5. QED
  BY <1>1, <1>3, <1>4 DEF OneStarts, NoneStarts

-----------------------------------------------------------------------------
(* What a request is sure of while another one moves *)

LEMMA OthersStay ==
  ASSUME IndInv, NEW r \in Request, Moves(r), NEW q \in Request \ {r}
  PROVE  /\ pc'[q] = pc[q] /\ answer'[q] = answer[q] /\ mem'[q] = mem[q] /\ tx'[q] = tx[q]
         /\ job' = job /\ Kind(q)' = Kind(q) /\ NewRow(q)' = NewRow(q) /\ BootRows(q)' = BootRows(q)
         /\ Kept(q)' = Kept(q)
         /\ failures > 0 => failures' > 0
<1>1. Types /\ Rest(r)
  BY MovesRest DEF IndInv, Basis
<1>2. /\ pc'[q] = pc[q] /\ answer'[q] = answer[q] /\ mem'[q] = mem[q] /\ tx'[q] = tx[q]
      /\ job' = job
  BY <1>1 DEF Rest
<1>3. q \in lost_acks' <=> q \in lost_acks
  BY DEF Moves, Quiet, Fails, Lays, Puts, Ingests, Finishes, Sends, Replies, Commits, Dies, Repeats
<1>4. failures > 0 => failures' > 0
  BY <1>1, Jobs DEF Rest, Types
<1>5. QED
  BY <1>2, <1>3, <1>4 DEF Kept, Kind, NewRow, BootRows

LEMMA OthersRevoke ==
  ASSUME IndInv, NEW r \in Request, Moves(r), NEW q \in Request \ {r}
  PROVE  Revokes(q)'
<1>1. Basis /\ Revokes(q)
  BY DEF IndInv
<1>2. Revoked(job[q].target) => Revoked(job[q].target)'
  BY <1>1, RevokedKept, OthersStay DEF Revoked
<1>3. KeyRow(job[q].target) \in DOMAIN db => KeyRow(job[q].target) \in DOMAIN db'
  BY <1>1, MovesKeep, Tags DEF Keeps, Lasting
<1>4. QED
  BY <1>1, <1>2, <1>3, OthersStay DEF Revokes

LEMMA OthersCreate ==
  ASSUME IndInv, NEW r \in Request, Moves(r), NEW q \in Request \ {r}
  PROVE  Creates(q)' /\ CreatesKey(q)'
<1>1. Basis /\ Creates(q) /\ CreatesKey(q)
  BY DEF IndInv
<1>2. Kind(q) \in Creators => NewRow(q)[1] \in Lasting /\ NewRow(q)[1] # "key"
  BY Tags DEF Lasting
<1>3. Kind(q) \in Creators /\ NewRow(q) \in DOMAIN db => NewRow(q) \in DOMAIN db' /\ db'[NewRow(q)] = db[NewRow(q)]
  BY <1>1, <1>2, MovesKeep DEF Keeps
<1>4. Creates(q)'
  BY <1>1, <1>3, OthersStay DEF Creates
<1>5. KeyRow(job[q].new) \in DOMAIN db => KeyRow(job[q].new) \in DOMAIN db'
  BY <1>1, MovesKeep, Tags DEF Keeps, Lasting
<1>6. CreatesKey(q)'
  BY <1>1, <1>5, OthersStay DEF CreatesKey
<1>7. QED
  BY <1>4, <1>6

LEMMA OthersPush ==
  ASSUME IndInv, NEW r \in Request, Moves(r), NEW q \in Request \ {r}
  PROVE  Pushes(q)'
<1>1. Basis /\ Pushes(q)
  BY DEF IndInv
<1>2. \A k \in DOMAIN db : k[1] = "config" => k \in DOMAIN db' /\ db'[k] = db[k]
  BY <1>1, MovesKeep DEF Keeps, Lasting
<1>3. \A k : IsRevision(q, k)' = IsRevision(q, k) /\ (IsRevision(q, k) => k[1] = "config")
  BY OthersStay DEF IsRevision
<1>4. QED
  BY <1>1, <1>2, <1>3, OthersStay DEF Pushes

LEMMA OthersStart ==
  ASSUME IndInv, NEW r \in Request, Moves(r), NEW q \in Request \ {r}
  PROVE  Starts(q)'
<1>1. Basis /\ Starts(q) /\ OneStarts /\ Types
  BY DEF IndInv, Basis
<1> SUFFICES ASSUME Kind(q) = "boot" PROVE Starts(q)'
  BY OthersStay DEF Starts
<1>2. \A i \in 1..3 : BootRows(q)[i][1] \in Lasting /\ (i < 3 => BootRows(q)[i][1] # "key")
  BY Tags DEF Lasting
<1>3. ASSUME NEW i \in 1..3, BootRows(q)[i] \in DOMAIN db
      PROVE  BootRows(q)[i] \in DOMAIN db' /\ (i < 3 => db'[BootRows(q)[i]] = db[BootRows(q)[i]])
  BY <1>1, <1>2, <1>3, MovesKeep DEF Keeps
<1>4. Boots' = Boots
  BY OthersStay DEF Boots, Kind
<1>5. ASSUME NEW i \in 1..3, MadeByOther(q, i) PROVE MadeByOther(q, i)'
  BY <1>3, <1>4, <1>5, OthersStay DEF MadeByOther
<1>6. ASSUME NEW i \in 1..3, BootRows(q)[i] \notin DOMAIN db, BootRows(q)[i] \in DOMAIN db', Booting(q)
      PROVE  MadeByOther(q, i)'
  <2> DEFINE k == BootRows(q)[i]
  <2>1. k \in DOMAIN tx[r] /\ db'[k] = tx[r][k] /\ Written(r, k, tx[r][k])
    BY <1>1, <1>6, MovesKeep DEF Basis
  <2>2. Kind(r) # "boot"
    <3>1. tx[r] # NoTx
      BY <2>1, NoKeys
    <3>2. Placed(r) /\ (Kind(r) = "boot" => Booting(r))
      BY <1>1, <3>1 DEF Basis, Placed
    <3>3. QED
      BY <1>1, <1>6, <3>2 DEF OneStarts
  <2>3. BootRows(q)[3] = KeyRow(job[q].key)
    BY DEF BootRows
  <2>4. Kind(r) # "create_key" \/ k # KeyRow(job[r].new)
    <3>1. CASE i = 3
      BY <1>1, <2>3, <3>1, Jobs, Tags
    <3>2. CASE i # 3
      BY <1>2, <3>2, Tags
    <3>3. QED
      BY <3>1, <3>2
  <2>5. k[1] \in Lasting
    BY <1>2
  <2> HIDE DEF k
  <2>6. Kind(r) \in Creators /\ k = NewRow(r) /\ db'[k].by = r
    BY <1>6, <2>1, <2>2, <2>4, <2>5, Tags DEF k, Written, Signed, Lasting
  <2>7. i < 3
    BY <2>6, Tags DEF k
  <2>8. r \notin Boots'
    BY <1>4, <2>2 DEF Boots
  <2>9. QED
    BY <1>6, <2>6, <2>7, <2>8, OthersStay DEF MadeByOther, k
<1>7. Booting(q)' = Booting(q)
  BY OthersStay DEF Booting
<1>8. answer[q] = 500 => failures' > 0 \/ \E i \in 1..3 : MadeByOther(q, i)'
  BY <1>1, <1>5, OthersStay DEF Starts
<1>9. Kept(q) => \A i \in 1..3 : BootRows(q)[i] \in DOMAIN db'
  BY <1>1, <1>3 DEF Starts
<1>10. ASSUME pc[q] = "boot_insert"
       PROVE  \E i \in 1..3 : /\ i = mem[q].id
                              /\ BootRows(q)[i] \notin DOMAIN tx[q]
                              /\ BootRows(q)[i] \in DOMAIN db' => MadeByOther(q, i)'
  <2>1. PICK i \in 1..3 : /\ i = mem[q].id /\ BootRows(q)[i] \notin DOMAIN tx[q]
                          /\ BootRows(q)[i] \in DOMAIN db => MadeByOther(q, i)
    BY <1>1, <1>10 DEF Starts
  <2>2. Booting(q)
    BY <1>10 DEF Booting
  <2>3. BootRows(q)[i] \in DOMAIN db' => MadeByOther(q, i)'
    BY <1>5, <1>6, <2>1, <2>2
  <2>4. QED
    BY <2>1, <2>3
<1>11. Booting(q) => /\ mem[q].id \in 1..4
                     /\ \A i \in 1..3 : i < mem[q].id => BootRows(q)[i] \in DOMAIN db' \cup DOMAIN tx[q]
  BY <1>1, <1>3 DEF Starts
<1>12. pc[q] = "boot_insert" => (/\ mem[q].id \in 1..3
                                 /\ BootRows(q)[mem[q].id] \notin DOMAIN tx[q]
                                 /\ BootRows(q)[mem[q].id] \in DOMAIN db => MadeByOther(q, mem[q].id))'
  BY <1>10, OthersStay DEF MadeByOther
<1>13. QED
  BY <1>7, <1>8, <1>9, <1>11, <1>12, OthersStay DEF Starts

-----------------------------------------------------------------------------
(* What it is sure of when it moves itself *)

Acts(r) ==
  Served(r) \/ Tenancies(r) \/ Configs(r) \/ Curations(r) \/ Calls(r) \/ Reads(r)

LEMMA Kinds ==
  ASSUME NEW r \in Request
  PROVE  /\ SelectOrg(r) \/ SelectProject(r) \/ InsertNew(r) => Kind(r) \in Creators
         /\ CreateKey(r) => Kind(r) = "create_key"
         /\ SelectKey(r) \/ RevokeKey(r) => Kind(r) = "revoke_key"
         /\ Boot(r) => Kind(r) = "boot"
         /\ Ensure(r) \/ BootInsert(r) => pc[r] \in {"ensure", "boot_insert"}
         /\ SelectConfig(r) \/ InsertConfig(r) \/ PushAgain(r) => Kind(r) = "push_config"
         /\ ReadLatest(r) \/ LoadLatest(r) => Kind(r) \in {"get_config", "invoke"}
         /\ Curations(r) => Kind(r) \in Curators \cup {"export"}
         /\ Calls(r) => Kind(r) \in {"walk", "ingest"}
         /\ Reads(r) => Kind(r) = "read"
<1>1. SelectOrg(r) \/ SelectProject(r) \/ InsertNew(r) => Kind(r) \in Creators
  BY DEF SelectOrg, SelectProject, InsertNew, Begin, Creators
<1>2. /\ CreateKey(r) => Kind(r) = "create_key"
      /\ SelectKey(r) \/ RevokeKey(r) => Kind(r) = "revoke_key"
      /\ Boot(r) => Kind(r) = "boot"
      /\ Ensure(r) \/ BootInsert(r) => pc[r] \in {"ensure", "boot_insert"}
  BY DEF CreateKey, SelectKey, RevokeKey, Boot, Ensure, BootInsert, Begin, At, Step
<1>3. /\ SelectConfig(r) \/ InsertConfig(r) \/ PushAgain(r) => Kind(r) = "push_config"
      /\ ReadLatest(r) \/ LoadLatest(r) => Kind(r) \in {"get_config", "invoke"}
  BY DEF SelectConfig, InsertConfig, PushAgain, ReadLatest, LoadLatest, Begin, At
<1>4. /\ Curations(r) => Kind(r) \in Curators \cup {"export"}
  <2>1. SelectReview(r) \/ UpdateReview(r) \/ InsertReview(r) => Kind(r) = "review"
    BY DEF SelectReview, UpdateReview, InsertReview, Begin, At
  <2>2. SelectGolden(r) \/ UpdateGolden(r) \/ InsertGolden(r) \/ ReselectGolden(r) => Kind(r) = "promote"
    BY DEF SelectGolden, UpdateGolden, InsertGolden, ReselectGolden, Begin, At
  <2>3. SelectTarget(r) \/ DeleteTarget(r) => Kind(r) = "un_promote"
    BY DEF SelectTarget, DeleteTarget, Begin, At
  <2>4. ListGolden(r) \/ FetchRefused(r) \/ FetchFailed(r) \/ FetchDetail(r) \/ WriteFile(r) => Kind(r) = "export"
    BY DEF ListGolden, FetchRefused, FetchFailed, FetchDetail, WriteFile, AtDetail, Begin, At
  <2>5. QED
    BY <2>1, <2>2, <2>3, <2>4 DEF Curations, Curators
<1>5. Calls(r) => Kind(r) \in {"walk", "ingest"}
  BY DEF Calls, ReadPage, StampCalls, InsertCalls, Begin, At
<1>6. Reads(r) => Kind(r) = "read"
  BY DEF Reads, ListOrgs, GetOrg, ListProjects, GetProject, ListKeys, ListRuns, GetRun, SelectPair, Sample,
         ListHistory, GetRevision, ReviewQueue, ListReviews, ListExpanded, Timeline, Aggregate,
         ListAssets, AssetVersions, Reading, Begin, At
<1>7. QED
  BY <1>1, <1>2, <1>3, <1>4, <1>5, <1>6

LEMMA ServedTurn ==
  ASSUME Basis, NEW r \in Request, Served(r)
  PROVE  \/ Sends(r)
         \/ Quiet(r) /\ pc'[r] \in {"touch", "begin"}
         \/ Fails(r) /\ (answer'[r] = 401 \/ (answer'[r] = 500 /\ failures' > 0))
         \/ Replies(r)
         \/ Commits(r) /\ pc[r] = "commit"
         \/ Dies(r)
<1>1. Types /\ Placed(r)
  BY DEF Basis
<1>2. QED
  BY <1>1, SendSends, AuthenticateTurn, EndTurn DEF Served, Fails

\* A request that fails or whose worker dies is not told that it is done.
LEMMA NotKept ==
  ASSUME Basis, NEW r \in Request, Fails(r) \/ Dies(r) \/ pc'[r] # "done"
  PROVE  ~Kept(r)'
<1>1. Placed(r)
  BY DEF Basis
<1>2. Success \cap Failure = {} /\ 0 \notin Success
  BY DEF Success, Failure
<1>3. CASE Dies(r)
  BY <1>1, <1>2, <1>3 DEF Dies, Placed, Kept
<1>4. CASE Fails(r)
  BY <1>2, <1>4 DEF Fails, Kept
<1>5. CASE pc'[r] # "done"
  BY <1>5 DEF Kept
<1>6. QED
  BY <1>3, <1>4, <1>5

LEMMA SelectKeyTurn ==
  ASSUME Types, NEW r \in Request, Placed(r), SelectKey(r)
  PROVE  \/ Fails(r)
         \/ /\ Quiet(r)
            /\ \/ pc'[r] = "revoke" /\ KeyRow(job[r].target) \in DOMAIN db
               \/ pc'[r] = "reply" /\ Revoked(job[r].target)
<1> DEFINE k == KeyRow(job[r].target)
<1>1. Quiet(r) \/ Fails(r)
  BY TenanciesTurn
<1>2. Kind(r) = "revoke_key" /\ pc[r] = "begin"
  BY DEF SelectKey, Begin, Step
<1>3. (Has(r, k) <=> k \in DOMAIN db) /\ Row(r, k) = db[k]
  BY <1>2, NothingWritten DEF Booting
<1>4. \/ \E code \in Failure : Refuse(r, code)
      \/ k \in DOMAIN db /\ Goto(r, "revoke")
      \/ k \in DOMAIN db /\ db[k].revoked /\ Return(r, 204)
  BY <1>3 DEF SelectKey, Failure
<1>5. QED
  BY <1>1, <1>2, <1>4, RefuseFails DEF Return, Goto, Types, Revoked

LEMMA MyRevoke ==
  ASSUME IndInv, NEW r \in Request, Acts(r)
  PROVE  Revokes(r)'
<1> DEFINE k == KeyRow(job[r].target)
<1>1. Basis /\ Types /\ Revokes(r) /\ Placed(r) /\ Moves(r)
  BY ActionsMove DEF IndInv, Basis, Acts
<1>2. job' = job /\ Kind(r)' = Kind(r)
  BY <1>1, MovesRest DEF Rest, Kind
<1> SUFFICES ASSUME Kind(r) = "revoke_key" PROVE Revokes(r)'
  BY <1>2 DEF Revokes
<1>3. Revoked(job[r].target) => Revoked(job[r].target)'
  BY <1>1, <1>2, RevokedKept DEF Revoked
<1>4. ASSUME Fails(r) \/ pc'[r] \in {"sent", "touch", "begin"} \/ Dies(r)
      PROVE  Revokes(r)'
  <2>1. ~Kept(r)' /\ pc'[r] \in {"sent", "touch", "begin", "done"}
    BY <1>1, <1>4, NotKept DEF Fails, Dies
  <2>2. QED
    BY <1>2, <2>1 DEF Revokes
<1>5. CASE Served(r)
  <2>1. CASE Commits(r) /\ pc[r] = "commit"
    <3>1. k \in DOMAIN tx[r] => k \in DOMAIN db' /\ db'[k] = tx[r][k]
      BY <1>1, <2>1, CommitKeeps, Tags DEF Lasting
    <3>2. k \in DOMAIN tx[r] => tx[r][k].revoked
      BY <1>1, Tags DEF Basis, Written, Creators, Curators
    <3>3. Revoked(job[r].target)'
      BY <1>1, <1>2, <1>3, <2>1, <3>1, <3>2 DEF Revokes, Revoked
    <3>4. pc'[r] = "done"
      BY <2>1 DEF Commits
    <3>5. QED
      BY <1>2, <3>3, <3>4 DEF Revokes
  <2>2. CASE Replies(r)
    <3>1. pc[r] = "reply" /\ pc'[r] = "commit" /\ tx'[r] = tx[r] /\ ~Kept(r)'
      BY <2>2 DEF Replies, Kept, Rest
    <3>2. QED
      BY <1>1, <1>2, <1>3, <3>1 DEF Revokes
  <2>3. QED
    BY <1>1, <1>4, <1>5, <2>1, <2>2, ServedTurn DEF Sends
<1>6. CASE SelectKey(r)
  <2>1. Fails(r) \/ (/\ Quiet(r)
                    /\ \/ pc'[r] = "revoke" /\ k \in DOMAIN db
                       \/ pc'[r] = "reply" /\ Revoked(job[r].target))
    BY <1>1, <1>6, SelectKeyTurn
  <2>2. CASE Quiet(r) /\ pc'[r] = "revoke" /\ k \in DOMAIN db
    BY <1>2, <2>2 DEF Revokes, Quiet, Kept
  <2>3. CASE Quiet(r) /\ pc'[r] = "reply" /\ Revoked(job[r].target)
    BY <1>2, <1>3, <2>3 DEF Revokes, Kept
  <2>4. QED
    BY <1>4, <2>1, <2>2, <2>3
<1>7. CASE RevokeKey(r)
  <2>1. k \in DOMAIN tx'[r] /\ Lays(r)
    BY <1>7, RevokeKeyLays
  <2>2. pc'[r] = "reply"
    BY <2>1 DEF Lays, Puts
  <2>3. QED
    BY <1>2, <2>1, <2>2 DEF Revokes, Kept
<1>8. QED
  BY <1>1, <1>5, <1>6, <1>7, Kinds DEF Acts, Tenancies, Configs, Placed, Creators, Curators

LEMMA SelectNewTurn ==
  ASSUME Types, NEW r \in Request, Placed(r), SelectOrg(r) \/ SelectProject(r)
  PROVE  \/ Fails(r) /\ (answer'[r] = 409 => NewRow(r) \in DOMAIN db)
         \/ Quiet(r) /\ pc'[r] = "insert"
<1>1. Quiet(r) \/ Fails(r)
  BY TenanciesTurn
<1>2. Kind(r) \in Creators /\ pc[r] = "begin"
  BY Kinds DEF SelectOrg, SelectProject, Begin, Step
<1>3. Has(r, NewRow(r)) <=> NewRow(r) \in DOMAIN db
  BY <1>2, NothingWritten DEF Booting
<1>4. ASSUME NEW code \in Failure, Refuse(r, code), code # 409 \/ NewRow(r) \in DOMAIN db
      PROVE  Fails(r) /\ (answer'[r] = 409 => NewRow(r) \in DOMAIN db)
  BY <1>2, <1>4, RefuseFails DEF Refuse, Types
<1>5. \/ Refuse(r, 403) \/ Refuse(r, 404)
      \/ Refuse(r, 409) /\ NewRow(r) \in DOMAIN db
      \/ Goto(r, "insert")
  BY <1>3 DEF SelectOrg, SelectProject
<1>6. {403, 404, 409} \subseteq Failure
  BY DEF Failure
<1>7. Goto(r, "insert") => pc'[r] = "insert"
  BY DEF Goto, Types
<1>8. pc'[r] = "insert" => ~Fails(r)
  BY DEF Fails
<1>9. QED
  BY <1>1, <1>4, <1>5, <1>6, <1>7, <1>8

LEMMA MyCreate ==
  ASSUME IndInv, NEW r \in Request, Acts(r)
  PROVE  Creates(r)'
<1> DEFINE k == NewRow(r)
<1>1. Basis /\ Types /\ Creates(r) /\ Placed(r) /\ Moves(r)
  BY ActionsMove DEF IndInv, Basis, Acts
<1>2. job' = job /\ Kind(r)' = Kind(r) /\ NewRow(r)' = NewRow(r)
  BY <1>1, MovesRest DEF Rest, Kind, NewRow
<1> SUFFICES ASSUME Kind(r) \in Creators PROVE Creates(r)'
  BY <1>2 DEF Creates
<1>3. k \in DOMAIN db => k \in DOMAIN db' /\ db'[k] = db[k]
  BY <1>1, MovesKeep, Tags DEF Keeps, Lasting
<1>4. ASSUME Fails(r), answer'[r] = 409 => k \in DOMAIN db
      PROVE  Creates(r)'
  <2>1. ~Kept(r)' /\ pc'[r] = "done"
    BY <1>1, <1>4, NotKept DEF Fails
  <2>2. QED
    BY <1>2, <1>3, <1>4, <2>1 DEF Creates
<1>5. ASSUME pc'[r] \notin {"reply", "commit", "done"}, answer'[r] = 0
      PROVE  Creates(r)'
  BY <1>2, <1>5 DEF Creates, Kept
<1>6. CASE Served(r)
  <2>1. CASE Commits(r) /\ pc[r] = "commit"
    <3>1. k \in DOMAIN db' /\ db'[k] = tx[r][k] /\ k \in DOMAIN tx[r]
      BY <1>1, <2>1, CommitKeeps, Tags DEF Lasting, Creates
    <3>2. db'[k].by = r
      BY <1>1, <3>1, Tags DEF Basis, Written, Signed, Creators, Curators
    <3>3. pc'[r] = "done" /\ answer'[r] = answer[r]
      BY <2>1 DEF Commits
    <3>4. QED
      BY <1>2, <3>1, <3>2, <3>3 DEF Creates
  <2>2. CASE Replies(r)
    <3>1. pc[r] = "reply" /\ pc'[r] = "commit" /\ tx'[r] = tx[r] /\ answer'[r] \in {0} \cup Success
      BY <1>1, <2>2 DEF Replies, Types
    <3>2. QED
      BY <1>1, <1>2, <3>1 DEF Creates, Success, Kept
  <2>3. CASE Dies(r)
    <3>1. ~Kept(r)' /\ pc'[r] = "done" /\ answer'[r] = answer[r]
      BY <1>1, <2>3, NotKept DEF Dies
    <3>2. QED
      BY <1>1, <1>2, <1>3, <3>1 DEF Creates
  <2>4. CASE Sends(r) \/ (Quiet(r) /\ pc'[r] \in {"touch", "begin"})
    BY <1>1, <1>5, <2>4 DEF Sends, Quiet, Placed
  <2>5. QED
    BY <1>1, <1>4, <1>6, <2>1, <2>2, <2>3, <2>4, ServedTurn
<1>7. CASE SelectOrg(r) \/ SelectProject(r)
  <2>1. Quiet(r) => answer'[r] = 0
    BY <1>1 DEF Quiet, Placed
  <2>2. QED
    BY <1>1, <1>4, <1>5, <1>7, <2>1, SelectNewTurn
<1>8. CASE InsertNew(r)
  <2>1. pc[r] = "insert"
    BY <1>8 DEF InsertNew, Step
  <2>2. CASE Fails(r) /\ Has(r, k)
    BY <1>1, <1>4, <2>1, <2>2, NothingWritten DEF Booting
  <2>3. CASE Puts(r, k, [created |-> clock + 1, by |-> r])
    <3>1. k \in DOMAIN tx'[r] /\ pc'[r] = "reply" /\ answer'[r] = 0
      BY <1>1, <2>1, <2>3 DEF Puts, Write, Types, Placed, Creators
    <3>2. QED
      BY <1>2, <3>1 DEF Creates, Kept
  <2>4. QED
    BY <1>1, <1>8, <2>2, <2>3, InsertNewTurn
<1>9. QED
  BY <1>1, <1>6, <1>7, <1>8, Kinds DEF Acts, Tenancies, Configs, Placed, Creators, Curators

LEMMA MyCreateKey ==
  ASSUME IndInv, NEW r \in Request, Acts(r)
  PROVE  CreatesKey(r)'
<1> DEFINE k == KeyRow(job[r].new)
<1>1. Basis /\ Types /\ CreatesKey(r) /\ Placed(r) /\ Moves(r)
  BY ActionsMove DEF IndInv, Basis, Acts
<1>2. job' = job /\ Kind(r)' = Kind(r)
  BY <1>1, MovesRest DEF Rest, Kind
<1> SUFFICES ASSUME Kind(r) = "create_key" PROVE CreatesKey(r)'
  BY <1>2 DEF CreatesKey
<1>3. k \in DOMAIN db => k \in DOMAIN db'
  BY <1>1, MovesKeep, Tags DEF Keeps, Lasting
<1>4. ASSUME Fails(r) \/ Dies(r) \/ pc'[r] \notin {"reply", "commit", "done"}
      PROVE  CreatesKey(r)'
  <2>1. ~Kept(r)' /\ pc'[r] \notin {"reply", "commit"}
    BY <1>1, <1>4, NotKept DEF Fails, Dies
  <2>2. QED
    BY <1>2, <2>1 DEF CreatesKey
<1>5. CASE Served(r)
  <2>1. CASE Commits(r) /\ pc[r] = "commit"
    <3>1. k \in DOMAIN db'
      BY <1>1, <2>1, CommitKeeps, Tags DEF Lasting, CreatesKey
    <3>2. pc'[r] = "done"
      BY <2>1 DEF Commits
    <3>3. QED
      BY <1>2, <3>1, <3>2 DEF CreatesKey
  <2>2. CASE Replies(r)
    <3>1. pc[r] = "reply" /\ pc'[r] = "commit" /\ tx'[r] = tx[r]
      BY <2>2 DEF Replies
    <3>2. QED
      BY <1>1, <1>2, <3>1 DEF CreatesKey, Kept
  <2>3. QED
    BY <1>1, <1>4, <1>5, <2>1, <2>2, ServedTurn DEF Sends
<1>6. CASE CreateKey(r)
  <2>1. CASE Puts(r, k, NewKeyRecord(job[r].org, job[r].admin))
    <3>1. k \in DOMAIN tx'[r] /\ pc'[r] = "reply"
      BY <1>1, <2>1 DEF Puts, Write, Types
    <3>2. QED
      BY <1>2, <3>1 DEF CreatesKey, Kept
  <2>2. QED
    BY <1>1, <1>4, <1>6, <2>1, CreateKeyTurn
<1>7. QED
  BY <1>1, <1>5, <1>6, Kinds DEF Acts, Tenancies, Configs, Placed, Creators, Curators

LEMMA MyPush ==
  ASSUME IndInv, NEW r \in Request, Acts(r)
  PROVE  Pushes(r)'
<1>1. Basis /\ Types /\ Pushes(r) /\ Placed(r) /\ Moves(r)
  BY ActionsMove DEF IndInv, Basis, Acts
<1>2. job' = job /\ Kind(r)' = Kind(r) /\ \A k : IsRevision(r, k)' = IsRevision(r, k)
  BY <1>1, MovesRest DEF Rest, Kind, IsRevision
<1> SUFFICES ASSUME Kind(r) = "push_config" PROVE Pushes(r)'
  BY <1>2 DEF Pushes
<1>3. \A k \in DOMAIN db : IsRevision(r, k) => k \in DOMAIN db' /\ db'[k] = db[k]
  BY <1>1, MovesKeep DEF Keeps, Lasting, IsRevision
<1>4. ASSUME Fails(r) \/ Dies(r) \/ pc'[r] \in {"idle", "sent", "touch", "begin"}
      PROVE  Pushes(r)'
  <2>1. ~Kept(r)' /\ pc'[r] \notin {"insert", "reply", "commit"}
    BY <1>1, <1>4, NotKept DEF Fails, Dies
  <2>2. QED
    BY <1>2, <2>1 DEF Pushes
<1>5. CASE Served(r)
  <2>1. CASE Commits(r) /\ pc[r] = "commit"
    <3>1. pc'[r] = "done" /\ answer'[r] = mem[r].code
      BY <1>1, <2>1 DEF Commits, Placed
    <3>2. CASE mem[r].code = 200 /\ \E k \in DOMAIN db : IsRevision(r, k)
      BY <1>2, <1>3, <3>1, <3>2 DEF Pushes
    <3>3. CASE mem[r].code = 201 /\ \E k \in DOMAIN tx[r] : IsRevision(r, k)
      <4>1. PICK k \in DOMAIN tx[r] : IsRevision(r, k)
        BY <3>3
      <4>2. k \in DOMAIN db' /\ db'[k] = tx[r][k]
        BY <1>1, <2>1, <4>1, CommitKeeps DEF IsRevision, Lasting
      <4>3. tx[r][k].by = r
        BY <1>1, <4>1 DEF Basis, Written, Signed, Creators, Curators
      <4>4. QED
        BY <1>2, <3>1, <4>1, <4>2, <4>3 DEF Pushes
    <3>4. QED
      BY <1>1, <2>1, <3>2, <3>3 DEF Pushes
  <2>2. CASE Replies(r)
    <3>1. pc[r] = "reply" /\ pc'[r] = "commit" /\ tx'[r] = tx[r] /\ mem'[r] = mem[r] /\ db' = db
      BY <2>2 DEF Replies
    <3>2. QED
      BY <1>1, <1>2, <3>1 DEF Pushes, Kept
  <2>3. QED
    BY <1>1, <1>4, <1>5, <2>1, <2>2, ServedTurn DEF Sends
<1>6. CASE SelectConfig(r)
  <2>1. pc[r] = "begin"
    BY <1>6 DEF SelectConfig, Begin, Step
  <2>2. \A k : Has(r, k) => k \in DOMAIN db
    BY <1>1, <2>1, NothingWritten DEF Booting
  <2>3. ASSUME Quiet(r), pc'[r] = "reply", mem'[r].code = 200, NEW k, IsRevision(r, k), Has(r, k)
        PROVE  Pushes(r)'
    <3>1. db' = db
      BY <2>3 DEF Quiet
    <3>2. QED
      BY <1>2, <2>2, <2>3, <3>1 DEF Pushes, Kept
  <2>4. ASSUME Quiet(r), pc'[r] = "insert", IsRevision(r, mem'[r].seen[1])
        PROVE  Pushes(r)'
    BY <1>2, <2>4 DEF Pushes, Kept, IsRevision
  <2>5. QED
    BY <1>1, <1>4, <1>6, <2>3, <2>4, SelectConfigTurn
<1>7. CASE InsertConfig(r)
  <2> DEFINE k == mem[r].seen[1]
             row == [id |-> clock + 1, at |-> mem[r].time, by |-> r]
  <2>1. pc[r] = "insert" /\ IsRevision(r, k)
    BY <1>1, <1>7 DEF InsertConfig, At, Step, Pushes
  <2>2. Has(r, k) => k \in DOMAIN db
    BY <1>1, <2>1, NothingWritten DEF Booting
  <2>3. \/ Quiet(r) /\ pc'[r] = "reply" /\ mem'[r].code = 200 /\ Has(r, k)
        \/ Puts(r, k, row) /\ mem'[r].code = 201
    BY <1>1, <1>7, InsertConfigTurn
  <2> HIDE DEF row
  <2>4. PICK key : key = k
    OBVIOUS
  <2> HIDE DEF k
  <2>5. CASE Quiet(r) /\ pc'[r] = "reply" /\ mem'[r].code = 200 /\ Has(r, k)
    <3>1. db' = db /\ key \in DOMAIN db /\ IsRevision(r, key)
      BY <2>1, <2>2, <2>4, <2>5 DEF Quiet
    <3>2. QED
      BY <1>2, <2>5, <3>1 DEF Pushes, Kept
  <2>6. CASE Puts(r, k, row) /\ mem'[r].code = 201
    <3>1. key \in DOMAIN tx'[r] /\ pc'[r] = "reply" /\ IsRevision(r, key)
      BY <1>1, <2>1, <2>4, <2>6 DEF Puts, Write, Types
    <3>2. QED
      BY <1>2, <2>6, <3>1 DEF Pushes, Kept
  <2>7. QED
    BY <2>3, <2>5, <2>6
<1>8. CASE PushAgain(r)
  BY <1>1, <1>4, <1>8, PushAgainRepeats DEF Repeats
<1>9. QED
  BY <1>1, <1>5, <1>6, <1>7, <1>8, Kinds DEF Acts, Tenancies, Configs, Placed, Creators, Curators

LEMMA MyStart ==
  ASSUME IndInv, NEW r \in Request, Acts(r)
  PROVE  Starts(r)'
<1>1. Basis /\ Types /\ Starts(r) /\ Placed(r) /\ Moves(r)
  BY ActionsMove DEF IndInv, Basis, Acts
<1>2. job' = job /\ Kind(r)' = Kind(r) /\ BootRows(r)' = BootRows(r) /\ Boots' = Boots
  BY <1>1, MovesRest DEF Rest, Kind, BootRows, Boots
<1> SUFFICES ASSUME Kind(r) = "boot" PROVE Starts(r)'
  BY <1>2 DEF Starts
<1>3. pc[r] \in {"idle", "ensure", "boot_insert", "done"} /\ (pc[r] # "done" => answer[r] = 0)
  BY <1>1 DEF Placed
<1>4. ASSUME ~Kept(r)', pc'[r] \notin {"ensure", "boot_insert"},
             answer'[r] = 500 => failures' > 0 \/ \E i \in 1..3 : MadeByOther(r, i)'
      PROVE  Starts(r)'
  BY <1>2, <1>4 DEF Starts, Booting
<1>5. CASE Served(r)
  <2>1. CASE Fails(r) /\ (answer'[r] = 401 \/ (answer'[r] = 500 /\ failures' > 0))
    <3>1. ~Kept(r)' /\ pc'[r] = "done"
      BY <1>1, <2>1, NotKept DEF Fails
    <3>2. QED
      BY <1>4, <2>1, <3>1
  <2>2. CASE Dies(r)
    <3>1. ~Kept(r)' /\ pc'[r] = "done" /\ answer'[r] = 0
      BY <1>1, <1>3, <2>2, NotKept DEF Dies
    <3>2. QED
      BY <1>4, <3>1
  <2>3. QED
    BY <1>1, <1>3, <1>5, <2>1, <2>2, ServedTurn DEF Sends, Quiet, Replies
<1>6. CASE Boot(r)
  <2>1. pc'[r] = "ensure" /\ mem'[r].id = 1 /\ answer'[r] = 0
    BY <1>1, <1>3, <1>6 DEF Boot, Step, Goto, Unchanged, Types, NoMem
  <2>2. QED
    BY <1>2, <2>1 DEF Starts, Kept
<1>7. CASE Ensure(r)
  <2>1. pc[r] = "ensure" /\ mem[r].id \in 1..4
    BY <1>1, <1>7 DEF Ensure, Step, Starts, Booting
  <2>2. \A i \in 1..3 : i < mem[r].id => BootRows(r)[i] \in DOMAIN db \cup DOMAIN tx[r]
    BY <1>1, <2>1 DEF Starts, Booting
  <2>3. \A i \in 1..3 : BootRows(r)[i][1] \in Lasting
    BY Tags DEF Lasting
  <2>4. CASE Commits(r) /\ mem[r].id > 3
    <3>1. ASSUME NEW i \in 1..3 PROVE BootRows(r)[i] \in DOMAIN db'
      <4>1. BootRows(r)[i] \in DOMAIN db \cup DOMAIN tx[r]
        BY <2>1, <2>2, <2>4
      <4>2. QED
        BY <1>1, <2>3, <2>4, <4>1, CommitKeeps DEF Keeps
    <3>2. pc'[r] = "done" /\ answer'[r] = 200
      BY <2>1, <2>4 DEF Commits
    <3>3. QED
      BY <1>2, <3>1, <3>2 DEF Starts, Booting
  <2>5. CASE /\ Quiet(r) /\ pc'[r] = "ensure" /\ mem'[r].id = mem[r].id + 1
             /\ ~(mem[r].id > 3) /\ Has(r, BootRows(r)[mem[r].id])
    <3>1. db' = db /\ tx' = tx /\ answer'[r] = 0
      BY <1>3, <2>1, <2>5 DEF Quiet
    <3>2. mem[r].id \in 1..3 /\ mem'[r].id \in 1..4
      BY <2>1, <2>5
    <3>3. BootRows(r)[mem[r].id] \in DOMAIN db \cup DOMAIN tx[r]
      BY <2>5 DEF Has
    <3>4. ASSUME NEW i \in 1..3, i < mem'[r].id
          PROVE  BootRows(r)[i] \in DOMAIN db' \cup DOMAIN tx'[r]
      <4>1. i < mem[r].id \/ i = mem[r].id
        BY <2>5, <3>2, <3>4
      <4>2. QED
        BY <2>2, <3>1, <3>3, <4>1
    <3>5. QED
      BY <1>2, <2>5, <3>1, <3>2, <3>4 DEF Starts, Kept
  <2>6. CASE /\ Quiet(r) /\ pc'[r] = "boot_insert" /\ mem'[r].id = mem[r].id
             /\ ~(mem[r].id > 3) /\ ~Has(r, BootRows(r)[mem[r].id])
    <3>1. db' = db /\ tx' = tx /\ answer'[r] = 0
      BY <1>3, <2>1, <2>6 DEF Quiet
    <3>2. mem[r].id \in 1..3
      BY <2>1, <2>6
    <3>3. PICK i \in 1..3 : i = mem[r].id
      BY <3>2
    <3>4. BootRows(r)[i] \notin DOMAIN tx[r] /\ BootRows(r)[i] \notin DOMAIN db
      <4>1. ASSUME BootRows(r)[i] \in DOMAIN tx[r] PROVE tx[r][BootRows(r)[i]] # Gone
        BY <1>1, <2>3, <4>1, WrittenLasts DEF Basis
      <4>2. QED
        BY <2>6, <3>3, <4>1 DEF Has
    <3>5. \A j \in 1..3 : j < mem'[r].id => BootRows(r)[j] \in DOMAIN db' \cup DOMAIN tx'[r]
      BY <2>2, <2>6, <3>1
    <3>6. BootRows(r)[mem'[r].id] \notin DOMAIN tx'[r] /\ BootRows(r)[mem'[r].id] \notin DOMAIN db'
      BY <2>6, <3>1, <3>3, <3>4
    <3>7. QED
      BY <1>2, <2>6, <3>1, <3>2, <3>5, <3>6 DEF Starts, Kept
  <2>7. QED
    BY <1>1, <1>7, <2>4, <2>5, <2>6, EnsureTurn
<1>8. CASE BootInsert(r)
  <2>1. pc[r] = "boot_insert" /\ mem[r].id \in 1..3 /\ BootRows(r)[mem[r].id] \notin DOMAIN tx[r]
    BY <1>1, <1>8 DEF BootInsert, Step, Starts
  <2>2. \A i \in 1..3 : i < mem[r].id => BootRows(r)[i] \in DOMAIN db \cup DOMAIN tx[r]
    BY <1>1, <2>1 DEF Starts, Booting
  <2>3. PICK i \in 1..3 : i = mem[r].id
    BY <2>1
  <2>4. CASE Fails(r) /\ Has(r, BootRows(r)[mem[r].id])
    <3>1. BootRows(r)[i] \in DOMAIN db
      BY <2>1, <2>3, <2>4 DEF Has
    <3>2. MadeByOther(r, i)
      BY <1>1, <2>1, <2>3, <3>1 DEF Starts
    <3>3. ~Kept(r)' /\ pc'[r] = "done" /\ db' = db
      BY <1>1, <2>4, NotKept DEF Fails
    <3>4. MadeByOther(r, i)'
      BY <1>2, <3>2, <3>3 DEF MadeByOther
    <3>5. QED
      BY <1>4, <3>3, <3>4
  <2>5. CASE /\ Puts(r, BootRows(r)[mem[r].id], BootRow(r, mem[r].id))
             /\ mem'[r].id = mem[r].id + 1
    <3>1. db' = db /\ pc'[r] = "ensure" /\ answer'[r] = 0
      BY <1>3, <2>1, <2>5 DEF Puts
    <3>2. DOMAIN tx'[r] = DOMAIN tx[r] \cup {BootRows(r)[mem[r].id]}
      BY <1>1, <2>5 DEF Puts, Write, Types
    <3>3. mem'[r].id \in 1..4
      BY <2>1, <2>5
    <3>4. ASSUME NEW j \in 1..3, j < mem'[r].id
          PROVE  BootRows(r)[j] \in DOMAIN db' \cup DOMAIN tx'[r]
      <4>1. j < mem[r].id \/ j = mem[r].id
        BY <2>1, <2>5, <3>4
      <4>2. QED
        BY <2>2, <3>1, <3>2, <4>1
    <3>5. QED
      BY <1>2, <3>1, <3>3, <3>4 DEF Starts, Kept
  <2>6. QED
    BY <1>1, <1>8, <2>4, <2>5, BootInsertTurn
<1>9. QED
  BY <1>1, <1>3, <1>5, <1>6, <1>7, <1>8, Kinds DEF Acts, Tenancies, Configs, Placed, Creators, Curators

-----------------------------------------------------------------------------
(* The invariant *)

LEMMA IndInvInit == ControlPlaneInit => IndInv
<1> SUFFICES ASSUME ControlPlaneInit PROVE IndInv
  OBVIOUS
<1>1. PICK s \in Scenario : job = s.job /\ db = s.db
  BY DEF ControlPlaneInit, TenancyInit
<1>2. /\ tx = [r \in Request |-> NoTx] /\ pc = [r \in Request |-> "idle"]
      /\ who = [r \in Request |-> Nobody] /\ mem = [r \in Request |-> NoMem]
      /\ answer = [r \in Request |-> 0]
      /\ barred = {} /\ lost_acks = {} /\ failures = 0
  BY DEF ControlPlaneInit, TenancyInit
<1>3. clock \in Nat
  <2>1. IsFiniteSet(DOMAIN db)
    BY <1>1, TenancyAssumption
  <2>2. clock = Cardinality(DOMAIN db)
    BY DEF ControlPlaneInit, TenancyInit
  <2>3. QED
    BY <2>1, <2>2, FS_CardinalityType
<1>4. Types
  BY <1>1, <1>2, <1>3, TenancyAssumption DEF Types, NoMem, Steps
<1>5. Apart /\ \A r \in Request : DOMAIN tx[r] = {}
  BY <1>2, NoKeys DEF Apart
<1>6. Keyed
  BY <1>1, TenancyAssumption DEF Keyed, IsKey, Kind
<1>7. \A r \in Request : Placed(r) /\ Barred(r)
  BY <1>2 DEF Placed, Barred
<1>8. Basis
  BY <1>4, <1>5, <1>6, <1>7 DEF Basis
<1>9. OneStarts
  BY <1>2 DEF OneStarts, Booting
<1>10. \A r \in Request : pc[r] = "idle" /\ answer[r] = 0 /\ ~Kept(r) /\ ~Booting(r)
  BY <1>2 DEF Kept, Booting
<1>11. \A r \in Request : Revokes(r) /\ Creates(r) /\ CreatesKey(r) /\ Pushes(r) /\ Starts(r)
  BY <1>10 DEF Revokes, Creates, CreatesKey, Pushes, Starts
<1>12. QED
  BY <1>8, <1>9, <1>11 DEF IndInv

LEMMA IndInvStutters == IndInv /\ UNCHANGED vars => IndInv'
<1> SUFFICES ASSUME IndInv, UNCHANGED vars PROVE IndInv'
  OBVIOUS
<1>1. UNCHANGED <<job, db, tx, pc, who, mem, answer, clock, barred, lost_acks, failures>>
  BY DEF vars, history
<1>2. Types' /\ Apart' /\ Keyed'
  BY <1>1 DEF IndInv, Basis, Types, Apart, Keyed, Kind
<1>3. \A r \in Request : (Placed(r) /\ Barred(r) /\ \A k \in DOMAIN tx[r] : Written(r, k, tx[r][k]))'
  BY <1>1 DEF IndInv, Basis, Placed, Barred, Revoked, Written, Signed, Booting, Kind, NewRow, BootRows
<1>4. OneStarts'
  BY <1>1 DEF IndInv, OneStarts, Booting, Kind
<1>5. \A r \in Request : Kept(r)' = Kept(r) /\ Kind(r)' = Kind(r) /\ NewRow(r)' = NewRow(r) /\ BootRows(r)' = BootRows(r)
  BY <1>1 DEF Kept, Kind, NewRow, BootRows
<1>6. \A r \in Request : (Revokes(r) /\ Creates(r) /\ CreatesKey(r))'
  BY <1>1, <1>5 DEF IndInv, Revokes, Creates, CreatesKey, Revoked
<1>7. \A r \in Request : Pushes(r)'
  BY <1>1, <1>5 DEF IndInv, Pushes, IsRevision
<1>8. \A r \in Request : Starts(r)'
  BY <1>1, <1>5 DEF IndInv, Starts, Booting, MadeByOther, Boots, Kind
<1>9. QED
  BY <1>2, <1>3, <1>4, <1>6, <1>7, <1>8 DEF IndInv, Basis

LEMMA IndInvKept == IndInv /\ [Next]_vars => IndInv'
<1> SUFFICES ASSUME IndInv, [Next]_vars PROVE IndInv'
  OBVIOUS
<1>1. ASSUME NEW r \in Request, Acts(r) PROVE IndInv'
  <2>1. Basis /\ Moves(r)
    BY <1>1, ActionsMove DEF IndInv, Acts
  <2>2. Basis' /\ OneStarts'
    BY <2>1, BasisKept, OneStartsKept
  <2>3. ASSUME NEW q \in Request
        PROVE  (Revokes(q) /\ Creates(q) /\ CreatesKey(q) /\ Pushes(q) /\ Starts(q))'
    <3>1. CASE q = r
      BY <1>1, <3>1, MyRevoke, MyCreate, MyCreateKey, MyPush, MyStart
    <3>2. CASE q # r
      BY <2>1, <3>2, OthersRevoke, OthersCreate, OthersPush, OthersStart
    <3>3. QED
      BY <3>1, <3>2
  <2>4. QED
    BY <2>2, <2>3 DEF IndInv
<1>2. QED
  BY <1>1, IndInvStutters DEF Next, AllDone, Acts

LEMMA InvariantHolds == Spec => []IndInv
<1>1. ControlPlaneInit => IndInv
  BY IndInvInit
<1>2. IndInv /\ [Next]_vars => IndInv'
  BY IndInvKept
<1>3. QED
  BY <1>1, <1>2, PTL DEF Spec

\* Every variable of the control plane stays in its type, an open transaction
\* belongs to a handler that runs, and no two of them hold one row.
THEOREM TypeCorrect == Spec => []TypeOK
<1>1. ASSUME IndInv PROVE TypeOK
  <2>1. Types /\ Apart /\ \A r \in Request : Placed(r)
    BY <1>1 DEF IndInv, Basis
  <2>2. answer \in [Request -> {0, 200, 201, 204, 400, 401, 403, 404, 409, 422, 500}]
    BY <2>1 DEF Types, Success, Failure
  <2>3. \A r \in Request : tx[r] # NoTx => Open(r)
    BY <2>1 DEF Placed, Booting, Open
  <2>4. QED
    BY <2>1, <2>2, <2>3 DEF TypeOK, Types, Apart
<1>2. QED
  BY <1>1, InvariantHolds, PTL

\* A revocation that was acknowledged holds, whatever starts or commits later,
\* and no request with that key that is sent afterwards succeeds.
THEOREM RevocationKept == Spec => []RevocationHolds
<1>1. ASSUME IndInv PROVE RevocationHolds
  <2> SUFFICES ASSUME NEW r \in Request
               PROVE  /\ r \in barred => answer[r] \notin Success
                      /\ Kind(r) = "revoke_key" /\ Kept(r) => db[KeyRow(job[r].target)].revoked
    BY DEF RevocationHolds
  <2>1. Placed(r) /\ Barred(r) /\ Revokes(r)
    BY <1>1 DEF IndInv, Basis
  <2>2. r \in barred => answer[r] \in {0, 401}
    BY <2>1 DEF Barred, Placed
  <2>3. QED
    BY <2>1, <2>2 DEF Revokes, Revoked, Success
<1>2. QED
  BY <1>1, InvariantHolds, PTL

\* Of several requests that create one org, project or revision, the one that
\* made it is told so, and the others that it is there; a key that was made is
\* there; and servers that start together all start, unless a request makes
\* one of the rows they ensure or something fails.
THEOREM OneCreator == Spec => []CreatedOnce
<1>1. ASSUME IndInv PROVE CreatedOnce
  <2> SUFFICES ASSUME NEW r \in Request
               PROVE
    /\ Kind(r) \in {"create_org", "create_project"} =>
         /\ Kept(r) => db[NewRow(r)].by = r
         /\ answer[r] = 409 => NewRow(r) \in DOMAIN db
    /\ Kind(r) = "push_config" /\ Kept(r) =>
         \E k \in DOMAIN db :
           /\ k[1] = "config"
           /\ k[3] = job[r].config
           /\ answer[r] = 201 => db[k].by = r
    /\ Kind(r) = "create_key" /\ Kept(r) => KeyRow(job[r].new) \in DOMAIN db
    /\ Kind(r) = "boot" /\ answer[r] = 500 =>
         \/ failures > 0
         \/ \E i \in DOMAIN BootRows(r) :
              /\ BootRows(r)[i] \in DOMAIN db
              /\ i < 3
              /\ db[BootRows(r)[i]].by \notin {q \in Request : Kind(q) = "boot"}
    /\ Kind(r) = "boot" /\ Kept(r) =>
         \A i \in DOMAIN BootRows(r) : BootRows(r)[i] \in DOMAIN db
    BY DEF CreatedOnce
  <2>1. Creates(r) /\ CreatesKey(r) /\ Pushes(r) /\ Starts(r)
    BY <1>1 DEF IndInv
  <2>2. DOMAIN BootRows(r) = 1..3
    BY DEF BootRows
  <2>3. Kind(r) \in Creators => (Kept(r) => db[NewRow(r)].by = r) /\ (answer[r] = 409 => NewRow(r) \in DOMAIN db)
    BY <2>1 DEF Creates
  <2>4. Kind(r) = "push_config" /\ Kept(r) =>
          \E k \in DOMAIN db : k[1] = "config" /\ k[3] = job[r].config /\ (answer[r] = 201 => db[k].by = r)
    BY <2>1 DEF Pushes, IsRevision
  <2>5. Kind(r) = "create_key" /\ Kept(r) => KeyRow(job[r].new) \in DOMAIN db
    BY <2>1 DEF CreatesKey
  <2>6. Kind(r) = "boot" /\ answer[r] = 500 => failures > 0 \/ \E i \in 1..3 : MadeByOther(r, i)
    BY <2>1 DEF Starts
  <2>7. Kind(r) = "boot" /\ Kept(r) => \A i \in 1..3 : BootRows(r)[i] \in DOMAIN db
    BY <2>1 DEF Starts
  <2>8. QED
    BY <2>2, <2>3, <2>4, <2>5, <2>6, <2>7 DEF Creators, MadeByOther, Boots
<1>2. QED
  BY <1>1, InvariantHolds, PTL

-----------------------------------------------------------------------------
(* Reviews and candidates *)

IsGolden(row) == {"id", "by"} \subseteq DOMAIN row

\* What r may write about a row of a run.
Curated(r, k, row) ==
  \/ Kind(r) = "review" /\ k = ReviewRow(r) /\ row # Gone /\ row.by = r
  \/ /\ Kind(r) = "promote" /\ k = GoldenRow(r) /\ row # Gone /\ row.by = r
     /\ IsGolden(row)
     /\ k \in DOMAIN db => row.id = db[k].id
  \/ Kind(r) = "un_promote" /\ k = TargetRow(r) /\ row = Gone /\ mem[r].code = 204

\* A candidate that was found is still there, or was deleted.
Found(k) == k \in DOMAIN db \/ Removed(k)
FoundId(k, id) == (k \in DOMAIN db /\ db[k].id = id) \/ Removed(k)

Curating(r) ==
  Kind(r) \in Curators =>
    /\ \A k \in DOMAIN tx[r] : Curated(r, k, tx[r][k])
    /\ Kind(r) = "review" /\ pc[r] \in {"reply", "commit"} => ReviewRow(r) \in DOMAIN tx[r]
    /\ Kind(r) = "promote" =>
         /\ pc[r] \in {"reply", "commit"} => GoldenRow(r) \in DOMAIN tx[r] \/ Removed(GoldenRow(r))
         /\ pc[r] = "reselect" => Found(GoldenRow(r))
         /\ pc[r] = "update" => FoundId(GoldenRow(r), mem[r].id)
         /\ answer[r] = 500 => failures > 0 \/ Removed(GoldenRow(r))

CurationInv ==
  /\ IndInv
  /\ \A k \in DOMAIN db : k[1] = "golden" => IsGolden(db[k])
  /\ \A r \in Request : Curating(r)

LEMMA Untouched ==
  ASSUME Basis, NEW r \in Request, Moves(r), NEW k, k \notin DOMAIN tx[r]
  PROVE  (k \in DOMAIN db' <=> k \in DOMAIN db) /\ (k \in DOMAIN db => db'[k] = db[k])
<1>1. db' = db \/ db' = [l \in Keys(r) |-> Row(r, l)]
  BY MovesKeep DEF Commits
<1>2. k \in Keys(r) <=> k \in DOMAIN db
  BY DEF Keys, Has
<1>3. Row(r, k) = db[k]
  BY DEF Row
<1>4. QED
  BY <1>1, <1>2, <1>3

LEMMA RemovedKept ==
  ASSUME Basis, NEW r \in Request, Moves(r), NEW k, Removed(k)
  PROVE  Removed(k)'
<1>1. Types /\ Rest(r) /\ Placed(r)
  BY MovesRest DEF Basis
<1>2. PICK q \in Request : Kind(q) = "un_promote" /\ answer[q] = 204 /\ TargetRow(q) = k
  BY DEF Removed
<1>3. Kind(q)' = Kind(q) /\ TargetRow(q)' = TargetRow(q)
  BY <1>1 DEF Rest, Kind, TargetRow
<1>4. CASE q # r
  BY <1>1, <1>2, <1>3, <1>4 DEF Rest, Removed
<1>5. CASE q = r
  <2>1. pc[r] \in {"commit", "done"}
    BY <1>1, <1>2, <1>5 DEF Placed
  <2>2. answer'[r] = answer[r]
    BY <1>2, <1>5, <2>1 DEF Moves, Quiet, Fails, Lays, Puts, Ingests, Finishes, Sends, Replies, Commits, Dies, Repeats
  <2>3. QED
    BY <1>2, <1>3, <1>5, <2>2 DEF Removed
<1>6. QED
  BY <1>4, <1>5

\* A commit leaves a candidate its id, or deletes it.
LEMMA GoldensKept ==
  ASSUME CurationInv, NEW r \in Request, Moves(r), NEW k, k[1] = "golden"
  PROVE  /\ k \in DOMAIN db => (k \in DOMAIN db' /\ db'[k].id = db[k].id) \/ Removed(k)
         /\ k \in DOMAIN db' => IsGolden(db'[k])
<1>1. Basis /\ Placed(r) /\ Curating(r) /\ (k \in DOMAIN db => IsGolden(db[k]))
  BY DEF CurationInv, IndInv, Basis
<1>2. CASE k \notin DOMAIN tx[r] \/ db' = db
  BY <1>1, <1>2, Untouched
<1>3. CASE k \in DOMAIN tx[r] /\ db' # db
  <2>1. Commits(r)
    BY <1>1, <1>3, MovesKeep
  <2>2. Written(r, k, tx[r][k])
    BY <1>1, <1>3 DEF Basis
  <2>3. Kind(r) \in Curators
    BY <2>2, Tags DEF Written
  <2>4. Curated(r, k, tx[r][k])
    BY <1>1, <1>3, <2>3 DEF Curating
  <2>5. k \in DOMAIN db' <=> tx[r][k] # Gone
    BY <1>3, <2>1 DEF Commits, Keys, Has
  <2>6. k \in DOMAIN db' => db'[k] = tx[r][k]
    BY <1>3, <2>1 DEF Commits, Row
  <2>7. CASE Kind(r) = "promote"
    BY <2>4, <2>5, <2>6, <2>7 DEF Curated
  <2>8. CASE Kind(r) = "un_promote"
    <3>1. TargetRow(r) = k /\ tx[r][k] = Gone /\ mem[r].code = 204
      BY <2>4, <2>8 DEF Curated
    <3>2. pc[r] = "commit"
      BY <1>1, <2>1, <2>8 DEF Commits, Placed
    <3>3. answer[r] = 204
      BY <1>1, <3>1, <3>2 DEF Placed
    <3>4. QED
      BY <2>5, <2>8, <3>1, <3>3 DEF Removed
  <2>9. CASE Kind(r) = "review"
    BY <2>4, <2>9 DEF Curated, ReviewRow
  <2>10. QED
    BY <2>3, <2>7, <2>8, <2>9 DEF Curators
<1>4. QED
  BY <1>2, <1>3

LEMMA FoundKept ==
  ASSUME CurationInv, NEW r \in Request, Moves(r), NEW k, k[1] = "golden"
  PROVE  /\ Found(k) => Found(k)'
         /\ \A id : FoundId(k, id) => FoundId(k, id)'
BY GoldensKept, RemovedKept DEF Found, FoundId, CurationInv, IndInv

LEMMA OthersCurate ==
  ASSUME CurationInv, NEW r \in Request, Moves(r), NEW q \in Request \ {r}
  PROVE  Curating(q)'
<1>1. IndInv /\ Basis /\ Types /\ Rest(r) /\ Curating(q) /\ Apart
  BY MovesRest DEF CurationInv, IndInv, Basis
<1>2. who'[q] = who[q] /\ job' = job
  BY <1>1 DEF Rest
<1>3. ReviewRow(q)' = ReviewRow(q) /\ GoldenRow(q)' = GoldenRow(q) /\ TargetRow(q)' = TargetRow(q)
  BY <1>2 DEF ReviewRow, GoldenRow, TargetRow
<1> SUFFICES ASSUME Kind(q) \in Curators PROVE Curating(q)'
  BY <1>1, OthersStay DEF Curating
<1>4. GoldenRow(q)[1] = "golden"
  BY DEF GoldenRow
<1>5. Removed(GoldenRow(q)) => Removed(GoldenRow(q))'
  BY <1>1, <1>3, RemovedKept DEF Removed
<1>6. Found(GoldenRow(q)) => Found(GoldenRow(q))'
  BY <1>3, <1>4, FoundKept DEF Found, Removed
<1>7. FoundId(GoldenRow(q), mem[q].id) => FoundId(GoldenRow(q), mem[q].id)'
  BY <1>1, <1>3, <1>4, FoundKept, OthersStay DEF FoundId, Removed
<1>8. ASSUME NEW k \in DOMAIN tx'[q] PROVE Curated(q, k, tx[q][k])'
  <2>1. tx'[q] = tx[q] /\ k \notin DOMAIN tx[r] /\ Curated(q, k, tx[q][k])
    BY <1>1, <1>8, OthersStay DEF Apart, Curating
  <2>2. (k \in DOMAIN db' <=> k \in DOMAIN db) /\ (k \in DOMAIN db => db'[k] = db[k])
    BY <1>1, <2>1, Untouched
  <2>3. QED
    BY <1>1, <1>3, <2>1, <2>2, OthersStay DEF Curated
<1>9. QED
  BY <1>1, <1>3, <1>5, <1>6, <1>7, <1>8, OthersStay DEF Curating

LEMMA OneRow ==
  ASSUME Types, NEW r \in Request, DOMAIN tx[r] = {}, NEW k, NEW row, Write(r, k, row)
  PROVE  DOMAIN tx'[r] = {k} /\ tx'[r][k] = row
BY DEF Write, Types

\* What a served request of Curators is after a step that is not its handler's.
LEMMA ServedCurates ==
  ASSUME CurationInv, NEW r \in Request, Kind(r) \in Curators, Served(r)
  PROVE  Curating(r)'
<1>1. IndInv /\ Basis /\ Types /\ Placed(r) /\ Curating(r) /\ Acts(r)
  BY DEF CurationInv, IndInv, Basis, Acts
<1>2. Moves(r)
  BY <1>1, ActionsMove DEF Acts
<1>3. job' = job /\ Kind(r)' = Kind(r)
  BY <1>2, MovesRest DEF Rest, Kind
<1>4. Placed(r)'
  BY <1>1, <1>2, BasisKept DEF Basis
<1>5. CASE Reply(r)
  <2>1. /\ pc[r] = "reply" /\ pc'[r] = "commit" /\ answer'[r] = mem[r].code
        /\ UNCHANGED <<db, tx, who, mem, failures>>
    BY <1>1, <1>5 DEF Reply, Step, Goto, Types
  <2>2. /\ ReviewRow(r)' = ReviewRow(r) /\ GoldenRow(r)' = GoldenRow(r) /\ TargetRow(r)' = TargetRow(r)
    BY <1>3, <2>1 DEF ReviewRow, GoldenRow, TargetRow
  <2>3. answer'[r] # 500
    BY <1>1, <2>1 DEF Types, Success
  <2>4. Removed(GoldenRow(r)) => Removed(GoldenRow(r))'
    BY <1>1, <1>2, <2>2, RemovedKept DEF Removed
  <2>5. \A k \in DOMAIN tx'[r] : Curated(r, k, tx[r][k])'
    BY <1>1, <1>3, <2>1, <2>2 DEF Curating, Curated
  <2>6. QED
    BY <1>1, <1>3, <2>1, <2>2, <2>3, <2>4, <2>5 DEF Curating
<1>6. CASE ~Reply(r)
  <2>1. pc'[r] \in {"sent", "touch", "begin", "done"}
    BY <1>1, <1>6, SendSends, AuthenticateTurn DEF Served, Sends, Fails, Commit, Fault, Die, Goto, Types
  <2>2. DOMAIN tx'[r] = {}
    BY <1>3, <1>4, <2>1, NoKeys DEF Placed, Booting, Kind, Curators
  <2>3. ASSUME Kind(r) = "promote", answer'[r] = 500
        PROVE  failures' > 0 \/ Removed(GoldenRow(r))'
    <3>1. Fault(r) \/ ((Commit(r) \/ Die(r)) /\ answer[r] = 500)
      BY <1>1, <1>6, <2>3, SendSends, AuthenticateTurn
         DEF Served, Sends, Quiet, Placed, Fails, Commit, Die, Failure
    <3>2. CASE Fault(r)
      BY <1>1, <3>2, EndTurn DEF Replies, Dies, Commits, Fault, Types
    <3>3. CASE (Commit(r) \/ Die(r)) /\ answer[r] = 500
      <4>1. UNCHANGED who
        BY <3>3 DEF Commit, Die
      <4>2. GoldenRow(r)' = GoldenRow(r)
        BY <1>3, <4>1 DEF GoldenRow
      <4>3. failures > 0 \/ Removed(GoldenRow(r))
        BY <1>1, <2>3, <3>3 DEF Curating
      <4>4. failures > 0 => failures' > 0
        BY <1>1, <1>2, MovesRest, Jobs DEF Rest, Types
      <4>5. Removed(GoldenRow(r)) => Removed(GoldenRow(r))'
        BY <1>1, <1>2, <4>2, RemovedKept DEF Removed
      <4>6. QED
        BY <4>3, <4>4, <4>5
    <3>4. QED
      BY <3>1, <3>2, <3>3
  <2>4. QED
    BY <1>3, <2>1, <2>2, <2>3 DEF Curating
<1>7. QED
  BY <1>5, <1>6

LEMMA MyReview ==
  ASSUME CurationInv, NEW r \in Request, Kind(r) = "review", Curations(r)
  PROVE  Curating(r)'
<1>1. IndInv /\ Basis /\ Types /\ Placed(r) /\ Acts(r)
  BY DEF CurationInv, IndInv, Basis, Acts
<1>2. Moves(r)
  BY <1>1, ActionsMove DEF Acts
<1>3. job' = job /\ Kind(r)' = Kind(r)
  BY <1>2, MovesRest DEF Rest, Kind
<1>4. Placed(r)'
  BY <1>1, <1>2, BasisKept DEF Basis
<1>5. CASE pc'[r] \notin {"reply", "commit"}
  <2>1. DOMAIN tx'[r] = {}
    BY <1>3, <1>4, <1>5, NoKeys DEF Placed, Booting, Kind
  <2>2. QED
    BY <1>3, <1>5, <2>1 DEF Curating
<1>6. CASE pc'[r] \in {"reply", "commit"}
  <2>1. SelectReview(r) \/ UpdateReview(r) \/ InsertReview(r)
    BY DEF Curations, SelectGolden, UpdateGolden, InsertGolden, ReselectGolden, SelectTarget, DeleteTarget,
           ListGolden, FetchRefused, FetchFailed, FetchDetail, WriteFile, AtDetail, Begin, At
  <2>2. ~SelectReview(r)
    BY <1>1, <1>6 DEF SelectReview, Refuse, Goto, Types
  <2>3. pc[r] \in {"update", "insert"} /\ Write(r, ReviewRow(r), [by |-> r]) /\ UNCHANGED who
    BY <1>1, <1>6, <2>1, <2>2 DEF UpdateReview, InsertReview, Refuse, Goto, Types, At, Step, Unchanged
  <2>4. DOMAIN tx[r] = {}
    BY <1>1, <2>3, NothingWritten DEF Booting
  <2>5. DOMAIN tx'[r] = {ReviewRow(r)} /\ tx'[r][ReviewRow(r)] = [by |-> r]
    BY <1>1, <2>3, <2>4, OneRow
  <2>6. ReviewRow(r)' = ReviewRow(r)
    BY <1>3, <2>3 DEF ReviewRow
  <2>7. [by |-> r] # Gone /\ [by |-> r].by = r
    <3>1. DOMAIN [by |-> r] = {"by"} /\ DOMAIN Gone = {"gone"}
      BY DEF Gone
    <3>2. QED
      BY <3>1
  <2> DEFINE row == [by |-> r]
  <2> HIDE DEF row
  <2>8. QED
    BY <1>3, <2>5, <2>6, <2>7 DEF Curating, Curated, row
<1>7. QED
  BY <1>5, <1>6

LEMMA MyUnPromote ==
  ASSUME CurationInv, NEW r \in Request, Kind(r) = "un_promote", Curations(r)
  PROVE  Curating(r)'
<1>1. IndInv /\ Basis /\ Types /\ Placed(r) /\ Acts(r)
  BY DEF CurationInv, IndInv, Basis, Acts
<1>2. Moves(r)
  BY <1>1, ActionsMove DEF Acts
<1>3. job' = job /\ Kind(r)' = Kind(r)
  BY <1>2, MovesRest DEF Rest, Kind
<1>4. Placed(r)'
  BY <1>1, <1>2, BasisKept DEF Basis
<1>5. CASE DOMAIN tx'[r] = {}
  BY <1>3, <1>5 DEF Curating
<1>6. CASE DOMAIN tx'[r] # {}
  <2>1. pc'[r] \in {"reply", "commit"}
    BY <1>3, <1>4, <1>6, NoKeys DEF Placed, Booting, Kind
  <2>2. SelectTarget(r) \/ DeleteTarget(r)
    BY DEF Curations, SelectReview, UpdateReview, InsertReview, SelectGolden, UpdateGolden, InsertGolden,
           ReselectGolden, ListGolden, FetchRefused, FetchFailed, FetchDetail, WriteFile, AtDetail, Begin, At
  <2>3. ~SelectTarget(r)
    BY <1>1, <2>1 DEF SelectTarget, Refuse, Goto, Types
  <2>4. pc[r] = "delete" /\ Return(r, 204) /\ (UNCHANGED tx \/ Write(r, TargetRow(r), Gone))
    BY <2>2, <2>3 DEF DeleteTarget, At, Step
  <2>5. DOMAIN tx[r] = {}
    BY <1>1, <2>4, NothingWritten DEF Booting
  <2>6. DOMAIN tx'[r] = {TargetRow(r)} /\ tx'[r][TargetRow(r)] = Gone
    BY <1>1, <1>6, <2>4, <2>5, OneRow
  <2>7. mem'[r].code = 204
    BY <1>1, <2>4, ReturnRemembers DEF Success
  <2>8. TargetRow(r)' = TargetRow(r)
    BY <1>3 DEF TargetRow
  <2>9. QED
    BY <1>3, <2>6, <2>7, <2>8 DEF Curating, Curated
<1>7. QED
  BY <1>5, <1>6

LEMMA MyPromote ==
  ASSUME CurationInv, NEW r \in Request, Kind(r) = "promote", Curations(r)
  PROVE  Curating(r)'
<1> DEFINE k == GoldenRow(r)
<1>1. IndInv /\ Basis /\ Types /\ Placed(r) /\ Curating(r) /\ Acts(r)
  BY DEF CurationInv, IndInv, Basis, Acts
<1>2. Moves(r)
  BY <1>1, ActionsMove DEF Acts
<1>3. job' = job /\ Kind(r)' = Kind(r)
  BY <1>2, MovesRest DEF Rest, Kind
<1>4. Placed(r)'
  BY <1>1, <1>2, BasisKept DEF Basis
<1>5. SelectGolden(r) \/ UpdateGolden(r) \/ InsertGolden(r) \/ ReselectGolden(r)
  BY DEF Curations, SelectReview, UpdateReview, InsertReview, SelectTarget, DeleteTarget,
         ListGolden, FetchRefused, FetchFailed, FetchDetail, WriteFile, AtDetail, Begin, At
<1>6. pc[r] \in {"begin", "update", "insert", "reselect"} /\ answer[r] = 0
  BY <1>1, <1>5 DEF SelectGolden, UpdateGolden, InsertGolden, ReselectGolden, Begin, At, Step, Placed
<1>7. DOMAIN tx[r] = {} /\ (Has(r, k) <=> k \in DOMAIN db) /\ Row(r, k) = db[k]
  BY <1>1, <1>6, NothingWritten DEF Booting
<1>8. db' = db /\ who' = who /\ failures' = failures
  BY <1>5 DEF SelectGolden, UpdateGolden, InsertGolden, ReselectGolden, Refuse, Unchanged
<1>9. /\ GoldenRow(r)' = GoldenRow(r)
      /\ Removed(k) => Removed(k)'
  <2>1. GoldenRow(r)' = GoldenRow(r)
    BY <1>3, <1>8 DEF GoldenRow
  <2>2. QED
    BY <1>1, <1>2, <2>1, RemovedKept DEF Removed
<1>10. k \in DOMAIN db => IsGolden(db[k])
  BY DEF CurationInv, GoldenRow
<1>11. DOMAIN tx'[r] = {} \/ pc'[r] \in {"reply", "commit"}
  BY <1>3, <1>4, NoKeys DEF Placed, Booting, Kind
\* Where the request is next, by what it did.
<1>12. ASSUME NEW code \in Failure, Refuse(r, code), code = 500 => Removed(k)
       PROVE  Curating(r)'
  <2>1. pc'[r] = "done" /\ answer'[r] = code
    BY <1>1, <1>12 DEF Refuse, Goto, Types
  <2>2. QED
    BY <1>3, <1>9, <1>11, <1>12, <2>1 DEF Curating
<1>13. ASSUME mem'[r].id = db[k].id, Goto(r, "update"), k \in DOMAIN db, UNCHANGED answer
       PROVE  Curating(r)'
  <2>1. pc'[r] = "update" /\ answer'[r] = 0
    BY <1>1, <1>6, <1>13 DEF Goto, Types
  <2>2. FoundId(GoldenRow(r), mem[r].id)'
    BY <1>8, <1>9, <1>13 DEF FoundId
  <2>3. QED
    BY <1>3, <1>11, <2>1, <2>2 DEF Curating
<1>14. ASSUME NEW step \in {"insert", "reselect"}, Goto(r, step), UNCHANGED answer,
              step = "reselect" => k \in DOMAIN db
       PROVE  Curating(r)'
  <2>1. pc'[r] = step /\ answer'[r] = 0
    BY <1>1, <1>6, <1>14 DEF Goto, Types
  <2>2. step = "reselect" => Found(GoldenRow(r))'
    BY <1>8, <1>9, <1>14 DEF Found
  <2>3. QED
    BY <1>3, <1>11, <1>14, <2>1, <2>2 DEF Curating
<1>15. ASSUME NEW row, Write(r, k, row), Goto(r, "reply"), UNCHANGED answer,
              row # Gone, row.by = r, IsGolden(row), k \in DOMAIN db => row.id = db[k].id
       PROVE  Curating(r)'
  <2>1. pc'[r] = "reply" /\ answer'[r] = 0
    BY <1>1, <1>6, <1>15 DEF Goto, Types
  <2>2. DOMAIN tx'[r] = {k} /\ tx'[r][k] = row
    BY <1>1, <1>7, <1>15, OneRow
  <2>3. QED
    BY <1>3, <1>8, <1>9, <1>15, <2>1, <2>2 DEF Curating, Curated
<1>16. ASSUME UNCHANGED tx, Goto(r, "reply"), UNCHANGED answer, Removed(k)
       PROVE  Curating(r)'
  <2>1. pc'[r] = "reply" /\ answer'[r] = 0
    BY <1>1, <1>6, <1>16 DEF Goto, Types
  <2>2. QED
    BY <1>3, <1>7, <1>9, <1>16, <2>1 DEF Curating
<1>17. ASSUME mem' = [mem EXCEPT ![r].id = Row(r, k).id]
       PROVE  mem'[r].id = db[k].id
  BY <1>1, <1>7, <1>17 DEF Types, NoMem
<1>18. DOMAIN Gone = {"gone"}
  BY DEF Gone
<1>19. CASE SelectGolden(r)
  <2>1. \/ Refuse(r, 404)
        \/ /\ k \in DOMAIN db /\ UNCHANGED answer
           /\ mem' = [mem EXCEPT ![r].id = Row(r, k).id] /\ Goto(r, "update")
        \/ Goto(r, "insert") /\ UNCHANGED answer
    BY <1>7, <1>19 DEF SelectGolden, Unchanged
  <2>2. QED
    BY <1>12, <1>13, <1>14, <1>17, <2>1 DEF Failure
<1>20. CASE UpdateGolden(r)
  <2> DEFINE row == [Row(r, k) EXCEPT !.by = r]
  <2>1. FoundId(k, mem[r].id)
    BY <1>1, <1>20 DEF Curating, Curators, UpdateGolden, At, Step
  <2>2. Return(r, 201) /\ UNCHANGED answer
    BY <1>20 DEF UpdateGolden, Unchanged
  <2>3. Goto(r, "reply")
    BY <2>2 DEF Return
  <2>4. CASE k \in DOMAIN db /\ db[k].id = mem[r].id
    <3>1. Write(r, k, row)
      BY <1>7, <1>20, <2>4 DEF UpdateGolden
    <3>2. row.by = r /\ IsGolden(row) /\ row.id = db[k].id
      BY <1>7, <1>10, <2>4 DEF IsGolden
    <3> HIDE DEF row
    <3>3. row # Gone
      BY <1>18, <3>2 DEF IsGolden
    <3>4. QED
      BY <1>15, <2>2, <2>3, <3>1, <3>2, <3>3
  <2>5. CASE ~(k \in DOMAIN db /\ db[k].id = mem[r].id)
    <3>1. UNCHANGED tx
      BY <1>7, <1>20, <2>5 DEF UpdateGolden
    <3>2. QED
      BY <1>16, <2>1, <2>2, <2>3, <2>5, <3>1 DEF FoundId
  <2>6. QED
    BY <2>4, <2>5
<1>21. CASE InsertGolden(r)
  <2> DEFINE row == [id |-> clock + 1, created |-> clock + 1, by |-> r]
  <2>1. \/ k \in DOMAIN db /\ Goto(r, "reselect")
        \/ k \notin DOMAIN db /\ Write(r, k, row) /\ Return(r, 201)
    BY <1>7, <1>21 DEF InsertGolden
  <2>2. row.by = r /\ IsGolden(row)
    BY DEF IsGolden
  <2>3. UNCHANGED answer
    BY <1>21 DEF InsertGolden, Unchanged
  <2> HIDE DEF row
  <2>4. row # Gone
    BY <1>18, <2>2 DEF IsGolden
  <2>5. QED
    BY <1>14, <1>15, <2>1, <2>2, <2>3, <2>4 DEF Return
<1>22. CASE ReselectGolden(r)
  <2>1. Found(k)
    BY <1>1, <1>22 DEF Curating, Curators, ReselectGolden, At, Step
  <2>2. \/ k \notin DOMAIN db /\ Refuse(r, 500)
        \/ /\ k \in DOMAIN db /\ UNCHANGED answer
           /\ mem' = [mem EXCEPT ![r].id = Row(r, k).id] /\ Goto(r, "update")
    BY <1>7, <1>22 DEF ReselectGolden, Unchanged
  <2>3. QED
    BY <1>12, <1>13, <1>17, <2>1, <2>2 DEF Failure, Found
<1>23. QED
  BY <1>5, <1>19, <1>20, <1>21, <1>22

LEMMA CurationInvKept == CurationInv /\ [Next]_vars => CurationInv'
<1> SUFFICES ASSUME CurationInv, [Next]_vars PROVE CurationInv'
  OBVIOUS
<1>1. IndInv /\ IndInv'
  BY IndInvKept DEF CurationInv
<1>2. ASSUME NEW r \in Request, Acts(r) PROVE CurationInv'
  <2>1. Basis /\ Types /\ Placed(r) /\ Moves(r)
    BY <1>1, <1>2, ActionsMove DEF IndInv, Basis, Acts
  <2>2. \A k \in DOMAIN db' : k[1] = "golden" => IsGolden(db'[k])
    BY <2>1, GoldensKept
  <2>3. Curating(r)'
    <3>1. job' = job /\ Kind(r)' = Kind(r)
      BY <2>1, MovesRest DEF Rest, Kind
    <3>2. CASE Kind(r) \notin Curators
      BY <3>1, <3>2 DEF Curating
    <3>3. CASE Kind(r) \in Curators
      <4>1. Served(r) \/ Curations(r)
        BY <1>2, <2>1, <3>3, Kinds DEF Acts, Tenancies, Configs, Placed, Creators, Curators
      <4>2. QED
        BY <3>3, <4>1, ServedCurates, MyReview, MyPromote, MyUnPromote DEF Curators
    <3>4. QED
      BY <3>2, <3>3
  <2>4. \A q \in Request \ {r} : Curating(q)'
    BY <2>1, OthersCurate
  <2>5. QED
    BY <1>1, <2>2, <2>3, <2>4 DEF CurationInv
<1>3. CASE UNCHANGED vars
  <2>1. UNCHANGED <<job, db, tx, pc, who, mem, answer, clock, barred, lost_acks, failures>>
    BY <1>3 DEF vars, history
  <2>2. \A k : Removed(k)' = Removed(k)
    BY <2>1 DEF Removed, Kind, TargetRow
  <2>3. \A r \in Request : Curating(r)'
    BY <2>1, <2>2 DEF CurationInv, Curating, Curated, Found, FoundId, Kind, ReviewRow, GoldenRow, TargetRow
  <2>4. QED
    BY <1>1, <2>1, <2>3 DEF CurationInv
<1>4. QED
  BY <1>2, <1>3 DEF Next, AllDone, Acts

LEMMA CurationInvInit == ControlPlaneInit => CurationInv
<1> SUFFICES ASSUME ControlPlaneInit PROVE CurationInv
  OBVIOUS
<1>1. IndInv
  BY IndInvInit
<1>2. \A k \in DOMAIN db : k[1] = "golden" => IsGolden(db[k])
  BY CurationAssumption DEF ControlPlaneInit, TenancyInit, IsGolden
<1>3. ASSUME NEW r \in Request PROVE DOMAIN tx[r] = {} /\ pc[r] = "idle" /\ answer[r] = 0
  BY <1>3, NoKeys DEF ControlPlaneInit, TenancyInit
<1>4. QED
  BY <1>1, <1>2, <1>3 DEF CurationInv, Curating

\* When the transaction of an acknowledged review or promotion commits, its
\* verdict or note is what is stored, unless the candidate was deleted; and a
\* promotion fails only with a failure or because of a deletion.
THEOREM CurationKept == Spec => CurationLands
<1>1. ASSUME CurationInv, CurationInv', [Next]_vars
      PROVE  [\A r \in Request :
                /\ Kind(r) \in {"review", "promote"}
                /\ pc[r] = "commit"
                /\ pc'[r] = "done"
                /\ r \notin lost_acks'
                => \/ CuratedRow(r) \in DOMAIN db' /\ db'[CuratedRow(r)].by = r
                   \/ Kind(r) = "promote" /\ Removed(CuratedRow(r))]_vars
  <2> SUFFICES ASSUME NEW r \in Request, Kind(r) \in {"review", "promote"},
                      pc[r] = "commit", pc'[r] = "done", r \notin lost_acks'
               PROVE  \/ CuratedRow(r) \in DOMAIN db' /\ db'[CuratedRow(r)].by = r
                      \/ Kind(r) = "promote" /\ Removed(CuratedRow(r))
    OBVIOUS
  <2>1. IndInv /\ Basis /\ Types /\ Curating(r)
    BY <1>1 DEF CurationInv, IndInv, Basis
  <2>2. PICK q \in Request : Acts(q)
    BY <1>1 DEF Next, AllDone, Acts, vars
  <2>3. Moves(q)
    BY <2>1, <2>2, ActionsMove DEF Acts
  <2>4. q = r
    BY <2>3, MovesRest DEF Rest
  <2>5. Commits(r)
    BY <2>1, <2>3, <2>4 DEF Moves, Quiet, Fails, Lays, Puts, Ingests, Finishes, Sends, Replies, Dies, Repeats
  <2>6. ASSUME CuratedRow(r) \in DOMAIN tx[r]
        PROVE  CuratedRow(r) \in DOMAIN db' /\ db'[CuratedRow(r)].by = r
    <3>1. tx[r][CuratedRow(r)] # Gone /\ tx[r][CuratedRow(r)].by = r
      BY <2>1, <2>6 DEF Curating, Curated, Curators
    <3>2. QED
      BY <2>5, <2>6, <3>1 DEF Commits, Keys, Has, Row
  <2>7. QED
    BY <2>1, <2>6 DEF Curating, CuratedRow, Curators
<1>2. ASSUME CurationInv, CurationInv', [Next]_vars
      PROVE  [\A r \in Request :
                Kind(r) = "promote" /\ answer'[r] = 500 => failures' > 0 \/ Removed(CuratedRow(r))]_vars
  <2> SUFFICES ASSUME NEW r \in Request, Kind(r) = "promote", answer'[r] = 500, ~(UNCHANGED vars)
               PROVE  failures' > 0 \/ Removed(GoldenRow(r))
    BY DEF CuratedRow
  <2>1. IndInv /\ Basis /\ Types /\ Placed(r) /\ Curating(r) /\ Curating(r)'
    BY <1>1, <1>2 DEF CurationInv, IndInv, Basis
  <2>2. PICK q \in Request : Acts(q)
    BY <1>2 DEF Next, AllDone, Acts
  <2>3. Moves(q) /\ Rest(q)
    BY <2>1, <2>2, ActionsMove, MovesRest DEF Acts
  <2>4. CASE answer[r] = 500
    <3>1. failures > 0 \/ Removed(GoldenRow(r))
      BY <2>1, <2>4 DEF Curating, Curators
    <3>2. failures > 0 => failures' > 0
      BY <2>1, <2>3, Jobs DEF Rest, Types
    <3>3. QED
      BY <3>1, <3>2
  <2>5. CASE answer[r] # 500
    <3>1. q = r /\ (Served(r) \/ Curations(r))
      <4>1. q = r
        BY <2>3, <2>5 DEF Rest
      <4>2. QED
        BY <2>1, <2>2, <4>1, Kinds DEF Acts, Tenancies, Configs, Placed, Creators, Curators
    <3>2. CASE Served(r)
      <4>1. Fault(r)
        BY <2>1, <2>5, <3>2, SendSends, AuthenticateTurn
           DEF Served, Sends, Quiet, Placed, Fails, Reply, Commit, Die, Types, Success, Failure
      <4>2. QED
        BY <2>1, <4>1, EndTurn DEF Replies, Dies, Commits, Fault, Types
    <3>3. CASE Curations(r)
      <4>1. who' = who
        <5>1. SelectGolden(r) \/ UpdateGolden(r) \/ InsertGolden(r) \/ ReselectGolden(r)
          BY <3>3 DEF Curations, SelectReview, UpdateReview, InsertReview, SelectTarget, DeleteTarget,
             ListGolden, FetchRefused, FetchFailed, FetchDetail, WriteFile, AtDetail, Begin, At
        <5>2. QED
          BY <5>1 DEF SelectGolden, UpdateGolden, InsertGolden, ReselectGolden, Refuse, Unchanged
      <4>2. job' = job
        BY <2>3 DEF Rest
      <4>3. GoldenRow(r)' = GoldenRow(r) /\ Kind(r)' = Kind(r)
        BY <4>1, <4>2 DEF GoldenRow, Kind
      <4>4. failures' > 0 \/ Removed(GoldenRow(r))'
        BY <2>1, <4>3 DEF Curating, Curators
      <4>5. ASSUME Removed(GoldenRow(r))' PROVE Removed(GoldenRow(r))
        <5>1. PICK p \in Request : Kind(p)' = "un_promote" /\ answer'[p] = 204 /\ TargetRow(p)' = GoldenRow(r)'
          BY <4>5 DEF Removed
        <5>2. Kind(p) = "un_promote" /\ TargetRow(p) = GoldenRow(r)
          BY <4>2, <4>3, <5>1 DEF Kind, TargetRow
        <5>3. answer[p] = 204
          BY <2>3, <3>1, <5>1, <5>2 DEF Rest
        <5>4. QED
          BY <5>2, <5>3 DEF Removed
      <4>6. QED
        BY <4>4, <4>5
    <3>4. QED
      BY <3>1, <3>2, <3>3
  <2>6. QED
    BY <2>4, <2>5
<1>3. QED
  BY <1>1, <1>2, CurationInvInit, CurationInvKept, PTL DEF Spec, CurationLands

-----------------------------------------------------------------------------
(* What is stored of runs *)

\* An ingest writes its run and calls of it, of which nothing was stored.
IngestsNew(r) ==
  Kind(r) = "ingest" =>
    /\ pc[r] # "done" => RunRow(job[r].run) \notin DOMAIN db
    /\ DOMAIN tx[r] # {} => RunRow(job[r].run) \in DOMAIN tx[r]
    /\ \A k \in DOMAIN tx[r] :
         /\ tx[r][k] # Gone
         /\ k[1] = "call" => k \notin DOMAIN db /\ tx[r][k].run = job[r].run

\* A candidate is of a stored run.
PromotesStored(r) ==
  Kind(r) = "promote" /\ pc[r] \in {"insert", "update", "reselect", "reply", "commit"} =>
    RunRow(job[r].run) \in DOMAIN db

RunsStored ==
  /\ IsFiniteSet(DOMAIN db)
  /\ \A k \in DOMAIN db :
       /\ k[1] = "call" => RunRow(db[k].run) \in DOMAIN db /\ k[3] \in Int /\ k[3] <= clock
       /\ k[1] = "golden" => RunRow(k[2]) \in DOMAIN db
  /\ \A r \in Request : IsFiniteSet(DOMAIN tx[r]) /\ IngestsNew(r) /\ PromotesStored(r)

StoreInv == CurationInv /\ RunsStored

LEMMA FiniteImage ==
  ASSUME NEW f, IsFiniteSet(DOMAIN f)
  PROVE  IsFiniteSet({f[x] : x \in DOMAIN f})
<1> DEFINE S == {f[x] : x \in DOMAIN f}
           g == [x \in DOMAIN f |-> f[x]]
<1>1. g \in Surjection(DOMAIN f, S)
  BY DEF Surjection
<1>2. QED
  BY <1>1, FS_Surjection, Zenon

LEMMA InsertCallsWrites ==
  ASSUME Types, NEW r \in Request, InsertCalls(r)
  PROVE  /\ IsFiniteSet(DOMAIN tx'[r]) /\ RunRow(job[r].run) \in DOMAIN tx'[r]
         /\ \A k \in DOMAIN tx'[r] :
              tx'[r][k] # Gone /\ (k[1] = "call" => tx'[r][k].run = job[r].run)
<1> DEFINE project == ProjectRow(who[r].org, job[r].slug)
           n == Len(job[r].calls)
           id == [i \in 1..n |-> CallRow(project, clock + i)]
           calls == {CallRow(project, clock + i) : i \in 1..n}
           rows == [k \in {RunRow(job[r].run)} \cup calls |->
                     IF k \in calls THEN CallOf(r, k[3] - clock) ELSE RunOf(r, project)]
<1>1. Kind(r) = "ingest" /\ tx' = [tx EXCEPT ![r] = rows]
  BY DEF InsertCalls, At
<1>2. tx'[r] = rows
  BY <1>1 DEF Types
<1>3. IsFiniteSet(calls)
  <2>1. n \in Nat
    BY <1>1, Jobs
  <2>2. IsFiniteSet(DOMAIN id)
    BY <2>1, FS_Interval
  <2>3. calls = {id[i] : i \in DOMAIN id}
    OBVIOUS
  <2> HIDE DEF id, calls
  <2>4. QED
    BY <2>2, <2>3, FiniteImage
<1>4. IsFiniteSet({RunRow(job[r].run)} \cup calls)
  <2> HIDE DEF calls
  <2>1. QED
    BY <1>3, FS_Union, FS_Singleton
<1>5. \A i : CallOf(r, i) # Gone /\ CallOf(r, i).run = job[r].run
  <2>1. DOMAIN Gone = {"gone"}
    BY DEF Gone
  <2>2. \A i : "run" \in DOMAIN CallOf(r, i) /\ CallOf(r, i).run = job[r].run
    BY DEF CallOf
  <2>3. QED
    BY <2>1, <2>2
<1>6. RunOf(r, project) # Gone
  <2>1. "org" \in DOMAIN RunOf(r, project) /\ "org" \notin DOMAIN Gone
    BY DEF RunOf, Gone
  <2>2. QED
    BY <2>1
<1>7. \A k \in DOMAIN rows : rows[k] # Gone /\ (k[1] = "call" => rows[k].run = job[r].run)
  <2>1. TAKE k \in DOMAIN rows
  <2>2. k \in calls => rows[k] = CallOf(r, k[3] - clock)
    OBVIOUS
  <2>3. k \notin calls => rows[k] = RunOf(r, project) /\ k = RunRow(job[r].run)
    OBVIOUS
  <2> HIDE DEF rows, calls
  <2>4. QED
    BY <1>5, <1>6, <2>2, <2>3, Tags
<1>8. DOMAIN rows = {RunRow(job[r].run)} \cup calls
  OBVIOUS
<1> HIDE DEF rows, calls
<1>9. QED
  BY <1>2, <1>4, <1>7, <1>8

LEMMA IngestActs ==
  ASSUME IndInv, NEW r \in Request, Acts(r), Kind(r) = "ingest"
  PROVE  (tx'[r] \in {tx[r], NoTx} /\ ~Ingests(r)) \/ InsertCalls(r)
<1>1. Basis /\ Types /\ Placed(r)
  BY DEF IndInv, Basis
<1>2. Served(r) \/ Calls(r)
  BY <1>1, Kinds DEF Acts, Tenancies, Configs, Placed, Creators, Curators
<1>3. CASE Served(r)
  BY <1>1, <1>3, ServedTurn DEF Sends, Quiet, Fails, Replies, Commits, Dies, Ingests
<1>4. CASE Calls(r)
  <2>1. StampCalls(r) \/ InsertCalls(r)
    BY <1>4 DEF Calls, ReadPage, Begin
  <2>2. StampCalls(r) => tx' = tx /\ pc[r] = "begin"
    BY DEF StampCalls, Begin, Step
  <2>3. QED
    BY <2>1, <2>2 DEF Ingests
<1>5. QED
  BY <1>2, <1>3, <1>4

\* Who has written a run, or a call.
LEMMA RunsWritten ==
  ASSUME StoreInv, NEW r \in Request, NEW k \in DOMAIN tx[r], k[1] \in {"run", "call"}
  PROVE  /\ Kind(r) = "ingest" /\ pc[r] # "done" /\ tx[r][k] # Gone
         /\ k \notin DOMAIN db
         /\ RunRow(job[r].run) \in DOMAIN tx[r] /\ RunRow(job[r].run) \notin DOMAIN db
         /\ k[1] = "run" => k = RunRow(job[r].run)
         /\ k[1] = "call" => tx[r][k].run = job[r].run /\ k[3] \in Int /\ k[3] <= clock
<1>1. Written(r, k, tx[r][k]) /\ Placed(r) /\ IngestsNew(r)
  BY DEF StoreInv, RunsStored, CurationInv, IndInv, Basis
<1>2. /\ Kind(r) = "ingest"
      /\ k[1] = "run" => k = RunRow(job[r].run)
      /\ k[1] = "call" => k[3] \in Int /\ k[3] <= clock
  BY <1>1, Tags DEF Written, Creators, Curators
<1>3. pc[r] # "done"
  BY <1>1, <1>2, NoKeys DEF Placed, Booting
<1>4. QED
  BY <1>1, <1>2, <1>3 DEF IngestsNew

\* Runs and their calls are stored for good, and together.
LEMMA RunsLast ==
  ASSUME StoreInv, NEW r \in Request, Moves(r)
  PROVE  /\ \A k \in DOMAIN db : k[1] \in {"run", "call"} => k \in DOMAIN db' /\ db'[k] = db[k]
         /\ \A k \in DOMAIN db' \ DOMAIN db :
              k[1] \in {"run", "call"} =>
                /\ Kind(r) = "ingest" /\ pc'[r] = "done"
                /\ RunRow(job[r].run) \in DOMAIN db' /\ RunRow(job[r].run) \notin DOMAIN db
                /\ k[1] = "run" => k = RunRow(job[r].run)
                /\ k[1] = "call" => db'[k].run = job[r].run /\ k[3] \in Int /\ k[3] <= clock
<1>1. Basis
  BY DEF StoreInv, CurationInv, IndInv
<1>2. \A k \in DOMAIN db : k[1] \in {"run", "call"} => k \notin DOMAIN tx[r]
  BY RunsWritten
<1>3. ASSUME NEW k \in DOMAIN db' \ DOMAIN db, k[1] \in {"run", "call"}
      PROVE  /\ Kind(r) = "ingest" /\ pc'[r] = "done"
             /\ RunRow(job[r].run) \in DOMAIN db' /\ RunRow(job[r].run) \notin DOMAIN db
             /\ k[1] = "run" => k = RunRow(job[r].run)
             /\ k[1] = "call" => db'[k].run = job[r].run /\ k[3] \in Int /\ k[3] <= clock
  <2>1. k \in DOMAIN tx[r] /\ db'[k] = tx[r][k] /\ Commits(r)
    BY <1>1, <1>3, MovesKeep
  <2>2. /\ Kind(r) = "ingest"
        /\ RunRow(job[r].run) \in DOMAIN tx[r] /\ RunRow(job[r].run) \notin DOMAIN db
        /\ k[1] = "run" => k = RunRow(job[r].run)
        /\ k[1] = "call" => tx[r][k].run = job[r].run /\ k[3] \in Int /\ k[3] <= clock
    BY <1>3, <2>1, RunsWritten
  <2>3. tx[r][RunRow(job[r].run)] # Gone
    BY <2>2, RunsWritten, Tags
  <2>4. RunRow(job[r].run) \in DOMAIN db' /\ pc'[r] = "done"
    BY <2>1, <2>2, <2>3 DEF Commits, Keys, Has
  <2>5. QED
    BY <2>1, <2>2, <2>4
<1>4. QED
  BY <1>1, <1>2, <1>3, Untouched

LEMMA OthersIngest ==
  ASSUME StoreInv, NEW r \in Request, Moves(r), NEW q \in Request \ {r}
  PROVE  (IngestsNew(q) /\ PromotesStored(q))' /\ IsFiniteSet(DOMAIN tx'[q])
<1>1. Basis /\ Types /\ Apart /\ Rest(r) /\ RunsStored
  BY MovesRest DEF StoreInv, CurationInv, IndInv, Basis
<1>2. job' = job /\ pc'[q] = pc[q] /\ tx'[q] = tx[q] /\ Kind(q)' = Kind(q)
  BY <1>1 DEF Rest, Kind
<1>3. ASSUME Kind(q) = "ingest", RunRow(job[q].run) \in DOMAIN db' \ DOMAIN db
      PROVE  FALSE
  <2>1. Kind(r) = "ingest" /\ RunRow(job[q].run) = RunRow(job[r].run)
    BY <1>3, RunsLast, Tags
  <2>2. job[q].run = job[r].run
    BY <2>1, Tags
  <2>3. QED
    BY <1>1, <1>3, <2>1, <2>2, Jobs
<1>4. \A k \in DOMAIN tx[q] : k \notin DOMAIN db => k \notin DOMAIN db'
  BY <1>1, MovesKeep DEF Apart
<1>5. IngestsNew(q)'
  <2>1. IngestsNew(q)
    BY <1>1 DEF RunsStored
  <2>2. Kind(q) = "ingest" /\ RunRow(job[q].run) \notin DOMAIN db => RunRow(job[q].run) \notin DOMAIN db'
    BY <1>3
  <2>3. QED
    BY <1>2, <1>4, <2>1, <2>2 DEF IngestsNew
<1>6. PromotesStored(q)'
  <2>1. PromotesStored(q)
    BY <1>1 DEF RunsStored
  <2>2. RunRow(job[q].run) \in DOMAIN db => RunRow(job[q].run) \in DOMAIN db'
    BY RunsLast, Tags
  <2>3. QED
    BY <1>2, <2>1, <2>2 DEF PromotesStored
<1>7. QED
  BY <1>1, <1>2, <1>5, <1>6 DEF RunsStored

LEMMA MyIngest ==
  ASSUME StoreInv, NEW r \in Request, Acts(r)
  PROVE  IngestsNew(r)' /\ IsFiniteSet(DOMAIN tx'[r])
<1>1. IndInv /\ Basis /\ Types /\ RunsStored
  BY DEF StoreInv, CurationInv, IndInv, Basis
<1>2. Moves(r)
  BY <1>1, ActionsMove DEF Acts
<1>3. job' = job /\ Kind(r)' = Kind(r)
  BY <1>2, MovesRest DEF Rest, Kind
<1>4. DOMAIN NoTx = {} /\ IsFiniteSet({})
  BY NoKeys, FS_EmptySet
<1>5. InsertCalls(r) => IsFiniteSet(DOMAIN tx'[r])
  BY <1>1, InsertCallsWrites
<1>6. IsFiniteSet(DOMAIN tx'[r])
  <2>1. CASE tx'[r] \in {tx[r], NoTx}
    BY <1>1, <1>4, <2>1 DEF RunsStored
  <2>2. CASE Ingests(r)
    <3>1. Kind(r) = "ingest"
      BY <2>2 DEF Ingests
    <3>2. QED
      BY <1>1, <1>5, <2>2, <3>1, IngestActs
  <2>3. CASE \E k : DOMAIN tx'[r] = DOMAIN tx[r] \cup {k}
    BY <1>1, <2>3, FS_AddElement DEF RunsStored
  <2>4. QED
    BY <1>1, <1>2, <2>1, <2>2, <2>3, MovesWrite
<1>7. IngestsNew(r)'
  <2> SUFFICES ASSUME Kind(r) = "ingest" PROVE IngestsNew(r)'
    BY <1>3 DEF IngestsNew
  <2>1. pc'[r] # "done" => pc[r] # "done" /\ db' = db
    BY <1>1, <1>2, MovesKeep
       DEF Moves, Quiet, Fails, Lays, Puts, Ingests, Finishes, Sends, Replies, Commits, Dies, Repeats
  <2>2. pc'[r] # "done" => RunRow(job[r].run) \notin DOMAIN db'
    BY <1>1, <2>1 DEF RunsStored, IngestsNew
  <2>3. CASE tx'[r] = NoTx
    BY <1>3, <1>4, <2>2, <2>3 DEF IngestsNew
  <2>4. CASE tx'[r] = tx[r] /\ tx[r] # NoTx
    <3>1. pc'[r] # "done"
      BY <1>1, <1>2, <2>4
         DEF Basis, Placed, Booting, Moves, Quiet, Fails, Lays, Puts, Ingests, Finishes, Sends, Replies, Commits, Dies, Repeats
    <3>2. QED
      BY <1>1, <1>3, <2>1, <2>2, <2>4, <3>1 DEF RunsStored, IngestsNew
  <2>5. CASE InsertCalls(r)
    <3>1. Ingests(r) /\ db' = db
      BY <1>1, <2>5, InsertCallsIngests DEF Ingests
    <3>2. \A k \in DOMAIN tx'[r] : k[1] = "call" => k \notin DOMAIN db
      <4>1. \A k \in DOMAIN tx'[r] : k[1] = "call" => k[3] \in Int /\ clock < k[3]
        BY <3>1, Tags DEF Ingests
      <4>2. \A k \in DOMAIN db : k[1] = "call" => k[3] \in Int /\ k[3] <= clock
        BY <1>1 DEF RunsStored
      <4>3. clock \in Nat
        BY <1>1 DEF Types
      <4>4. QED
        BY <4>1, <4>2, <4>3
    <3>3. QED
      BY <1>1, <1>3, <2>2, <2>5, <3>1, <3>2, InsertCallsWrites DEF IngestsNew
  <2>6. QED
    BY <1>1, <2>3, <2>4, <2>5, IngestActs
<1>8. QED
  BY <1>6, <1>7

LEMMA MyPromoteStored ==
  ASSUME StoreInv, NEW r \in Request, Acts(r)
  PROVE  PromotesStored(r)'
<1>1. IndInv /\ Basis /\ Types /\ Placed(r) /\ PromotesStored(r)
  BY DEF StoreInv, RunsStored, CurationInv, IndInv, Basis
<1>2. Moves(r)
  BY <1>1, ActionsMove DEF Acts
<1>3. job' = job /\ Kind(r)' = Kind(r)
  BY <1>2, MovesRest DEF Rest, Kind
<1> SUFFICES ASSUME Kind(r) = "promote", pc'[r] \in {"insert", "update", "reselect", "reply", "commit"}
             PROVE  RunRow(job[r].run) \in DOMAIN db'
  BY <1>3 DEF PromotesStored
<1>4. Served(r) \/ Curations(r)
  BY <1>1, Kinds DEF Acts, Tenancies, Configs, Placed, Creators, Curators
<1>5. RunRow(job[r].run) \in DOMAIN db
  <2>1. CASE Served(r)
    <3>1. pc[r] = "reply"
      BY <1>1, <2>1, ServedTurn DEF Sends, Fails, Replies, Commits, Dies
    <3>2. QED
      BY <1>1, <3>1 DEF PromotesStored
  <2>2. CASE Curations(r)
    <3>1. SelectGolden(r) \/ UpdateGolden(r) \/ InsertGolden(r) \/ ReselectGolden(r)
      BY <2>2 DEF Curations, SelectReview, UpdateReview, InsertReview, SelectTarget, DeleteTarget,
             ListGolden, FetchRefused, FetchFailed, FetchDetail, WriteFile, AtDetail, Begin, At
    <3>2. CASE SelectGolden(r)
      <4>1. pc[r] = "begin" /\ SeesRow(r)
        BY <1>1, <3>2 DEF SelectGolden, Begin, Step, Refuse, Goto, Types
      <4>2. QED
        BY <1>1, <4>1, NothingWritten DEF SeesRow, SeesRun, Booting
    <3>3. CASE ~SelectGolden(r)
      BY <1>1, <3>1, <3>3 DEF UpdateGolden, InsertGolden, ReselectGolden, At, Step, PromotesStored
    <3>4. QED
      BY <3>2, <3>3
  <2>3. QED
    BY <1>4, <2>1, <2>2
<1>6. QED
  BY <1>2, <1>5, RunsLast, Tags

LEMMA RunsStoredKept ==
  ASSUME StoreInv, NEW r \in Request, Acts(r)
  PROVE  RunsStored'
<1>1. CurationInv /\ IndInv /\ Basis /\ Types /\ RunsStored /\ clock \in Nat
  BY DEF StoreInv, CurationInv, IndInv, Basis, Types
<1>2. Moves(r) /\ Rest(r)
  BY <1>1, ActionsMove, MovesRest DEF Acts
<1>3. \A q \in Request : IsFiniteSet(DOMAIN tx'[q]) /\ IngestsNew(q)' /\ PromotesStored(q)'
  BY <1>2, OthersIngest, MyIngest, MyPromoteStored
<1>4. IsFiniteSet(DOMAIN db')
  <2>1. DOMAIN db' \subseteq DOMAIN db \cup DOMAIN tx[r]
    BY <1>1, <1>2, MovesKeep
  <2>2. QED
    BY <1>1, <2>1, FS_Union, FS_Subset DEF RunsStored
<1>5. \A k \in DOMAIN db : k[1] = "run" => k \in DOMAIN db'
  BY <1>2, RunsLast
<1>6. ASSUME NEW k \in DOMAIN db', k[1] = "call"
      PROVE  RunRow(db'[k].run) \in DOMAIN db' /\ k[3] \in Int /\ k[3] <= clock'
  <2>1. RunRow(db'[k].run) \in DOMAIN db' /\ k[3] \in Int /\ k[3] <= clock
    <3>1. CASE k \in DOMAIN db
      BY <1>1, <1>2, <1>5, <1>6, <3>1, RunsLast, Tags DEF RunsStored
    <3>2. CASE k \notin DOMAIN db
      BY <1>2, <1>6, <3>2, RunsLast
    <3>3. QED
      BY <3>1, <3>2
  <2>2. QED
    BY <1>1, <1>2, <2>1 DEF Rest
<1>7. ASSUME NEW k \in DOMAIN db', k[1] = "golden"
      PROVE  RunRow(k[2]) \in DOMAIN db'
  <2>1. CASE k \in DOMAIN db
    BY <1>1, <1>5, <1>7, <2>1, Tags DEF RunsStored
  <2>2. CASE k \notin DOMAIN db
    <3>1. k \in DOMAIN tx[r] /\ db'[k] = tx[r][k] /\ Commits(r)
      BY <1>1, <1>2, <2>2, MovesKeep
    <3>2. tx[r][k] # Gone
      BY <3>1 DEF Commits, Keys, Has
    <3>3. Written(r, k, tx[r][k]) /\ Placed(r) /\ Curating(r) /\ PromotesStored(r)
      BY <1>1, <3>1 DEF RunsStored, CurationInv, Basis
    <3>4. Kind(r) \in Curators
      BY <1>7, <3>3, Tags DEF Written
    <3>5. Curated(r, k, tx[r][k])
      BY <3>1, <3>3, <3>4 DEF Curating
    <3>6. Kind(r) = "promote" /\ k = GoldenRow(r)
      BY <1>7, <3>2, <3>5 DEF Curated, ReviewRow
    <3>7. pc[r] = "commit" /\ k[2] = job[r].run
      BY <3>1, <3>3, <3>6 DEF Commits, Placed, GoldenRow
    <3>8. QED
      BY <1>5, <3>3, <3>6, <3>7, Tags DEF PromotesStored
  <2>3. QED
    BY <2>1, <2>2
<1>8. QED
  BY <1>3, <1>4, <1>6, <1>7 DEF RunsStored

LEMMA StoreInvKept == StoreInv /\ [Next]_vars => StoreInv'
<1> SUFFICES ASSUME StoreInv, [Next]_vars PROVE StoreInv'
  OBVIOUS
<1>1. CurationInv'
  BY CurationInvKept DEF StoreInv
<1>2. CASE UNCHANGED vars
  <2>1. UNCHANGED <<job, db, tx, pc, who, mem, answer, clock, barred, lost_acks, failures>>
    BY <1>2 DEF vars, history
  <2>2. RunsStored'
    BY <2>1 DEF StoreInv, RunsStored, IngestsNew, PromotesStored, Kind
  <2>3. QED
    BY <1>1, <2>2 DEF StoreInv
<1>3. QED
  BY <1>1, <1>2, RunsStoredKept DEF Next, AllDone, Acts, StoreInv

LEMMA StoreInvInit == ControlPlaneInit => StoreInv
<1> SUFFICES ASSUME ControlPlaneInit PROVE StoreInv
  OBVIOUS
<1>1. CurationInv
  BY CurationInvInit
<1>2. PICK s \in Scenario : job = s.job /\ db = s.db
  BY DEF ControlPlaneInit, TenancyInit
<1>3. \A r \in Request : DOMAIN tx[r] = {} /\ pc[r] = "idle"
  BY NoKeys DEF ControlPlaneInit, TenancyInit
<1>4. IsFiniteSet(DOMAIN db) /\ clock = Cardinality(DOMAIN db)
  <2>1. IsFiniteSet(DOMAIN db)
    BY <1>2, TenancyAssumption
  <2>2. QED
    BY <2>1 DEF ControlPlaneInit, TenancyInit
<1>5. clock \in Nat
  BY <1>4, FS_CardinalityType
<1>6. \A k \in DOMAIN db : k[1] = "call" => RunRow(db[k].run) \in DOMAIN db /\ k[3] \in Int /\ k[3] <= clock
  <2>1. \A k \in DOMAIN db : k[1] = "call" => RunRow(db[k].run) \in DOMAIN db /\ k[3] \in 1..Cardinality(DOMAIN db)
    BY <1>2, IngestsApart
  <2>2. QED
    BY <1>4, <1>5, <2>1
<1>7. \A k \in DOMAIN db : k[1] = "golden" => RunRow(k[2]) \in DOMAIN db
  BY <1>2, CurationAssumption
<1>8. \A r \in Request : IngestsNew(r) /\ PromotesStored(r)
  BY <1>2, <1>3, IngestsApart DEF IngestsNew, PromotesStored, Kind
<1>9. \A r \in Request : IsFiniteSet(DOMAIN tx[r])
  BY <1>3, FS_EmptySet
<1>10. QED
  BY <1>1, <1>4, <1>6, <1>7, <1>8, <1>9 DEF StoreInv, RunsStored

-----------------------------------------------------------------------------
(* Exports *)

IsSeq(s) == s \in Seq({s[i] : i \in DOMAIN s})

\* Candidates with an input that are neither in the file, nor to be written to
\* it, nor still to be fetched.
Lost(r) ==
  {k \in mem[r].before :
    /\ RowOf(r, k[2], k[3]) # "no input"
    /\ ~InFile(r, k[3])
    /\ \A i \in DOMAIN mem[r].seen : mem[r].seen[i] # k[3]
    /\ \A i \in DOMAIN mem[r].todo : mem[r].todo[i] # k}

Fresh(r) == \A i \in DOMAIN mem[r].seen : ~InFile(r, mem[r].seen[i])

Exports(r) ==
  Kind(r) = "export" =>
    /\ pc[r] \in {"idle", "sent", "touch", "begin", "details", "done"}
    /\ pc[r] \in {"idle", "sent", "touch", "begin"} => mem[r] = NoMem
    /\ IsSeq(mem[r].seen) /\ IsSeq(mem[r].todo)
    /\ mem[r].written \in BOOLEAN
    /\ mem[r].written => pc[r] = "done" /\ answer[r] = 200 /\ mem[r].todo = <<>>
    /\ answer[r] = 200 => mem[r].written \/ mem[r].before = {}
    /\ Fresh(r)
    /\ \A k \in mem[r].before : RunRow(k[2]) \in DOMAIN db
    /\ IsFiniteSet(mem[r].before)
    /\ Cardinality(Lost(r)) <= failures

ExportInv == StoreInv /\ \A r \in Request : Exports(r)

LEMMA SeqIsSeq ==
  ASSUME NEW T, NEW s \in Seq(T)
  PROVE  IsSeq(s)
<1> DEFINE S == {s[i] : i \in DOMAIN s}
<1>1. Len(s) \in Nat /\ DOMAIN s = 1..Len(s) /\ s \in [1..Len(s) -> S]
  OBVIOUS
<1> HIDE DEF S
<1>2. s \in Seq(S)
  BY <1>1
<1>3. QED
  BY <1>2 DEF IsSeq, S

LEMMA EmptyIsSeq == IsSeq(<<>>) /\ DOMAIN <<>> = {}
<1>1. <<>> \in Seq({}) /\ DOMAIN <<>> = {}
  OBVIOUS
<1>2. QED
  BY <1>1, SeqIsSeq

LEMMA TailIsSeq ==
  ASSUME NEW s, IsSeq(s), s # <<>>
  PROVE  /\ IsSeq(Tail(s))
         /\ \A x : (\E i \in DOMAIN s : s[i] = x) <=> x = Head(s) \/ \E i \in DOMAIN Tail(s) : Tail(s)[i] = x
<1> DEFINE S == {s[i] : i \in DOMAIN s}
<1>1. s \in Seq(S)
  BY DEF IsSeq
<1> HIDE DEF S
<1>2. Tail(s) \in Seq(S) /\ Len(s) \in Nat \ {0} /\ DOMAIN s = 1..Len(s)
  BY <1>1
<1>3. DOMAIN Tail(s) = 1..(Len(s) - 1) /\ \A i \in 1..(Len(s) - 1) : Tail(s)[i] = s[i + 1]
  BY <1>1, <1>2
<1>4. \A i \in DOMAIN s : i = 1 \/ (i - 1 \in DOMAIN Tail(s) /\ Tail(s)[i - 1] = s[i])
  BY <1>2, <1>3
<1>5. \A i \in DOMAIN Tail(s) : i + 1 \in DOMAIN s /\ Tail(s)[i] = s[i + 1]
  BY <1>2, <1>3
<1>6. Head(s) = s[1] /\ 1 \in DOMAIN s
  BY <1>1, <1>2
<1>7. \A x : (\E i \in DOMAIN s : s[i] = x) <=> x = Head(s) \/ \E i \in DOMAIN Tail(s) : Tail(s)[i] = x
  BY <1>4, <1>5, <1>6
<1>8. QED
  BY <1>2, <1>7, SeqIsSeq

LEMMA AppendIsSeq ==
  ASSUME NEW s, IsSeq(s), NEW e
  PROVE  /\ IsSeq(Append(s, e))
         /\ \A x : (\E i \in DOMAIN Append(s, e) : Append(s, e)[i] = x) <=> x = e \/ \E i \in DOMAIN s : s[i] = x
<1> DEFINE S == {s[i] : i \in DOMAIN s} \cup {e}
<1>1. s \in Seq(S)
  <2>1. s \in Seq({s[i] : i \in DOMAIN s})
    BY DEF IsSeq
  <2>2. QED
    BY <2>1
<1>2. e \in S
  OBVIOUS
<1> HIDE DEF S
<1>3. /\ Append(s, e) \in Seq(S) /\ Len(s) \in Nat /\ DOMAIN s = 1..Len(s)
      /\ DOMAIN Append(s, e) = 1..(Len(s) + 1)
      /\ \A i \in 1..Len(s) : Append(s, e)[i] = s[i]
      /\ Append(s, e)[Len(s) + 1] = e
  BY <1>1, <1>2
<1>4. \A x : (\E i \in DOMAIN Append(s, e) : Append(s, e)[i] = x) <=> x = e \/ \E i \in DOMAIN s : s[i] = x
  <2>1. \A i \in DOMAIN Append(s, e) : i = Len(s) + 1 \/ i \in DOMAIN s
    BY <1>3
  <2>2. Len(s) + 1 \in DOMAIN Append(s, e) /\ DOMAIN s \subseteq DOMAIN Append(s, e)
    BY <1>3
  <2>3. QED
    BY <1>3, <2>1, <2>2
<1>5. QED
  BY <1>3, <1>4, SeqIsSeq

LEMMA ConcatHas ==
  ASSUME NEW s, IsSeq(s), NEW t, IsSeq(t)
  PROVE  /\ DOMAIN s = 1..Len(s) /\ Len(s) \in Nat
         /\ \A i \in DOMAIN s : i \in DOMAIN (s \o t) /\ (s \o t)[i] = s[i]
         /\ \A j \in DOMAIN (s \o t) : j <= Len(s) \/ \E i \in DOMAIN t : (s \o t)[j] = t[i]
         /\ \A i \in DOMAIN t : \E j \in DOMAIN (s \o t) : (s \o t)[j] = t[i]
<1> DEFINE S == {s[i] : i \in DOMAIN s} \cup {t[i] : i \in DOMAIN t}
<1>1. s \in Seq(S) /\ t \in Seq(S)
  <2>1. s \in Seq({s[i] : i \in DOMAIN s}) /\ t \in Seq({t[i] : i \in DOMAIN t})
    BY DEF IsSeq
  <2>2. QED
    BY <2>1
<1> HIDE DEF S
<1>2. /\ Len(s) \in Nat /\ DOMAIN s = 1..Len(s) /\ Len(t) \in Nat /\ DOMAIN t = 1..Len(t)
      /\ DOMAIN (s \o t) = 1..(Len(s) + Len(t))
      /\ \A i \in 1..Len(s) : (s \o t)[i] = s[i]
      /\ \A i \in (Len(s) + 1)..(Len(s) + Len(t)) : (s \o t)[i] = t[i - Len(s)]
  BY <1>1
<1>3. \A i \in DOMAIN s : i \in DOMAIN (s \o t)
  BY <1>2
<1>4. \A j \in DOMAIN (s \o t) : j <= Len(s) \/ (j - Len(s) \in DOMAIN t /\ (s \o t)[j] = t[j - Len(s)])
  BY <1>2
<1>5. \A i \in DOMAIN t : i + Len(s) \in DOMAIN (s \o t) /\ (s \o t)[i + Len(s)] = t[i]
  BY <1>2
<1>6. QED
  BY <1>2, <1>3, <1>4, <1>5

LEMMA SelectIsSeq ==
  ASSUME NEW n \in Nat, NEW S, IsFiniteSet(S), NEW rows \in [{m \in 1..n : m <= Cardinality(S)} -> S]
  PROVE  IsSeq(rows) /\ IsFiniteSet({rows[i] : i \in DOMAIN rows})
<1>1. Cardinality(S) \in Nat
  BY FS_CardinalityType
<1>2. PICK k \in Nat : {m \in 1..n : m <= Cardinality(S)} = 1..k
  <2>1. CASE n <= Cardinality(S)
    BY <1>1, <2>1
  <2>2. CASE n > Cardinality(S)
    BY <1>1, <2>2
  <2>3. QED
    BY <1>1, <2>1, <2>2
<1>3. rows \in Seq(S)
  BY <1>2
<1>4. IsFiniteSet(DOMAIN rows)
  <2>1. DOMAIN rows = 1..k
    BY <1>2
  <2>2. QED
    BY <2>1, FS_Interval
<1>5. QED
  BY <1>3, <1>4, SeqIsSeq, FiniteImage

\* What a row of a stored run holds does not change.
LEMMA RowOfStays ==
  ASSUME StoreInv, NEW r \in Request, Moves(r), NEW q \in Request, DOMAIN tx[q] = {}, DOMAIN tx'[q] = {},
         NEW run, RunRow(run) \in DOMAIN db, NEW row
  PROVE  RowOf(q, run, row)' = RowOf(q, run, row)
<1> DEFINE rows == {Row(q, k) : k \in CallsIn(q, run)}
           Detail(S) == (CHOOSE x \in S : x.row = row).detail
<1>1. /\ \A k : (Has(q, k) <=> k \in DOMAIN db) /\ (Has(q, k)' <=> k \in DOMAIN db')
      /\ \A k : Row(q, k) = db[k] /\ Row(q, k)' = db'[k]
  BY DEF Has, Row
<1>2. \A k : k \in CallsIn(q, run) <=> k \in DOMAIN db /\ k[1] = "call" /\ db[k].run = run
  BY <1>1 DEF CallsIn, Keys
<1>3. \A k : k \in CallsIn(q, run)' <=> k \in DOMAIN db' /\ k[1] = "call" /\ db'[k].run = run
  BY <1>1 DEF CallsIn, Keys
<1>4. \A k \in DOMAIN db : k[1] = "call" => k \in DOMAIN db' /\ db'[k] = db[k]
  BY RunsLast
<1>5. ASSUME NEW k \in DOMAIN db' \ DOMAIN db, k[1] = "call", db'[k].run = run PROVE FALSE
  BY <1>5, RunsLast
<1>6. CallsIn(q, run)' = CallsIn(q, run)
  BY <1>2, <1>3, <1>4, <1>5
<1>7. rows' = rows
  BY <1>1, <1>2, <1>4, <1>6
<1>8. LiveDetail(q, run, row) = Detail(rows) /\ LiveDetail(q, run, row)' = Detail(rows')
  BY DEF LiveDetail
<1> HIDE DEF rows, Detail
<1>9. LiveDetail(q, run, row)' = LiveDetail(q, run, row)
  BY <1>7, <1>8
<1>10. Row(q, RunRow(run))' = Row(q, RunRow(run))
  BY <1>1, RunsLast, Tags
<1>11. QED
  BY <1>9, <1>10 DEF RowOf

LEMMA OneMore ==
  ASSUME NEW S, IsFiniteSet(S), NEW e, NEW T \in SUBSET (S \cup {e})
  PROVE  Cardinality(T) \in Nat /\ Cardinality(T) <= Cardinality(S) + 1
<1>1. IsFiniteSet(S \cup {e}) /\ Cardinality(S) \in Nat
  BY FS_AddElement, FS_CardinalityType
<1>2. Cardinality(S \cup {e}) = Cardinality(S) \/ Cardinality(S \cup {e}) = Cardinality(S) + 1
  BY FS_AddElement
<1>3. IsFiniteSet(T) /\ Cardinality(T) <= Cardinality(S \cup {e})
  BY <1>1, FS_Subset
<1>4. Cardinality(T) \in Nat
  BY <1>3, FS_CardinalityType
<1>5. QED
  BY <1>1, <1>2, <1>3, <1>4

LEMMA LostCounted ==
  ASSUME NEW r \in Request, IsFiniteSet(mem[r].before)
  PROVE  IsFiniteSet(Lost(r)) /\ Cardinality(Lost(r)) \in Nat
<1>1. Lost(r) \in SUBSET mem[r].before
  BY DEF Lost
<1>2. QED
  BY <1>1, FS_Subset, FS_CardinalityType

\* An export has written nothing to the database.
LEMMA ExportReads ==
  ASSUME Basis, NEW r \in Request, Kind(r) = "export", Exports(r)
  PROVE  DOMAIN tx[r] = {} /\ \A k : (Has(r, k) <=> k \in DOMAIN db) /\ Row(r, k) = db[k]
BY NothingWritten DEF Basis, Exports, Booting

LEMMA OthersExport ==
  ASSUME ExportInv, NEW r \in Request, Moves(r), NEW q \in Request \ {r}
  PROVE  Exports(q)'
<1>1. StoreInv /\ Basis /\ Types /\ Rest(r) /\ Exports(q) /\ failures \in Nat /\ failures' \in Nat /\ failures <= failures'
  BY MovesRest, Jobs DEF ExportInv, StoreInv, CurationInv, IndInv, Basis, Rest, Types
<1>2. job' = job /\ pc'[q] = pc[q] /\ tx'[q] = tx[q] /\ mem'[q] = mem[q] /\ answer'[q] = answer[q] /\ Kind(q)' = Kind(q)
  BY <1>1 DEF Rest, Kind
<1> SUFFICES ASSUME Kind(q) = "export" PROVE Exports(q)'
  BY <1>2 DEF Exports
<1>3. DOMAIN tx[q] = {} /\ DOMAIN tx'[q] = {}
  BY <1>1, <1>2, ExportReads
<1>4. \A k \in mem[q].before : RunRow(k[2]) \in DOMAIN db
  BY <1>1 DEF Exports
<1>5. \A k \in mem[q].before : RowOf(q, k[2], k[3])' = RowOf(q, k[2], k[3])
  BY <1>1, <1>3, <1>4, RowOfStays
<1>6. \A id : InFile(q, id)' <=> InFile(q, id)
  BY <1>2 DEF InFile
<1>7. Lost(q)' = Lost(q)
  BY <1>2, <1>5, <1>6 DEF Lost
<1>8. \A k \in mem[q].before : RunRow(k[2]) \in DOMAIN db'
  BY <1>1, <1>4, RunsLast, Tags
<1>9. Cardinality(Lost(q)') <= failures'
  <2>1. Cardinality(Lost(q)) \in Nat /\ Cardinality(Lost(q)) <= failures
    BY <1>1, LostCounted DEF Exports
  <2>2. QED
    BY <1>1, <1>7, <2>1
<1>10. QED
  BY <1>1, <1>2, <1>6, <1>8, <1>9 DEF Exports, Fresh

\* What an export has done so far, while it has not listed anything.
BlankExports ==
  \A r \in Request :
    Types /\ mem[r] = NoMem /\ pc[r] \in {"idle", "sent", "touch", "begin", "done"}
      => Exports(r)

LEMMA NothingListed == BlankExports
<1> SUFFICES ASSUME NEW r \in Request, Types, mem[r] = NoMem, pc[r] \in {"idle", "sent", "touch", "begin", "done"}
             PROVE  Exports(r)
  BY DEF BlankExports
<1>1. mem[r].seen = <<>> /\ mem[r].todo = <<>> /\ mem[r].before = {} /\ mem[r].written = FALSE
  BY DEF NoMem
<1>2. Lost(r) = {}
  BY <1>1 DEF Lost
<1>3. IsFiniteSet({}) /\ Cardinality({}) = 0 /\ failures >= 0
  BY FS_EmptySet, Jobs DEF Types
<1>4. Fresh(r)
  BY <1>1, EmptyIsSeq DEF Fresh
<1>5. QED
  BY <1>1, <1>2, <1>3, <1>4, EmptyIsSeq DEF Exports

LEMMA NothingListedNext == BlankExports'
BY NothingListed, PTL

LEMMA ServedExports ==
  ASSUME ExportInv, NEW r \in Request, Served(r), Kind(r) = "export"
  PROVE  Exports(r)'
<1>1. StoreInv /\ IndInv /\ Basis /\ Types /\ Placed(r) /\ Exports(r)
  BY DEF ExportInv, StoreInv, CurationInv, IndInv, Basis
<1>2. Moves(r)
  BY <1>1, ActionsMove DEF Acts
<1>3. Types'
  BY <1>1, <1>2, TypesKept
<1>4. mem' = mem
  BY DEF Served, Send, Authenticate, TouchLastUsed, Reply, Commit, Fault, Die, Readers
<1>5. pc[r] \in {"idle", "sent", "touch", "begin"} /\ pc'[r] \in {"idle", "sent", "touch", "begin", "done"}
  <2>1. Send(r) => pc[r] = "idle" /\ pc'[r] = "sent"
    BY <1>1 DEF Send, Step, Goto, Types
  <2>2. Authenticate(r) => pc[r] = "sent" /\ pc'[r] \in {"touch", "begin", "done"}
    BY <1>1 DEF Authenticate, Step, Goto, Types
  <2>3. TouchLastUsed(r) => pc[r] = "touch" /\ pc'[r] = "begin"
    BY <1>1 DEF TouchLastUsed, Step, Goto, Types
  <2>4. ~Reply(r) /\ ~Commit(r)
    BY <1>1 DEF Reply, Commit, Step, Exports
  <2>5. Fault(r) \/ Die(r) => pc[r] \in {"touch", "begin"} /\ pc'[r] = "done"
    BY <1>1 DEF Fault, Die, Open, Goto, Types, Exports
  <2>6. QED
    BY <2>1, <2>2, <2>3, <2>4, <2>5 DEF Served
<1>6. mem'[r] = NoMem
  BY <1>1, <1>4, <1>5 DEF Exports
<1>7. QED
  BY <1>3, <1>5, <1>6, NothingListedNext DEF BlankExports

LEMMA ListGoldenExports ==
  ASSUME ExportInv, NEW r \in Request, ListGolden(r)
  PROVE  Exports(r)'
<1> DEFINE candidates == CandidatesOf(r, Resolve(r, job[r].slug))
           Listed(listed) ==
             /\ mem' = [mem EXCEPT ![r].todo = listed, ![r].before = {listed[i] : i \in DOMAIN listed}]
             /\ \/ listed = <<>> /\ answer' = [answer EXCEPT ![r] = 200] /\ Goto(r, "done")
                \/ listed # <<>> /\ Goto(r, "details") /\ UNCHANGED answer
             /\ UNCHANGED <<job, db, tx, who, clock, history, failures>>
<1>1. StoreInv /\ IndInv /\ Basis /\ Types /\ Placed(r) /\ Exports(r) /\ RunsStored
  BY DEF ExportInv, StoreInv, CurationInv, IndInv, Basis
<1>2. Kind(r) = "export" /\ pc[r] = "begin" /\ mem[r] = NoMem
  BY <1>1 DEF ListGolden, Begin, Step, Exports
<1>3. Moves(r)
  BY <1>1, ActionsMove DEF Acts, Curations
<1>4. Types'
  BY <1>1, <1>3, TypesKept
<1>5. \/ Refuse(r, 404)
      \/ \E listed \in [{m \in 1..ListLimit : m <= Cardinality(candidates)} -> candidates] : Listed(listed)
  BY Zenon DEF ListGolden, Select
<1>6. CASE Refuse(r, 404)
  <2>1. mem'[r] = NoMem /\ pc'[r] = "done"
    BY <1>1, <1>2, <1>6 DEF Refuse, Goto, Types
  <2>2. QED
    BY <1>4, <2>1, NothingListedNext DEF BlankExports
<1>7. ASSUME NEW listed \in [{m \in 1..ListLimit : m <= Cardinality(candidates)} -> candidates], Listed(listed)
      PROVE  Exports(r)'
  <2> DEFINE before == {listed[i] : i \in DOMAIN listed}
  <2>1. candidates \in SUBSET DOMAIN db /\ \A k \in candidates : k[1] = "golden"
    BY <1>1, <1>2, ExportReads DEF CandidatesOf, Keys
  <2>2. IsFiniteSet(candidates)
    BY <1>1, <2>1, FS_Subset DEF RunsStored
  <2>3. IsSeq(listed) /\ IsFiniteSet(before)
    BY <2>2, SelectIsSeq, CurationAssumption
  <2>4. \A k \in before : RunRow(k[2]) \in DOMAIN db
    BY <1>1, <2>1 DEF RunsStored
  <2>5. mem'[r] = [NoMem EXCEPT !.todo = listed, !.before = before]
    BY <1>1, <1>2, <1>7 DEF Types
  <2>6. mem'[r].seen = <<>> /\ mem'[r].todo = listed /\ mem'[r].before = before /\ mem'[r].written = FALSE
    BY <2>5 DEF NoMem
  <2>7. \/ listed = <<>> /\ pc'[r] = "done"
        \/ pc'[r] = "details" /\ answer'[r] = 0
    BY <1>1, <1>2, <1>7 DEF Goto, Types, Placed
  <2>8. db' = db /\ failures' = failures
    BY <1>7
  <2> HIDE DEF Listed, candidates
  <2>9. listed = <<>> => before = {}
    BY EmptyIsSeq
  <2>10. Cardinality(Lost(r)') <= failures'
    <3>1. Lost(r)' = {}
      BY <2>6 DEF Lost
    <3>2. Cardinality(Lost(r)') = 0
      BY <3>1, FS_EmptySet, Zenon
    <3>3. failures \in Nat
      BY <1>1, Jobs DEF Types
    <3>4. QED
      BY <2>8, <3>2, <3>3
  <2>11. Fresh(r)'
    BY <2>6, EmptyIsSeq DEF Fresh
  <2>12. IsSeq(mem'[r].seen) /\ IsSeq(mem'[r].todo)
    BY <2>3, <2>6, EmptyIsSeq
  <2> HIDE DEF before
  <2>13. QED
    <3>1. mem'[r].written \in BOOLEAN /\ ~mem'[r].written
      BY <2>6
    <3>2. IsFiniteSet(mem'[r].before) /\ \A k \in mem'[r].before : RunRow(k[2]) \in DOMAIN db'
      BY <2>3, <2>4, <2>6, <2>8
    <3>3. pc'[r] \in {"details", "done"} /\ (answer'[r] = 200 => mem'[r].before = {})
      BY <2>6, <2>7, <2>9
    <3>4. QED
      BY <2>10, <2>11, <2>12, <3>1, <3>2, <3>3 DEF Exports
<1>8. QED
  BY <1>5, <1>6, <1>7

\* What stays when a detail is asked for.
LEMMA DetailStays ==
  ASSUME ExportInv, NEW r \in Request, AtDetail(r), FetchFailed(r) \/ FetchDetail(r)
  PROVE  /\ Kind(r) = "export" /\ Kind(r)' = Kind(r) /\ pc[r] = "details" /\ pc' = pc /\ answer' = answer
         /\ answer[r] = 0 /\ db' = db
         /\ failures \in Nat /\ failures' \in Nat
         /\ \A id : InFile(r, id)' <=> InFile(r, id)
         /\ \A k \in mem[r].before : RowOf(r, k[2], k[3])' = RowOf(r, k[2], k[3])
<1>1. StoreInv /\ IndInv /\ Basis /\ Types /\ Placed(r) /\ Exports(r)
  BY DEF ExportInv, StoreInv, CurationInv, IndInv, Basis
<1>2. Kind(r) = "export" /\ pc[r] = "details" /\ answer[r] = 0
  BY <1>1 DEF AtDetail, At, Step, Placed
<1>3. Moves(r)
  BY <1>1, ActionsMove DEF Acts, Curations
<1>4. UNCHANGED <<job, db, tx, pc, answer>>
  BY DEF FetchFailed, FetchDetail, Unchanged
<1>5. failures \in Nat /\ failures' \in Nat
  BY <1>1, <1>3, TypesKept, Jobs DEF Types
<1>6. DOMAIN tx[r] = {} /\ DOMAIN tx'[r] = {}
  BY <1>1, <1>2, <1>4, ExportReads
<1>7. \A k \in mem[r].before : RowOf(r, k[2], k[3])' = RowOf(r, k[2], k[3])
  BY <1>1, <1>2, <1>3, <1>6, RowOfStays DEF Exports
<1>8. QED
  BY <1>2, <1>4, <1>5, <1>7 DEF Kind, InFile

LEMMA FetchRefusedExports ==
  ASSUME ExportInv, NEW r \in Request, FetchRefused(r)
  PROVE  Exports(r)'
<1>1. StoreInv /\ IndInv /\ Basis /\ Types /\ Placed(r) /\ Exports(r)
  BY DEF ExportInv, StoreInv, CurationInv, IndInv, Basis
<1>2. Kind(r) = "export" /\ pc[r] = "details" /\ Refuse(r, 401)
  BY DEF FetchRefused, AtDetail, At, Step
<1>3. UNCHANGED <<job, db, mem, failures>> /\ pc'[r] = "done" /\ answer'[r] = 401
  BY <1>1, <1>2 DEF Refuse, Goto, Types
<1>4. Moves(r)
  BY <1>1, ActionsMove DEF Acts, Curations
<1>5. DOMAIN tx[r] = {} /\ DOMAIN tx'[r] = {}
  BY <1>1, <1>2, ExportReads, NoKeys DEF Refuse, Types
<1>6. \A k \in mem[r].before : RowOf(r, k[2], k[3])' = RowOf(r, k[2], k[3])
  BY <1>1, <1>2, <1>4, <1>5, RowOfStays DEF Exports
<1>7. \A id : InFile(r, id)' <=> InFile(r, id)
  BY <1>3 DEF InFile
<1>8. Lost(r)' = Lost(r)
  <2>1. mem'[r] = mem[r]
    BY <1>3
  <2>2. QED
    BY <1>6, <1>7, <2>1 DEF Lost
<1>9. Fresh(r)'
  BY <1>1, <1>2, <1>3 DEF Exports, Fresh, InFile
<1>10. QED
  BY <1>1, <1>2, <1>3, <1>8, <1>9 DEF Exports

LEMMA FetchFailedExports ==
  ASSUME ExportInv, NEW r \in Request, FetchFailed(r)
  PROVE  Exports(r)'
<1> DEFINE k0 == Head(mem[r].todo)
<1>1. Types /\ Exports(r) /\ AtDetail(r) /\ mem[r].todo # <<>>
  BY DEF ExportInv, StoreInv, CurationInv, IndInv, Basis, FetchFailed, AtDetail
<1>2. /\ Kind(r) = "export" /\ Kind(r)' = Kind(r) /\ pc[r] = "details" /\ pc' = pc /\ answer' = answer
      /\ answer[r] = 0 /\ db' = db
      /\ failures \in Nat /\ failures' \in Nat
      /\ \A id : InFile(r, id)' <=> InFile(r, id)
      /\ \A k \in mem[r].before : RowOf(r, k[2], k[3])' = RowOf(r, k[2], k[3])
  BY <1>1, DetailStays
<1>3. mem'[r] = [mem[r] EXCEPT !.todo = Tail(mem[r].todo)] /\ failures' = failures + 1
  BY <1>1 DEF FetchFailed, Skipped, Types
<1>4. /\ mem'[r].todo = Tail(mem[r].todo) /\ mem'[r].seen = mem[r].seen
      /\ mem'[r].before = mem[r].before /\ mem'[r].written = mem[r].written
  BY <1>1, <1>3 DEF Types, NoMem
<1>5. IsSeq(mem[r].todo) /\ IsFiniteSet(mem[r].before) /\ Cardinality(Lost(r)) <= failures
  BY <1>1, <1>2 DEF Exports
<1>6. /\ IsSeq(mem'[r].todo)
      /\ \A k : (\E i \in DOMAIN mem[r].todo : mem[r].todo[i] = k) =>
                  k = k0 \/ \E i \in DOMAIN mem'[r].todo : mem'[r].todo[i] = k
  <2>1. mem'[r].todo = Tail(mem[r].todo)
    BY <1>4
  <2> HIDE DEF k0
  <2>2. /\ IsSeq(Tail(mem[r].todo))
        /\ \A k : (\E i \in DOMAIN mem[r].todo : mem[r].todo[i] = k)
                   <=> k = Head(mem[r].todo) \/ \E i \in DOMAIN Tail(mem[r].todo) : Tail(mem[r].todo)[i] = k
    BY <1>1, <1>5, TailIsSeq, Zenon
  <2>3. QED
    BY <2>1, <2>2, Zenon DEF k0
<1> HIDE DEF k0
<1>7. IsFiniteSet(Lost(r)) /\ Cardinality(Lost(r)) \in Nat
  BY <1>5, LostCounted
<1>8. Lost(r)' \in SUBSET (Lost(r) \cup {k0})
  <2> SUFFICES ASSUME NEW k \in Lost(r)', k # k0 PROVE k \in Lost(r)
    OBVIOUS
  <2>1. /\ k \in mem[r].before /\ RowOf(r, k[2], k[3]) # "no input" /\ ~InFile(r, k[3])
        /\ \A i \in DOMAIN mem[r].seen : mem[r].seen[i] # k[3]
        /\ ~\E i \in DOMAIN mem'[r].todo : mem'[r].todo[i] = k
    BY <1>2, <1>4 DEF Lost
  <2>2. QED
    BY <1>6, <2>1 DEF Lost
<1>9. Cardinality(Lost(r)') <= failures'
  <2>1. Cardinality(Lost(r)') <= Cardinality(Lost(r)) + 1 /\ Cardinality(Lost(r)') \in Nat
    BY <1>7, <1>8, OneMore
  <2>2. QED
    BY <1>2, <1>3, <1>5, <1>7, <2>1
<1>10. Fresh(r)'
  BY <1>1, <1>2, <1>4 DEF Exports, Fresh
<1>11. mem[r].written = FALSE /\ IsSeq(mem[r].seen) /\ \A k \in mem[r].before : RunRow(k[2]) \in DOMAIN db
  BY <1>1, <1>2 DEF Exports
<1>12. QED
  <2>1. mem'[r].written \in BOOLEAN /\ ~mem'[r].written
    BY <1>4, <1>11
  <2>2. IsSeq(mem'[r].seen) /\ IsFiniteSet(mem'[r].before) /\ \A k \in mem'[r].before : RunRow(k[2]) \in DOMAIN db'
    BY <1>2, <1>4, <1>5, <1>11
  <2>3. pc'[r] = "details" /\ answer'[r] = 0
    BY <1>2
  <2>4. QED
    BY <1>6, <1>9, <1>10, <2>1, <2>2, <2>3 DEF Exports

LEMMA FetchDetailExports ==
  ASSUME ExportInv, NEW r \in Request, FetchDetail(r)
  PROVE  Exports(r)'
<1> DEFINE k0 == Head(mem[r].todo)
<1>1. Types /\ Exports(r) /\ AtDetail(r) /\ mem[r].todo # <<>>
  BY DEF ExportInv, StoreInv, CurationInv, IndInv, Basis, FetchDetail, AtDetail
<1>2. /\ Kind(r) = "export" /\ Kind(r)' = Kind(r) /\ pc[r] = "details" /\ pc' = pc /\ answer' = answer
      /\ answer[r] = 0 /\ db' = db
      /\ failures \in Nat /\ failures' \in Nat
      /\ \A id : InFile(r, id)' <=> InFile(r, id)
      /\ \A k \in mem[r].before : RowOf(r, k[2], k[3])' = RowOf(r, k[2], k[3])
  BY <1>1, DetailStays
<1>3. failures' = failures
  BY DEF FetchDetail, Unchanged
<1>4. /\ mem'[r].todo = Tail(mem[r].todo)
      /\ mem'[r].before = mem[r].before /\ mem'[r].written = mem[r].written
      /\ \/ mem'[r].seen = mem[r].seen /\ (InFile(r, k0[3]) \/ RowOf(r, k0[2], k0[3]) = "no input")
         \/ mem'[r].seen = Append(mem[r].seen, k0[3]) /\ ~InFile(r, k0[3])
  <2>1. \/ Skipped(r) /\ (InFile(r, k0[3]) \/ RowOf(r, k0[2], k0[3]) = "no input")
        \/ /\ mem' = [mem EXCEPT ![r].todo = Tail(@), ![r].seen = Append(@, k0[3])]
           /\ ~InFile(r, k0[3])
    BY DEF FetchDetail, Candidate
  <2> HIDE DEF k0
  <2>2. CASE Skipped(r) /\ (InFile(r, k0[3]) \/ RowOf(r, k0[2], k0[3]) = "no input")
    BY <1>1, <2>2 DEF Skipped, Types, NoMem
  <2>3. CASE /\ mem' = [mem EXCEPT ![r].todo = Tail(@), ![r].seen = Append(@, k0[3])]
             /\ ~InFile(r, k0[3])
    BY <1>1, <2>3 DEF Types, NoMem
  <2>4. QED
    BY <2>1, <2>2, <2>3
<1>5. IsSeq(mem[r].todo) /\ IsSeq(mem[r].seen) /\ IsFiniteSet(mem[r].before) /\ Cardinality(Lost(r)) <= failures
  BY <1>1, <1>2 DEF Exports
<1> HIDE DEF k0
<1>6. /\ IsSeq(mem'[r].todo)
      /\ \A k : (\E i \in DOMAIN mem[r].todo : mem[r].todo[i] = k) =>
                  k = k0 \/ \E i \in DOMAIN mem'[r].todo : mem'[r].todo[i] = k
  <2>1. mem'[r].todo = Tail(mem[r].todo)
    BY <1>4
  <2>2. /\ IsSeq(Tail(mem[r].todo))
        /\ \A k : (\E i \in DOMAIN mem[r].todo : mem[r].todo[i] = k)
                   <=> k = Head(mem[r].todo) \/ \E i \in DOMAIN Tail(mem[r].todo) : Tail(mem[r].todo)[i] = k
    BY <1>1, <1>5, TailIsSeq, Zenon
  <2>3. QED
    BY <2>1, <2>2, Zenon DEF k0
<1>7. /\ IsSeq(mem'[r].seen)
      /\ \A id : (\E i \in DOMAIN mem'[r].seen : mem'[r].seen[i] = id) =>
                   (id = k0[3] /\ ~InFile(r, id)) \/ \E i \in DOMAIN mem[r].seen : mem[r].seen[i] = id
      /\ \A id : (\E i \in DOMAIN mem[r].seen : mem[r].seen[i] = id) =>
                   \E i \in DOMAIN mem'[r].seen : mem'[r].seen[i] = id
      /\ \/ InFile(r, k0[3])
         \/ RowOf(r, k0[2], k0[3]) = "no input"
         \/ \E i \in DOMAIN mem'[r].seen : mem'[r].seen[i] = k0[3]
  <2>1. CASE mem'[r].seen = mem[r].seen /\ (InFile(r, k0[3]) \/ RowOf(r, k0[2], k0[3]) = "no input")
    BY <1>5, <2>1
  <2>2. CASE mem'[r].seen = Append(mem[r].seen, k0[3]) /\ ~InFile(r, k0[3])
    <3> DEFINE seen == mem[r].seen
               id0 == k0[3]
    <3>1. IsSeq(seen) /\ mem'[r].seen = Append(seen, id0)
      BY <1>5, <2>2
    <3> HIDE DEF seen, id0
    <3>2. /\ IsSeq(mem'[r].seen)
          /\ \A x : (\E i \in DOMAIN mem'[r].seen : mem'[r].seen[i] = x)
                     <=> x = id0 \/ \E i \in DOMAIN seen : seen[i] = x
      <4>1. /\ IsSeq(Append(seen, id0))
            /\ \A x : (\E i \in DOMAIN Append(seen, id0) : Append(seen, id0)[i] = x)
                       <=> x = id0 \/ \E i \in DOMAIN seen : seen[i] = x
        BY <3>1, AppendIsSeq
      <4>2. QED
        BY <3>1, <4>1, Zenon
    <3>3. QED
      BY <2>2, <3>2 DEF seen, id0
  <2>3. QED
    BY <1>4, <2>1, <2>2
<1>8. Lost(r)' \in SUBSET Lost(r)
  <2> SUFFICES ASSUME NEW k \in Lost(r)' PROVE k \in Lost(r)
    OBVIOUS
  <2>1. /\ k \in mem[r].before /\ RowOf(r, k[2], k[3]) # "no input" /\ ~InFile(r, k[3])
        /\ ~\E i \in DOMAIN mem'[r].seen : mem'[r].seen[i] = k[3]
        /\ ~\E i \in DOMAIN mem'[r].todo : mem'[r].todo[i] = k
    BY <1>2, <1>4 DEF Lost
  <2>2. k # k0
    BY <1>7, <2>1
  <2>3. ~\E i \in DOMAIN mem[r].todo : mem[r].todo[i] = k
    BY <1>6, <2>1, <2>2
  <2>4. ~\E i \in DOMAIN mem[r].seen : mem[r].seen[i] = k[3]
    BY <1>7, <2>1
  <2>5. QED
    BY <2>1, <2>3, <2>4 DEF Lost
<1>9. Cardinality(Lost(r)') <= failures'
  <2>1. IsFiniteSet(Lost(r)) /\ Cardinality(Lost(r)) \in Nat
    BY <1>5, LostCounted
  <2>2. Cardinality(Lost(r)') \in Nat /\ Cardinality(Lost(r)') <= Cardinality(Lost(r))
    BY <1>8, <2>1, FS_Subset, FS_CardinalityType
  <2>3. QED
    BY <1>2, <1>3, <1>5, <2>1, <2>2
<1>10. Fresh(r)'
  <2>1. \A i \in DOMAIN mem[r].seen : ~InFile(r, mem[r].seen[i])
    BY <1>1, <1>2 DEF Exports, Fresh
  <2>2. \A id : (\E i \in DOMAIN mem'[r].seen : mem'[r].seen[i] = id) => ~InFile(r, id)
    BY <1>7, <2>1
  <2>3. QED
    BY <1>2, <2>2 DEF Fresh, InFile
<1>11. mem[r].written = FALSE
  BY <1>1, <1>2 DEF Exports
<1>12. \A k \in mem'[r].before : RunRow(k[2]) \in DOMAIN db'
  BY <1>1, <1>2, <1>4 DEF Exports
<1>13. QED
  <2>1. IsSeq(mem'[r].todo) /\ IsSeq(mem'[r].seen) /\ IsFiniteSet(mem'[r].before) /\ mem'[r].written = FALSE
    BY <1>4, <1>5, <1>6, <1>7, <1>11
  <2>2. pc'[r] = "details" /\ answer'[r] = 0
    BY <1>2
  <2>3. QED
    <3>1. mem'[r].written \in BOOLEAN /\ ~mem'[r].written
      BY <2>1
    <3>2. IsSeq(mem'[r].todo) /\ IsSeq(mem'[r].seen) /\ IsFiniteSet(mem'[r].before)
      BY <2>1
    <3>3. QED
      BY <1>9, <1>10, <1>12, <2>2, <3>1, <3>2 DEF Exports

LEMMA WriteFileExports ==
  ASSUME ExportInv, NEW r \in Request, WriteFile(r)
  PROVE  Exports(r)'
<1>1. StoreInv /\ IndInv /\ Basis /\ Types /\ Placed(r) /\ Exports(r)
  BY DEF ExportInv, StoreInv, CurationInv, IndInv, Basis
<1>2. Kind(r) = "export" /\ pc[r] = "details" /\ mem[r].todo = <<>>
  BY DEF WriteFile, At, Step
<1>3. UNCHANGED <<job, db, tx, failures>>
  BY DEF WriteFile
<1>4. /\ mem'[r].todo = <<>> /\ mem'[r].seen = mem[r].seen /\ mem'[r].before = mem[r].before
      /\ mem'[r].written = TRUE
  BY <1>1, <1>2 DEF WriteFile, Types, NoMem
<1>5. pc'[r] = "done" /\ answer'[r] = 200
  BY <1>1 DEF WriteFile, Goto, Types
<1>6. Moves(r)
  BY <1>1, ActionsMove DEF Acts, Curations
<1>7. DOMAIN tx[r] = {} /\ DOMAIN tx'[r] = {}
  BY <1>1, <1>2, <1>3, ExportReads
<1>8. \A k \in mem[r].before : RowOf(r, k[2], k[3])' = RowOf(r, k[2], k[3])
  BY <1>1, <1>2, <1>6, <1>7, RowOfStays DEF Exports
<1>9. \A id : InFile(r, id)' <=> InFile(r, id)
  BY <1>3 DEF InFile
<1>10. Lost(r)' = Lost(r)
  BY <1>2, <1>4, <1>8, <1>9 DEF Lost
<1>11. Fresh(r)'
  BY <1>1, <1>2, <1>3, <1>4 DEF Exports, Fresh, InFile
<1>12. QED
  BY <1>1, <1>2, <1>3, <1>4, <1>5, <1>10, <1>11, EmptyIsSeq DEF Exports

LEMMA ExportInvKept == ExportInv /\ [Next]_vars => ExportInv'
<1> SUFFICES ASSUME ExportInv, [Next]_vars PROVE ExportInv'
  OBVIOUS
<1>1. StoreInv'
  BY StoreInvKept DEF ExportInv
<1>2. ASSUME NEW r \in Request, Acts(r) PROVE ExportInv'
  <2>1. IndInv /\ Basis /\ Types /\ Placed(r) /\ Moves(r)
    BY <1>2, ActionsMove DEF ExportInv, StoreInv, CurationInv, IndInv, Basis, Acts
  <2>2. Kind(r)' = Kind(r)
    BY <2>1, MovesRest DEF Rest, Kind
  <2>3. Exports(r)'
    <3>1. CASE Kind(r) # "export"
      BY <2>2, <3>1 DEF Exports
    <3>2. CASE Kind(r) = "export"
      <4>1. Served(r) \/ Curations(r)
        BY <1>2, <2>1, <3>2, Kinds DEF Acts, Tenancies, Configs, Placed, Creators
      <4>2. CASE Served(r)
        BY <3>2, <4>2, ServedExports
      <4>3. CASE Curations(r)
        <5>1. ListGolden(r) \/ FetchRefused(r) \/ FetchFailed(r) \/ FetchDetail(r) \/ WriteFile(r)
          BY <3>2, <4>3 DEF Curations, SelectReview, UpdateReview, InsertReview, SelectGolden, UpdateGolden,
             InsertGolden, ReselectGolden, SelectTarget, DeleteTarget, Begin, At
        <5>2. QED
          BY <5>1, ListGoldenExports, FetchRefusedExports, FetchFailedExports, FetchDetailExports, WriteFileExports
      <4>4. QED
        BY <4>1, <4>2, <4>3
    <3>3. QED
      BY <3>1, <3>2
  <2>4. QED
    BY <1>1, <2>1, <2>3, OthersExport DEF ExportInv
<1>3. CASE UNCHANGED vars
  <2>1. UNCHANGED <<job, db, tx, pc, who, mem, answer, clock, barred, lost_acks, failures>>
    BY <1>3 DEF vars, history
  <2>2. \A r \in Request : Lost(r)' = Lost(r)
    BY <2>1 DEF Lost, RowOf, LiveDetail, CallsIn, InFile, Keys, Has, Row
  <2>3. \A r \in Request : Exports(r)'
    BY <2>1, <2>2 DEF ExportInv, Exports, Fresh, Kind, InFile
  <2>4. QED
    BY <1>1, <2>3 DEF ExportInv
<1>4. QED
  BY <1>2, <1>3 DEF Next, AllDone, Acts

LEMMA ExportInvInit == ControlPlaneInit => ExportInv
<1> SUFFICES ASSUME ControlPlaneInit PROVE ExportInv
  OBVIOUS
<1>1. StoreInv /\ Types
  BY StoreInvInit DEF StoreInv, CurationInv, IndInv, Basis
<1>2. \A r \in Request : mem[r] = NoMem /\ pc[r] = "idle"
  BY DEF ControlPlaneInit, TenancyInit
<1>3. QED
  BY <1>1, <1>2, NothingListed DEF ExportInv, BlankExports

\* An export that was refused leaves the file alone, and one that is done has
\* added every candidate it listed that has an input, but for one per failure; a
\* merge repeats nothing that was in the file.
THEOREM ExportLosesNothing == Spec => []ExportWhole
<1>1. ASSUME ExportInv PROVE ExportWhole
  <2> SUFFICES ASSUME NEW r \in Request, Kind(r) = "export"
               PROVE  LET file == FileAfter(r)
                          missing == {k \in mem[r].before :
                                       /\ RowOf(r, k[2], k[3]) # "no input"
                                       /\ \A i \in DOMAIN file : file[i] # k[3]}
                      IN  /\ answer[r] # 200 => file = job[r].lines
                          /\ answer[r] = 200 => Cardinality(missing) <= failures
                          /\ job[r].mode = "merge" =>
                               \A i \in DOMAIN job[r].lines : \A j \in DOMAIN file :
                                 file[j] = job[r].lines[i] /\ j # i => j <= Len(job[r].lines)
    BY DEF ExportWhole
  <2> DEFINE file == FileAfter(r)
             missing == {k \in mem[r].before :
                          RowOf(r, k[2], k[3]) # "no input" /\ \A i \in DOMAIN file : file[i] # k[3]}
  <2>1. Exports(r) /\ Types
    BY <1>1 DEF ExportInv, StoreInv, CurationInv, IndInv, Basis
  <2>2. failures \in Nat /\ IsSeq(mem[r].seen) /\ IsSeq(job[r].lines)
    <3>1. PICK s \in Scenario : job = s.job
      BY <2>1 DEF Types
    <3>2. s.job[r].kind = "export"
      BY <3>1 DEF Kind
    <3>3. IsSeq(s.job[r].lines)
      BY <3>2, CurationAssumption DEF IsSeq
    <3>4. MaxFailures \in Nat
      BY TenancyAssumption
    <3>5. QED
      BY <2>1, <3>1, <3>3, <3>4 DEF Types, Exports
  <2>3. answer[r] # 200 => file = job[r].lines
    BY <2>1 DEF Exports, FileAfter
  <2>4. ASSUME job[r].mode = "merge", mem[r].written
        PROVE  /\ file = job[r].lines \o mem[r].seen
               /\ DOMAIN job[r].lines = 1..Len(job[r].lines) /\ Len(job[r].lines) \in Nat
               /\ \A i \in DOMAIN job[r].lines : i \in DOMAIN file /\ file[i] = job[r].lines[i]
               /\ \A j \in DOMAIN file :
                    j <= Len(job[r].lines) \/ \E i \in DOMAIN mem[r].seen : file[j] = mem[r].seen[i]
               /\ \A i \in DOMAIN mem[r].seen : \E j \in DOMAIN file : file[j] = mem[r].seen[i]
    <3>1. file = job[r].lines \o mem[r].seen
      BY <2>4 DEF FileAfter
    <3> DEFINE lines == job[r].lines
               seen == mem[r].seen
    <3>2. IsSeq(lines) /\ IsSeq(seen) /\ file = lines \o seen
      BY <2>2, <3>1
    <3> HIDE DEF file, lines, seen
    <3>3. /\ DOMAIN lines = 1..Len(lines) /\ Len(lines) \in Nat
          /\ \A i \in DOMAIN lines : i \in DOMAIN file /\ file[i] = lines[i]
          /\ \A j \in DOMAIN file : j <= Len(lines) \/ \E i \in DOMAIN seen : file[j] = seen[i]
          /\ \A i \in DOMAIN seen : \E j \in DOMAIN file : file[j] = seen[i]
      BY <3>2, ConcatHas
    <3>4. QED
      BY <3>1, <3>3 DEF lines, seen
  <2>5. answer[r] = 200 => Cardinality(missing) <= failures
    <3> SUFFICES ASSUME answer[r] = 200 PROVE Cardinality(missing) <= failures
      OBVIOUS
    <3>1. CASE ~mem[r].written
      <4>1. missing = {}
        BY <2>1, <3>1 DEF Exports
      <4>2. QED
        <5>1. Cardinality(missing) = 0
          BY <4>1, FS_EmptySet
        <5> HIDE DEF missing
        <5>2. QED
          BY <2>2, <5>1
    <3>2. CASE mem[r].written
      <4>1. mem[r].todo = <<>> /\ IsFiniteSet(mem[r].before) /\ Cardinality(Lost(r)) <= failures
        BY <2>1, <3>2 DEF Exports
      <4>2. \A k \in missing : ~InFile(r, k[3]) /\ \A i \in DOMAIN mem[r].seen : mem[r].seen[i] # k[3]
        <5>1. CASE job[r].mode = "merge"
          <6>1. /\ \A i \in DOMAIN job[r].lines : i \in DOMAIN file /\ file[i] = job[r].lines[i]
                /\ \A i \in DOMAIN mem[r].seen : \E j \in DOMAIN file : file[j] = mem[r].seen[i]
            BY <2>4, <3>2, <5>1
          <6>2. \A k \in missing : \A i \in DOMAIN file : file[i] # k[3]
            OBVIOUS
          <6> HIDE DEF missing, file
          <6>3. QED
            BY <6>1, <6>2 DEF InFile
        <5>2. CASE job[r].mode # "merge"
          BY <3>2, <5>2 DEF InFile, FileAfter
        <5>3. QED
          BY <5>1, <5>2
      <4>3. missing \in SUBSET Lost(r)
        BY <4>1, <4>2, EmptyIsSeq DEF Lost
      <4>4. IsFiniteSet(Lost(r)) /\ Cardinality(Lost(r)) \in Nat
        BY <4>1, LostCounted
      <4>5. Cardinality(missing) \in Nat /\ Cardinality(missing) <= Cardinality(Lost(r))
        <5> HIDE DEF missing
        <5>1. IsFiniteSet(missing) /\ Cardinality(missing) <= Cardinality(Lost(r))
          BY <4>3, <4>4, FS_Subset
        <5>2. QED
          BY <5>1, FS_CardinalityType
      <4> HIDE DEF missing
      <4>6. QED
        BY <2>2, <4>1, <4>4, <4>5
    <3>3. QED
      BY <3>1, <3>2
  <2>6. ASSUME job[r].mode = "merge", NEW i \in DOMAIN job[r].lines, NEW j \in DOMAIN file,
               file[j] = job[r].lines[i], j # i
        PROVE  j <= Len(job[r].lines)
    <3>1. CASE mem[r].written
      <4>1. \A l \in DOMAIN mem[r].seen : mem[r].seen[l] # job[r].lines[i]
        BY <2>1, <2>6 DEF Exports, Fresh, InFile
      <4>2. j <= Len(job[r].lines) \/ \E l \in DOMAIN mem[r].seen : file[j] = mem[r].seen[l]
        BY <2>4, <2>6, <3>1
      <4> HIDE DEF file
      <4>3. QED
        BY <2>6, <4>1, <4>2
    <3>2. CASE ~mem[r].written
      BY <2>2, <2>6, <3>2 DEF FileAfter, IsSeq
    <3>3. QED
      BY <3>1, <3>2
  <2>7. QED
    BY <2>3, <2>5, <2>6
<1>2. QED
  BY <1>1, ExportInvInit, ExportInvKept, PTL DEF Spec
=============================================================================
