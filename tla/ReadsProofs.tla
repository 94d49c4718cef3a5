---------------------------- MODULE ReadsProofs ----------------------------
(***************************************************************************)
(* Theorems on what the readers of ControlPlane are answered.              *)
(***************************************************************************)
EXTENDS ControlPlaneProofs, WellFoundedInduction

-----------------------------------------------------------------------------
(* Listings *)

\* A finite set has an element that nothing comes before.
LEMMA SomeFirst ==
  ASSUME NEW S, IsFiniteSet(S), S # {}, NEW R,
         \A x \in S : <<x, x>> \notin R,
         \A x, y, z \in S : <<x, y>> \in R /\ <<y, z>> \in R => <<x, z>> \in R
  PROVE  \E x \in S : \A y \in S : <<y, x>> \notin R
<1> DEFINE Before(x) == {y \in S : <<y, x>> \in R}
           all == {Before(x) : x \in S}
<1>1. IsWellFoundedOn(StrictSubsetOrdering(S), FiniteSubsetsOf(S))
  BY FS_StrictSubsetOrderingWellFounded
<1>2. FiniteSubsetsOf(S) = SUBSET S
  BY FS_FiniteSubsetsOfFinite
<1>3. all \subseteq FiniteSubsetsOf(S) /\ all # {}
  <2>1. \A x \in S : Before(x) \in SUBSET S /\ Before(x) \in all
    OBVIOUS
  <2>2. all \subseteq SUBSET S
    OBVIOUS
  <2> HIDE DEF all
  <2>3. QED
    BY <1>2, <2>1, <2>2
<1>4. PICK m \in all : \A b \in all : <<b, m>> \notin StrictSubsetOrdering(S)
  <2> HIDE DEF all
  <2>1. QED
    BY <1>1, <1>3, WFMin
<1>5. PICK x \in S : m = Before(x)
  BY <1>4
<1>6. ASSUME NEW y \in S, <<y, x>> \in R PROVE FALSE
  <2>1. Before(y) \subseteq Before(x)
    BY <1>6
  <2>2. y \in Before(x) /\ y \notin Before(y)
    BY <1>6
  <2>3. Before(y) \in all /\ Before(y) \in SUBSET S /\ Before(x) \in SUBSET S
    OBVIOUS
  <2> HIDE DEF Before, all
  <2>4. <<Before(y), Before(x)>> \in StrictSubsetOrdering(S)
    BY <2>1, <2>2, <2>3 DEF StrictSubsetOrdering
  <2>5. QED
    BY <1>4, <1>5, <2>3, <2>4
<1>7. QED
  BY <1>6

\* SetToSeq has the elements of its set, each once.
LEMMA SetToSeqHas ==
  ASSUME NEW S, IsFiniteSet(S)
  PROVE  /\ IsSeq(Seqs!SetToSeq(S))
         /\ {Seqs!SetToSeq(S)[i] : i \in DOMAIN Seqs!SetToSeq(S)} = S
<1> DEFINE n == Cardinality(S)
           f == Seqs!SetToSeq(S)
<1>1. n \in Nat /\ ExistsBijection(1..n, S)
  BY FS_CardinalityType
<1>2. \E g \in [1..n -> S] : Seqs!IsInjective(g)
  BY <1>1 DEF ExistsBijection, Bijection, Injection, IsInjective, Seqs!IsInjective
<1>3. f \in [1..n -> S] /\ Seqs!IsInjective(f)
  <2>1. \E g \in [1..Cardinality(S) -> S] : Seqs!IsInjective(g)
    BY <1>2
  <2>2. Seqs!Cardinality(S) = Cardinality(S)
    BY DEF Cardinality, Seqs!Cardinality
  <2>3. \E g \in [1..Seqs!Cardinality(S) -> S] : Seqs!IsInjective(g)
    BY <2>1, <2>2
  <2>4. Seqs!SetToSeq(S) \in [1..Seqs!Cardinality(S) -> S] /\ Seqs!IsInjective(Seqs!SetToSeq(S))
    BY <2>3, Zenon DEF Seqs!SetToSeq
  <2>5. QED
    BY <2>2, <2>4
<1> HIDE DEF f
<1>4. f \in Injection(1..n, S)
  BY <1>3 DEF Injection, IsInjective, Seqs!IsInjective
<1>5. Cardinality(1..n) = n
  BY <1>1, FS_Interval
<1>6. f \in Surjection(1..n, S)
  BY <1>4, <1>5, FS_Injection
<1>7. {f[i] : i \in DOMAIN f} = S
  BY <1>3, <1>6 DEF Surjection
<1>8. f \in Seq(S)
  BY <1>1, <1>3
<1>9. QED
  BY <1>7, <1>8, SeqIsSeq DEF f

\* rows is what a SELECT of n rows of S may answer, ordered by R.
Listed(S, n, R, rows) ==
  /\ rows \in [{m \in 1..n : m <= Cardinality(S)} -> S]
  /\ \A i, j \in DOMAIN rows : rows[i] = rows[j] => i = j
  /\ \A i \in DOMAIN rows : \A y \in S : <<y, rows[i]>> \in R => \E j \in DOMAIN rows : j < i /\ rows[j] = y

LEMMA ListedHas ==
  ASSUME NEW S, IsFiniteSet(S), NEW n \in Nat, NEW R, NEW rows, Listed(S, n, R, rows)
  PROVE  /\ IsSeq(rows) /\ Len(rows) \in Nat /\ DOMAIN rows = 1..Len(rows) /\ Len(rows) <= n
         /\ \A i \in DOMAIN rows : rows[i] \in S
         /\ \A y \in S \ {rows[i] : i \in DOMAIN rows} :
              Len(rows) = n /\ \A i \in DOMAIN rows : <<y, rows[i]>> \notin R
<1>1. Cardinality(S) \in Nat
  BY FS_CardinalityType
<1>2. PICK k \in Nat : {m \in 1..n : m <= Cardinality(S)} = 1..k /\ k <= n /\ (k = n \/ k = Cardinality(S))
  <2>1. CASE n <= Cardinality(S)
    BY <1>1, <2>1
  <2>2. CASE n > Cardinality(S)
    BY <1>1, <2>2
  <2>3. QED
    BY <1>1, <2>1, <2>2
<1>3. rows \in [1..k -> S]
  BY <1>2 DEF Listed
<1>4. rows \in Seq(S) /\ Len(rows) = k /\ DOMAIN rows = 1..k
  BY <1>3
<1>5. ASSUME NEW y \in S \ {rows[i] : i \in DOMAIN rows}
      PROVE  k = n /\ \A i \in DOMAIN rows : <<y, rows[i]>> \notin R
  <2>1. k = n
    <3>1. SUFFICES ASSUME k = Cardinality(S) PROVE FALSE
      BY <1>2
    <3>2. rows \in Injection(1..k, S)
      BY <1>3, <1>4 DEF Listed, Injection, IsInjective
    <3>3. Cardinality(1..k) = k
      BY FS_Interval
    <3>4. rows \in Surjection(1..k, S)
      BY <3>1, <3>2, <3>3, FS_Injection
    <3>5. QED
      BY <1>4, <1>5, <3>4 DEF Surjection
  <2>2. QED
    BY <1>5, <2>1 DEF Listed
<1>6. QED
  BY <1>2, <1>3, <1>4, <1>5, SeqIsSeq

-----------------------------------------------------------------------------
(* What is stored *)

\* The principal of a request is that of its key.
Identified(r) ==
  LET k == KeyRow(job[r].key)
  IN  k \in DOMAIN db /\ who[r] = [key |-> job[r].key, org |-> db[k].org, admin |-> db[k].admin]

\* The project that an ingest is into, and the rows of its run.
IngestProject(r) == ProjectRow(db[KeyRow(job[r].key)].org, job[r].slug)
IngestRows(r) == {job[r].calls[i].row : i \in DOMAIN job[r].calls}

\* What r may have written of configs, runs and calls.
Drafted(r, k, row) ==
  /\ k[1] = "config" =>
       /\ k[2] \in DOMAIN db /\ k[2][1] = "project" /\ ProxyEssentialShape(k[3])
       /\ row.at \in Int /\ row.id \in Int
  /\ k[1] = "run" =>
       /\ row.org = IngestProject(r)[2] /\ row.project = IngestProject(r)
       /\ row.at \in Int /\ row.source # "live" /\ DOMAIN row.rows = IngestRows(r)
  /\ k[1] = "call" =>
       /\ k = CallRow(IngestProject(r), row.id)
       /\ row.id \in Int /\ row.at \in Int /\ row.row \in IngestRows(r)

\* What the handlers that write them remember until then.
Drafting(r) ==
  /\ Kind(r) \in {"push_config", "ingest"} /\ pc[r] \in {"touch", "begin", "insert"} => Identified(r)
  /\ Kind(r) = "push_config" /\ pc[r] = "insert" =>
       LET k == mem[r].seen[1]
       IN  /\ k[1] = "config" /\ k[2] \in DOMAIN db /\ k[2][1] = "project" /\ ProxyEssentialShape(k[3])
           /\ mem[r].time \in Int
  /\ Kind(r) = "ingest" =>
       /\ KeyRow(job[r].key) \in DOMAIN db /\ IngestProject(r) \in DOMAIN db
       /\ pc[r] = "insert" => mem[r].time \in Int

\* The calls of an ingest are written with its run.
CallsWritten(r) ==
  Kind(r) = "ingest" /\ DOMAIN tx[r] # {} =>
    IngestRows(r) \subseteq {tx[r][k].row : k \in {l \in DOMAIN tx[r] : l[1] = "call"}}

Drafts(r) == Drafting(r) /\ CallsWritten(r) /\ \A k \in DOMAIN tx[r] : Drafted(r, k, tx[r][k])

\* No two projects have one timestamp, committed or not.
Projects == {k \in DOMAIN db \cup UNION {DOMAIN tx[q] : q \in Request} : k[1] = "project"}
Stamps(k) ==
  {db[l].created : l \in DOMAIN db \cap {k}} \cup
  {tx[q][k].created : q \in {p \in Request : k \in DOMAIN tx[p]}}
Stamped ==
  \A k, l \in Projects : \A c \in Stamps(k), d \in Stamps(l) :
    c \in Int /\ c <= clock /\ (c = d => k = l)

ShapeInv ==
  /\ StoreInv
  /\ Stamped
  /\ \A k \in DOMAIN db : WellFormed(db, k)
  /\ \A r \in Request : Drafts(r)

\* A commit only adds to what a reader sees, reviews and candidates apart, and
\* adds a run with all its calls.
Grows ==
  /\ \A k \in DOMAIN db :
       /\ k[1] # "golden" => k \in DOMAIN db'
       /\ k[1] \in {"org", "project", "config", "run", "call"} => db'[k] = db[k]
       /\ k[1] = "key" => SameOwner(db'[k], db[k])
  /\ \A k \in DOMAIN db' \ DOMAIN db : k[1] = "call" => RunRow(db'[k].run) \notin DOMAIN db

LEMMA MovesGrow ==
  ASSUME StoreInv, NEW r \in Request, Moves(r)
  PROVE  Grows
<1>1. CurationInv /\ Basis /\ Keeps
  BY MovesKeep DEF StoreInv, CurationInv, IndInv
<1>2. ASSUME NEW k \in DOMAIN db, k[1] # "golden"
      PROVE  /\ k \in DOMAIN db'
             /\ k[1] \in {"org", "project", "config", "run", "call"} => db'[k] = db[k]
             /\ k[1] = "key" => SameOwner(db'[k], db[k])
  <2>1. CASE k[1] \in Lasting
    BY <1>1, <2>1 DEF Keeps, Lasting
  <2>2. CASE k[1] \in {"run", "call"}
    BY <2>2, RunsLast
  <2>3. CASE k \notin DOMAIN tx[r]
    BY <1>1, <2>3, Untouched DEF SameOwner
  <2>4. CASE k \in DOMAIN tx[r] /\ k[1] \notin Lasting \cup {"run", "call"}
    <3>1. Written(r, k, tx[r][k]) /\ Curating(r)
      BY <1>1, <2>4 DEF CurationInv, Basis
    <3>2. Kind(r) \in Curators /\ k[1] = "review"
      BY <1>2, <2>4, <3>1, Tags DEF Written, Lasting
    <3>3. Curated(r, k, tx[r][k])
      BY <2>4, <3>1, <3>2 DEF Curating
    <3>4. tx[r][k] # Gone
      BY <3>2, <3>3 DEF Curated, GoldenRow, TargetRow
    <3>5. db' = db \/ db' = [l \in Keys(r) |-> Row(r, l)]
      BY <1>1, MovesKeep DEF Commits
    <3>6. k \in Keys(r)
      BY <2>4, <3>4 DEF Keys, Has
    <3>7. QED
      BY <1>2, <2>4, <3>5, <3>6 DEF Lasting
  <2>5. QED
    BY <2>1, <2>2, <2>3, <2>4
<1>3. \A k \in DOMAIN db' \ DOMAIN db : k[1] = "call" => RunRow(db'[k].run) \notin DOMAIN db
  BY RunsLast
<1>4. \A k \in DOMAIN db : k[1] = "golden" => k[1] \notin {"org", "project", "config", "run", "call", "key"}
  OBVIOUS
<1>5. QED
  BY <1>2, <1>3, <1>4 DEF Grows


LEMMA Shaped ==
  ASSUME ShapeInv
  PROVE  StoreInv /\ CurationInv /\ IndInv /\ Basis /\ Types /\ Apart /\ RunsStored
BY DEF ShapeInv, StoreInv, CurationInv, IndInv, Basis

LEMMA IdentifiedStays ==
  ASSUME NEW q \in Request, Grows, job' = job, who'[q] = who[q], Identified(q)
  PROVE  Identified(q)' /\ IngestProject(q)' = IngestProject(q)
<1> DEFINE k == KeyRow(job[q].key)
<1>1. k \in DOMAIN db /\ k[1] = "key" /\ who[q] = [key |-> job[q].key, org |-> db[k].org, admin |-> db[k].admin]
  BY DEF Identified, KeyRow
<1>2. k \in DOMAIN db' /\ db'[k].org = db[k].org /\ db'[k].admin = db[k].admin
  BY <1>1 DEF Grows, SameOwner
<1>3. QED
  BY <1>1, <1>2 DEF Identified, IngestProject

\* What is drafted stays so, whoever commits.
LEMMA DraftedStays ==
  ASSUME NEW q \in Request, Grows, job' = job, NEW k, NEW row, Drafted(q, k, row),
         k[1] \in {"run", "call"} => KeyRow(job[q].key) \in DOMAIN db
  PROVE  Drafted(q, k, row)'
<1>1. k[1] = "config" => k[2] \in DOMAIN db'
  BY DEF Drafted, Grows
<1>2. k[1] \in {"run", "call"} => IngestProject(q)' = IngestProject(q)
  BY DEF Grows, SameOwner, IngestProject, KeyRow
<1>3. IngestRows(q)' = IngestRows(q)
  BY DEF IngestRows
<1>4. QED
  BY <1>1, <1>2, <1>3 DEF Drafted

LEMMA OthersDraft ==
  ASSUME ShapeInv, NEW r \in Request, Moves(r), NEW q \in Request \ {r}
  PROVE  Drafts(q)'
<1>1. Grows /\ Rest(r) /\ Drafts(q)
  BY Shaped, MovesGrow, MovesRest DEF ShapeInv
<1>2. /\ job' = job /\ pc'[q] = pc[q] /\ tx'[q] = tx[q] /\ mem'[q] = mem[q] /\ who'[q] = who[q]
      /\ Kind(q)' = Kind(q) /\ IngestRows(q)' = IngestRows(q)
  BY <1>1 DEF Rest, Kind, IngestRows
<1>3. \A k \in DOMAIN tx'[q] : Drafted(q, k, tx[q][k])'
  <2>1. SUFFICES ASSUME NEW k \in DOMAIN tx[q] PROVE Drafted(q, k, tx[q][k])'
    BY <1>2
  <2>2. DEFINE row == tx[q][k]
  <2>3. Drafted(q, k, row)
    BY <1>1 DEF Drafts
  <2>4. k[1] \in {"run", "call"} => KeyRow(job[q].key) \in DOMAIN db
    BY <1>1, Shaped, RunsWritten DEF Drafts, Drafting
  <2>5. \A x : Drafted(q, k, x) => Drafted(q, k, x)'
    BY <1>1, <1>2, <2>4, DraftedStays
  <2>6. row' = row
    BY <1>2
  <2>7. QED
    BY <2>3, <2>5, <2>6 DEF Drafted
<1>4. CallsWritten(q)'
  BY <1>1, <1>2 DEF Drafts, CallsWritten
<1>5. Drafting(q)'
  <2>1. Drafting(q)
    BY <1>1 DEF Drafts
  <2>2. Kind(q) \in {"push_config", "ingest"} /\ pc[q] \in {"touch", "begin", "insert"} => Identified(q)'
    BY <1>1, <1>2, <2>1, IdentifiedStays DEF Drafting
  <2>3. Kind(q) = "push_config" /\ pc[q] = "insert" => mem[q].seen[1][2] \in DOMAIN db'
    BY <1>1, <2>1 DEF Drafting, Grows
  <2>4. Kind(q) = "ingest" =>
          KeyRow(job[q].key) \in DOMAIN db' /\ IngestProject(q)' = IngestProject(q) /\ IngestProject(q) \in DOMAIN db'
    BY <1>1, <1>2, <2>1 DEF Drafting, Grows, SameOwner, IngestProject, KeyRow, ProjectRow
  <2>5. QED
    BY <1>2, <2>1, <2>2, <2>3, <2>4 DEF Drafting
<1>6. QED
  BY <1>3, <1>4, <1>5 DEF Drafts

\* Who a request is from is known when its key was found.
LEMMA ServedIdentifies ==
  ASSUME Types, NEW r \in Request, Served(r)
  PROVE  /\ pc'[r] \in {"sent", "touch", "begin", "commit", "done"}
         /\ pc'[r] \in {"touch", "begin"} => Identified(r)' \/ (pc[r] = "touch" /\ who'[r] = who[r])
         /\ who'[r] = who[r] \/ (pc[r] = "sent" /\ Identified(r)')
         /\ mem' = mem \/ (Kind(r) \in Readers /\ mem[r].seen = <<>> /\ pc[r] = "idle"
                            /\ mem' = [mem EXCEPT ![r].before = DOMAIN db])
<1>1. CASE Send(r)
  BY <1>1 DEF Send, Step, Goto, Types
<1>2. CASE Authenticate(r)
  <2>1. CASE FindKey(job[r].key)
    <3>1. /\ who'[r] = [key |-> job[r].key, org |-> db[KeyRow(job[r].key)].org,
                        admin |-> db[KeyRow(job[r].key)].admin]
          /\ pc[r] = "sent" /\ pc'[r] \in {"touch", "begin"} /\ UNCHANGED <<job, db, mem>>
      BY <1>2, <2>1 DEF Authenticate, Goto, Types, Step
    <3>2. Identified(r)'
      BY <2>1, <3>1 DEF Identified, FindKey
    <3>3. QED
      BY <3>1, <3>2
  <2>2. CASE ~FindKey(job[r].key)
    BY <1>2, <2>2 DEF Authenticate, Goto, Types
  <2>3. QED
    BY <2>1, <2>2
<1>3. CASE TouchLastUsed(r)
  BY <1>3 DEF TouchLastUsed, Step, Goto, Types, Unchanged
<1>4. CASE Reply(r) \/ Commit(r) \/ Fault(r) \/ Die(r)
  BY <1>4 DEF Reply, Commit, Fault, Die, Goto, Types
<1>5. QED
  BY <1>1, <1>2, <1>3, <1>4 DEF Served

LEMMA InsertCallsDrafts ==
  ASSUME Types, NEW r \in Request, InsertCalls(r), Identified(r), mem[r].time \in Int
  PROVE  /\ \A k \in DOMAIN tx'[r] : Drafted(r, k, tx'[r][k])
         /\ IngestRows(r) \subseteq {tx'[r][k].row : k \in {l \in DOMAIN tx'[r] : l[1] = "call"}}
<1> DEFINE project == ProjectRow(who[r].org, job[r].slug)
           n == Len(job[r].calls)
           calls == {CallRow(project, clock + i) : i \in 1..n}
           rows == [k \in {RunRow(job[r].run)} \cup calls |->
                     IF k \in calls THEN CallOf(r, k[3] - clock) ELSE RunOf(r, project)]
<1>1. project = IngestProject(r) /\ project[2] = who[r].org
  BY DEF Identified, IngestProject, ProjectRow
<1>2. tx'[r] = rows
  BY Zenon DEF InsertCalls, Types
<1>3. n \in Nat /\ DOMAIN job[r].calls = 1..n
  <2>1. Kind(r) = "ingest"
    BY DEF InsertCalls, At
  <2>2. job[r].calls \in Seq({job[r].calls[i] : i \in DOMAIN job[r].calls})
    <3>1. PICK s \in Scenario : job = s.job
      BY DEF Types
    <3>2. s.job[r].kind = "ingest" => s.job[r].calls \in Seq({s.job[r].calls[i] : i \in DOMAIN s.job[r].calls})
      BY Zenon, IngestsApart
    <3>3. QED
      BY <2>1, <3>1, <3>2 DEF Kind
  <2>3. QED
    BY <2>2
<1>4. clock \in Int
  BY DEF Types
<1>5. \A i \in 1..n : CallRow(project, clock + i)[3] - clock = i
  BY <1>3, <1>4 DEF CallRow
<1>6. RunRow(job[r].run) \notin calls
  BY DEF RunRow, CallRow
<1>7. ASSUME NEW i \in 1..n
      PROVE  LET k == CallRow(project, clock + i)
             IN  k \in DOMAIN tx'[r] /\ tx'[r][k] = CallOf(r, i)
  BY <1>2, <1>5, <1>7
<1>8. ASSUME NEW k \in DOMAIN tx'[r]
      PROVE  Drafted(r, k, tx'[r][k])
  <2>1. CASE k \in calls
    <3>1. PICK i \in 1..n : k = CallRow(project, clock + i)
      BY <2>1
    <3>2. tx'[r][k] = CallOf(r, i)
      BY <1>7, <3>1
    <3>3. k[1] = "call" /\ k = CallRow(project, tx'[r][k].id) /\ tx'[r][k].id = clock + i
          /\ tx'[r][k].at = mem[r].time /\ tx'[r][k].row = job[r].calls[i].row
      BY <3>1, <3>2 DEF CallRow, CallOf
    <3>4. tx'[r][k].row \in IngestRows(r)
      BY <1>3, <3>1, <3>3 DEF IngestRows
    <3>5. clock + i \in Int
      BY <1>3, <1>4
    <3> HIDE DEF project, n, calls, rows
    <3>6. QED
      BY <1>1, <3>3, <3>4, <3>5 DEF Drafted
  <2>2. CASE k = RunRow(job[r].run)
    <3>1. tx'[r][k] = RunOf(r, project)
      BY <1>2, <1>6, <2>2
    <3>2. /\ tx'[r][k].org = who[r].org /\ tx'[r][k].project = project /\ tx'[r][k].at = mem[r].time
          /\ tx'[r][k].source = "cli" /\ DOMAIN tx'[r][k].rows = IngestRows(r)
      BY <3>1 DEF RunOf, IngestRows
    <3>3. k[1] = "run"
      BY <2>2 DEF RunRow
    <3> HIDE DEF project, n, calls, rows
    <3>4. QED
      BY <1>1, <3>2, <3>3 DEF Drafted
  <2>3. QED
    BY <1>2, <1>8, <2>1, <2>2
<1>9. ASSUME NEW row \in IngestRows(r)
      PROVE  row \in {tx'[r][k].row : k \in {l \in DOMAIN tx'[r] : l[1] = "call"}}
  <2>1. PICK i \in 1..n : row = job[r].calls[i].row
    BY <1>3 DEF IngestRows
  <2>2. CallOf(r, i).row = row
    BY <2>1 DEF CallOf
  <2>3. CallRow(project, clock + i)[1] = "call"
    BY DEF CallRow
  <2>4. QED
    BY <1>7, <2>1, <2>2, <2>3
<1>10. QED
  BY <1>8, <1>9

\* The project that a slug stands for.
ProjectsNamed(slug) == {k \in DOMAIN db : k[1] = "project" /\ k[3] = slug}

ResolvesTo(r, slug, p) ==
  LET own == ProjectRow(who[r].org, slug)
      all == ProjectsNamed(slug)
  IN  /\ own \in DOMAIN db => p = own
      /\ own \notin DOMAIN db /\ who[r].admin /\ all # {} =>
           p \in all /\ \A l \in all : db[p].created <= db[l].created
      /\ own \notin DOMAIN db /\ ~(who[r].admin /\ all # {}) => p = None

LEMMA ResolveIs ==
  ASSUME ShapeInv, NEW r \in Request, DOMAIN tx[r] = {}, NEW slug
  PROVE  ResolvesTo(r, slug, Resolve(r, slug))
<1> DEFINE own == ProjectRow(who[r].org, slug)
           all == ProjectsNamed(slug)
           R == {x \in all \X all : db[x[1]].created < db[x[2]].created}
<1>1. \A k : (Has(r, k) <=> k \in DOMAIN db) /\ Row(r, k) = db[k]
  BY DEF Has, Row
<1>2. Keys(r) = DOMAIN db
  BY <1>1 DEF Keys
<1>3. all = {k \in Keys(r) : k[1] = "project" /\ k[3] = slug}
  BY <1>2 DEF ProjectsNamed
<1>4. \A k \in all : db[k].created \in Int
  BY DEF ShapeInv, WellFormed, ProjectsNamed
<1>5. IsFiniteSet(all)
  BY Shaped, FS_Subset DEF RunsStored, ProjectsNamed
<1>6. ASSUME all # {} PROVE \E k \in all : \A l \in all : db[k].created <= db[l].created
  <2>1. \A x, y \in all : <<x, y>> \in R <=> db[x].created < db[y].created
    OBVIOUS
  <2> HIDE DEF R, all
  <2>2. \A x \in all : <<x, x>> \notin R
    BY <1>4, <2>1
  <2>3. \A x, y, z \in all : <<x, y>> \in R /\ <<y, z>> \in R => <<x, z>> \in R
    BY <1>4, <2>1
  <2>4. PICK k \in all : \A l \in all : <<l, k>> \notin R
    BY <1>5, <1>6, <2>2, <2>3, SomeFirst
  <2>5. ASSUME NEW l \in all PROVE db[k].created <= db[l].created
    <3>1. ~(db[l].created < db[k].created)
      BY <2>1, <2>4
    <3>2. db[l].created \in Int /\ db[k].created \in Int
      BY <1>4
    <3>3. QED
      BY <3>1, <3>2
  <2>6. QED
    BY <2>5
<1>7. CASE own \in DOMAIN db
  BY <1>1, <1>7 DEF Resolve, ResolvesTo
<1>8. CASE own \notin DOMAIN db /\ who[r].admin /\ all # {}
  <2> DEFINE Oldest(k) == \A l \in all : Row(r, k).created <= Row(r, l).created
             p == CHOOSE k \in all : Oldest(k)
  <2>1. Resolve(r, slug) = p
    BY <1>1, <1>3, <1>8, Zenon DEF Resolve
  <2>2. \E k \in all : Oldest(k)
    BY <1>1, <1>6, <1>8
  <2>3. p \in all /\ Oldest(p)
    <3> HIDE DEF Oldest, all
    <3>1. QED
      BY <2>2
  <2>4. \A l \in all : db[p].created <= db[l].created
    BY <1>1, <2>3
  <2> HIDE DEF p
  <2>5. QED
    BY <1>8, <2>1, <2>3, <2>4 DEF ResolvesTo
<1>9. CASE own \notin DOMAIN db /\ ~(who[r].admin /\ all # {})
  <2>1. Resolve(r, slug) = None
    BY <1>1, <1>3, <1>9, Zenon DEF Resolve
  <2>2. QED
    BY <1>9, <2>1 DEF ResolvesTo
<1>10. QED
  BY <1>7, <1>8, <1>9

ResolvesAll ==
  \A r \in Request : DOMAIN tx[r] = {} => ResolvesTo(r, job[r].slug, Resolve(r, job[r].slug))

LEMMA ResolvesNow == ShapeInv => ResolvesAll
BY ResolveIs DEF ResolvesAll

LEMMA ResolvesNext == ShapeInv' => ResolvesAll'
BY ResolvesNow, PTL

LEMMA Resolved ==
  ASSUME ShapeInv, NEW r \in Request, DOMAIN tx[r] = {}, NEW slug, Resolve(r, slug) # None
  PROVE  LET p == Resolve(r, slug)
             own == ProjectRow(who[r].org, slug)
         IN  /\ p \in DOMAIN db /\ p[1] = "project"
             /\ own \in DOMAIN db => p = own
             /\ ~who[r].admin => p = own
<1>1. ResolvesTo(r, slug, Resolve(r, slug))
  BY ResolveIs
<1>2. ProjectRow(who[r].org, slug)[1] = "project"
  BY DEF ProjectRow
<1>3. QED
  BY <1>1, <1>2 DEF ResolvesTo, ProjectsNamed

LEMMA DraftedNow ==
  ASSUME ShapeInv, NEW r \in Request, Moves(r)
  PROVE  /\ job' = job /\ Kind(r)' = Kind(r) /\ IngestRows(r)' = IngestRows(r) /\ Grows
         /\ \A k, row : /\ Drafted(r, k, row)
                        /\ k[1] \in {"run", "call"} => KeyRow(job[r].key) \in DOMAIN db
                        => Drafted(r, k, row)'
         /\ Kind(r) = "ingest" =>
              /\ KeyRow(job[r].key) \in DOMAIN db' /\ IngestProject(r)' = IngestProject(r)
              /\ IngestProject(r) \in DOMAIN db'
<1>1. Grows /\ Rest(r) /\ Drafting(r)
  BY Shaped, MovesGrow, MovesRest DEF ShapeInv, Drafts
<1>2. job' = job /\ Kind(r)' = Kind(r) /\ IngestRows(r)' = IngestRows(r)
  BY <1>1 DEF Rest, Kind, IngestRows
<1>3. \A k, row : /\ Drafted(r, k, row)
                  /\ k[1] \in {"run", "call"} => KeyRow(job[r].key) \in DOMAIN db
                  => Drafted(r, k, row)'
  BY <1>1, <1>2, DraftedStays
<1>4. Kind(r) = "ingest" =>
        /\ KeyRow(job[r].key) \in DOMAIN db' /\ IngestProject(r)' = IngestProject(r)
        /\ IngestProject(r) \in DOMAIN db'
  BY <1>1, <1>2 DEF Drafting, Grows, SameOwner, IngestProject, KeyRow, ProjectRow
<1>5. QED
  BY <1>1, <1>2, <1>3, <1>4

\* A step that writes nothing leaves what is drafted.
LEMMA NoMoreDrafted ==
  ASSUME ShapeInv, NEW r \in Request, Moves(r), tx'[r] \in {tx[r], NoTx}
  PROVE  CallsWritten(r)' /\ \A k \in DOMAIN tx'[r] : Drafted(r, k, tx[r][k])'
<1>1. Drafts(r)
  BY DEF ShapeInv
<1>2. CallsWritten(r)'
  BY <1>1, NoKeys, DraftedNow DEF Drafts, CallsWritten
<1>3. ASSUME NEW k \in DOMAIN tx'[r] PROVE Drafted(r, k, tx[r][k])'
  <2>1. k \in DOMAIN tx[r] /\ tx'[r] = tx[r]
    BY <1>3, NoKeys
  <2>2. Drafted(r, k, tx[r][k])
    BY <1>1, <2>1 DEF Drafts
  <2>3. k[1] \in {"run", "call"} => KeyRow(job[r].key) \in DOMAIN db
    BY <1>1, <2>1, Shaped, RunsWritten DEF Drafts, Drafting
  <2>4. \A x : Drafted(r, k, x) => Drafted(r, k, x)'
    BY <2>3, DraftedNow
  <2>5. QED
    BY <2>1, <2>2, <2>4 DEF Drafted
<1>4. QED
  BY <1>2, <1>3

\* Who writes configs, runs and calls.
TagsApart ==
  \A r \in Request : Kind(r) \notin {"push_config", "ingest"} =>
    \A k \in DOMAIN tx[r] : k[1] \notin {"config", "run", "call"}

LEMMA TagsAre == Basis => TagsApart
<1> SUFFICES ASSUME Basis, NEW r \in Request, Kind(r) \notin {"push_config", "ingest"}, NEW k \in DOMAIN tx[r]
             PROVE  k[1] \notin {"config", "run", "call"}
  BY DEF TagsApart
<1>1. Written(r, k, tx[r][k])
  BY DEF Basis
<1>2. QED
  BY <1>1, Tags DEF Written, Creators, Curators

LEMMA TagsAreNext == Basis' => TagsApart'
BY TagsAre, PTL

LEMMA OtherKindsDraft ==
  ASSUME ShapeInv, NEW r \in Request, Moves(r), Kind(r) \notin {"push_config", "ingest"}
  PROVE  Drafts(r)'
<1>1. Kind(r)' = Kind(r)
  BY DraftedNow
<1>2. Drafting(r)' /\ CallsWritten(r)'
  BY <1>1 DEF Drafting, CallsWritten
<1>3. Basis'
  BY Shaped, BasisKept
<1>4. \A k \in DOMAIN tx'[r] : Drafted(r, k, tx[r][k])'
  BY <1>1, <1>3, TagsAreNext DEF TagsApart, Drafted
<1>5. QED
  BY <1>2, <1>4 DEF Drafts

LEMMA ServedDrafts ==
  ASSUME ShapeInv, NEW r \in Request, Served(r), Kind(r) \in {"push_config", "ingest"}
  PROVE  Drafts(r)'
<1>1. Acts(r) /\ Moves(r) /\ Types
  BY Shaped, ActionsMove DEF Acts
<1>2. tx'[r] \in {tx[r], NoTx}
  BY Shaped, ServedTurn DEF Sends, Quiet, Fails, Replies, Commits, Dies, Types
<1>3. Identified(r) /\ who'[r] = who[r] => Identified(r)'
  BY <1>1, DraftedNow, IdentifiedStays
<1>4. Drafting(r)
  BY DEF ShapeInv, Drafts
<1>5. pc'[r] \in {"touch", "begin"} => Identified(r)'
  BY <1>1, <1>3, <1>4, ServedIdentifies DEF Drafting
<1>6. pc'[r] # "insert"
  BY <1>1, ServedIdentifies
<1>7. Drafting(r)'
  BY <1>1, <1>5, <1>6, DraftedNow DEF Drafting
<1>8. QED
  BY <1>1, <1>2, <1>7, NoMoreDrafted DEF Drafts

LEMMA PushDrafts ==
  ASSUME ShapeInv, NEW r \in Request, Acts(r), Kind(r) = "push_config"
  PROVE  Drafts(r)'
<1>1. Moves(r) /\ Types /\ Placed(r) /\ Drafting(r) /\ Grows /\ Kind(r)' = Kind(r) /\ job' = job
  BY Shaped, ActionsMove, DraftedNow DEF Acts, Basis, ShapeInv, Drafts
<1>2. Served(r) \/ SelectConfig(r) \/ InsertConfig(r) \/ PushAgain(r)
  BY <1>1, Kinds DEF Acts, Tenancies, Configs, Placed, Creators, Curators
<1>3. CASE Served(r)
  BY <1>3, ServedDrafts
<1>4. CASE PushAgain(r)
  <2>1. pc'[r] = "idle" /\ tx' = tx
    BY <1>1, <1>4 DEF PushAgain, Goto, Types
  <2>2. Drafting(r)'
    BY <1>1, <2>1 DEF Drafting
  <2>3. QED
    BY <1>1, <2>1, <2>2, NoMoreDrafted DEF Drafts
<1>5. CASE SelectConfig(r)
  <2> DEFINE project == Resolve(r, job[r].slug)
             k == ConfigRow(project, job[r].config)
  <2>1. pc[r] = "begin" /\ DOMAIN tx[r] = {}
    BY <1>1, <1>5, NothingWritten DEF SelectConfig, Begin, Step, Booting
  <2>2. Identified(r)
    BY <1>1, <2>1 DEF Drafting
  <2>3. CASE project = None \/ ~ProxyEssentialShape(job[r].config)
    <3>1. \E code : Refuse(r, code)
      BY <1>5, <2>3 DEF SelectConfig
    <3>2. pc'[r] = "done" /\ tx'[r] = NoTx
      BY <1>1, <3>1 DEF Refuse, Goto, Types
    <3>3. Drafting(r)'
      BY <1>1, <3>2 DEF Drafting
    <3>4. QED
      BY <1>1, <3>2, <3>3, NoMoreDrafted DEF Drafts
  <2>4. CASE project # None /\ ProxyEssentialShape(job[r].config)
    <3>1. tx' = tx /\ who' = who
      BY <1>5, <2>4 DEF SelectConfig, Unchanged
    <3>2. CASE Has(r, k)
      <4>1. pc'[r] = "reply"
        BY <1>1, <1>5, <2>4, <3>2 DEF SelectConfig, Return, Goto, Types
      <4>2. Drafting(r)'
        BY <1>1, <4>1 DEF Drafting
      <4>3. QED
        BY <1>1, <3>1, <4>2, NoMoreDrafted DEF Drafts
    <3>3. CASE ~Has(r, k)
      <4> HIDE DEF k
      <4>1. mem' = [mem EXCEPT ![r].time = clock + 1, ![r].seen = <<k>>] /\ pc'[r] = "insert"
        BY <1>1, <1>5, <2>4, <3>3 DEF SelectConfig, Goto, Types, k
      <4>2. DOMAIN mem = Request /\ DOMAIN mem[r] = DOMAIN NoMem
        BY <1>1 DEF Types
      <4>3. mem'[r].seen = <<k>> /\ mem'[r].time = clock + 1
        BY <4>1, <4>2 DEF NoMem
      <4>4. clock + 1 \in Int
        BY <1>1 DEF Types
      <4>5. k[1] = "config" /\ k[2] = project /\ k[3] = job[r].config
        BY DEF k, ConfigRow
      <4>6. project \in DOMAIN db /\ project[1] = "project"
        BY <2>1, <2>4, Resolved
      <4> HIDE DEF project
      <4>7. project \in DOMAIN db'
        BY <1>1, <4>6 DEF Grows
      <4>8. Identified(r)'
        BY <1>1, <2>2, <3>1, IdentifiedStays
      <4>9. mem'[r].seen[1] = k
        BY <4>3
      <4>10. ProxyEssentialShape(k[3])
        BY <2>4, <4>5
      <4>11. Drafting(r)'
        BY <1>1, <4>3, <4>4, <4>5, <4>6, <4>7, <4>8, <4>9, <4>10 DEF Drafting
      <4>12. QED
        BY <1>1, <3>1, <4>11, NoMoreDrafted DEF Drafts
    <3>4. QED
      BY <3>2, <3>3
  <2>5. QED
    BY <2>3, <2>4
<1>6. CASE InsertConfig(r)
  <2> DEFINE k == mem[r].seen[1]
             row == [id |-> clock + 1, at |-> mem[r].time, by |-> r]
  <2>1. pc[r] = "insert" /\ DOMAIN tx[r] = {} /\ pc'[r] = "reply"
    BY <1>1, <1>6, NothingWritten DEF InsertConfig, At, Step, Booting, Return, Goto, Types
  <2>2. Drafting(r)'
    BY <1>1, <2>1 DEF Drafting
  <2>3. CASE tx' = tx
    BY <1>1, <2>2, <2>3, NoMoreDrafted DEF Drafts
  <2>4. CASE Write(r, k, row)
    <3>1. DOMAIN tx'[r] = {k} /\ tx'[r][k] = row
      BY <1>1, <2>1, <2>4, OneRow
    <3>2. row.at = mem[r].time /\ row.id = clock + 1 /\ clock + 1 \in Int
      BY <1>1 DEF Types
    <3>3. k[1] = "config" /\ k[2] \in DOMAIN db /\ k[2][1] = "project" /\ ProxyEssentialShape(k[3]) /\ mem[r].time \in Int
      BY <1>1, <2>1 DEF Drafting
    <3> HIDE DEF k, row
    <3>4. Drafted(r, k, row)
      BY <3>2, <3>3 DEF Drafted
    <3>5. k[1] \notin {"run", "call"}
      BY <3>3
    <3>6. \A l, x : Drafted(r, l, x) /\ l[1] \notin {"run", "call"} => Drafted(r, l, x)'
      BY <1>1, DraftedNow
    <3>7. \A l \in DOMAIN tx'[r] : Drafted(r, l, tx[r][l])'
      <4>1. SUFFICES ASSUME NEW l \in DOMAIN tx'[r] PROVE Drafted(r, l, tx[r][l])'
        OBVIOUS
      <4>2. Drafted(r, l, tx'[r][l]) /\ l[1] \notin {"run", "call"}
        BY <3>1, <3>4, <3>5
      <4>3. QED
        BY <1>1, <4>2, <3>6, Zenon DEF Drafted, Grows
    <3>8. CallsWritten(r)'
      BY <1>1 DEF CallsWritten
    <3>9. QED
      BY <2>2, <3>7, <3>8 DEF Drafts
  <2>5. QED
    BY <1>6, <2>3, <2>4 DEF InsertConfig
<1>7. QED
  BY <1>2, <1>3, <1>4, <1>5, <1>6

LEMMA IngestDrafts ==
  ASSUME ShapeInv, NEW r \in Request, Acts(r), Kind(r) = "ingest"
  PROVE  Drafts(r)'
<1>1. /\ Moves(r) /\ Types /\ Placed(r) /\ Drafting(r) /\ Grows
      /\ Kind(r)' = Kind(r) /\ job' = job /\ IngestRows(r)' = IngestRows(r)
  BY Shaped, ActionsMove, DraftedNow DEF Acts, Basis, ShapeInv, Drafts
<1>2. Served(r) \/ StampCalls(r) \/ InsertCalls(r)
  <2>1. Served(r) \/ Calls(r)
    BY <1>1, Kinds DEF Acts, Tenancies, Configs, Placed, Creators, Curators
  <2>2. ~ReadPage(r)
    BY DEF ReadPage, Begin
  <2>3. QED
    BY <2>1, <2>2 DEF Calls
<1>3. CASE Served(r)
  BY <1>3, ServedDrafts
<1>4. CASE StampCalls(r)
  <2>1. pc[r] = "begin" /\ tx' = tx /\ who' = who /\ mem' = [mem EXCEPT ![r].time = clock + 1]
    BY <1>4 DEF StampCalls, Begin, Step, Unchanged
  <2>2. Identified(r)'
    BY <1>1, <2>1, IdentifiedStays DEF Drafting
  <2>3. mem'[r].time = clock + 1 /\ clock + 1 \in Int
    BY <1>1, <2>1 DEF Types, NoMem
  <2>4. Drafting(r)'
    BY <1>1, <2>2, <2>3, DraftedNow DEF Drafting
  <2>5. QED
    BY <1>1, <2>1, <2>4, NoMoreDrafted DEF Drafts
<1>5. CASE InsertCalls(r)
  <2>1. pc[r] = "insert" /\ pc'[r] = "reply" /\ db' = db
    BY <1>1, <1>5 DEF InsertCalls, At, Step, Return, Goto, Types, Unchanged
  <2>2. Identified(r) /\ mem[r].time \in Int /\ KeyRow(job[r].key) \in DOMAIN db
    BY <1>1, <2>1 DEF Drafting
  <2>3. /\ \A k \in DOMAIN tx'[r] : Drafted(r, k, tx'[r][k])
        /\ IngestRows(r) \subseteq {tx'[r][k].row : k \in {l \in DOMAIN tx'[r] : l[1] = "call"}}
    BY <1>1, <1>5, <2>2, InsertCallsDrafts
  <2>4. Drafting(r)'
    BY <1>1, <2>1, DraftedNow DEF Drafting
  <2>5. CallsWritten(r)'
    BY <1>1, <2>3 DEF CallsWritten
  <2>6. \A k, row : Drafted(r, k, row) => Drafted(r, k, row)'
    BY <1>1, <2>2, DraftedNow
  <2>7. \A k \in DOMAIN tx'[r] : Drafted(r, k, tx[r][k])'
    <3>1. SUFFICES ASSUME NEW k \in DOMAIN tx'[r] PROVE Drafted(r, k, tx[r][k])'
      OBVIOUS
    <3>2. Drafted(r, k, tx'[r][k])
      BY <2>3
    <3>3. QED
      BY <3>2, <2>6, Zenon DEF Drafted
  <2>8. QED
    BY <2>4, <2>5, <2>7 DEF Drafts
<1>6. QED
  BY <1>2, <1>3, <1>4, <1>5

LEMMA DraftsKept ==
  ASSUME ShapeInv, NEW r \in Request, Acts(r), NEW q \in Request
  PROVE  Drafts(q)'
<1>1. Moves(r)
  BY Shaped, ActionsMove DEF Acts
<1>2. QED
  BY <1>1, OthersDraft, PushDrafts, IngestDrafts, OtherKindsDraft

\* A project that is written has a new timestamp.
LEMMA ProjectsStamp ==
  ASSUME ShapeInv, NEW r \in Request, Acts(r)
  PROVE  \/ tx'[r] \in {tx[r], NoTx}
         \/ \A k \in DOMAIN tx'[r] : k[1] # "project"
         \/ \E p : /\ DOMAIN tx'[r] = DOMAIN tx[r] \cup {p}
                   /\ \A k \in DOMAIN tx[r] : k # p => tx'[r][k] = tx[r][k]
                   /\ p[1] # "project" \/ (tx'[r][p].created = clock + 1 /\ clock' = clock + 1)
<1> DEFINE Extends(p, row) ==
             /\ DOMAIN tx'[r] = DOMAIN tx[r] \cup {p}
             /\ \A k \in DOMAIN tx[r] : k # p => tx'[r][k] = tx[r][k]
             /\ tx'[r][p] = row
<1>1. Types /\ Moves(r) /\ Placed(r)
  BY Shaped, ActionsMove DEF Acts, Basis
<1>2. \A p, row : Write(r, p, row) => Extends(p, row)
  <2>1. SUFFICES ASSUME NEW p, NEW row, Write(r, p, row) PROVE Extends(p, row)
    OBVIOUS
  <2>2. tx'[r] = [l \in DOMAIN tx[r] \cup {p} |-> IF l = p THEN row ELSE tx[r][l]]
    BY <1>1, <2>1 DEF Write, Types
  <2>3. QED
    BY <2>2
<1>3. CASE InsertNew(r)
  <2>1. Refuse(r, 409) \/ (Write(r, NewRow(r), [created |-> clock + 1, by |-> r]) /\ clock' = clock + 1)
    BY <1>3 DEF InsertNew
  <2>2. Refuse(r, 409) => tx'[r] = NoTx
    BY <1>1 DEF Refuse, Types
  <2>3. \A row : Write(r, NewRow(r), row) => Extends(NewRow(r), row)
    BY <1>2
  <2>4. QED
    BY <2>1, <2>2, <2>3
<1>4. CASE BootInsert(r)
  <2> DEFINE p == BootRows(r)[mem[r].id]
             row == BootRow(r, mem[r].id)
  <2>1. Refuse(r, 500) \/ (Write(r, p, row) /\ clock' = clock + 1)
    BY <1>4 DEF BootInsert
  <2>2. Refuse(r, 500) => tx'[r] = NoTx
    BY <1>1 DEF Refuse, Types
  <2>3. CASE mem[r].id = 3
    <3>1. p[1] = "project" => FALSE
      BY <2>3, Tags
    <3>2. Write(r, p, row) => Extends(p, row)
      BY <1>2
    <3> HIDE DEF p, row
    <3>3. QED
      BY <2>1, <2>2, <3>1, <3>2
  <2>4. CASE mem[r].id # 3
    <3>1. row.created = clock + 1
      BY <2>4 DEF BootRow
    <3>2. Write(r, p, row) => Extends(p, row)
      BY <1>2
    <3> HIDE DEF p, row
    <3>3. QED
      BY <2>1, <2>2, <3>1, <3>2
  <2>5. QED
    BY <2>3, <2>4
<1>5. CASE ~InsertNew(r) /\ ~BootInsert(r)
  <2>1. CASE Kind(r) \in Creators \cup {"boot"}
    <3>1. tx'[r] \in {tx[r], NoTx}
      <4>1. Served(r) \/ SelectOrg(r) \/ SelectProject(r) \/ Boot(r) \/ Ensure(r)
        BY <1>1, <1>5, <2>1, Kinds DEF Acts, Tenancies, Configs, Creators, Curators
      <4>2. CASE Served(r)
        BY <1>1, <4>2, Shaped, ServedTurn DEF Sends, Quiet, Fails, Replies, Commits, Dies
      <4>3. CASE SelectOrg(r) \/ SelectProject(r) \/ Boot(r)
        BY <1>1, <4>3, TenanciesTurn DEF Quiet, Fails
      <4>4. CASE Ensure(r)
        BY <1>1, <4>4, EnsureTurn, Kinds DEF Quiet, Commits, Placed, Booting
      <4>5. QED
        BY <4>1, <4>2, <4>3, <4>4
    <3>2. QED
      BY <3>1
  <2>2. CASE Kind(r) \notin Creators \cup {"boot"}
    <3>1. Basis' /\ Kind(r)' = Kind(r)
      BY <1>1, Shaped, BasisKept, DraftedNow
    <3>2. \A k \in DOMAIN tx'[r] : Written(r, k, tx[r][k])'
      BY <3>1 DEF Basis
    <3>3. \A k \in DOMAIN tx'[r] : k[1] # "project"
      BY <2>2, <3>1, <3>2 DEF Written, Creators, Curators, KeyRow, RunRow
    <3>4. QED
      BY <3>3
  <2>3. QED
    BY <2>1, <2>2
<1>6. QED
  BY <1>3, <1>4, <1>5

LEMMA StampedKept ==
  ASSUME ShapeInv, NEW r \in Request, Acts(r)
  PROVE  Stamped'
<1>1. Types /\ Moves(r) /\ Rest(r) /\ Grows /\ Stamped /\ clock \in Nat
  BY Shaped, ActionsMove, MovesRest, MovesGrow DEF Acts, ShapeInv, Types
<1>2. \A q \in Request \ {r} : tx'[q] = tx[q]
  BY <1>1 DEF Rest
<1>3. \A k \in DOMAIN db' : \/ k \in DOMAIN db /\ (k[1] = "project" => db'[k] = db[k])
                            \/ k \in DOMAIN tx[r] /\ db'[k] = tx[r][k]
  BY <1>1, Shaped, MovesKeep DEF Grows
<1>4. PICK p :
        \/ tx'[r] \in {tx[r], NoTx}
        \/ \A k \in DOMAIN tx'[r] : k[1] # "project"
        \/ /\ DOMAIN tx'[r] = DOMAIN tx[r] \cup {p}
           /\ \A k \in DOMAIN tx[r] : k # p => tx'[r][k] = tx[r][k]
           /\ p[1] # "project" \/ (tx'[r][p].created = clock + 1 /\ clock' = clock + 1)
  BY ProjectsStamp
<1>5. ASSUME NEW k, k[1] = "project", NEW c \in Stamps(k)'
      PROVE  c \in Stamps(k) \/ (k = p /\ c = clock + 1 /\ clock' = clock + 1)
  <2>1. CASE k \in DOMAIN db' /\ c = db'[k].created
    BY <1>3, <1>5, <2>1 DEF Stamps
  <2>2. CASE \E q \in Request \ {r} : k \in DOMAIN tx'[q] /\ c = tx'[q][k].created
    BY <1>2, <2>2 DEF Stamps
  <2>3. CASE k \in DOMAIN tx'[r] /\ c = tx'[r][k].created
    <3>1. CASE tx'[r] \in {tx[r], NoTx}
      BY <2>3, <3>1, NoKeys DEF Stamps
    <3>2. CASE k = p /\ c = clock + 1 /\ clock' = clock + 1
      BY <3>2
    <3>3. CASE k \in DOMAIN tx[r] /\ tx'[r][k] = tx[r][k]
      BY <2>3, <3>3 DEF Stamps
    <3>4. QED
      BY <1>4, <1>5, <2>3, <3>1, <3>2, <3>3
  <2>4. QED
    BY <2>1, <2>2, <2>3 DEF Stamps
<1>6. \A k : Stamps(k) # {} /\ k[1] = "project" => k \in Projects
  BY DEF Stamps, Projects
<1>7. \A k, l : k[1] = "project" /\ l[1] = "project" =>
        \A c \in Stamps(k), d \in Stamps(l) : c \in Int /\ c <= clock /\ (c = d => k = l)
  BY <1>1, <1>6 DEF Stamped
<1>8. clock' \in Nat /\ clock <= clock'
  BY <1>1 DEF Rest
<1>9. ASSUME NEW k, NEW l, k[1] = "project", l[1] = "project", NEW c \in Stamps(k)', NEW d \in Stamps(l)'
      PROVE  c \in Int /\ c <= clock' /\ (c = d => k = l)
  <2>1. c \in Stamps(k) \/ (k = p /\ c = clock + 1 /\ clock' = clock + 1)
    BY <1>5, <1>9
  <2>2. d \in Stamps(l) \/ (l = p /\ d = clock + 1 /\ clock' = clock + 1)
    BY <1>5, <1>9
  <2>3. CASE c \in Stamps(k) /\ d \in Stamps(l)
    BY <1>1, <1>7, <1>8, <1>9, <2>3
  <2>4. CASE c \in Stamps(k) /\ l = p /\ d = clock + 1
    <3>1. c \in Int /\ c <= clock
      BY <1>7, <1>9, <2>4
    <3>2. QED
      BY <1>1, <1>8, <2>4, <3>1
  <2>5. CASE k = p /\ c = clock + 1 /\ clock' = clock + 1
    <3>1. d \in Stamps(l) => d \in Int /\ d <= clock
      BY <1>7, <1>9
    <3>2. QED
      BY <1>1, <2>2, <2>5, <3>1
  <2>6. QED
    BY <2>1, <2>2, <2>3, <2>4, <2>5
<1>10. \A k \in Projects' : k[1] = "project"
  BY DEF Projects
<1>11. QED
  BY <1>9, <1>10 DEF Stamped

\* What a commit adds is well-formed.
LEMMA WellFormedKept ==
  ASSUME ShapeInv, NEW r \in Request, Acts(r), NEW k \in DOMAIN db'
  PROVE  WellFormed(db', k)
<1> DEFINE CallsHere(rows, run) == {c \in DOMAIN rows : c[1] = "call" /\ rows[c].run = run}
<1>1. Types /\ Moves(r) /\ Grows /\ RunsStored /\ Basis /\ StoreInv /\ Drafts(r) /\ Drafting(r) /\ Stamped
  BY Shaped, ActionsMove, MovesGrow DEF Acts, ShapeInv, Drafts
<1>2. CASE k \in DOMAIN db
  <2>1. WellFormed(db, k)
    BY <1>2 DEF ShapeInv
  <2>2. k[1] = "project" => db'[k].created \in Int
    BY <1>1, <1>2, <2>1 DEF Grows, WellFormed
  <2>3. k[1] = "config" => /\ k[2] \in DOMAIN db' /\ k[2][1] = "project" /\ ProxyEssentialShape(k[3])
                           /\ db'[k].at \in Int /\ db'[k].id \in Int
    BY <1>1, <1>2, <2>1 DEF Grows, WellFormed
  <2>4. ASSUME k[1] = "run"
        PROVE  /\ k = RunRow(k[2])
               /\ db'[k].project \in DOMAIN db' /\ db'[k].project[1] = "project" /\ db'[k].project[2] = db'[k].org
               /\ db'[k].at \in Int
               /\ IF db'[k].source = "live" THEN DOMAIN db'[k].rows = {}
                  ELSE DOMAIN db'[k].rows = {db'[l].row : l \in {c \in DOMAIN db' : c[1] = "call" /\ db'[c].run = k[2]}}
    <3>1. db'[k] = db[k] /\ k = RunRow(k[2])
      BY <1>1, <1>2, <2>1, <2>4 DEF Grows, WellFormed
    <3>2. db[k].project \in DOMAIN db'
      BY <1>1, <2>1, <2>4 DEF Grows, WellFormed
    <3>3. \A c : c \in DOMAIN db' /\ c[1] = "call" /\ db'[c].run = k[2]
                 <=> c \in DOMAIN db /\ c[1] = "call" /\ db[c].run = k[2]
      BY <1>1, <1>2, <3>1 DEF Grows
    <3>4. \A c \in DOMAIN db : c[1] = "call" => db'[c] = db[c]
      BY <1>1 DEF Grows
    <3>5. {db'[l].row : l \in CallsHere(db', k[2])} = {db[l].row : l \in CallsHere(db, k[2])}
      BY <3>3, <3>4
    <3>6. QED
      BY <2>1, <2>4, <3>1, <3>2, <3>5 DEF WellFormed
  <2>5. ASSUME k[1] = "call"
        PROVE  /\ k = CallRow(db'[RunRow(db'[k].run)].project, db'[k].id)
               /\ db'[k].id \in Int /\ (db'[k].at = None \/ db'[k].at \in Int)
    <3>1. db'[k] = db[k] /\ RunRow(db[k].run) \in DOMAIN db /\ RunRow(db[k].run)[1] = "run"
      BY <1>1, <1>2, <2>5, Tags DEF Grows, RunsStored
    <3>2. db'[RunRow(db[k].run)] = db[RunRow(db[k].run)]
      BY <1>1, <3>1 DEF Grows
    <3>3. QED
      BY <2>1, <2>5, <3>1, <3>2 DEF WellFormed
  <2>6. k[1] = "golden" => k = <<"golden", k[2], k[3], k[4]>>
    BY <2>1 DEF WellFormed
  <2>7. QED
    BY <2>2, <2>3, <2>4, <2>5, <2>6 DEF WellFormed
<1>3. CASE k \notin DOMAIN db
  <2>1. k \in DOMAIN tx[r] /\ db'[k] = tx[r][k] /\ Commits(r)
    BY <1>1, <1>3, MovesKeep
  <2>2. Drafted(r, k, tx[r][k])
    BY <1>1, <2>1 DEF Drafts
  <2>3. k[1] = "project" => db'[k].created \in Int
    <3>1. tx[r][k].created \in Stamps(k)
      BY <2>1 DEF Stamps
    <3>2. k[1] = "project" => k \in Projects
      BY <2>1 DEF Projects
    <3>3. QED
      BY <1>1, <2>1, <3>1, <3>2 DEF Stamped
  <2>4. k[1] = "config" => /\ k[2] \in DOMAIN db' /\ k[2][1] = "project" /\ ProxyEssentialShape(k[3])
                           /\ db'[k].at \in Int /\ db'[k].id \in Int
    BY <1>1, <2>1, <2>2 DEF Grows, Drafted
  <2>5. ASSUME k[1] \in {"run", "call"}
        PROVE  /\ Kind(r) = "ingest" /\ IngestProject(r) \in DOMAIN db' /\ IngestProject(r)[1] = "project"
               /\ RunRow(job[r].run) \in DOMAIN tx[r] /\ RunRow(job[r].run) \notin DOMAIN db
               /\ RunRow(job[r].run) \in DOMAIN db'
               /\ \A c \in DOMAIN tx[r] : c[1] \in {"run", "call"} => c \in DOMAIN db' /\ db'[c] = tx[r][c]
               /\ \A c \in DOMAIN tx[r] : c[1] = "call" => tx[r][c].run = job[r].run
    <3>1. Kind(r) = "ingest" /\ RunRow(job[r].run) \in DOMAIN tx[r] /\ RunRow(job[r].run) \notin DOMAIN db
      BY <1>1, <2>1, <2>5, RunsWritten
    <3>2. \A c \in DOMAIN tx[r] : c[1] \in {"run", "call"} => tx[r][c] # Gone
      BY <1>1, RunsWritten
    <3>3. \A c \in DOMAIN tx[r] : c[1] \in {"run", "call"} => c \in DOMAIN db' /\ db'[c] = tx[r][c]
      BY <2>1, <3>2 DEF Commits, Keys, Has, Row
    <3>4. \A c \in DOMAIN tx[r] : c[1] = "call" => tx[r][c].run = job[r].run
      BY <1>1, RunsWritten
    <3>5. IngestProject(r) \in DOMAIN db' /\ IngestProject(r)[1] = "project"
      BY <1>1, <3>1 DEF Drafting, Grows, IngestProject, ProjectRow
    <3>6. QED
      BY <3>1, <3>3, <3>4, <3>5, Tags
  <2>6. ASSUME k[1] = "run"
        PROVE  /\ k = RunRow(k[2])
               /\ db'[k].project \in DOMAIN db' /\ db'[k].project[1] = "project" /\ db'[k].project[2] = db'[k].org
               /\ db'[k].at \in Int
               /\ db'[k].source # "live"
               /\ DOMAIN db'[k].rows = {db'[l].row : l \in {c \in DOMAIN db' : c[1] = "call" /\ db'[c].run = k[2]}}
    <3>1. k = RunRow(job[r].run) /\ k[2] = job[r].run
      BY <1>1, <2>1, <2>6, RunsWritten, Tags
    <3>2. \A c : c \in DOMAIN db' /\ c[1] = "call" /\ db'[c].run = k[2] <=> c \in DOMAIN tx[r] /\ c[1] = "call"
      <4>1. ASSUME NEW c \in DOMAIN db', c[1] = "call", db'[c].run = k[2] PROVE c \in DOMAIN tx[r]
        <5>1. c \in DOMAIN db => db'[c] = db[c] /\ RunRow(db[c].run) \in DOMAIN db
          BY <1>1, <4>1 DEF Grows, RunsStored
        <5>2. c \notin DOMAIN db
          BY <2>5, <2>6, <3>1, <4>1, <5>1
        <5>3. QED
          BY <1>1, <5>2, MovesKeep
      <4>2. QED
        BY <2>5, <2>6, <3>1, <4>1
    <3>3. {db'[l].row : l \in CallsHere(db', k[2])} = {tx[r][l].row : l \in {c \in DOMAIN tx[r] : c[1] = "call"}}
      <4>1. \A l \in DOMAIN tx[r] : l[1] = "call" => db'[l] = tx[r][l]
        BY <2>5, <2>6
      <4>2. QED
        BY <3>2, <4>1
    <3>4. \A l \in DOMAIN tx[r] : l[1] = "call" => tx[r][l].row \in IngestRows(r)
      BY <1>1 DEF Drafts, Drafted
    <3>5. IngestRows(r) \subseteq {tx[r][l].row : l \in {c \in DOMAIN tx[r] : c[1] = "call"}}
      BY <1>1, <2>1, <2>5, <2>6 DEF Drafts, CallsWritten
    <3>6. IngestRows(r) = {tx[r][l].row : l \in {c \in DOMAIN tx[r] : c[1] = "call"}}
      BY <3>4, <3>5
    <3>7. QED
      BY <2>1, <2>2, <2>5, <2>6, <3>1, <3>3, <3>6 DEF Drafted
  <2>7. ASSUME k[1] = "call"
        PROVE  /\ k = CallRow(db'[RunRow(db'[k].run)].project, db'[k].id)
               /\ db'[k].id \in Int /\ (db'[k].at = None \/ db'[k].at \in Int)
    <3>1. db'[k].run = job[r].run
      BY <2>1, <2>5, <2>7
    <3> DEFINE run == RunRow(job[r].run)
    <3>2. run \in DOMAIN tx[r] /\ run[1] = "run"
      BY <2>5, <2>7, Tags
    <3>3. tx[r][run].project = IngestProject(r) /\ db'[run] = tx[r][run]
      BY <1>1, <2>5, <2>7, <3>2 DEF Drafts, Drafted
    <3>4. QED
      BY <2>1, <2>2, <2>7, <3>1, <3>3 DEF Drafted
  <2>8. k[1] = "golden" => k = <<"golden", k[2], k[3], k[4]>>
    <3>1. SUFFICES ASSUME k[1] = "golden" PROVE k = <<"golden", k[2], k[3], k[4]>>
      OBVIOUS
    <3>2. Written(r, k, tx[r][k]) /\ Curating(r)
      BY <1>1, <2>1, Shaped DEF Basis, CurationInv
    <3>3. Curated(r, k, tx[r][k])
      BY <2>1, <3>1, <3>2, Tags DEF Written, Curating
    <3>4. \E a, b, c : k = <<"golden", a, b, c>>
      BY <3>1, <3>3 DEF Curated, GoldenRow, ReviewRow, TargetRow
    <3>5. QED
      BY <3>4
  <2>9. QED
    BY <2>3, <2>4, <2>6, <2>7, <2>8 DEF WellFormed
<1>4. QED
  BY <1>2, <1>3

LEMMA ShapeInvKept == ShapeInv /\ [Next]_vars => ShapeInv'
<1> SUFFICES ASSUME ShapeInv, [Next]_vars PROVE ShapeInv'
  OBVIOUS
<1>1. StoreInv'
  BY StoreInvKept DEF ShapeInv
<1>2. CASE UNCHANGED vars
  <2>1. UNCHANGED <<job, db, tx, pc, who, mem, answer, clock>>
    BY <1>2 DEF vars
  <2>2. Stamped'
    <3>1. Projects' = Projects /\ \A k : Stamps(k)' = Stamps(k)
      BY <2>1 DEF Stamps, Projects
    <3>2. QED
      BY <2>1, <3>1 DEF ShapeInv, Stamped
  <2>3. \A r \in Request : Drafts(r)'
    <3>1. SUFFICES ASSUME NEW r \in Request PROVE Drafts(r)'
      OBVIOUS
    <3>2. IngestProject(r)' = IngestProject(r) /\ IngestRows(r)' = IngestRows(r) /\ Kind(r)' = Kind(r)
      BY <2>1 DEF IngestProject, IngestRows, Kind
    <3>3. Drafts(r)
      BY DEF ShapeInv
    <3>4. Drafting(r)'
      BY <2>1, <3>2, <3>3 DEF Drafts, Drafting, Identified
    <3>5. CallsWritten(r)'
      BY <2>1, <3>2, <3>3 DEF Drafts, CallsWritten
    <3>6. \A k \in DOMAIN tx[r] : Drafted(r, k, tx[r][k])'
      BY <2>1, <3>2, <3>3 DEF Drafts, Drafted
    <3>7. QED
      BY <2>1, <3>4, <3>5, <3>6 DEF Drafts
  <2>4. \A k \in DOMAIN db' : WellFormed(db, k)'
    BY <2>1 DEF ShapeInv, WellFormed
  <2>5. QED
    BY <1>1, <2>2, <2>3, <2>4 DEF ShapeInv
<1>3. ASSUME NEW r \in Request, Acts(r) PROVE ShapeInv'
  <2>1. Stamped'
    BY <1>3, StampedKept
  <2>2. \A q \in Request : Drafts(q)'
    BY <1>3, DraftsKept
  <2>3. \A k \in DOMAIN db' : WellFormed(db, k)'
    BY <1>3, WellFormedKept DEF WellFormed
  <2>4. QED
    BY <1>1, <2>1, <2>2, <2>3 DEF ShapeInv
<1>4. QED
  BY <1>2, <1>3 DEF Next, AllDone, Acts

LEMMA ShapeInvInit == ControlPlaneInit => ShapeInv
<1> SUFFICES ASSUME ControlPlaneInit PROVE ShapeInv
  OBVIOUS
<1>1. StoreInv
  BY StoreInvInit
<1>2. PICK s \in Scenario : job = s.job /\ db = s.db
  BY DEF ControlPlaneInit, TenancyInit
<1>3. /\ \A r \in Request : DOMAIN tx[r] = {} /\ pc[r] = "idle"
      /\ clock = Cardinality(DOMAIN db)
  BY NoKeys DEF ControlPlaneInit, TenancyInit
<1>4. /\ \A k \in DOMAIN db : WellFormed(db, k)
      /\ \A k, l \in {p \in DOMAIN db : p[1] = "project"} :
           db[k].created <= Cardinality(DOMAIN db) /\ (db[k].created = db[l].created => k = l)
  BY <1>2, ListingsAssumption
<1>5. Stamped
  <2>1. Projects = {p \in DOMAIN db : p[1] = "project"}
    BY <1>3 DEF Projects
  <2>2. \A k \in Projects : Stamps(k) = {db[k].created}
    BY <1>3, <2>1 DEF Stamps
  <2>3. \A k \in Projects : db[k].created \in Int
    BY <1>4, <2>1 DEF WellFormed
  <2>4. QED
    BY <1>3, <1>4, <2>1, <2>2, <2>3 DEF Stamped
<1>6. ASSUME NEW r \in Request PROVE Drafts(r)
  <2>1. Kind(r) = "ingest" => KeyRow(job[r].key) \in DOMAIN db /\ IngestProject(r) \in DOMAIN db
    BY <1>2, IngestsApart DEF Kind, IngestProject
  <2>2. QED
    BY <1>3, <2>1 DEF Drafts, Drafting, CallsWritten
<1>7. QED
  BY <1>1, <1>4, <1>5, <1>6 DEF ShapeInv

-----------------------------------------------------------------------------
(* What readers know *)

Told(r) == pc[r] \in {"reply", "commit"} \/ answer[r] = 200

\* The readers whose answers are put together from several statements.
Sequential(r) == Kind(r) = "walk" \/ (Kind(r) = "read" /\ job[r].what = "drift")

\* Where a reader is, and what it knows of itself and of the time it was sent.
Asking(r) ==
  /\ pc[r] \in {"idle", "sent", "touch", "begin", "samples", "reply", "commit", "done"}
  /\ pc[r] = "samples" => Kind(r) = "read" /\ job[r].what = "drift"
  /\ pc[r] \in {"idle", "sent", "touch", "begin"} /\ Kind(r) # "walk" => mem[r].seen = <<>>
  /\ pc[r] \in {"touch", "begin", "samples", "reply", "commit"} \/ answer[r] = 200 \/ mem[r].seen # <<>> =>
       Identified(r)
  /\ Sequential(r) => IsSeq(mem[r].seen)
  /\ \A k \in mem[r].before : k[1] # "golden" => k \in DOMAIN db

ItemsOf(rows) == {rows[i] : i \in DOMAIN rows}

Unchanging == {"org", "project", "config", "run", "call"}

\* The org of an item is that of rows that stay.
Known(item) ==
  \/ item[1] \in Unchanging \cup {"key"} /\ item \in DOMAIN db
  \/ item[1] \in {"review", "golden"} /\ RunRow(item[2]) \in DOMAIN db
  \/ item[1] \in {"asset", "version"}

Theirs(r, item) == Known(item) /\ (~who[r].admin => OrgOf(item) = who[r].org)

\* What is said of an answer with these rows.
RightLatest(r, rows) ==
  LET got == rows[1]
  IN  /\ got \in DOMAIN db /\ got[1] = "config" /\ ProxyEssentialShape(got[3])
      /\ \A k \in mem[r].before : k[1] = "config" /\ k[2] = got[2] => Newer(db[got], db[k])

RightNewest(r, rows) ==
  /\ \A item \in ItemsOf(rows) : item \in DOMAIN db /\ item[1] \in {"run", "config"}
  /\ \A k \in mem[r].before \ ItemsOf(rows) :
       /\ k[1] = (IF job[r].what = "history" THEN "config" ELSE "run")
       /\ OrgOf(k) = who[r].org
       /\ job[r].what = "history" => k[2] = ProjectRow(who[r].org, job[r].slug)
       /\ job[r].what = "days" => db[k].project = ProjectRow(who[r].org, job[r].slug) /\ db[k].source = "live"
       /\ job[r].what = "runs" => job[r].source \in {None, db[k].source}
       => Len(rows) = ListLimit /\ \A item \in ItemsOf(rows) : db[item].at >= db[k].at

RightAssets(r, rows) ==
  /\ \A item \in ItemsOf(rows) : item[6] \in DOMAIN db /\ item[6][1] = "run"
  /\ \A k \in mem[r].before : \A item \in ItemsOf(rows) :
       k[1] = "run" /\ item[2] = db[k].project /\ (\E a \in db[k].assets : a[1] = item[3])
         => db[item[6]].at >= db[k].at

Mine(r, k) == <<"review", db[k].run, db[k].row, who[r].key>>

RightQueue(r, rows) ==
  \A k \in mem[r].before :
    k[1] = "call" /\ db[k].run = job[r].run =>
      IF db[k].passed \/ Mine(r, k) \in mem[r].before THEN k \notin ItemsOf(rows)
      ELSE Mine(r, k) \notin DOMAIN db => k \in ItemsOf(rows) \/ Len(rows) = ListLimit

RightWindow(r, rows) ==
  \A item \in ItemsOf(rows) :
    /\ item \in DOMAIN db /\ item[1] = "call" /\ InWindow(r, db[item])
    /\ RunRow(db[item].run) \in DOMAIN db /\ db[RunRow(db[item].run)].source = "live"
    /\ ~who[r].admin => item[2] = ProjectRow(who[r].org, job[r].slug)

\* All samples of a run are there.
Sampled(run, rows) == \A c \in DOMAIN db : c[1] = "call" /\ db[c].run = run => c \in ItemsOf(rows)

Pair(r) == {job[r].run, job[r].vs}

RightPair(r, rows) ==
  /\ \A run \in Pair(r) : RunRow(run) \in DOMAIN db /\ Member(r, db[RunRow(run)].org)
  /\ \A item \in ItemsOf(rows) : item \in DOMAIN db /\ item[1] = "call" /\ db[item].run \in Pair(r)

Sampling(r, rows) ==
  pc[r] = "samples" =>
    /\ RightPair(r, rows)
    /\ \/ mem[r].todo = <<job[r].run, job[r].vs>>
       \/ mem[r].todo = <<job[r].vs>> /\ Sampled(job[r].run, rows)

RightDrift(r, rows) == RightPair(r, rows) /\ \A run \in Pair(r) : Sampled(run, rows)

RightRead(r, rows) ==
  /\ job[r].what \in {"runs", "days", "history"} => RightNewest(r, rows)
  /\ job[r].what = "assets" => RightAssets(r, rows)
  /\ job[r].what = "queue" => RightQueue(r, rows)
  /\ job[r].what = "window" => RightWindow(r, rows)
  /\ job[r].what = "drift" => RightDrift(r, rows)

\* The calls a walk is for, and those of them that are still to come.
CallsBefore(r) ==
  {k \in mem[r].before : k[1] = "call" /\ k[2] = Resolve(r, job[r].slug) /\ Shown(r, db[k])}

Timely(r) == \A k \in CallsBefore(r) : db[k].at # None

Last(rows) == rows[Len(rows)]

Walks(r) ==
  LET seen == mem[r].seen
  IN  /\ \A i \in DOMAIN seen : seen[i] \in DOMAIN db /\ seen[i][1] = "call"
      /\ \A i, j \in DOMAIN seen : i < j => StreamOrder(db[seen[i]], db[seen[j]])
      /\ pc[r] # "idle" \/ seen # <<>> =>
           \A k \in DOMAIN db : k[1] = "call" /\ db[k].at = None => k \in mem[r].before
      /\ pc[r] \in {"idle", "sent", "touch", "begin"} /\ seen # <<>> /\ Timely(r) =>
           \A k \in CallsBefore(r) : k \in ItemsOf(seen) \/ PastCursor(Cursor(db[Last(seen)]), db[k])
      /\ Told(r) /\ Timely(r) => CallsBefore(r) \subseteq ItemsOf(seen)

\* Of an answer with these rows.
RightAnswer(r, rows) ==
  /\ Kind(r) \in {"get_config", "invoke"} => RightLatest(r, rows)
  /\ Kind(r) = "read" => RightRead(r, rows)

Right(r, rows) ==
  /\ \A item \in ItemsOf(rows) : Theirs(r, item)
  /\ Told(r) => RightAnswer(r, rows)

Asks(r) ==
  Kind(r) \in Readers =>
    /\ Asking(r)
    /\ \A rows \in {mem[r].seen} : Right(r, rows) /\ Sampling(r, rows)
    /\ Kind(r) = "walk" => Walks(r)

ReadsInv == ShapeInv /\ \A r \in Request : Asks(r)

\* Calls that are ingested have timestamps.
LEMMA NewCallsTimed ==
  ASSUME ShapeInv, NEW r \in Request, Moves(r)
  PROVE  \A k \in DOMAIN db' \ DOMAIN db : k[1] = "call" => db'[k].at \in Int
<1> SUFFICES ASSUME NEW k \in DOMAIN db' \ DOMAIN db, k[1] = "call" PROVE db'[k].at \in Int
  OBVIOUS
<1>1. k \in DOMAIN tx[r] /\ db'[k] = tx[r][k]
  BY Shaped, MovesKeep
<1>2. Drafted(r, k, tx[r][k])
  BY <1>1 DEF ShapeInv, Drafts
<1>3. QED
  BY <1>1, <1>2 DEF Drafted

\* A reader q goes on knowing what it knows.
Same(q) == job' = job /\ who'[q] = who[q] /\ mem'[q].before = mem[q].before

Stored(q) == \A k \in mem[q].before : k[1] # "golden" => k \in DOMAIN db

LEMMA KnownStays ==
  ASSUME Grows, NEW item, Known(item)
  PROVE  Known(item)' /\ OrgOf(item)' = OrgOf(item)
<1>1. CASE item[1] \in Unchanging \cup {"key"} /\ item \in DOMAIN db
  <2>1. db'[item].org = db[item].org \/ item[1] \notin {"key", "run"}
    BY <1>1 DEF Grows, Unchanging, SameOwner
  <2>2. item \in DOMAIN db'
    BY <1>1 DEF Grows, Unchanging
  <2>3. OrgOf(item)' = OrgOf(item)
    BY <1>1, <2>1 DEF OrgOf, Unchanging
  <2>4. QED
    BY <1>1, <2>2, <2>3 DEF Known
<1>2. CASE item[1] \in {"review", "golden"} /\ RunRow(item[2]) \in DOMAIN db
  <2>1. RunRow(item[2]) \in DOMAIN db' /\ db'[RunRow(item[2])] = db[RunRow(item[2])]
    BY <1>2 DEF Grows, RunRow
  <2>2. OrgOf(item)' = OrgOf(item)
    BY <1>2, <2>1 DEF OrgOf
  <2>3. QED
    BY <1>2, <2>1, <2>2 DEF Known
<1>3. CASE item[1] \in {"asset", "version"}
  BY <1>3 DEF Known, OrgOf
<1>4. QED
  BY <1>1, <1>2, <1>3 DEF Known

LEMMA TheirsStays ==
  ASSUME Grows, NEW q \in Request, Same(q), NEW item, Theirs(q, item)
  PROVE  Theirs(q, item)'
BY KnownStays DEF Theirs, Same

LEMMA LatestStays ==
  ASSUME Grows, NEW q \in Request, Same(q), Stored(q), NEW rows, RightLatest(q, rows)
  PROVE  RightLatest(q, rows)'
<1>1. \A k \in DOMAIN db : k[1] = "config" => k \in DOMAIN db' /\ db'[k] = db[k]
  BY DEF Grows
<1>2. QED
  BY <1>1 DEF RightLatest, Same, Stored

LEMMA NewestStays ==
  ASSUME Grows, NEW q \in Request, Same(q), Stored(q), NEW rows, RightNewest(q, rows)
  PROVE  RightNewest(q, rows)'
<1>1. \A k \in DOMAIN db : k[1] \in {"run", "config"} =>
        k \in DOMAIN db' /\ db'[k] = db[k] /\ OrgOf(k)' = OrgOf(k)
  <2>1. SUFFICES ASSUME NEW k \in DOMAIN db, k[1] \in {"run", "config"}
                 PROVE  k \in DOMAIN db' /\ db'[k] = db[k] /\ OrgOf(k)' = OrgOf(k)
    OBVIOUS
  <2>2. Known(k)
    BY <2>1 DEF Known, Unchanging
  <2>3. QED
    BY <2>1, <2>2, KnownStays DEF Grows
<1>2. \A item \in ItemsOf(rows) : item \in DOMAIN db /\ item[1] \in {"run", "config"}
  BY DEF RightNewest
<1>3. \A item \in ItemsOf(rows) : item \in DOMAIN db' /\ db'[item] = db[item]
  BY <1>1, <1>2
<1>4. \A k \in mem[q].before : k[1] \in {"run", "config"} =>
        k \in DOMAIN db' /\ db'[k] = db[k] /\ OrgOf(k)' = OrgOf(k)
  BY <1>1 DEF Stored
<1>5. mem'[q].before = mem[q].before /\ job' = job /\ who'[q] = who[q]
  BY DEF Same
<1>6. ASSUME NEW k \in mem[q].before \ ItemsOf(rows),
             k[1] = (IF job[q].what = "history" THEN "config" ELSE "run"),
             OrgOf(k)' = who[q].org,
             job[q].what = "history" => k[2] = ProjectRow(who[q].org, job[q].slug),
             job[q].what = "days" => db'[k].project = ProjectRow(who[q].org, job[q].slug) /\ db'[k].source = "live",
             job[q].what = "runs" => job[q].source \in {None, db'[k].source}
      PROVE  Len(rows) = ListLimit /\ \A item \in ItemsOf(rows) : db'[item].at >= db'[k].at
  <2>1. k[1] \in {"run", "config"}
    BY <1>6
  <2>2. db'[k] = db[k] /\ OrgOf(k)' = OrgOf(k)
    BY <1>4, <1>6, <2>1
  <2>3. Len(rows) = ListLimit /\ \A item \in ItemsOf(rows) : db[item].at >= db[k].at
    BY <1>6, <2>2, Zenon DEF RightNewest
  <2>4. QED
    BY <1>3, <2>2, <2>3
<1>7. QED
  BY <1>2, <1>3, <1>5, <1>6 DEF RightNewest, ItemsOf

LEMMA AssetsStay ==
  ASSUME Grows, NEW q \in Request, Same(q), Stored(q), NEW rows, RightAssets(q, rows)
  PROVE  RightAssets(q, rows)'
<1>1. \A k \in DOMAIN db : k[1] = "run" => k \in DOMAIN db' /\ db'[k] = db[k]
  BY DEF Grows
<1>2. QED
  BY <1>1 DEF RightAssets, Same, Stored, ItemsOf

LEMMA QueueStays ==
  ASSUME Grows, NEW q \in Request, Same(q), Stored(q), NEW rows, RightQueue(q, rows)
  PROVE  RightQueue(q, rows)'
<1>1. mem'[q].before = mem[q].before /\ job' = job /\ who'[q] = who[q] /\ ItemsOf(rows)' = ItemsOf(rows)
  BY DEF Same, ItemsOf
<1>2. ASSUME NEW k \in mem[q].before, k[1] = "call"
      PROVE  /\ db'[k] = db[k] /\ Mine(q, k)' = Mine(q, k)
             /\ Mine(q, k) \in DOMAIN db => Mine(q, k) \in DOMAIN db'
  <2>1. db'[k] = db[k]
    BY <1>2 DEF Grows, Stored
  <2>2. Mine(q, k)' = Mine(q, k) /\ Mine(q, k)[1] = "review"
    BY <1>1, <2>1 DEF Mine
  <2>3. QED
    BY <2>1, <2>2 DEF Grows
<1>3. QED
  BY <1>1, <1>2 DEF RightQueue

LEMMA WindowStays ==
  ASSUME Grows, NEW q \in Request, Same(q), NEW rows, RightWindow(q, rows)
  PROVE  RightWindow(q, rows)'
<1>1. \A k \in DOMAIN db : k[1] \in {"run", "call"} => k \in DOMAIN db' /\ db'[k] = db[k]
  BY DEF Grows
<1>2. \A run : RunRow(run)[1] = "run"
  BY DEF RunRow
<1>3. \A item \in ItemsOf(rows) : InWindow(q, db[item])' <=> InWindow(q, db'[item])
  BY DEF Same, InWindow
<1>4. job' = job /\ who'[q] = who[q] /\ ItemsOf(rows)' = ItemsOf(rows)
  BY DEF Same, ItemsOf
<1>5. QED
  BY <1>1, <1>2, <1>3, <1>4 DEF RightWindow

LEMMA PairStays ==
  ASSUME Grows, NEW q \in Request, Same(q), NEW rows, RightPair(q, rows)
  PROVE  /\ RightPair(q, rows)'
         /\ \A run \in Pair(q) : Sampled(run, rows) => Sampled(run, rows)'
<1>1. \A k \in DOMAIN db : k[1] \in {"run", "call"} => k \in DOMAIN db' /\ db'[k] = db[k]
  BY DEF Grows
<1>2. \A run : RunRow(run)[1] = "run"
  BY DEF RunRow
<1>3. /\ job' = job /\ who'[q] = who[q] /\ ItemsOf(rows)' = ItemsOf(rows) /\ Pair(q)' = Pair(q)
      /\ \A org : Member(q, org)' <=> Member(q, org)
  BY DEF Same, ItemsOf, Pair, Member
<1>4. \A run \in Pair(q) : RunRow(run) \in DOMAIN db /\ Member(q, db[RunRow(run)].org)
  BY DEF RightPair
<1>5. \A run \in Pair(q) : RunRow(run) \in DOMAIN db' /\ db'[RunRow(run)] = db[RunRow(run)]
  BY <1>1, <1>2, <1>4
<1>6. \A run \in Pair(q) : Member(q, db[RunRow(run)].org)'
  BY <1>3, <1>4, <1>5 DEF Member
<1>7. RightPair(q, rows)'
  BY <1>1, <1>3, <1>5, <1>6 DEF RightPair
<1>8. ASSUME NEW run \in Pair(q), Sampled(run, rows), NEW c \in DOMAIN db', c[1] = "call", db'[c].run = run
      PROVE  c \in ItemsOf(rows)
  <2>1. c \in DOMAIN db
    BY <1>4, <1>8 DEF Grows
  <2>2. QED
    BY <1>1, <1>8, <2>1 DEF Sampled
<1>9. QED
  BY <1>3, <1>7, <1>8 DEF Sampled

LEMMA ReadStays ==
  ASSUME Grows, NEW q \in Request, Same(q), Stored(q), NEW rows, RightRead(q, rows)
  PROVE  RightRead(q, rows)'
<1>1. job' = job /\ Pair(q)' = Pair(q)
  BY DEF Same, Pair
<1>2. RightDrift(q, rows) => RightDrift(q, rows)'
  BY <1>1, PairStays DEF RightDrift
<1>3. QED
  BY <1>1, <1>2, NewestStays, AssetsStay, QueueStays, WindowStays DEF RightRead

\* A reader writes nothing.
LEMMA ReadersWriteNothing ==
  ASSUME Basis, NEW r \in Request, Kind(r) \in Readers
  PROVE  /\ DOMAIN tx[r] = {} /\ Keys(r) = DOMAIN db
         /\ \A k : (Has(r, k) <=> k \in DOMAIN db) /\ Row(r, k) = db[k]
<1>1. \A k \in DOMAIN tx[r] : Written(r, k, tx[r][k])
  BY DEF Basis
<1>2. \A k \in DOMAIN tx[r] : FALSE
  BY <1>1 DEF Written, Readers, Creators, Curators
<1>3. QED
  BY <1>2 DEF Has, Row, Keys

ReadersApart == \A r \in Request : Kind(r) \in Readers => DOMAIN tx[r] = {} /\ \A k : Row(r, k) = db[k]

LEMMA ReadersNext == Basis' => ReadersApart'
<1>1. Basis => ReadersApart
  BY ReadersWriteNothing DEF ReadersApart
<1>2. QED
  BY <1>1, PTL

\* A slug that stands for a project goes on doing so, or stands for a new one.
LEMMA ResolveBack ==
  ASSUME ShapeInv, ShapeInv', NEW r \in Request, Moves(r), NEW q \in Request, Kind(q) \in Readers, Same(q),
         Resolve(q, job[q].slug)' \in DOMAIN db
  PROVE  Resolve(q, job[q].slug) = Resolve(q, job[q].slug)'
<1> DEFINE slug == job[q].slug
           P == Resolve(q, job[q].slug)'
           own == ProjectRow(who[q].org, slug)
           now == ProjectsNamed(slug)
           next == {k \in DOMAIN db' : k[1] = "project" /\ k[3] = slug}
<1>1. Grows /\ Basis /\ Basis' /\ job' = job /\ who'[q] = who[q] /\ Kind(q)' = Kind(q)
  BY Shaped, MovesGrow, BasisKept DEF Same, Kind
<1>2. DOMAIN tx[q] = {} /\ DOMAIN tx'[q] = {}
  BY <1>1, ReadersWriteNothing, ReadersNext DEF ReadersApart
<1>3. ResolvesTo(q, slug, Resolve(q, slug))
  BY <1>2, ResolveIs
<1>4. ResolvesTo(q, job[q].slug, Resolve(q, job[q].slug))'
  BY <1>2, ResolvesNext DEF ResolvesAll
<1>5. ProjectsNamed(job[q].slug)' = next
  BY <1>1 DEF ProjectsNamed
<1>6. /\ own \in DOMAIN db' => P = own
      /\ own \notin DOMAIN db' /\ who[q].admin /\ next # {} =>
           P \in next /\ \A l \in next : db'[P].created <= db'[l].created
      /\ own \notin DOMAIN db' /\ ~(who[q].admin /\ next # {}) => P = None
  <2>1. ProjectRow(who[q].org, job[q].slug)' = own
    BY <1>1 DEF ProjectRow
  <2> HIDE DEF next, own
  <2>2. QED
    BY <1>1, <1>4, <1>5, <2>1 DEF ResolvesTo
<1> HIDE DEF P
<1>7. own[1] = "project"
  BY DEF ProjectRow
<1>8. \A k \in DOMAIN db : k[1] = "project" => k \in DOMAIN db' /\ db'[k] = db[k]
  BY <1>1 DEF Grows
<1>9. \A k \in now : k \in next /\ db'[k] = db[k]
  BY <1>8 DEF ProjectsNamed
<1>10. CASE own \in DOMAIN db
  BY <1>3, <1>6, <1>7, <1>8, <1>10 DEF ResolvesTo, P
<1>11. CASE own \notin DOMAIN db /\ ~(who[q].admin /\ now # {})
  <2>1. Resolve(q, slug) = None
    BY <1>3, <1>11 DEF ResolvesTo
  <2>2. SUFFICES ASSUME P # None PROVE FALSE
    BY <2>1 DEF P
  <2>3. own \notin DOMAIN db'
    BY <1>6, <1>11 DEF P
  <2>4. who[q].admin /\ P \in next
    BY <1>6, <2>2, <2>3
  <2>5. P \in now
    BY <2>4 DEF ProjectsNamed, P
  <2>6. QED
    BY <1>11, <2>4, <2>5
<1>12. CASE own \notin DOMAIN db /\ who[q].admin /\ now # {}
  <2> DEFINE R == Resolve(q, slug)
  <2>1. R \in now /\ \A l \in now : db[R].created <= db[l].created
    BY <1>3, <1>12 DEF ResolvesTo
  <2> HIDE DEF R
  <2>2. R \in next /\ db'[R] = db[R]
    BY <1>9, <2>1
  <2>3. CASE own \in DOMAIN db'
    <3>1. P = own
      BY <1>6, <2>3
    <3>2. QED
      BY <1>12, <3>1 DEF P
  <2>4. CASE own \notin DOMAIN db'
    <3>1. P \in next /\ \A l \in next : db'[P].created <= db'[l].created
      BY <1>6, <1>12, <2>2, <2>4
    <3>2. P \in now /\ db'[P] = db[P]
      BY <1>8, <3>1 DEF ProjectsNamed, P
    <3>3. db[P].created <= db[R].created /\ db[R].created <= db[P].created
      BY <2>1, <2>2, <3>1, <3>2
    <3>4. \A k \in now : k \in Projects /\ db[k].created \in Stamps(k) /\ db[k].created \in Int
      BY DEF ShapeInv, WellFormed, ProjectsNamed, Projects, Stamps
    <3>5. db[P].created = db[R].created
      BY <2>1, <3>2, <3>3, <3>4
    <3>6. P = R
      BY <2>1, <3>2, <3>4, <3>5 DEF ShapeInv, Stamped
    <3>7. QED
      BY <3>6 DEF P, R
  <2>5. QED
    BY <2>3, <2>4
<1>13. QED
  BY <1>10, <1>11, <1>12

\* So the calls a walk is for stay the same, or there are none any more.
LEMMA CallsBeforeStay ==
  ASSUME ShapeInv, ShapeInv', NEW r \in Request, Moves(r), NEW q \in Request, Kind(q) \in Readers, Same(q), Stored(q)
  PROVE  CallsBefore(q)' \in {{}, CallsBefore(q)}
<1>1. Grows /\ Basis /\ Basis' /\ RunsStored /\ Kind(q)' = Kind(q)
  BY Shaped, MovesGrow, BasisKept DEF Same, Kind
<1>2. job' = job /\ who'[q] = who[q] /\ mem'[q].before = mem[q].before
  BY DEF Same
<1>3. DOMAIN tx[q] = {} /\ DOMAIN tx'[q] = {}
  BY <1>1, ReadersWriteNothing, ReadersNext DEF ReadersApart
<1>4. ASSUME NEW k \in mem[q].before, k[1] = "call"
      PROVE  /\ k \in DOMAIN db /\ db'[k] = db[k] /\ k[2] \in DOMAIN db
             /\ db'[RunRow(db[k].run)] = db[RunRow(db[k].run)]
  <2>1. k \in DOMAIN db
    BY <1>4 DEF Stored
  <2>2. db'[k] = db[k] /\ RunRow(db[k].run) \in DOMAIN db /\ RunRow(db[k].run)[1] = "run"
    BY <1>1, <1>4, <2>1, Tags DEF Grows, RunsStored
  <2>3. k[2] = db[RunRow(db[k].run)].project
    BY <1>4, <2>1 DEF ShapeInv, WellFormed, CallRow
  <2>4. k[2] \in DOMAIN db
    BY <2>2, <2>3 DEF ShapeInv, WellFormed
  <2>5. QED
    BY <1>1, <2>1, <2>2, <2>4 DEF Grows
<1>6. ASSUME NEW k \in mem[q].before, k[1] = "call"
      PROVE  Shown(q, db[k])' <=> Shown(q, db[k])
  <2>1. db'[k] = db[k] /\ db'[RunRow(db[k].run)] = db[RunRow(db[k].run)]
    BY <1>4, <1>6
  <2>2. QED
    BY <1>2, <1>3, <2>1 DEF Shown, InWindow, Row
<1>7. ASSUME CallsBefore(q)' # {} PROVE CallsBefore(q)' = CallsBefore(q)
  <2>1. PICK k : k \in CallsBefore(q)'
    BY <1>7
  <2>2. k \in mem[q].before /\ k[1] = "call" /\ k[2] = Resolve(q, job[q].slug)'
    BY <1>2, <2>1 DEF CallsBefore
  <2>3. Resolve(q, job[q].slug) = Resolve(q, job[q].slug)'
    BY <1>4, <2>2, ResolveBack
  <2>4. QED
    BY <1>2, <1>6, <2>3 DEF CallsBefore
<1>8. QED
  BY <1>7

Early == {"idle", "sent", "touch", "begin"}

LEMMA WalksStay ==
  ASSUME ShapeInv, ShapeInv', NEW r \in Request, Moves(r), NEW q \in Request, Kind(q) \in Readers, Same(q), Stored(q),
         mem'[q].seen = mem[q].seen, Walks(q), IsSeq(mem[q].seen),
         pc'[q] \in Early => pc[q] \in Early,
         pc'[q] # "idle" => pc[q] # "idle" \/ mem[q].seen # <<>>,
         Told(q)' => Told(q)
  PROVE  Walks(q)'
<1>1. Grows /\ mem'[q].before = mem[q].before /\ CallsBefore(q)' \in {{}, CallsBefore(q)}
  BY Shaped, MovesGrow, CallsBeforeStay DEF Same
<1>2. \A k \in DOMAIN db : k[1] = "call" => k \in DOMAIN db' /\ db'[k] = db[k]
  BY <1>1 DEF Grows
<1>3. \A i \in DOMAIN mem[q].seen :
        mem[q].seen[i] \in DOMAIN db' /\ mem[q].seen[i][1] = "call" /\ db'[mem[q].seen[i]] = db[mem[q].seen[i]]
  BY <1>2 DEF Walks
<1>4. \A i, j \in DOMAIN mem[q].seen : i < j => StreamOrder(db'[mem[q].seen[i]], db'[mem[q].seen[j]])
  BY <1>3 DEF Walks
<1>5. ASSUME pc'[q] # "idle" \/ mem[q].seen # <<>>, NEW k \in DOMAIN db', k[1] = "call", db'[k].at = None
      PROVE  k \in mem[q].before
  <2>1. k \in DOMAIN db
    BY <1>5, NewCallsTimed, ListingsAssumption
  <2>2. QED
    BY <1>2, <1>5, <2>1 DEF Walks
<1>6. \A k \in CallsBefore(q) : k \in DOMAIN db /\ k[1] = "call" /\ db'[k] = db[k]
  BY <1>2 DEF CallsBefore, Stored
<1>7. CallsBefore(q)' = CallsBefore(q) => (Timely(q)' => Timely(q))
  BY <1>6 DEF Timely
<1>8. mem[q].seen # <<>> => db'[Last(mem[q].seen)] = db[Last(mem[q].seen)]
  <2>1. SUFFICES ASSUME mem[q].seen # <<>> PROVE db'[Last(mem[q].seen)] = db[Last(mem[q].seen)]
    OBVIOUS
  <2> DEFINE seen == mem[q].seen
  <2>2. Len(seen) \in DOMAIN seen
    <3>1. seen \in Seq({seen[i] : i \in DOMAIN seen}) /\ seen # <<>>
      BY <2>1 DEF IsSeq
    <3> HIDE DEF seen
    <3>2. QED
      BY <3>1
  <2>3. QED
    BY <1>3, <2>2 DEF Last
<1>9. ASSUME pc'[q] \in Early, mem[q].seen # <<>>, Timely(q)', NEW k \in CallsBefore(q)'
      PROVE  k \in ItemsOf(mem[q].seen) \/ PastCursor(Cursor(db'[Last(mem[q].seen)]), db'[k])
  <2>1. k \in CallsBefore(q) /\ Timely(q) /\ pc[q] \in Early
    BY <1>1, <1>7, <1>9
  <2>2. k \in ItemsOf(mem[q].seen) \/ PastCursor(Cursor(db[Last(mem[q].seen)]), db[k])
    BY <1>9, <2>1 DEF Walks, Early
  <2>3. QED
    BY <1>6, <1>8, <1>9, <2>1, <2>2
<1>10. ASSUME Told(q)', Timely(q)', NEW k \in CallsBefore(q)' PROVE k \in ItemsOf(mem[q].seen)
  <2>1. k \in CallsBefore(q) /\ Timely(q)
    BY <1>1, <1>7, <1>10
  <2>2. QED
    BY <1>10, <2>1 DEF Walks
<1>11. ItemsOf(mem[q].seen)' = ItemsOf(mem[q].seen) /\ Last(mem[q].seen)' = Last(mem[q].seen)
  BY DEF ItemsOf, Last
<1>12. QED
  BY <1>1, <1>3, <1>4, <1>5, <1>9, <1>10, <1>11 DEF Walks, Early

\* What holds for a reader goes on holding while its handler does not act.
LEMMA AsksStay ==
  ASSUME ShapeInv, ShapeInv', NEW r \in Request, Moves(r), NEW q \in Request, Kind(q) \in Readers, Asks(q),
         mem'[q] = mem[q], who'[q] = who[q],
         pc'[q] \in {"idle", "sent", "touch", "begin", "samples", "reply", "commit", "done"},
         pc'[q] = "samples" => pc[q] = "samples",
         pc'[q] \in Early => pc[q] \in Early,
         pc'[q] # "idle" => pc[q] # "idle" \/ mem[q].seen # <<>>,
         pc'[q] \in {"touch", "begin", "samples", "reply", "commit"} \/ answer'[q] = 200 => Identified(q),
         Told(q)' => Told(q)
  PROVE  Asks(q)'
<1>1. Grows /\ Rest(r) /\ Basis
  BY Shaped, MovesGrow, MovesRest
<1>2. Same(q) /\ Kind(q)' = Kind(q) /\ job' = job
  BY <1>1 DEF Same, Rest, Kind
<1>3. Asking(q) /\ Stored(q)
  BY DEF Asks, Asking, Stored
<1>4. Asking(q)'
  <2>1. Identified(q) => Identified(q)'
    BY <1>1, <1>2, IdentifiedStays
  <2>2. \A k \in mem[q].before : k[1] # "golden" => k \in DOMAIN db'
    BY <1>1, <1>3 DEF Stored, Grows
  <2>3. (Sequential(q) => IsSeq(mem[q].seen))'
    BY <1>2, <1>3 DEF Asking, IsSeq, Sequential
  <2>4. QED
    BY <1>2, <1>3, <2>1, <2>2, <2>3 DEF Asking, Early
<1>5. ASSUME NEW rows \in {mem[q].seen} PROVE Right(q, rows)' /\ Sampling(q, rows)'
  <2>1. Right(q, rows) /\ Sampling(q, rows)
    BY DEF Asks
  <2>2. ItemsOf(rows)' = ItemsOf(rows) /\ \A item \in ItemsOf(rows) : Theirs(q, item)'
    BY <1>1, <1>2, <2>1, TheirsStays DEF Right, ItemsOf
  <2>3. RightAnswer(q, rows) => RightAnswer(q, rows)'
    BY <1>1, <1>2, <1>3, LatestStays, ReadStays DEF RightAnswer
  <2>4. Sampling(q, rows)'
    <3>1. RightPair(q, rows) =>
            RightPair(q, rows)' /\ \A run \in Pair(q) : Sampled(run, rows) => Sampled(run, rows)'
      BY <1>1, <1>2, PairStays
    <3>2. job[q].run \in Pair(q)
      BY DEF Pair
    <3>3. (Sampled(job[q].run, rows) => Sampled(job[q].run, rows)') \/ ~RightPair(q, rows)
      BY <1>2, <3>1, <3>2 DEF Sampled
    <3>4. QED
      BY <1>2, <2>1, <3>1, <3>3 DEF Sampling
  <2>5. QED
    BY <2>1, <2>2, <2>3, <2>4 DEF Right
<1>6. Kind(q) = "walk" => Walks(q)'
  BY <1>2, <1>3, WalksStay DEF Asks, Asking, Sequential
<1>7. QED
  BY <1>2, <1>4, <1>5, <1>6 DEF Asks

\* A reader that has got nothing knows nothing but when it was sent.
LEMMA AsksFresh ==
  ASSUME Basis', NEW q \in Request, Kind(q) \in Readers, job' = job, mem'[q].seen = <<>>,
         pc'[q] \in {"sent", "touch", "begin"}, answer'[q] # 200,
         pc'[q] \in {"touch", "begin"} => Identified(q)',
         \A k \in mem'[q].before : k[1] # "golden" => k \in DOMAIN db',
         Kind(q) = "walk" => \A k \in DOMAIN db' : k[1] = "call" /\ db'[k].at = None => k \in mem'[q].before
  PROVE  Asks(q)'
<1>1. IsSeq(mem[q].seen)' /\ DOMAIN mem'[q].seen = {}
  BY EmptyIsSeq DEF IsSeq
<1>2. Asking(q)'
  BY <1>1 DEF Asking
<1>3. ~Told(q)'
  BY DEF Told
<1>4. \A rows \in {mem'[q].seen} : Right(q, rows)' /\ Sampling(q, rows)'
  BY <1>1, <1>3 DEF Right, Sampling, ItemsOf
<1>5. Kind(q) = "walk" => Walks(q)'
  BY <1>1, <1>3 DEF Walks
<1>6. Kind(q)' = Kind(q)
  BY DEF Kind
<1>7. QED
  BY <1>2, <1>4, <1>5, <1>6 DEF Asks

LEMMA OthersAsk ==
  ASSUME ShapeInv, ShapeInv', NEW r \in Request, Moves(r), NEW q \in Request \ {r}, Asks(q)
  PROVE  Asks(q)'
<1>1. Rest(r)
  BY MovesRest
<1>2. CASE Kind(q) \in Readers
  <2>1. Asking(q) /\ mem'[q] = mem[q] /\ who'[q] = who[q] /\ pc'[q] = pc[q] /\ answer'[q] = answer[q]
    BY <1>1, <1>2 DEF Asks, Rest
  <2>2. Told(q)' => Told(q)
    BY <2>1 DEF Told
  <2>3. QED
    BY <1>2, <2>1, <2>2, AsksStay DEF Asking
<1>3. CASE Kind(q) \notin Readers
  BY <1>1, <1>3 DEF Rest, Asks, Kind
<1>4. QED
  BY <1>2, <1>3

\* A step that is not of the handler.
LEMMA ServedAsks ==
  ASSUME ShapeInv, ShapeInv', NEW r \in Request, Served(r), Kind(r) \in Readers, Asks(r)
  PROVE  Asks(r)'
<1>1. Types /\ Basis /\ Basis' /\ Moves(r) /\ Rest(r) /\ Placed(r)
  BY Shaped, ActionsMove, MovesRest, BasisKept DEF Acts, Basis
<1>2. Asking(r) /\ job' = job
  BY <1>1 DEF Asks, Rest
<1>3. CASE Send(r)
  <2>1. /\ pc[r] = "idle" /\ pc'[r] = "sent" /\ answer'[r] = answer[r] /\ answer[r] = 0
        /\ db' = db /\ who' = who
    BY <1>1, <1>3 DEF Send, Step, Goto, Types, Placed
  <2>2. CASE mem[r].seen = <<>>
    <3>1. mem' = [mem EXCEPT ![r].before = DOMAIN db]
      BY <1>3, <2>2 DEF Send
    <3>2. mem'[r].seen = <<>> /\ mem'[r].before = DOMAIN db
      BY <1>1, <2>2, <3>1 DEF Types, NoMem
    <3>3. QED
      BY <1>1, <1>2, <2>1, <3>2, AsksFresh
  <2>3. CASE mem[r].seen # <<>>
    <3>1. mem' = mem
      BY <1>3, <2>3 DEF Send
    <3>2. QED
      BY <1>1, <1>2, <2>1, <2>3, <3>1, AsksStay DEF Early, Told
  <2>4. QED
    BY <2>2, <2>3
<1>4. CASE Authenticate(r)
  <2>1. pc[r] = "sent" /\ db' = db /\ mem' = mem /\ answer[r] = 0
    BY <1>1, <1>4 DEF Authenticate, Step, Placed
  <2>2. CASE ~FindKey(job[r].key)
    <3>1. pc'[r] = "done" /\ answer'[r] = 401 /\ who' = who
      BY <1>1, <1>4, <2>2 DEF Authenticate, Goto, Types
    <3>2. QED
      BY <1>1, <2>1, <3>1, AsksStay DEF Early, Told
  <2>3. CASE FindKey(job[r].key)
    <3>1. /\ pc'[r] \in {"touch", "begin"} /\ answer' = answer
          /\ who'[r] = [key |-> job[r].key, org |-> db[KeyRow(job[r].key)].org,
                        admin |-> db[KeyRow(job[r].key)].admin]
      BY <1>1, <1>4, <2>3 DEF Authenticate, Goto, Types
    <3>2. Identified(r)'
      BY <1>2, <2>1, <2>3, <3>1 DEF Identified, FindKey
    <3>3. CASE mem[r].seen = <<>>
      <4>1. Kind(r) = "walk" => \A k \in DOMAIN db : k[1] = "call" /\ db[k].at = None => k \in mem[r].before
        BY <2>1 DEF Asks, Walks
      <4>2. QED
        BY <1>1, <1>2, <2>1, <3>1, <3>2, <3>3, <4>1, AsksFresh DEF Asking
    <3>4. CASE mem[r].seen # <<>>
      <4>1. Identified(r)
        BY <1>2, <3>4 DEF Asking
      <4>2. who'[r] = who[r]
        BY <3>1, <4>1 DEF Identified
      <4>3. QED
        BY <1>1, <2>1, <3>1, <4>1, <4>2, AsksStay DEF Early, Told
    <3>5. QED
      BY <3>3, <3>4
  <2>4. QED
    BY <2>2, <2>3
<1>5. CASE TouchLastUsed(r) \/ Reply(r) \/ Commit(r) \/ Fault(r) \/ Die(r)
  <2>1. mem' = mem /\ who' = who
    BY <1>5 DEF TouchLastUsed, Reply, Commit, Fault, Die, Unchanged
  <2>2. \/ pc[r] = "touch" /\ pc'[r] = "begin" /\ answer'[r] = answer[r]
        \/ pc[r] = "reply" /\ pc'[r] = "commit"
        \/ pc[r] = "commit" /\ pc'[r] = "done" /\ answer'[r] = answer[r]
        \/ pc[r] \notin {"idle", "sent", "done"} /\ pc'[r] = "done" /\ answer'[r] \in {500, answer[r]}
    BY <1>1, <1>5 DEF TouchLastUsed, Reply, Commit, Fault, Die, Unchanged, Step, Goto, Types, Open
  <2>3. Told(r)' => Told(r)
    BY <2>2 DEF Told
  <2>4. Identified(r)
    BY <1>2, <2>2 DEF Asking
  <2>5. QED
    BY <1>1, <2>1, <2>2, <2>3, <2>4, AsksStay DEF Early
<1>6. QED
  BY <1>3, <1>4, <1>5 DEF Served

\* The handler of a reader answers...
Reader(r) ==
  /\ ShapeInv /\ ShapeInv' /\ Moves(r)
  /\ Kind(r) \in Readers /\ Asks(r)

LEMMA AnswersAsk ==
  ASSUME NEW r \in Request, Reader(r), Kind(r) # "walk", pc[r] \in {"begin", "samples"}, NEW rows,
         mem'[r].seen = rows, mem'[r].before = mem[r].before, pc'[r] = "reply", UNCHANGED <<job, db, who>>,
         Sequential(r) => IsSeq(rows), \A item \in ItemsOf(rows) : Theirs(r, item), RightAnswer(r, rows)
  PROVE  Asks(r)'
<1>1. Grows /\ Asking(r) /\ Kind(r)' = Kind(r) /\ ItemsOf(rows)' = ItemsOf(rows)
  BY Shaped, MovesGrow DEF Reader, Asks, Kind, ItemsOf
<1>2. Same(r) /\ Stored(r)
  BY <1>1 DEF Same, Stored, Asking
<1>3. RightAnswer(r, rows)'
  BY <1>1, <1>2, LatestStays, ReadStays DEF RightAnswer
<1>4. \A item \in ItemsOf(rows) : Theirs(r, item)'
  BY <1>1, <1>2, TheirsStays
<1>5. Right(r, rows)' /\ Sampling(r, rows)'
  BY <1>1, <1>3, <1>4 DEF Right, Sampling
<1>6. Identified(r)'
  BY <1>1, IdentifiedStays DEF Asking
<1>7. Asking(r)'
  BY <1>1, <1>2, <1>6 DEF Asking, Stored, IsSeq, Sequential
<1>8. QED
  BY <1>1, <1>5, <1>7 DEF Asks, Reader

\* ...or refuses.
LEMMA RefusesAsk ==
  ASSUME NEW r \in Request, Reader(r), pc[r] \in {"begin", "samples"}, NEW code, Refuse(r, code), code # 200
  PROVE  Asks(r)'
<1>1. Types /\ Asking(r)
  BY Shaped DEF Reader, Asks
<1>2. mem' = mem /\ who' = who /\ pc'[r] = "done" /\ answer'[r] = code
  BY <1>1 DEF Refuse, Goto, Types
<1>3. QED
  BY <1>1, <1>2, AsksStay DEF Reader, Early, Told, Asking

\* What an answer has to be.
Fits(r, rows) == (\A item \in ItemsOf(rows) : Theirs(r, item)) /\ RightAnswer(r, rows)

LEMMA AnswerAsks ==
  ASSUME NEW r \in Request, Reader(r), ~Sequential(r), pc[r] = "begin", NEW rows, Answer(r, rows), Fits(r, rows)
  PROVE  Asks(r)'
<1>1. Types /\ DOMAIN mem[r] = DOMAIN NoMem
  BY Shaped DEF Reader, Types
<1>2. /\ mem'[r].seen = rows /\ mem'[r].before = mem[r].before /\ pc'[r] = "reply"
      /\ UNCHANGED <<job, db, who>>
  BY <1>1 DEF Answer, Goto, Types, Unchanged, NoMem
<1>3. QED
  BY <1>2, AnswersAsk DEF Fits, Sequential

\* It reads what is committed.
LEMMA Handling ==
  ASSUME NEW r \in Request, Reader(r)
  PROVE  /\ DOMAIN tx[r] = {} /\ Keys(r) = DOMAIN db /\ IsFiniteSet(DOMAIN db)
         /\ \A k : (Has(r, k) <=> k \in DOMAIN db) /\ Row(r, k) = db[k]
         /\ Stored(r)
         /\ \A k \in DOMAIN db : k[1] = "run" => k = RunRow(k[2]) /\ db[k].project[2] = db[k].org /\ db[k].at \in Int
         /\ \A k \in DOMAIN db : k[1] = "call" =>
              /\ RunRow(db[k].run) \in DOMAIN db /\ k[2] = db[RunRow(db[k].run)].project
              /\ k[2][2] = db[RunRow(db[k].run)].org
<1>1. Basis /\ RunsStored /\ Asking(r) /\ \A k \in DOMAIN db : WellFormed(db, k)
  BY Shaped DEF Reader, Asks, ShapeInv
<1>2. /\ DOMAIN tx[r] = {} /\ Keys(r) = DOMAIN db
      /\ \A k : (Has(r, k) <=> k \in DOMAIN db) /\ Row(r, k) = db[k]
  BY <1>1, ReadersWriteNothing DEF Reader
<1>3. IsFiniteSet(DOMAIN db) /\ Stored(r)
  BY <1>1 DEF RunsStored, Stored, Asking
<1>4. \A k \in DOMAIN db : k[1] = "run" => k = RunRow(k[2]) /\ db[k].project[2] = db[k].org /\ db[k].at \in Int
  BY <1>1 DEF WellFormed
<1>5. ASSUME NEW k \in DOMAIN db, k[1] = "call"
      PROVE  /\ RunRow(db[k].run) \in DOMAIN db /\ k[2] = db[RunRow(db[k].run)].project
             /\ k[2][2] = db[RunRow(db[k].run)].org
  <2>1. RunRow(db[k].run) \in DOMAIN db /\ RunRow(db[k].run)[1] = "run"
    BY <1>1, <1>5, Tags DEF RunsStored
  <2>2. k[2] = db[RunRow(db[k].run)].project
    BY <1>1, <1>5 DEF WellFormed, CallRow
  <2>3. QED
    BY <1>4, <2>1, <2>2
<1>6. QED
  BY <1>2, <1>3, <1>4, <1>5

\* Reads of which no more is said than whose the items are.
Plain == {"orgs", "org", "projects", "project", "keys", "run", "revision", "reviews", "golden", "versions"}

LEMMA PlainAsks ==
  ASSUME NEW r \in Request, Reader(r), Kind(r) = "read", job[r].what \in Plain, pc[r] = "begin",
         NEW rows, Answer(r, rows), \A item \in ItemsOf(rows) : Theirs(r, item)
  PROVE  Asks(r)'
<1>1. RightAnswer(r, rows) /\ ~Sequential(r)
  BY DEF RightAnswer, RightRead, Plain, Sequential
<1>2. QED
  BY <1>1, AnswerAsks DEF Fits

LEMMA SetAsks ==
  ASSUME NEW r \in Request, Reader(r), Kind(r) = "read", job[r].what \in Plain, pc[r] = "begin",
         NEW S \in SUBSET DOMAIN db, Answer(r, Seqs!SetToSeq(S)), \A item \in S : Theirs(r, item)
  PROVE  Asks(r)'
<1>1. ItemsOf(Seqs!SetToSeq(S)) = S
  BY Handling, FS_Subset, SetToSeqHas DEF ItemsOf
<1>2. QED
  BY <1>1, PlainAsks, Zenon

LEMMA OneAsks ==
  ASSUME NEW r \in Request, Reader(r), Kind(r) = "read", job[r].what \in Plain, pc[r] = "begin",
         NEW k, NEW sees, AnswerOne(r, k, sees), k \in DOMAIN db /\ sees => Theirs(r, k)
  PROVE  Asks(r)'
<1>1. CASE Has(r, k) /\ sees
  <2>1. Answer(r, <<k>>) /\ Theirs(r, k)
    BY <1>1, Handling DEF AnswerOne
  <2>2. ItemsOf(<<k>>) = {k}
    BY DEF ItemsOf
  <2>3. QED
    BY <2>1, <2>2, PlainAsks
<1>2. CASE ~(Has(r, k) /\ sees)
  <2>1. Refuse(r, 404)
    BY <1>2 DEF AnswerOne
  <2>2. QED
    BY <2>1, RefusesAsk
<1>3. QED
  BY <1>1, <1>2

\* A member sees what is of its org.
LEMMA TagsOf ==
  /\ \A org : OrgRow(org)[1] = "org" /\ OrgRow(org)[2] = org
  /\ \A org, slug : ProjectRow(org, slug)[1] = "project" /\ ProjectRow(org, slug)[2] = org
  /\ \A run : RunRow(run)[1] = "run" /\ RunRow(run)[2] = run
BY DEF OrgRow, ProjectRow, RunRow

LEMMA TheirsBy ==
  ASSUME NEW r \in Request, NEW k, Known(k), Member(r, OrgOf(k))
  PROVE  Theirs(r, k)
BY DEF Theirs, Member

LEMMA TenancyReadsAsk ==
  ASSUME NEW r \in Request, Reader(r),
         ListOrgs(r) \/ GetOrg(r) \/ ListProjects(r) \/ GetProject(r) \/ ListKeys(r) \/ GetRun(r)
  PROVE  Asks(r)'
<1>1. pc[r] = "begin" /\ Kind(r) = "read" /\ job[r].what \in Plain
  BY DEF ListOrgs, GetOrg, ListProjects, GetProject, ListKeys, GetRun, Reading, Begin, Step, Plain
<1>2. \A k \in DOMAIN db : k[1] \in Unchanging \cup {"key"} => Known(k)
  BY DEF Known
<1>3. \A k : (Has(r, k) <=> k \in DOMAIN db) /\ Row(r, k) = db[k]
  BY Handling
<1>4. Keys(r) = DOMAIN db
  BY Handling
<1>5. CASE ListOrgs(r)
  <2> DEFINE S == {k \in Keys(r) : k[1] = "org" /\ Member(r, k[2])}
  <2>1. S \in SUBSET DOMAIN db /\ \A k \in S : Theirs(r, k)
    BY <1>2, <1>4, TheirsBy DEF OrgOf, Unchanging
  <2>2. Answer(r, Seqs!SetToSeq(S))
    BY <1>5 DEF ListOrgs
  <2> HIDE DEF S
  <2>3. QED
    BY <1>1, <2>1, <2>2, SetAsks
<1>6. CASE GetOrg(r)
  <2>1. OrgRow(job[r].org) \in DOMAIN db /\ Member(r, job[r].org) => Theirs(r, OrgRow(job[r].org))
    BY <1>2, TagsOf, TheirsBy DEF OrgOf, Unchanging
  <2>2. QED
    BY <1>1, <1>6, <2>1, OneAsks DEF GetOrg
<1>7. CASE ListProjects(r)
  <2> DEFINE S == {k \in Keys(r) : k[1] = "project" /\ k[2] = TargetOrg(r)}
  <2>1. CASE ~Member(r, TargetOrg(r))
    BY <1>1, <1>7, <2>1, RefusesAsk DEF ListProjects
  <2>2. CASE Member(r, TargetOrg(r))
    <3>1. S \in SUBSET DOMAIN db /\ \A k \in S : Theirs(r, k)
      BY <1>2, <1>4, <2>2, TheirsBy DEF OrgOf, Unchanging
    <3>2. Answer(r, Seqs!SetToSeq(S))
      BY <1>7, <2>2 DEF ListProjects
    <3> HIDE DEF S
    <3>3. QED
      BY <1>1, <3>1, <3>2, SetAsks
  <2>3. QED
    BY <2>1, <2>2
<1>8. CASE GetProject(r)
  <2>1. CASE ~Member(r, TargetOrg(r))
    BY <1>1, <1>8, <2>1, RefusesAsk DEF GetProject
  <2>2. CASE Member(r, TargetOrg(r))
    <3> DEFINE k == ProjectRow(TargetOrg(r), job[r].slug)
    <3>1. k[1] = "project" /\ k[2] = TargetOrg(r)
      BY TagsOf
    <3>2. AnswerOne(r, k, TRUE)
      BY <1>8, <2>2 DEF GetProject
    <3> HIDE DEF k
    <3>3. k \in DOMAIN db => Theirs(r, k)
      BY <1>2, <2>2, <3>1, TheirsBy DEF OrgOf, Unchanging
    <3>4. QED
      BY <1>1, <3>2, <3>3, OneAsks
  <2>3. QED
    BY <2>1, <2>2
<1>9. CASE ListKeys(r)
  <2> DEFINE S == {k \in Keys(r) : k[1] = "key" /\ Row(r, k).org = job[r].org}
  <2>1. CASE ~Member(r, job[r].org)
    BY <1>1, <1>9, <2>1, RefusesAsk DEF ListKeys
  <2>2. CASE Member(r, job[r].org)
    <3>1. S \in SUBSET DOMAIN db /\ \A k \in S : Theirs(r, k)
      BY <1>2, <1>3, <1>4, <2>2, TheirsBy DEF OrgOf
    <3>2. Answer(r, Seqs!SetToSeq(S))
      BY <1>9, <2>2 DEF ListKeys
    <3> HIDE DEF S
    <3>3. QED
      BY <1>1, <3>1, <3>2, SetAsks
  <2>3. QED
    BY <2>1, <2>2
<1>10. CASE GetRun(r)
  <2> DEFINE k == RunRow(job[r].run)
  <2>1. AnswerOne(r, k, SeesRun(r, job[r].run))
    BY <1>10 DEF GetRun
  <2>2. SeesRun(r, job[r].run) => Member(r, db[k].org)
    BY <1>3 DEF SeesRun
  <2>3. k[1] = "run"
    BY TagsOf
  <2> HIDE DEF k
  <2>4. k \in DOMAIN db /\ SeesRun(r, job[r].run) => Theirs(r, k)
    BY <1>2, <2>2, <2>3, TheirsBy DEF OrgOf, Unchanging
  <2>5. QED
    BY <1>1, <2>1, <2>4, OneAsks
<1>11. QED
  BY <1>5, <1>6, <1>7, <1>8, <1>9, <1>10

\* The project of a request is its caller's, but for an admin.
LEMMA ProjectIs ==
  ASSUME NEW r \in Request, Reader(r), NEW p, p = Resolve(r, job[r].slug), p # None
  PROVE  /\ p \in DOMAIN db /\ p[1] = "project" /\ Member(r, p[2])
         /\ ~who[r].admin => p = ProjectRow(who[r].org, job[r].slug)
<1>1. ShapeInv /\ DOMAIN tx[r] = {}
  BY Handling DEF Reader
<1>2. /\ p \in DOMAIN db /\ p[1] = "project"
      /\ ~who[r].admin => p = ProjectRow(who[r].org, job[r].slug)
  BY <1>1, Resolved
<1>3. QED
  BY <1>2, TagsOf DEF Member

LEMMA RevisionAsks ==
  ASSUME NEW r \in Request, Reader(r), GetRevision(r)
  PROVE  Asks(r)'
<1> DEFINE project == Resolve(r, job[r].slug)
           revision == {k \in ConfigsOf(r, project) : Row(r, k).id = job[r].id}
<1>1. pc[r] = "begin" /\ Kind(r) = "read" /\ job[r].what \in Plain
  BY DEF GetRevision, Reading, Begin, Step, Plain
<1>2. CASE project = None \/ revision = {}
  <2>1. Refuse(r, 404)
    BY <1>2 DEF GetRevision
  <2>2. QED
    BY <1>1, <2>1, RefusesAsk
<1>3. CASE ~(project = None \/ revision = {})
  <2>1. Answer(r, Seqs!SetToSeq(revision))
    BY <1>3, Zenon DEF GetRevision
  <2>2. Member(r, project[2])
    BY <1>3, ProjectIs
  <2>3. revision \in SUBSET DOMAIN db /\ \A k \in revision : k[1] = "config" /\ k[2] = project
    BY Handling DEF ConfigsOf
  <2> HIDE DEF revision, project
  <2>4. \A k \in revision : Theirs(r, k)
    BY <2>2, <2>3, TheirsBy DEF Known, Unchanging, OrgOf
  <2>5. QED
    BY <1>1, <2>1, <2>3, <2>4, SetAsks
<1>4. QED
  BY <1>2, <1>3

LEMMA ReviewsAsk ==
  ASSUME NEW r \in Request, Reader(r), ListReviews(r)
  PROVE  Asks(r)'
<1> DEFINE S == {k \in Keys(r) : k[1] = "review" /\ k[2] = job[r].run}
<1>1. pc[r] = "begin" /\ Kind(r) = "read" /\ job[r].what \in Plain
  BY DEF ListReviews, Reading, Begin, Step, Plain
<1>2. CASE ~SeesRun(r, job[r].run)
  BY <1>1, <1>2, RefusesAsk DEF ListReviews
<1>3. CASE SeesRun(r, job[r].run)
  <2>1. Answer(r, Seqs!SetToSeq(S))
    BY <1>3 DEF ListReviews
  <2>2. RunRow(job[r].run) \in DOMAIN db /\ Member(r, db[RunRow(job[r].run)].org)
    BY <1>3, Handling DEF SeesRun
  <2>3. S \in SUBSET DOMAIN db
    BY Handling
  <2>4. \A k \in S : Theirs(r, k)
    BY <2>2, TheirsBy DEF Known, OrgOf
  <2> HIDE DEF S
  <2>5. QED
    BY <1>1, <2>1, <2>3, <2>4, SetAsks
<1>4. QED
  BY <1>2, <1>3

LEMMA ExpandedIs ==
  ASSUME NEW r \in Request, NEW k, k = <<"golden", k[2], k[3], k[4]>>
  PROVE  Expanded(r, k)[1] = "golden" /\ Expanded(r, k)[2] = k[2]
<1>1. \A x : Append(k, x)[1] = "golden" /\ Append(k, x)[2] = k[2]
  OBVIOUS
<1>2. QED
  BY <1>1 DEF Expanded

LEMMA GoldenAsks ==
  ASSUME NEW r \in Request, Reader(r), ListExpanded(r)
  PROVE  Asks(r)'
<1> DEFINE project == Resolve(r, job[r].slug)
           S == CandidatesOf(r, project)
           Expand(listed) == [i \in DOMAIN listed |-> Expanded(r, listed[i])]
<1>1. pc[r] = "begin" /\ Kind(r) = "read" /\ job[r].what \in Plain
  BY DEF ListExpanded, Reading, Begin, Step, Plain
<1>2. CASE project = None
  BY <1>1, <1>2, RefusesAsk DEF ListExpanded
<1>3. CASE project # None
  <2>1. PICK listed \in [{m \in 1..ListLimit : m <= Cardinality(S)} -> S] : Answer(r, Expand(listed))
    BY <1>3, Zenon DEF ListExpanded, Select
  <2>2. Member(r, project[2])
    BY <1>3, ProjectIs
  <2>3. \A k \in S : k \in DOMAIN db /\ k[1] = "golden" /\ db[RunRow(k[2])].project = project
    BY Handling DEF CandidatesOf
  <2>4. \A k \in S : k = <<"golden", k[2], k[3], k[4]>> /\ RunRow(k[2]) \in DOMAIN db
    BY <2>3, Shaped DEF Reader, ShapeInv, WellFormed, RunsStored
  <2>5. ASSUME NEW i \in DOMAIN listed PROVE Theirs(r, Expand(listed)[i])
    <3> DEFINE k == listed[i]
               item == Expanded(r, k)
    <3>1. k \in S /\ item[1] = "golden" /\ item[2] = k[2]
      BY <2>1, <2>4, <2>5, ExpandedIs
    <3>2. RunRow(item[2]) \in DOMAIN db /\ db[RunRow(item[2])].org = project[2]
      BY <2>3, <2>4, <3>1, TagsOf, Handling
    <3> HIDE DEF item
    <3>3. Theirs(r, item)
      BY <2>2, <3>1, <3>2, TheirsBy DEF Known, OrgOf
    <3>4. QED
      BY <2>5, <3>3 DEF item
  <2>6. ItemsOf(Expand(listed)) = {Expand(listed)[i] : i \in DOMAIN listed}
    BY DEF ItemsOf
  <2> HIDE DEF Expand, S, project
  <2>7. \A item \in ItemsOf(Expand(listed)) : Theirs(r, item)
    BY <2>5, <2>6
  <2>8. QED
    BY <1>1, <2>1, <2>7, PlainAsks
<1>4. QED
  BY <1>2, <1>3

LEMMA VersionsAsk ==
  ASSUME NEW r \in Request, Reader(r), AssetVersions(r)
  PROVE  Asks(r)'
<1> DEFINE project == job[r].project
           runs == RunsWith(r, project, job[r].asset)
           rows == UNION {{<<"version", project, a[2], k>> :
                     a \in {b \in Row(r, k).assets : b[1] = job[r].asset}} : k \in runs}
           seen == ~(~Has(r, project) \/ ~Member(r, project[2]) \/ rows = {})
<1>1. pc[r] = "begin" /\ Kind(r) = "read" /\ job[r].what \in Plain
  BY DEF AssetVersions, Reading, Begin, Step, Plain
<1>2. CASE ~seen
  <2>1. Refuse(r, 404)
    BY <1>2 DEF AssetVersions
  <2>2. QED
    BY <1>1, <2>1, RefusesAsk
<1>3. CASE seen
  <2>1. PICK listed \in [{m \in 1..ListLimit : m <= Cardinality(rows)} -> rows] : Answer(r, listed)
    BY <1>3, Zenon DEF AssetVersions, Select
  <2>2. Member(r, project[2])
    BY <1>3
  <2>3. \A item \in rows : \E a, k : item = <<"version", project, a[2], k>>
    OBVIOUS
  <2> HIDE DEF rows, project
  <2>4. \A item \in rows : item[1] = "version" /\ item[2] = project
    BY <2>3
  <2>5. \A item \in rows : Theirs(r, item)
    BY <2>2, <2>4, TheirsBy DEF Known, OrgOf
  <2>6. ItemsOf(listed) \subseteq rows
    BY <2>1 DEF ItemsOf
  <2>7. QED
    BY <1>1, <2>1, <2>5, <2>6, PlainAsks
<1>4. QED
  BY <1>2, <1>3

\* The last of some runs.
LEMMA LatestOf ==
  ASSUME NEW r \in Request, Reader(r), NEW S \in SUBSET {k \in DOMAIN db : k[1] = "run"}, S # {}
  PROVE  LET m == CHOOSE k \in S : \A l \in S : Row(r, k).at >= Row(r, l).at
         IN  m \in S /\ \A l \in S : db[m].at >= db[l].at
<1> DEFINE R == {x \in S \X S : db[x[1]].at > db[x[2]].at}
           IsLast(k) == \A l \in S : Row(r, k).at >= Row(r, l).at
           m == CHOOSE k \in S : IsLast(k)
<1>1. \A x, y \in S : <<x, y>> \in R <=> db[x].at > db[y].at
  OBVIOUS
<1>2. \A k \in S : db[k].at \in Int /\ Row(r, k) = db[k]
  BY Handling
<1>3. IsFiniteSet(S)
  BY Handling, FS_Subset
<1> HIDE DEF R
<1>4. \A x \in S : <<x, x>> \notin R
  BY <1>1, <1>2
<1>5. \A x, y, z \in S : <<x, y>> \in R /\ <<y, z>> \in R => <<x, z>> \in R
  BY <1>1, <1>2
<1>6. PICK k \in S : \A l \in S : <<l, k>> \notin R
  BY <1>3, <1>4, <1>5, SomeFirst
<1>7. IsLast(k)
  <2>1. SUFFICES ASSUME NEW l \in S PROVE Row(r, k).at >= Row(r, l).at
    OBVIOUS
  <2>2. ~(db[l].at > db[k].at)
    BY <1>1, <1>6
  <2>3. /\ db[l].at \in Int /\ Row(r, l) = db[l]
        /\ db[k].at \in Int /\ Row(r, k) = db[k]
    BY <1>2
  <2>4. QED
    BY <2>2, <2>3
<1>8. m \in S /\ IsLast(m)
  <2> HIDE DEF IsLast
  <2>1. QED
    BY <1>7
<1>9. \A l \in S : db[m].at >= db[l].at
  BY <1>2, <1>8
<1>10. QED
  BY <1>8, <1>9

LEMMA AssetsAsk ==
  ASSUME NEW r \in Request, Reader(r), ListAssets(r)
  PROVE  Asks(r)'
<1> DEFINE runs == {k \in Keys(r) : k[1] = "run" /\ SeesRun(r, k[2])}
           groups == UNION {{AssetGroup(r, Row(r, k).project, a[1]) : a \in Row(r, k).assets} : k \in runs}
<1>1. pc[r] = "begin" /\ Kind(r) = "read" /\ job[r].what = "assets"
  BY DEF ListAssets, Reading, Begin, Step
<1>2. PICK rows \in [{m \in 1..ListLimit : m <= Cardinality(groups)} -> groups] : Answer(r, rows)
  BY Zenon DEF ListAssets, Select
<1>3. \A k \in runs : k \in DOMAIN db /\ k[1] = "run" /\ Member(r, db[k].org) /\ Row(r, k) = db[k]
  BY Handling DEF SeesRun
<1>4. ASSUME NEW item \in groups
      PROVE  /\ Theirs(r, item)
             /\ item[6] \in DOMAIN db /\ item[6][1] = "run"
             /\ \A k \in mem[r].before :
                  k[1] = "run" /\ item[2] = db[k].project /\ (\E a \in db[k].assets : a[1] = item[3])
                    => db[item[6]].at >= db[k].at
  <2>1. PICK k \in runs : \E a \in Row(r, k).assets : item = AssetGroup(r, Row(r, k).project, a[1])
    BY <1>4
  <2>01. PICK a \in Row(r, k).assets : item = AssetGroup(r, Row(r, k).project, a[1])
    BY <2>1
  <2> DEFINE project == db[k].project
             with == RunsWith(r, project, a[1])
             last == CHOOSE l \in with : \A x \in with : Row(r, l).at >= Row(r, x).at
  <2>2. k \in DOMAIN db /\ k[1] = "run" /\ Member(r, db[k].org) /\ Row(r, k) = db[k]
    BY <1>3
  <2>3. with = {l \in DOMAIN db : l[1] = "run" /\ db[l].project = project /\ \E b \in db[l].assets : b[1] = a[1]}
    BY Handling DEF RunsWith
  <2>4. item[1] = "asset" /\ item[2] = project /\ item[3] = a[1] /\ item[6] = last
    BY <2>01, <2>2 DEF AssetGroup
  <2>5. k \in with
    BY <2>01, <2>2, <2>3
  <2>6. last \in with /\ \A l \in with : db[last].at >= db[l].at
    <3>1. with \in SUBSET {l \in DOMAIN db : l[1] = "run"} /\ with # {}
      BY <2>3, <2>5
    <3> HIDE DEF with
    <3>2. QED
      BY <3>1, LatestOf
  <2>7. project[2] = db[k].org
    BY <2>2, Handling
  <2> HIDE DEF last, with, project
  <2>8. Theirs(r, item)
    BY <2>2, <2>4, <2>7, TheirsBy DEF Known, OrgOf
  <2>9. item[6] \in DOMAIN db /\ item[6][1] = "run"
    BY <2>3, <2>4, <2>6
  <2>10. ASSUME NEW l \in mem[r].before, l[1] = "run", item[2] = db[l].project, \E b \in db[l].assets : b[1] = item[3]
         PROVE  db[item[6]].at >= db[l].at
    <3>1. l \in DOMAIN db
      BY <2>10, Handling DEF Stored
    <3>2. QED
      BY <2>3, <2>4, <2>6, <2>10, <3>1
  <2>11. QED
    BY <2>8, <2>9, <2>10
<1> HIDE DEF groups
<1>5. \A item \in ItemsOf(rows) : item \in groups
  BY <1>2 DEF ItemsOf
<1>6. RightAssets(r, rows)
  BY <1>4, <1>5 DEF RightAssets
<1>7. RightAnswer(r, rows) /\ ~Sequential(r)
  BY <1>1, <1>6 DEF RightAnswer, RightRead, Sequential
<1>8. QED
  BY <1>1, <1>2, <1>4, <1>5, <1>7, AnswerAsks DEF Fits

\* A row that a limited listing may not leave out.
Due(r, k) ==
  /\ k[1] = (IF job[r].what = "history" THEN "config" ELSE "run")
  /\ OrgOf(k) = who[r].org
  /\ job[r].what = "history" => k[2] = ProjectRow(who[r].org, job[r].slug)
  /\ job[r].what = "days" => db[k].project = ProjectRow(who[r].org, job[r].slug) /\ db[k].source = "live"
  /\ job[r].what = "runs" => job[r].source \in {None, db[k].source}

LEMMA NewestAsk ==
  ASSUME NEW r \in Request, Reader(r), Kind(r) = "read", job[r].what \in {"runs", "days", "history"}, pc[r] = "begin",
         NEW S \in SUBSET {k \in DOMAIN db : k[1] \in {"run", "config"}}, AnswerLatest(r, S),
         \A k \in S : Theirs(r, k),
         \A k \in DOMAIN db : Due(r, k) => k \in S
  PROVE  Asks(r)'
<1> DEFINE R == {x \in S \X S : db[x[1]].at > db[x[2]].at}
<1>1. PICK rows \in [{m \in 1..ListLimit : m <= Cardinality(S)} -> S] :
        /\ Answer(r, rows)
        /\ \A i \in DOMAIN rows :
             /\ \A j \in DOMAIN rows : rows[j] = rows[i] => j = i
             /\ \A y \in S : Row(r, y).at > Row(r, rows[i]).at => \E j \in DOMAIN rows : j < i /\ rows[j] = y
  BY Zenon DEF AnswerLatest, Select
<1>2. \A k : Row(r, k) = db[k]
  BY Handling
<1>3. \A x, y \in S : <<x, y>> \in R <=> db[x].at > db[y].at
  OBVIOUS
<1> HIDE DEF R
<1>4. Listed(S, ListLimit, R, rows)
  BY <1>1, <1>2, <1>3 DEF Listed
<1>5. IsFiniteSet(S) /\ ListLimit \in Nat
  BY Handling, FS_Subset, CurationAssumption
<1>6. /\ \A i \in DOMAIN rows : rows[i] \in S
      /\ \A y \in S \ ItemsOf(rows) : Len(rows) = ListLimit /\ \A i \in DOMAIN rows : <<y, rows[i]>> \notin R
  BY <1>4, <1>5, ListedHas DEF ItemsOf
<1>7. \A item \in ItemsOf(rows) : item \in S
  BY <1>6 DEF ItemsOf
<1>8. \A k \in S : db[k].at \in Int
  BY DEF Reader, ShapeInv, WellFormed
<1>9. ASSUME NEW k \in mem[r].before \ ItemsOf(rows), Due(r, k)
      PROVE  Len(rows) = ListLimit /\ \A item \in ItemsOf(rows) : db[item].at >= db[k].at
  <2>1. k \in DOMAIN db
    BY <1>9, Handling DEF Stored, Due
  <2>2. k \in S \ ItemsOf(rows)
    BY <1>9, <2>1
  <2>3. ASSUME NEW item \in ItemsOf(rows) PROVE db[item].at >= db[k].at
    <3>1. item \in S /\ <<k, item>> \notin R
      BY <1>6, <1>7, <2>2, <2>3 DEF ItemsOf
    <3>2. QED
      BY <1>3, <1>8, <2>2, <3>1
  <2>4. QED
    BY <1>6, <2>2, <2>3
<1>10. RightNewest(r, rows)
  BY <1>7, <1>9 DEF RightNewest, Due
<1>11. RightAnswer(r, rows) /\ ~Sequential(r)
  BY <1>10 DEF RightAnswer, RightRead, Sequential
<1>12. QED
  BY <1>1, <1>7, <1>11, AnswerAsks DEF Fits

LEMMA RunsAsk ==
  ASSUME NEW r \in Request, Reader(r), ListRuns(r)
  PROVE  Asks(r)'
<1> DEFINE S == {k \in Keys(r) : k[1] = "run" /\ SeesRun(r, k[2]) /\ job[r].source \in {None, Row(r, k).source}}
<1>1. pc[r] = "begin" /\ Kind(r) = "read" /\ job[r].what = "runs" /\ AnswerLatest(r, S)
  BY Zenon DEF ListRuns, Reading, Begin, Step
<1>2. \A k \in DOMAIN db : k[1] = "run" => (SeesRun(r, k[2]) <=> Member(r, db[k].org))
  BY Handling DEF SeesRun
<1>3. S = {k \in DOMAIN db : k[1] = "run" /\ Member(r, db[k].org) /\ job[r].source \in {None, db[k].source}}
  BY <1>2, Handling
<1> HIDE DEF S
<1>4. \A k \in S : Theirs(r, k)
  BY <1>3, TheirsBy DEF Known, Unchanging, OrgOf
<1>5. \A k \in DOMAIN db : Due(r, k) => k \in S
  BY <1>1, <1>3 DEF Due, OrgOf, Member
<1>6. S \in SUBSET {k \in DOMAIN db : k[1] \in {"run", "config"}}
  BY <1>3
<1>7. QED
  BY <1>1, <1>4, <1>5, <1>6, NewestAsk

\* A project that is there is what its slug stands for.
LEMMA OwnProject ==
  ASSUME NEW r \in Request, Reader(r), ProjectRow(who[r].org, job[r].slug) \in DOMAIN db
  PROVE  Resolve(r, job[r].slug) = ProjectRow(who[r].org, job[r].slug)
BY Handling DEF Resolve

LEMMA DaysAsk ==
  ASSUME NEW r \in Request, Reader(r), Timeline(r)
  PROVE  Asks(r)'
<1> DEFINE project == Resolve(r, job[r].slug)
           S == {k \in Keys(r) : k[1] = "run" /\ Row(r, k).project = project /\ Row(r, k).source = "live"}
<1>1. pc[r] = "begin" /\ Kind(r) = "read" /\ job[r].what = "days"
  BY DEF Timeline, Reading, Begin, Step
<1>2. CASE project = None
  BY <1>1, <1>2, RefusesAsk DEF Timeline
<1>3. CASE project # None
  <2>1. AnswerLatest(r, S)
    BY <1>3, Zenon DEF Timeline
  <2>2. S = {k \in DOMAIN db : k[1] = "run" /\ db[k].project = project /\ db[k].source = "live"}
    BY Handling
  <2>3. Member(r, project[2])
    BY <1>3, ProjectIs
  <2>4. \A k \in DOMAIN db : k[1] = "run" => db[k].project \in DOMAIN db /\ db[k].project[2] = db[k].org
    BY DEF Reader, ShapeInv, WellFormed
  <2>5. ProjectRow(who[r].org, job[r].slug) \in DOMAIN db => project = ProjectRow(who[r].org, job[r].slug)
    BY OwnProject
  <2> HIDE DEF S, project
  <2>6. \A k \in S : Theirs(r, k)
    BY <2>2, <2>3, <2>4, TheirsBy DEF Known, Unchanging, OrgOf
  <2>7. \A k \in DOMAIN db : Due(r, k) => k \in S
    BY <1>1, <2>2, <2>4, <2>5 DEF Due
  <2>8. S \in SUBSET {k \in DOMAIN db : k[1] \in {"run", "config"}}
    BY <2>2
  <2>9. QED
    BY <1>1, <2>1, <2>6, <2>7, <2>8, NewestAsk
<1>4. QED
  BY <1>2, <1>3

LEMMA HistoryAsk ==
  ASSUME NEW r \in Request, Reader(r), ListHistory(r)
  PROVE  Asks(r)'
<1> DEFINE project == Resolve(r, job[r].slug)
           S == ConfigsOf(r, project)
<1>1. pc[r] = "begin" /\ Kind(r) = "read" /\ job[r].what = "history"
  BY DEF ListHistory, Reading, Begin, Step
<1>2. CASE project = None
  BY <1>1, <1>2, RefusesAsk DEF ListHistory
<1>3. CASE project # None
  <2>1. AnswerLatest(r, S)
    BY <1>3, Zenon DEF ListHistory
  <2>2. S = {k \in DOMAIN db : k[1] = "config" /\ k[2] = project}
    BY Handling DEF ConfigsOf
  <2>3. Member(r, project[2])
    BY <1>3, ProjectIs
  <2>4. \A k \in DOMAIN db : k[1] = "config" => k[2] \in DOMAIN db
    BY DEF Reader, ShapeInv, WellFormed
  <2>5. ProjectRow(who[r].org, job[r].slug) \in DOMAIN db => project = ProjectRow(who[r].org, job[r].slug)
    BY OwnProject
  <2> HIDE DEF S, project
  <2>6. \A k \in S : Theirs(r, k)
    BY <2>2, <2>3, TheirsBy DEF Known, Unchanging, OrgOf
  <2>7. \A k \in DOMAIN db : Due(r, k) => k \in S
    BY <1>1, <2>2, <2>4, <2>5 DEF Due
  <2>8. S \in SUBSET {k \in DOMAIN db : k[1] \in {"run", "config"}}
    BY <2>2
  <2>9. QED
    BY <1>1, <2>1, <2>6, <2>7, <2>8, NewestAsk
<1>4. QED
  BY <1>2, <1>3

LEMMA QueueAsk ==
  ASSUME NEW r \in Request, Reader(r), ReviewQueue(r)
  PROVE  Asks(r)'
<1> DEFINE S == {k \in CallsIn(r, job[r].run) : ToReview(r, k)}
<1>1. pc[r] = "begin" /\ Kind(r) = "read" /\ job[r].what = "queue"
  BY DEF ReviewQueue, Reading, Begin, Step
<1>2. CASE ~SeesRun(r, job[r].run)
  <2>1. Refuse(r, 404)
    BY <1>2, Zenon DEF ReviewQueue
  <2>2. QED
    BY <1>1, <2>1, RefusesAsk
<1>3. CASE SeesRun(r, job[r].run)
  <2>1. PICK rows \in [{m \in 1..ListLimit : m <= Cardinality(S)} -> S] :
          /\ Answer(r, rows)
          /\ \A i \in DOMAIN rows : \A j \in DOMAIN rows : rows[j] = rows[i] => j = i
    BY <1>3, Zenon DEF ReviewQueue, Select
  <2>2. \A k : ToReview(r, k) <=> ~db[k].passed /\ Mine(r, k) \notin DOMAIN db
    BY Handling DEF ToReview, Mine
  <2>3. S = {k \in DOMAIN db : k[1] = "call" /\ db[k].run = job[r].run /\ ~db[k].passed /\ Mine(r, k) \notin DOMAIN db}
    BY <2>2, Handling DEF CallsIn
  <2>4. RunRow(job[r].run) \in DOMAIN db /\ Member(r, db[RunRow(job[r].run)].org)
    BY <1>3, Handling DEF SeesRun
  <2> HIDE DEF S
  <2>5. \A k \in S : Theirs(r, k)
    <3>1. SUFFICES ASSUME NEW k \in S PROVE Theirs(r, k)
      OBVIOUS
    <3>2. k \in DOMAIN db /\ k[1] = "call" /\ k[2][2] = db[RunRow(job[r].run)].org
      BY <2>3, <3>1, Handling
    <3>3. QED
      BY <2>4, <3>2, TheirsBy DEF Known, Unchanging, OrgOf
  <2>6. \A y \in S \ ItemsOf(rows) : Len(rows) = ListLimit
    <3>1. Listed(S, ListLimit, {}, rows)
      BY <2>1 DEF Listed
    <3>2. IsFiniteSet(S) /\ ListLimit \in Nat
      BY <2>3, Handling, FS_Subset, CurationAssumption
    <3>3. QED
      BY <3>1, <3>2, ListedHas DEF ItemsOf
  <2>7. \A item \in ItemsOf(rows) : item \in S
    BY <2>1 DEF ItemsOf
  <2>8. ASSUME NEW k \in mem[r].before, k[1] = "call", db[k].run = job[r].run
        PROVE  IF db[k].passed \/ Mine(r, k) \in mem[r].before THEN k \notin ItemsOf(rows)
               ELSE Mine(r, k) \notin DOMAIN db => k \in ItemsOf(rows) \/ Len(rows) = ListLimit
    <3>1. k \in DOMAIN db
      BY <2>8, Handling DEF Stored
    <3>2. Mine(r, k) \in mem[r].before => Mine(r, k) \in DOMAIN db
      BY Handling DEF Stored, Mine
    <3>3. CASE db[k].passed \/ Mine(r, k) \in mem[r].before
      BY <2>3, <2>7, <3>2, <3>3
    <3>4. CASE ~(db[k].passed \/ Mine(r, k) \in mem[r].before)
      BY <2>3, <2>6, <2>8, <3>1, <3>4
    <3>5. QED
      BY <3>3, <3>4
  <2>9. RightQueue(r, rows)
    BY <2>8, Zenon DEF RightQueue
  <2>10. RightAnswer(r, rows) /\ ~Sequential(r)
    BY <1>1, <2>9 DEF RightAnswer, RightRead, Sequential
  <2>11. QED
    BY <1>1, <2>1, <2>5, <2>7, <2>10, AnswerAsks DEF Fits
<1>4. QED
  BY <1>2, <1>3

LEMMA WindowAsk ==
  ASSUME NEW r \in Request, Reader(r), Aggregate(r)
  PROVE  Asks(r)'
<1> DEFINE project == Resolve(r, job[r].slug)
           S == {k \in CallsOf(r, project) : InWindow(r, Row(r, k)) /\ Row(r, RunRow(Row(r, k).run)).source = "live"}
           rows == Seqs!SetToSeq(S)
<1>1. pc[r] = "begin" /\ Kind(r) = "read" /\ job[r].what = "window"
  BY DEF Aggregate, Reading, Begin, Step
<1>2. CASE project = None
  BY <1>1, <1>2, RefusesAsk DEF Aggregate
<1>3. CASE project # None
  <2>1. Answer(r, rows)
    BY <1>3, Zenon DEF Aggregate
  <2>2. S = {k \in DOMAIN db : /\ k[1] = "call" /\ k[2] = project /\ InWindow(r, db[k])
                              /\ db[RunRow(db[k].run)].source = "live"}
    BY Handling DEF CallsOf
  <2>3. Member(r, project[2]) /\ (~who[r].admin => project = ProjectRow(who[r].org, job[r].slug))
    BY <1>3, ProjectIs
  <2>4. ItemsOf(rows) = S
    BY <2>2, Handling, FS_Subset, SetToSeqHas DEF ItemsOf
  <2> HIDE DEF S, project, rows
  <2>5. \A k \in S : Theirs(r, k)
    BY <2>2, <2>3, TheirsBy DEF Known, Unchanging, OrgOf
  <2>6. RightWindow(r, rows)
    BY <2>2, <2>3, <2>4, Handling DEF RightWindow
  <2>7. RightAnswer(r, rows) /\ ~Sequential(r)
    BY <1>1, <2>6 DEF RightAnswer, RightRead, Sequential
  <2>8. QED
    BY <1>1, <2>1, <2>4, <2>5, <2>7, AnswerAsks DEF Fits
<1>4. QED
  BY <1>2, <1>3

LEMMA ConcatIs ==
  ASSUME NEW s, IsSeq(s), NEW t, IsSeq(t)
  PROVE  /\ IsSeq(s \o t) /\ ItemsOf(s \o t) = ItemsOf(s) \cup ItemsOf(t)
         /\ Len(s) \in Nat /\ DOMAIN s = 1..Len(s) /\ Len(t) \in Nat /\ DOMAIN t = 1..Len(t)
         /\ Len(s \o t) = Len(s) + Len(t) /\ DOMAIN (s \o t) = 1..(Len(s) + Len(t))
         /\ \A i \in 1..Len(s) : (s \o t)[i] = s[i]
         /\ \A i \in (Len(s) + 1)..(Len(s) + Len(t)) : (s \o t)[i] = t[i - Len(s)]
<1> DEFINE S == {s[i] : i \in DOMAIN s} \cup {t[i] : i \in DOMAIN t}
           u == s \o t
<1>1. s \in Seq(S) /\ t \in Seq(S)
  <2>1. s \in Seq({s[i] : i \in DOMAIN s}) /\ t \in Seq({t[i] : i \in DOMAIN t})
    BY DEF IsSeq
  <2>2. QED
    BY <2>1
<1> HIDE DEF S
<1>2. /\ Len(s) \in Nat /\ DOMAIN s = 1..Len(s) /\ Len(t) \in Nat /\ DOMAIN t = 1..Len(t)
      /\ u \in Seq(S) /\ Len(u) = Len(s) + Len(t) /\ DOMAIN u = 1..(Len(s) + Len(t))
      /\ \A i \in 1..Len(s) : u[i] = s[i]
      /\ \A i \in (Len(s) + 1)..(Len(s) + Len(t)) : u[i] = t[i - Len(s)]
  BY <1>1
<1> HIDE DEF u
<1>3. IsSeq(u)
  BY <1>2, SeqIsSeq
<1>4. \A i \in DOMAIN s : i \in DOMAIN u /\ u[i] = s[i]
  BY <1>2
<1>5. \A i \in DOMAIN t : i + Len(s) \in DOMAIN u /\ u[i + Len(s)] = t[i]
  BY <1>2
<1>6. \A j \in DOMAIN u : (j \in DOMAIN s /\ u[j] = s[j]) \/ (j - Len(s) \in DOMAIN t /\ u[j] = t[j - Len(s)])
  BY <1>2
<1>7. ItemsOf(u) = ItemsOf(s) \cup ItemsOf(t)
  BY <1>4, <1>5, <1>6 DEF ItemsOf
<1>8. QED
  BY <1>2, <1>3, <1>7 DEF u

LEMMA PairAsks ==
  ASSUME NEW r \in Request, Reader(r), SelectPair(r)
  PROVE  Asks(r)'
<1>1. pc[r] = "begin" /\ Kind(r) = "read" /\ job[r].what = "drift"
  BY DEF SelectPair, Reading, Begin, Step
<1>2. Types /\ Placed(r) /\ Asking(r) /\ Grows
  BY Shaped, MovesGrow DEF Reader, Asks, Basis
<1>3. ASSUME NEW code, Refuse(r, code), code \in {400, 404} PROVE Asks(r)'
  BY <1>1, <1>3, RefusesAsk
<1>4. CASE job[r].run = job[r].vs \/ ~SeesRun(r, job[r].run) \/ ~SeesRun(r, job[r].vs)
  <2>1. Refuse(r, 400) \/ Refuse(r, 404)
    BY <1>4 DEF SelectPair
  <2>2. QED
    BY <1>3, <2>1
<1>5. CASE ~(job[r].run = job[r].vs \/ ~SeesRun(r, job[r].run) \/ ~SeesRun(r, job[r].vs))
  <2>1. /\ mem' = [mem EXCEPT ![r].todo = <<job[r].run, job[r].vs>>]
        /\ pc' = [pc EXCEPT ![r] = "samples"] /\ UNCHANGED <<job, db, who, answer>>
    BY <1>5 DEF SelectPair, Goto, Unchanged
  <2>2. /\ mem'[r].todo = <<job[r].run, job[r].vs>> /\ mem'[r].seen = mem[r].seen /\ mem[r].seen = <<>>
        /\ mem'[r].before = mem[r].before /\ pc'[r] = "samples" /\ answer'[r] = 0
    BY <1>1, <1>2, <2>1 DEF Types, NoMem, Placed, Asking
  <2>3. DOMAIN <<>> = {} /\ IsSeq(<<>>) /\ ItemsOf(<<>>) = {}
    BY EmptyIsSeq DEF ItemsOf
  <2>4. \A run \in Pair(r) : RunRow(run) \in DOMAIN db /\ Member(r, db[RunRow(run)].org)
    BY <1>5, Handling DEF Pair, SeesRun
  <2>5. RightPair(r, <<>>)
    BY <2>3, <2>4 DEF RightPair
  <2>6. Same(r) /\ Identified(r)'
    BY <1>1, <1>2, <2>1, <2>2, IdentifiedStays DEF Same, Asking
  <2>7. RightPair(r, <<>>)'
    BY <1>2, <2>5, <2>6, PairStays
  <2>8. Sampling(r, <<>>)' /\ Right(r, <<>>)'
    BY <2>1, <2>2, <2>3, <2>7 DEF Sampling, Right, ItemsOf, Told
  <2>9. Kind(r)' = Kind(r) /\ IsSeq(mem[r].seen)'
    BY <2>1, <2>2, <2>3 DEF Kind, IsSeq
  <2>10. Asking(r)'
    BY <1>1, <1>2, <2>1, <2>2, <2>6, <2>9 DEF Asking
  <2>11. QED
    BY <1>1, <2>2, <2>8, <2>9, <2>10 DEF Asks
<1>6. QED
  BY <1>4, <1>5

LEMMA TwoLeft ==
  ASSUME NEW a, NEW b
  PROVE  /\ Head(<<a, b>>) = a /\ Tail(<<a, b>>) = <<b>> /\ Len(<<a, b>>) = 2
         /\ Head(<<b>>) = b /\ Len(<<b>>) = 1
OBVIOUS

LEMMA SampleAsks ==
  ASSUME NEW r \in Request, Reader(r), Sample(r)
  PROVE  Asks(r)'
<1> DEFINE seen == mem[r].seen
           run == Head(mem[r].todo)
           got == Seqs!SetToSeq(CallsIn(r, run))
<1>1. pc[r] = "samples" /\ Kind(r) = "read" /\ UNCHANGED <<job, db, who, answer>>
  BY DEF Sample, At, Step, Unchanged
<1>2. Types /\ Placed(r) /\ Asking(r) /\ Grows /\ Sampling(r, seen)
  BY Shaped, MovesGrow DEF Reader, Asks, Basis
<1>3. job[r].what = "drift" /\ IsSeq(seen)
  BY <1>1, <1>2 DEF Asking, Sequential
<1>4. CallsIn(r, run) = {k \in DOMAIN db : k[1] = "call" /\ db[k].run = run}
  BY Handling DEF CallsIn
<1>5. IsSeq(got) /\ ItemsOf(got) = CallsIn(r, run)
  BY <1>4, Handling, FS_Subset, SetToSeqHas DEF ItemsOf
<1>6. PICK rows : rows = seen \o got /\ IsSeq(rows) /\ ItemsOf(rows) = ItemsOf(seen) \cup CallsIn(r, run)
  <2> HIDE DEF got, seen
  <2>1. IsSeq(seen \o got) /\ ItemsOf(seen \o got) = ItemsOf(seen) \cup CallsIn(r, run)
    BY <1>3, <1>5, ConcatIs
  <2>2. QED
    BY <2>1
<1>7. /\ mem'[r].seen = rows /\ mem'[r].todo = Tail(mem[r].todo) /\ mem'[r].before = mem[r].before
      /\ pc'[r] = IF Len(mem[r].todo) = 1 THEN "reply" ELSE "samples"
  <2>1. pc'[r] = IF Len(mem[r].todo) = 1 THEN "reply" ELSE "samples"
    BY <1>2 DEF Sample, Goto, Types
  <2>2. mem' = [mem EXCEPT ![r].seen = seen \o got, ![r].todo = Tail(mem[r].todo), ![r].code = 200]
    BY DEF Sample
  <2>3. DOMAIN mem = Request /\ DOMAIN mem[r] = DOMAIN NoMem
    BY <1>2 DEF Types
  <2> HIDE DEF got, seen
  <2>4. QED
    BY <1>6, <2>1, <2>2, <2>3 DEF NoMem
<1> HIDE DEF got, seen
<1>8. RightPair(r, seen) /\ run \in Pair(r)
  BY <1>1, <1>2, TwoLeft DEF Sampling, Pair
<1>9. RightPair(r, rows)
  BY <1>4, <1>6, <1>8 DEF RightPair
<1>10. Sampled(run, rows) /\ \A x : Sampled(x, seen) => Sampled(x, rows)
  BY <1>4, <1>6 DEF Sampled
<1>11. ASSUME NEW item \in ItemsOf(rows) PROVE Theirs(r, item)
  <2>1. item \in DOMAIN db /\ item[1] = "call" /\ Member(r, db[RunRow(db[item].run)].org)
    BY <1>9, <1>11 DEF RightPair
  <2>2. item[2][2] = db[RunRow(db[item].run)].org
    BY <2>1, Handling
  <2>3. QED
    BY <2>1, <2>2, TheirsBy DEF Known, Unchanging, OrgOf
<1>12. CASE mem[r].todo = <<job[r].vs>> /\ Sampled(job[r].run, seen)
  <2>1. run = job[r].vs /\ pc'[r] = "reply"
    BY <1>7, <1>12, TwoLeft
  <2>2. RightDrift(r, rows)
    BY <1>9, <1>10, <1>12, <2>1 DEF RightDrift, Pair
  <2>3. RightAnswer(r, rows)
    BY <1>1, <1>3, <2>2 DEF RightAnswer, RightRead
  <2>4. QED
    BY <1>1, <1>6, <1>7, <1>11, <2>1, <2>3, AnswersAsk
<1>13. CASE mem[r].todo = <<job[r].run, job[r].vs>>
  <2>1. run = job[r].run /\ pc'[r] = "samples" /\ mem'[r].todo = <<job[r].vs>>
    BY <1>7, <1>13, TwoLeft
  <2>2. Same(r) /\ Stored(r) /\ Identified(r)'
    BY <1>1, <1>2, <1>7, IdentifiedStays DEF Same, Asking, Stored
  <2>3. RightPair(r, rows)' /\ \A x \in Pair(r) : Sampled(x, rows) => Sampled(x, rows)'
    BY <1>2, <1>9, <2>2, PairStays
  <2>4. ItemsOf(rows)' = ItemsOf(rows)
    BY DEF ItemsOf
  <2>5. Sampled(job[r].run, rows)'
    BY <1>1, <1>10, <2>1, <2>4 DEF Sampled
  <2>6. Sampling(r, rows)'
    BY <1>1, <2>1, <2>3, <2>5 DEF Sampling
  <2>7. \A item \in ItemsOf(rows) : Theirs(r, item)'
    BY <1>2, <1>11, <2>2, TheirsStays
  <2>8. answer'[r] = 0
    BY <1>1, <1>2 DEF Placed
  <2>9. Right(r, rows)'
    BY <2>1, <2>4, <2>7, <2>8 DEF Right, Told
  <2>10. Kind(r)' = Kind(r) /\ IsSeq(mem[r].seen)'
    BY <1>1, <1>6, <1>7 DEF Kind, IsSeq
  <2>11. Asking(r)'
    BY <1>1, <1>2, <1>3, <1>7, <2>1, <2>2, <2>10 DEF Asking
  <2>12. QED
    BY <1>1, <1>7, <2>6, <2>9, <2>10, <2>11 DEF Asks
<1>14. QED
  BY <1>1, <1>2, <1>12, <1>13 DEF Sampling, seen

\* The config that a reader takes for the latest of S.
NewestIn(r, S) == CHOOSE k \in S : \A l \in S : Newer(Row(r, k), Row(r, l))

LEMMA NewestOf ==
  ASSUME NEW r \in Request, Reader(r), NEW S \in SUBSET {k \in DOMAIN db : k[1] = "config"}, S # {}
  PROVE  LET m == NewestIn(r, S)
         IN  m \in S /\ \A l \in S : Newer(db[m], db[l])
<1> DEFINE R == {x \in S \X S : ~Newer(db[x[2]], db[x[1]])}
           IsNewest(k) == \A l \in S : Newer(Row(r, k), Row(r, l))
           m == CHOOSE k \in S : IsNewest(k)
<1>1. \A x, y \in S : <<x, y>> \in R <=> ~Newer(db[y], db[x])
  OBVIOUS
<1>2. \A k \in S : db[k].at \in Int /\ db[k].id \in Int
  BY DEF Reader, ShapeInv, WellFormed
<1>3. \A k : Row(r, k) = db[k]
  BY Handling
<1>4. IsFiniteSet(S)
  BY Handling, FS_Subset
<1> HIDE DEF R
<1>5. \A x \in S : <<x, x>> \notin R
  BY <1>1, <1>2 DEF Newer
<1>6. \A x, y, z \in S : <<x, y>> \in R /\ <<y, z>> \in R => <<x, z>> \in R
  BY <1>1, <1>2 DEF Newer
<1>7. PICK k \in S : \A l \in S : <<l, k>> \notin R
  BY <1>4, <1>5, <1>6, SomeFirst
<1>8. \A l \in S : Newer(db[k], db[l])
  BY <1>1, <1>7
<1>9. IsNewest(k)
  BY <1>3, <1>8, Zenon
<1>10. m \in S /\ IsNewest(m)
  <2> HIDE DEF IsNewest
  <2>1. QED
    BY <1>7, <1>9
<1>11. \A l \in S : Newer(db[m], db[l])
  BY <1>3, <1>10, Zenon
<1>12. m = NewestIn(r, S)
  BY Zenon DEF NewestIn
<1> HIDE DEF m
<1>13. QED
  BY <1>10, <1>11, <1>12

LEMMA LatestAsks ==
  ASSUME NEW r \in Request, Reader(r), ReadLatest(r) \/ LoadLatest(r)
  PROVE  Asks(r)'
<1> DEFINE project == Resolve(r, job[r].slug)
           S == ConfigsOf(r, project)
           got == NewestIn(r, S)
<1>1. pc[r] = "begin" /\ Kind(r) \in {"get_config", "invoke"}
  BY DEF ReadLatest, LoadLatest, Begin, Step
<1>2. CASE project = None \/ S = {}
  <2>1. Refuse(r, 404) \/ Refuse(r, 422)
    BY <1>2 DEF ReadLatest, LoadLatest
  <2>2. QED
    BY <1>1, <2>1, RefusesAsk
<1>3. CASE ~(project = None \/ S = {})
  <2>1. GetsLatest(r, project)
    BY <1>3 DEF ReadLatest, LoadLatest
  <2>2. Answer(r, <<got>>)
    BY <2>1 DEF GetsLatest, Answer, NewestIn
  <2>3. S = {k \in DOMAIN db : k[1] = "config" /\ k[2] = project}
    BY Handling DEF ConfigsOf
  <2>4. Member(r, project[2])
    BY <1>3, ProjectIs
  <2>5. got \in S /\ \A l \in S : Newer(db[got], db[l])
    <3>1. S \in SUBSET {k \in DOMAIN db : k[1] = "config"} /\ S # {}
      BY <1>3, <2>3
    <3> HIDE DEF S
    <3>2. QED
      BY <3>1, NewestOf
  <2> HIDE DEF got, S, project
  <2>6. got \in DOMAIN db /\ got[1] = "config" /\ got[2] = project /\ ProxyEssentialShape(got[3])
    BY <2>3, <2>5 DEF Reader, ShapeInv, WellFormed
  <2>7. \A k \in mem[r].before : k[1] = "config" => k \in DOMAIN db
    BY Handling DEF Stored
  <2>8. RightLatest(r, <<got>>)
    BY <2>3, <2>5, <2>6, <2>7 DEF RightLatest
  <2>9. ItemsOf(<<got>>) = {got}
    BY DEF ItemsOf
  <2>10. Theirs(r, got)
    BY <2>4, <2>6, TheirsBy DEF Known, Unchanging, OrgOf
  <2>11. RightAnswer(r, <<got>>) /\ ~Sequential(r)
    BY <1>1, <2>8 DEF RightAnswer, Sequential
  <2>12. QED
    BY <1>1, <2>2, <2>9, <2>10, <2>11, AnswerAsks DEF Fits
<1>4. QED
  BY <1>2, <1>3

\* The order of calls, and what is past a cursor.
Dated(row) == row.id \in Int /\ (row.at = None \/ row.at \in Int)

LEMMA StreamTransitive ==
  ASSUME NEW x, Dated(x), NEW y, Dated(y), NEW z, Dated(z), StreamOrder(x, y), StreamOrder(y, z)
  PROVE  StreamOrder(x, z)
BY ListingsAssumption DEF Dated, StreamOrder

LEMMA StreamTotal ==
  ASSUME NEW x, Dated(x), NEW y, Dated(y)
  PROVE  /\ x.id # y.id => StreamOrder(x, y) \/ StreamOrder(y, x)
         /\ x.id = y.id /\ x.at = y.at => ~StreamOrder(x, y)
BY ListingsAssumption DEF Dated, StreamOrder

LEMMA CursorOrder ==
  ASSUME NEW x, Dated(x), NEW y, Dated(y)
  PROVE  /\ PastCursor(Cursor(x), y) => StreamOrder(x, y)
         /\ StreamOrder(x, y) /\ x.at # None => PastCursor(Cursor(x), y)
<1>1. CASE x.at = None
  <2>1. Cursor(x) = [i |-> x.id]
    BY <1>1 DEF Cursor
  <2>2. "t" \notin DOMAIN Cursor(x) /\ Cursor(x).i = x.id
    BY <2>1
  <2>3. PastCursor(Cursor(x), y) <=> y.at = None /\ y.id < x.id
    BY <2>2 DEF PastCursor
  <2>4. QED
    BY <1>1, <2>3 DEF Dated, StreamOrder
<1>2. CASE x.at # None
  <2>1. Cursor(x) = [i |-> x.id, t |-> x.at]
    BY <1>2 DEF Cursor
  <2>2. "t" \in DOMAIN Cursor(x) /\ Cursor(x).i = x.id /\ Cursor(x).t = x.at
    BY <2>1
  <2>3. PastCursor(Cursor(x), y) <=> y.at # None /\ (y.at < x.at \/ (y.at = x.at /\ y.id < x.id))
    BY <2>2 DEF PastCursor
  <2>4. QED
    BY <1>2, <2>3 DEF Dated, StreamOrder
<1>3. QED
  BY <1>1, <1>2

\* What a page is of the calls of a project.
LEMMA FetchedIs ==
  ASSUME NEW r \in Request, Reader(r), NEW project,
         NEW rest \in SUBSET {k \in DOMAIN db : k[1] = "call" /\ k[2] = project},
         NEW fetched \in [{m \in 1..(PageLimit + 1) : m <= Cardinality(rest)} -> rest],
         \A i \in DOMAIN fetched :
           /\ \A j \in DOMAIN fetched : fetched[j] = fetched[i] => j = i
           /\ \A y \in rest : StreamOrder(db[y], db[fetched[i]]) => \E j \in DOMAIN fetched : j < i /\ fetched[j] = y
  PROVE  /\ IsSeq(fetched) /\ Len(fetched) \in Nat /\ DOMAIN fetched = 1..Len(fetched) /\ Len(fetched) <= PageLimit + 1
         /\ \A i \in DOMAIN fetched : fetched[i] \in rest
         /\ \A i, j \in DOMAIN fetched : i < j => StreamOrder(db[fetched[i]], db[fetched[j]])
         /\ \A y \in rest \ ItemsOf(fetched) :
              Len(fetched) = PageLimit + 1 /\ \A i \in DOMAIN fetched : StreamOrder(db[fetched[i]], db[y])
<1> DEFINE R == {x \in rest \X rest : StreamOrder(db[x[1]], db[x[2]])}
<1>1. \A x, y \in rest : <<x, y>> \in R <=> StreamOrder(db[x], db[y])
  OBVIOUS
<1> HIDE DEF R
<1>2. \A x, y \in rest : Dated(db[x]) /\ (db[x].id = db[y].id => x = y)
  BY DEF Reader, ShapeInv, WellFormed, CallRow, Dated
<1>3. Listed(rest, PageLimit + 1, R, fetched)
  BY <1>1 DEF Listed
<1>4. IsFiniteSet(rest) /\ PageLimit + 1 \in Nat
  BY Handling, FS_Subset, PageLimitAssumption
<1>5. /\ IsSeq(fetched) /\ Len(fetched) \in Nat /\ DOMAIN fetched = 1..Len(fetched) /\ Len(fetched) <= PageLimit + 1
      /\ \A i \in DOMAIN fetched : fetched[i] \in rest
      /\ \A y \in rest \ ItemsOf(fetched) :
           Len(fetched) = PageLimit + 1 /\ \A i \in DOMAIN fetched : <<y, fetched[i]>> \notin R
  <2>1. PICK n : n = PageLimit + 1
    OBVIOUS
  <2>2. n \in Nat /\ Listed(rest, n, R, fetched)
    BY <1>3, <1>4, <2>1
  <2>3. /\ IsSeq(fetched) /\ Len(fetched) \in Nat /\ DOMAIN fetched = 1..Len(fetched) /\ Len(fetched) <= n
        /\ \A i \in DOMAIN fetched : fetched[i] \in rest
        /\ \A y \in rest \ {fetched[i] : i \in DOMAIN fetched} :
             Len(fetched) = n /\ \A i \in DOMAIN fetched : <<y, fetched[i]>> \notin R
    BY <1>4, <2>2, ListedHas
  <2>4. QED
    BY <2>1, <2>3 DEF ItemsOf
<1>6. ASSUME NEW x \in rest, NEW y \in rest, x # y, ~StreamOrder(db[x], db[y])
      PROVE  StreamOrder(db[y], db[x])
  BY <1>2, <1>6, StreamTotal
<1>7. ASSUME NEW i \in DOMAIN fetched, NEW j \in DOMAIN fetched, i < j
      PROVE  StreamOrder(db[fetched[i]], db[fetched[j]])
  <2>1. fetched[i] # fetched[j] /\ i \in Nat /\ j \in Nat
    BY <1>5, <1>7
  <2>2. ~StreamOrder(db[fetched[j]], db[fetched[i]])
    <3>1. SUFFICES ASSUME StreamOrder(db[fetched[j]], db[fetched[i]]) PROVE FALSE
      OBVIOUS
    <3>2. PICK l \in DOMAIN fetched : l < i /\ fetched[l] = fetched[j]
      BY <1>5, <3>1
    <3>3. l = j /\ l \in Nat
      BY <1>5, <3>2
    <3>4. QED
      BY <1>7, <2>1, <3>2, <3>3
  <2>3. QED
    BY <1>5, <1>6, <2>1, <2>2
<1>8. ASSUME NEW y \in rest \ ItemsOf(fetched)
      PROVE  Len(fetched) = PageLimit + 1 /\ \A i \in DOMAIN fetched : StreamOrder(db[fetched[i]], db[y])
  <2>1. \A i \in DOMAIN fetched : fetched[i] # y /\ fetched[i] \in rest
    BY <1>5, <1>8 DEF ItemsOf
  <2>2. \A i \in DOMAIN fetched : ~StreamOrder(db[y], db[fetched[i]])
    BY <1>1, <1>5, <1>8
  <2>3. QED
    BY <1>5, <1>6, <1>8, <2>1, <2>2
<1>9. QED
  BY <1>5, <1>7, <1>8

LEMMA FirstOf ==
  ASSUME NEW s, IsSeq(s), NEW n \in Nat, n <= Len(s)
  PROVE  /\ IsSeq(SubSeq(s, 1, n)) /\ Len(SubSeq(s, 1, n)) = n /\ DOMAIN SubSeq(s, 1, n) = 1..n
         /\ \A i \in 1..n : SubSeq(s, 1, n)[i] = s[i]
<1> DEFINE S == {s[i] : i \in DOMAIN s}
           u == SubSeq(s, 1, n)
<1>1. s \in Seq(S)
  BY DEF IsSeq
<1> HIDE DEF S
<1>2. u \in Seq(S) /\ Len(u) = n /\ DOMAIN u = 1..n /\ \A i \in 1..n : u[i] = s[i]
  BY <1>1
<1>3. IsSeq(u)
  BY <1>2, SeqIsSeq
<1>4. QED
  BY <1>2, <1>3

\* The rows that follow those a walk has got.
ToRead(r, project) ==
  {k \in DOMAIN db :
    /\ k[1] = "call" /\ k[2] = project /\ Shown(r, db[k])
    /\ mem[r].seen # <<>> => PastCursor(Cursor(db[Last(mem[r].seen)]), db[k])}

\* One page of a walk: what the handler does, and what its answer is.
LEMMA PageRead ==
  ASSUME NEW r \in Request, Reader(r), ReadPage(r), Resolve(r, job[r].slug) # None
  PROVE  LET rest == ToRead(r, Resolve(r, job[r].slug))
         IN  \E fetched \in [{m \in 1..(PageLimit + 1) : m <= Cardinality(rest)} -> rest] :
               LET more == Len(fetched) > PageLimit
               IN  /\ \A i \in DOMAIN fetched :
                        /\ \A j \in DOMAIN fetched : fetched[j] = fetched[i] => j = i
                        /\ \A y \in rest : StreamOrder(db[y], db[fetched[i]]) =>
                             \E j \in DOMAIN fetched : j < i /\ fetched[j] = y
                   /\ mem' = [mem EXCEPT ![r].code = 200,
                        ![r].seen = mem[r].seen \o (IF more THEN SubSeq(fetched, 1, PageLimit) ELSE fetched)]
                   /\ Goto(r, IF more THEN "idle" ELSE "reply")
                   /\ UNCHANGED <<tx, clock>> /\ Unchanged
<1> DEFINE project == Resolve(r, job[r].slug)
           rest == ToRead(r, project)
           there == {k \in CallsOf(r, project) :
                      /\ Shown(r, Row(r, k))
                      /\ mem[r].seen # <<>> =>
                           PastCursor(Cursor(Row(r, mem[r].seen[Len(mem[r].seen)])), Row(r, k))}
           Page(fetched) ==
             LET more == Len(fetched) > PageLimit
             IN  /\ mem' = [mem EXCEPT ![r].code = 200,
                      ![r].seen = mem[r].seen \o (IF more THEN SubSeq(fetched, 1, PageLimit) ELSE fetched)]
                 /\ Goto(r, IF more THEN "idle" ELSE "reply")
                 /\ UNCHANGED <<tx, clock>> /\ Unchanged
<1>1. \A k : Row(r, k) = db[k]
  BY Handling
<1>2. there = rest
  BY Handling DEF CallsOf, ToRead, Last
<1>3. PICK fetched \in [{m \in 1..(PageLimit + 1) : m <= Cardinality(there)} -> there] :
        /\ \A i \in DOMAIN fetched :
             /\ \A j \in DOMAIN fetched : fetched[j] = fetched[i] => j = i
             /\ \A y \in there : StreamOrder(Row(r, y), Row(r, fetched[i])) =>
                  \E j \in DOMAIN fetched : j < i /\ fetched[j] = y
        /\ Page(fetched)
  BY Zenon DEF ReadPage, Select
<1> HIDE DEF there, rest, Page
<1>4. fetched \in [{m \in 1..(PageLimit + 1) : m <= Cardinality(rest)} -> rest]
  BY <1>2, <1>3, Zenon
<1>5. \A i \in DOMAIN fetched :
        /\ \A j \in DOMAIN fetched : fetched[j] = fetched[i] => j = i
        /\ \A y \in rest : StreamOrder(db[y], db[fetched[i]]) =>
             \E j \in DOMAIN fetched : j < i /\ fetched[j] = y
  BY <1>1, <1>2, <1>3
<1>6. Page(fetched)
  BY <1>3
<1>7. QED
  BY <1>4, <1>5, <1>6, Zenon DEF rest, Page

\* A walk goes on in order, and leaves nothing out.
LEMMA WalkAsks ==
  ASSUME NEW r \in Request, Reader(r), ReadPage(r), Resolve(r, job[r].slug) # None
  PROVE  Asks(r)'
<1> DEFINE project == Resolve(r, job[r].slug)
           rest == ToRead(r, project)
           got == mem[r].seen
<1>1. pc[r] = "begin" /\ Kind(r) = "walk"
  BY DEF ReadPage, Begin, Step
<1>2. Types /\ Placed(r) /\ Asking(r) /\ Grows /\ Walks(r) /\ Right(r, got) /\ IsSeq(got)
  BY <1>1, Shaped, MovesGrow DEF Reader, Asks, Basis, Asking, Sequential
<1>3. PICK fetched \in [{m \in 1..(PageLimit + 1) : m <= Cardinality(rest)} -> rest] :
        LET more == Len(fetched) > PageLimit
        IN  /\ \A i \in DOMAIN fetched :
                 /\ \A j \in DOMAIN fetched : fetched[j] = fetched[i] => j = i
                 /\ \A y \in rest : StreamOrder(db[y], db[fetched[i]]) =>
                      \E j \in DOMAIN fetched : j < i /\ fetched[j] = y
            /\ mem' = [mem EXCEPT ![r].code = 200,
                 ![r].seen = mem[r].seen \o (IF more THEN SubSeq(fetched, 1, PageLimit) ELSE fetched)]
            /\ Goto(r, IF more THEN "idle" ELSE "reply")
            /\ UNCHANGED <<tx, clock>> /\ Unchanged
  BY PageRead, Zenon
<1> DEFINE more == Len(fetched) > PageLimit
<1>4. PICK page : page = IF more THEN SubSeq(fetched, 1, PageLimit) ELSE fetched
  OBVIOUS
<1>5. PICK rows : rows = got \o page
  OBVIOUS
<1>6. /\ mem'[r].seen = rows /\ mem'[r].before = mem[r].before
      /\ pc'[r] = (IF more THEN "idle" ELSE "reply") /\ UNCHANGED <<job, db, who, answer>>
  <2>1. /\ mem' = [mem EXCEPT ![r].code = 200, ![r].seen = rows]
        /\ pc' = [pc EXCEPT ![r] = IF more THEN "idle" ELSE "reply"] /\ Unchanged
    BY <1>3, <1>4, <1>5, Zenon DEF Goto
  <2> HIDE DEF more
  <2>2. QED
    BY <1>2, <2>1 DEF Types, NoMem, Unchanged
<1>7. rest \subseteq {k \in DOMAIN db : k[1] = "call" /\ k[2] = project}
  BY DEF ToRead
<1>8. /\ IsSeq(fetched) /\ Len(fetched) \in Nat /\ DOMAIN fetched = 1..Len(fetched) /\ Len(fetched) <= PageLimit + 1
      /\ \A i \in DOMAIN fetched : fetched[i] \in rest
      /\ \A i, j \in DOMAIN fetched : i < j => StreamOrder(db[fetched[i]], db[fetched[j]])
      /\ \A y \in rest \ ItemsOf(fetched) :
           Len(fetched) = PageLimit + 1 /\ \A i \in DOMAIN fetched : StreamOrder(db[fetched[i]], db[y])
  <2> HIDE DEF rest, project
  <2>1. QED
    BY <1>3, <1>7, FetchedIs
<1> HIDE DEF rest, got
<1>9. /\ IsSeq(page) /\ Len(page) \in Nat /\ DOMAIN page = 1..Len(page)
      /\ more => Len(page) = PageLimit /\ PageLimit \in DOMAIN page
      /\ \A i \in DOMAIN page : i \in DOMAIN fetched /\ page[i] = fetched[i]
      /\ ~more => page = fetched
  <2>1. CASE more
    BY <1>4, <1>8, <2>1, FirstOf, PageLimitAssumption
  <2>2. CASE ~more
    BY <1>4, <1>8, <2>2
  <2>3. QED
    BY <2>1, <2>2
<1>10. /\ IsSeq(rows) /\ ItemsOf(rows) = ItemsOf(got) \cup ItemsOf(page)
       /\ Len(got) \in Nat /\ DOMAIN got = 1..Len(got)
       /\ Len(rows) = Len(got) + Len(page) /\ DOMAIN rows = 1..(Len(got) + Len(page))
       /\ \A i \in 1..Len(got) : rows[i] = got[i]
       /\ \A i \in (Len(got) + 1)..(Len(got) + Len(page)) : rows[i] = page[i - Len(got)]
  BY <1>2, <1>5, <1>9, ConcatIs
<1>11. \A k \in DOMAIN db : k[1] = "call" => Dated(db[k])
  BY DEF Reader, ShapeInv, WellFormed, Dated
<1>12. /\ \A i \in DOMAIN got : got[i] \in DOMAIN db /\ got[i][1] = "call"
       /\ \A i, j \in DOMAIN got : i < j => StreamOrder(db[got[i]], db[got[j]])
  BY <1>2 DEF Walks, got
<1>13. \A i \in DOMAIN page : page[i] \in rest /\ page[i] \in DOMAIN db /\ page[i][1] = "call"
  BY <1>7, <1>8, <1>9
<1>14. \A i \in DOMAIN rows : rows[i] \in DOMAIN db /\ rows[i][1] = "call"
  BY <1>10, <1>12, <1>13
<1>15. ASSUME NEW k \in rest, got # <<>> PROVE PastCursor(Cursor(db[Last(got)]), db[k])
  BY <1>15 DEF rest, ToRead, got
<1>16. ASSUME NEW i \in DOMAIN got, NEW j \in DOMAIN page
       PROVE  StreamOrder(db[got[i]], db[page[j]])
  <2> DEFINE n == Len(got)
  <2>1. n \in DOMAIN got /\ got # <<>> /\ Last(got) = got[n] /\ i <= n /\ i \in Nat
    BY <1>10, <1>16, EmptyIsSeq DEF Last
  <2>2. StreamOrder(db[got[n]], db[page[j]])
    BY <1>11, <1>12, <1>13, <1>15, <1>16, <2>1, CursorOrder
  <2>3. i = n \/ StreamOrder(db[got[i]], db[got[n]])
    BY <1>12, <1>16, <2>1
  <2>4. QED
    BY <1>11, <1>12, <1>13, <1>16, <2>1, <2>2, <2>3, StreamTransitive
<1>17. ASSUME NEW i \in DOMAIN page, NEW j \in DOMAIN page, i < j
       PROVE  StreamOrder(db[page[i]], db[page[j]])
  BY <1>8, <1>9, <1>17
<1>18. ASSUME NEW i \in DOMAIN rows, NEW j \in DOMAIN rows, i < j
       PROVE  StreamOrder(db[rows[i]], db[rows[j]])
  <2>1. i \in Nat /\ j \in Nat
    BY <1>9, <1>10, <1>18
  <2>2. CASE j <= Len(got)
    BY <1>10, <1>12, <1>18, <2>1, <2>2
  <2>3. CASE i > Len(got)
    <3>1. /\ i - Len(got) \in DOMAIN page /\ j - Len(got) \in DOMAIN page /\ i - Len(got) < j - Len(got)
          /\ rows[i] = page[i - Len(got)] /\ rows[j] = page[j - Len(got)]
      BY <1>9, <1>10, <1>18, <2>1, <2>3
    <3>2. QED
      BY <1>17, <3>1
  <2>4. CASE i <= Len(got) /\ j > Len(got)
    <3>1. /\ i \in DOMAIN got /\ j - Len(got) \in DOMAIN page
          /\ rows[i] = got[i] /\ rows[j] = page[j - Len(got)]
      BY <1>9, <1>10, <1>18, <2>1, <2>4
    <3>2. QED
      BY <1>16, <3>1
  <2>5. QED
    BY <1>10, <2>1, <2>2, <2>3, <2>4
<1>19. \A item \in ItemsOf(rows) : Theirs(r, item)
  <2>1. \A item \in ItemsOf(got) : Theirs(r, item)
    BY <1>2 DEF Right
  <2>2. Member(r, project[2])
    BY ProjectIs
  <2>3. \A k \in rest : k \in DOMAIN db /\ k[1] = "call" /\ k[2] = project
    BY <1>7
  <2> HIDE DEF project
  <2>4. \A k \in rest : Theirs(r, k)
    BY <2>2, <2>3, TheirsBy DEF Known, Unchanging, OrgOf
  <2>5. \A item \in ItemsOf(page) : item \in rest
    BY <1>13 DEF ItemsOf
  <2>6. QED
    BY <1>10, <2>1, <2>4, <2>5
<1>20. ASSUME Timely(r), NEW k \in CallsBefore(r)
       PROVE  k \in ItemsOf(got) \/ k \in rest
  <2>1. /\ k \in DOMAIN db /\ k[1] = "call" /\ k[2] = project /\ Shown(r, db[k])
    BY <1>20, Handling DEF CallsBefore, Stored
  <2>2. got # <<>> => k \in ItemsOf(got) \/ PastCursor(Cursor(db[Last(got)]), db[k])
    BY <1>1, <1>2, <1>20 DEF Walks, got
  <2>3. QED
    BY <2>1, <2>2 DEF rest, ToRead, got
<1>21. ASSUME more, Timely(r), NEW k \in rest
       PROVE  k \in ItemsOf(page) \/ PastCursor(Cursor(db[Last(rows)]), db[k])
  <2> DEFINE last == fetched[PageLimit]
  <2>1. /\ PageLimit \in DOMAIN page /\ PageLimit \in DOMAIN fetched /\ page[PageLimit] = last
        /\ Len(page) = PageLimit /\ Len(fetched) = PageLimit + 1
    BY <1>8, <1>9, <1>21, PageLimitAssumption
  <2>2. Last(rows) = last
    BY <1>10, <2>1, PageLimitAssumption DEF Last
  <2>3. last \in rest /\ last \in DOMAIN db /\ last[1] = "call"
    BY <1>7, <1>8, <2>1
  <2>4. db[last].at # None
    <3>1. SUFFICES ASSUME db[last].at = None PROVE FALSE
      OBVIOUS
    <3>2. last \in mem[r].before
      BY <1>1, <1>2, <2>3, <3>1 DEF Walks
    <3>3. last \in CallsBefore(r)
      BY <2>3, <3>2 DEF CallsBefore, rest, ToRead
    <3>4. QED
      BY <1>21, <3>1, <3>3 DEF Timely
  <2>5. SUFFICES ASSUME k \notin ItemsOf(page) PROVE StreamOrder(db[last], db[k])
    BY <1>7, <1>11, <1>21, <2>2, <2>3, <2>4, CursorOrder
  <2>6. CASE k \notin ItemsOf(fetched)
    BY <1>8, <1>21, <2>1, <2>6
  <2>7. CASE k \in ItemsOf(fetched)
    <3>1. PICK i \in DOMAIN fetched : k = fetched[i]
      BY <2>7 DEF ItemsOf
    <3>2. i \notin DOMAIN page
      BY <1>9, <2>5, <3>1 DEF ItemsOf
    <3>3. PageLimit < i
      BY <1>8, <1>9, <2>1, <3>1, <3>2, PageLimitAssumption
    <3>4. QED
      BY <1>8, <2>1, <3>1, <3>3
  <2>8. QED
    BY <2>6, <2>7
<1>22. ASSUME ~more, NEW k \in rest PROVE k \in ItemsOf(page)
  BY <1>8, <1>9, <1>22, PageLimitAssumption
<1>23. /\ Same(r) /\ Stored(r) /\ Kind(r)' = Kind(r) /\ Identified(r)'
       /\ CallsBefore(r)' \in {{}, CallsBefore(r)} /\ (CallsBefore(r)' = CallsBefore(r) => (Timely(r)' <=> Timely(r)))
  <2>1. Same(r) /\ Stored(r) /\ Kind(r)' = Kind(r) /\ Identified(r)'
    BY <1>1, <1>2, <1>6, IdentifiedStays DEF Same, Asking, Stored, Kind
  <2>2. CallsBefore(r)' \in {{}, CallsBefore(r)}
    BY <2>1, CallsBeforeStay DEF Reader
  <2>3. QED
    BY <1>6, <2>1, <2>2 DEF Timely
<1>24. answer'[r] = 0
  BY <1>1, <1>2, <1>6 DEF Placed
<1>25. Walks(r)'
  <2>1. \A i \in DOMAIN rows : rows[i] \in DOMAIN db' /\ rows[i][1] = "call"
    BY <1>6, <1>14
  <2>2. \A i, j \in DOMAIN rows : i < j => StreamOrder(db'[rows[i]], db'[rows[j]])
    BY <1>6, <1>18
  <2>3. \A k \in DOMAIN db' : k[1] = "call" /\ db'[k].at = None => k \in mem'[r].before
    BY <1>1, <1>2, <1>6 DEF Walks
  <2>4. ASSUME more, Timely(r)', NEW k \in CallsBefore(r)'
        PROVE  k \in ItemsOf(rows) \/ PastCursor(Cursor(db'[Last(rows)]), db'[k])
    <3>1. Timely(r) /\ k \in CallsBefore(r)
      BY <1>23, <2>4
    <3> HIDE DEF more
    <3>2. QED
      BY <1>6, <1>10, <1>20, <1>21, <2>4, <3>1
  <2>5. ASSUME ~more, Timely(r)', NEW k \in CallsBefore(r)' PROVE k \in ItemsOf(rows)
    <3>1. Timely(r) /\ k \in CallsBefore(r)
      BY <1>23, <2>5
    <3> HIDE DEF more
    <3>2. QED
      BY <1>10, <1>20, <1>22, <2>5, <3>1
  <2>6. /\ mem'[r].seen = rows /\ ItemsOf(mem[r].seen)' = ItemsOf(rows) /\ Last(mem[r].seen)' = Last(rows)
        /\ pc'[r] \in {"idle", "sent", "touch", "begin"} => more
        /\ Told(r)' => ~more
    BY <1>6, <1>24 DEF ItemsOf, Last, Told
  <2> HIDE DEF more
  <2>7. QED
    BY <2>1, <2>2, <2>3, <2>4, <2>5, <2>6 DEF Walks
<1>26. Right(r, rows)' /\ Sampling(r, rows)'
  <2>1. ItemsOf(rows)' = ItemsOf(rows) /\ \A item \in ItemsOf(rows) : Theirs(r, item)'
    BY <1>2, <1>19, <1>23, TheirsStays DEF ItemsOf
  <2>2. RightAnswer(r, rows)'
    BY <1>1, <1>23 DEF RightAnswer
  <2>3. QED
    BY <1>6, <2>1, <2>2 DEF Right, Sampling
<1>27. IsSeq(mem[r].seen)'
  BY <1>6, <1>10 DEF IsSeq
<1>28. Asking(r)'
  BY <1>1, <1>2, <1>6, <1>23, <1>27 DEF Asking, Stored
<1>29. QED
  BY <1>6, <1>23, <1>25, <1>26, <1>28 DEF Asks

LEMMA HandlerAsks ==
  ASSUME NEW r \in Request, Reader(r), Acts(r), ~Served(r)
  PROVE  Asks(r)'
<1>1. Asking(r)
  BY DEF Reader, Asks
<1>2. pc[r] \notin {"ensure", "boot_insert"} /\ Kind(r) \in {"get_config", "invoke", "walk", "read"}
  BY <1>1 DEF Asking, Reader, Readers
<1>3. ReadLatest(r) \/ LoadLatest(r) \/ Calls(r) \/ Reads(r)
  BY <1>2, Kinds DEF Acts, Tenancies, Configs, Creators, Curators
<1>4. CASE ReadLatest(r) \/ LoadLatest(r)
  BY <1>4, LatestAsks
<1>5. CASE Calls(r)
  <2>1. ReadPage(r)
    BY <1>2, <1>5 DEF Calls, StampCalls, InsertCalls, Begin, At
  <2>2. CASE Resolve(r, job[r].slug) = None
    <3>1. Refuse(r, 404) /\ pc[r] = "begin"
      BY <2>1, <2>2, Zenon DEF ReadPage, Begin, Step
    <3>2. QED
      BY <3>1, RefusesAsk
  <2>3. QED
    BY <2>1, <2>2, WalkAsks
<1>6. CASE Reads(r)
  BY <1>6, TenancyReadsAsk, RunsAsk, PairAsks, SampleAsks, HistoryAsk, RevisionAsks, QueueAsk, ReviewsAsk,
     GoldenAsks, DaysAsk, WindowAsk, AssetsAsk, VersionsAsk DEF Reads
<1>7. QED
  BY <1>3, <1>4, <1>5, <1>6

LEMMA AsksStutter ==
  ASSUME UNCHANGED vars, NEW q \in Request, Asks(q)
  PROVE  Asks(q)'
<1>1. UNCHANGED <<job, db, tx, pc, who, mem, answer, clock>>
  BY DEF vars
<1>2. Kind(q)' = Kind(q)
  BY <1>1 DEF Kind
<1>3. CASE Kind(q) \in Readers
  <2>1. Grows /\ Same(q) /\ (Told(q)' <=> Told(q))
    BY <1>1 DEF Grows, SameOwner, Same, Told
  <2>2. Asking(q) /\ Stored(q)
    BY <1>3 DEF Asks, Asking, Stored
  <2>3. Asking(q)'
    BY <1>1, <1>2, <2>2 DEF Asking, Identified, Sequential, IsSeq
  <2>4. ASSUME NEW rows \in {mem[q].seen} PROVE Right(q, rows)' /\ Sampling(q, rows)'
    <3>1. Right(q, rows) /\ Sampling(q, rows)
      BY <1>3 DEF Asks
    <3>2. ItemsOf(rows)' = ItemsOf(rows) /\ \A item \in ItemsOf(rows) : Theirs(q, item)'
      BY <2>1, <3>1, TheirsStays DEF Right, ItemsOf
    <3>3. RightAnswer(q, rows) => RightAnswer(q, rows)'
      BY <1>2, <2>1, <2>2, LatestStays, ReadStays DEF RightAnswer
    <3>4. Sampling(q, rows)'
      BY <1>1, <3>1 DEF Sampling, RightPair, Sampled, Pair, Member, ItemsOf
    <3>5. QED
      BY <2>1, <3>1, <3>2, <3>3, <3>4 DEF Right
  <2>5. ASSUME Kind(q) = "walk" PROVE Walks(q)'
    <3>1. Resolve(q, job[q].slug)' = Resolve(q, job[q].slug)
      BY <1>1 DEF Resolve, Has, Row, Keys
    <3>2. CallsBefore(q)' = CallsBefore(q)
      BY <1>1, <3>1 DEF CallsBefore, Shown, InWindow, Row
    <3>3. (Timely(q)' <=> Timely(q)) /\ ItemsOf(mem[q].seen)' = ItemsOf(mem[q].seen)
          /\ Last(mem[q].seen)' = Last(mem[q].seen)
      BY <1>1, <3>2 DEF Timely, ItemsOf, Last
    <3>4. Walks(q)
      BY <1>3, <2>5 DEF Asks
    <3>5. QED
      BY <1>1, <2>1, <3>2, <3>3, <3>4 DEF Walks
  <2>6. QED
    BY <1>1, <1>2, <1>3, <2>3, <2>4, <2>5 DEF Asks
<1>4. CASE Kind(q) \notin Readers
  BY <1>2, <1>4 DEF Asks
<1>5. QED
  BY <1>3, <1>4

LEMMA ReadsInvKept == ReadsInv /\ [Next]_vars => ReadsInv'
<1> SUFFICES ASSUME ReadsInv, [Next]_vars PROVE ReadsInv'
  OBVIOUS
<1>1. ShapeInv /\ ShapeInv'
  BY ShapeInvKept DEF ReadsInv
<1>2. CASE UNCHANGED vars
  BY <1>1, <1>2, AsksStutter DEF ReadsInv
<1>3. ASSUME NEW r \in Request, Acts(r), NEW q \in Request PROVE Asks(q)'
  <2>1. Moves(r) /\ Asks(q) /\ Asks(r) /\ Rest(r)
    BY <1>1, <1>3, Shaped, ActionsMove, MovesRest DEF ReadsInv, Acts
  <2>2. CASE q # r
    BY <1>1, <2>1, <2>2, OthersAsk
  <2>3. CASE q = r /\ Kind(r) \in Readers
    BY <1>1, <1>3, <2>1, <2>3, ServedAsks, HandlerAsks DEF Reader
  <2>4. CASE q = r /\ Kind(r) \notin Readers
    BY <2>1, <2>4 DEF Rest, Asks, Kind
  <2>5. QED
    BY <2>2, <2>3, <2>4
<1>4. QED
  BY <1>1, <1>2, <1>3 DEF Next, AllDone, Acts, ReadsInv

LEMMA ReadsInvInit == ControlPlaneInit => ReadsInv
<1> SUFFICES ASSUME ControlPlaneInit PROVE ReadsInv
  OBVIOUS
<1>1. ShapeInv
  BY ShapeInvInit
<1>2. ASSUME NEW r \in Request PROVE Asks(r)
  <2>1. pc[r] = "idle" /\ answer[r] = 0 /\ mem[r].seen = <<>> /\ mem[r].before = {}
    BY DEF ControlPlaneInit, TenancyInit, NoMem
  <2>2. IsSeq(mem[r].seen) /\ DOMAIN mem[r].seen = {}
    BY <2>1, EmptyIsSeq
  <2>3. Asking(r)
    BY <2>1, <2>2 DEF Asking
  <2>4. \A rows \in {mem[r].seen} : Right(r, rows) /\ Sampling(r, rows)
    BY <2>1, <2>2 DEF Right, Sampling, ItemsOf, Told
  <2>5. Walks(r)
    BY <2>1, <2>2 DEF Walks, Told
  <2>6. QED
    BY <2>3, <2>4, <2>5 DEF Asks
<1>3. QED
  BY <1>1, <1>2 DEF ReadsInv

\* What a reader who was answered has.
LEMMA Answered ==
  ASSUME ReadsInv, NEW r \in Request, Kind(r) \in Readers, answer[r] = 200
  PROVE  /\ Identified(r) /\ Asking(r)
         /\ Items(r) = ItemsOf(mem[r].seen)
         /\ \A item \in Items(r) : Theirs(r, item)
         /\ RightAnswer(r, mem[r].seen)
         /\ Kind(r) = "walk" => Walks(r)
         /\ DOMAIN tx[r] = {} /\ \A k : Row(r, k) = db[k]
         /\ Told(r)
<1>1. Asks(r) /\ Basis /\ Told(r)
  BY Shaped DEF ReadsInv, Told
<1>2. Asking(r) /\ Right(r, mem[r].seen) /\ (Kind(r) = "walk" => Walks(r))
  BY <1>1 DEF Asks
<1>3. Items(r) = ItemsOf(mem[r].seen)
  BY DEF Items, ItemsOf
<1>4. Identified(r)
  BY <1>2 DEF Asking
<1>5. QED
  BY <1>1, <1>2, <1>3, <1>4, ReadersWriteNothing DEF Right

LEMMA ReadAnswered ==
  ASSUME ReadsInv, NEW r \in Request, NEW what, Read(r, what)
  PROVE  RightRead(r, mem[r].seen) /\ Items(r) = ItemsOf(mem[r].seen)
BY Answered DEF Read, Readers, RightAnswer

\* The config an invoke gets is the latest.
LEMMA LatestWhole == ReadsInv => ConfigCurrent
<1> SUFFICES ASSUME ReadsInv, NEW r \in Request, Kind(r) \in {"get_config", "invoke"}, answer[r] = 200
             PROVE  RightLatest(r, mem[r].seen)
  BY DEF ConfigCurrent, RightLatest
<1>1. QED
  BY Answered DEF Readers, RightAnswer

LEMMA WalksWhole == ReadsInv => PagesWhole
<1> SUFFICES ASSUME ReadsInv, NEW r \in Request, Kind(r) = "walk", answer[r] = 200
             PROVE  /\ Timely(r) => CallsBefore(r) \subseteq ItemsOf(mem[r].seen)
                    /\ \A i, j \in DOMAIN mem[r].seen : mem[r].seen[i] = mem[r].seen[j] => i = j
  BY DEF PagesWhole, Timely, CallsBefore, ItemsOf
<1>1. Walks(r) /\ Told(r) /\ IsSeq(mem[r].seen)
  BY Answered DEF Readers, Asking, Sequential
<1>2. ASSUME NEW i \in DOMAIN mem[r].seen, NEW j \in DOMAIN mem[r].seen, mem[r].seen[i] = mem[r].seen[j], i < j
      PROVE  FALSE
  <2>1. /\ mem[r].seen[i] \in DOMAIN db /\ mem[r].seen[i][1] = "call"
        /\ StreamOrder(db[mem[r].seen[i]], db[mem[r].seen[i]])
    BY <1>1, <1>2 DEF Walks
  <2>2. Dated(db[mem[r].seen[i]])
    BY <2>1 DEF ReadsInv, ShapeInv, WellFormed, Dated
  <2>3. QED
    BY <2>1, <2>2, StreamTotal
<1>3. \A i, j \in DOMAIN mem[r].seen : i = j \/ i < j \/ j < i
  <2>1. PICK seen : seen = mem[r].seen
    OBVIOUS
  <2>2. Len(seen) \in Nat /\ DOMAIN seen = 1..Len(seen)
    BY <1>1, <2>1, ConcatIs
  <2>3. \A i, j \in DOMAIN seen : i = j \/ i < j \/ j < i
    BY <2>2
  <2>4. QED
    BY <2>1, <2>3
<1>4. QED
  BY <1>1, <1>2, <1>3 DEF Walks

LEMMA MembersApart == ReadsInv => TenantsApart
BY Answered DEF TenantsApart, Theirs

LEMMA ListsWhole == ReadsInv => NewestFirst
<1> SUFFICES ASSUME ReadsInv, NEW r \in Request
             PROVE  /\ \A what \in {"runs", "days", "history"} : Read(r, what) => RightNewest(r, mem[r].seen)
                    /\ \A what \in {"runs", "days", "history"} : Read(r, what) => job[r].what = what
                    /\ Read(r, "assets") => RightAssets(r, mem[r].seen)
                    /\ Items(r) = ItemsOf(mem[r].seen)
  BY DEF NewestFirst, RightNewest, RightAssets
<1>1. Items(r) = ItemsOf(mem[r].seen)
  BY DEF Items, ItemsOf
<1>2. QED
  BY <1>1, ReadAnswered DEF RightRead, Read

LEMMA QueueWhole == ReadsInv => QueueDue
<1> SUFFICES ASSUME ReadsInv, NEW r \in Request, Read(r, "queue")
             PROVE  RightQueue(r, mem[r].seen) /\ Items(r) = ItemsOf(mem[r].seen)
  BY DEF QueueDue, RightQueue, Mine
<1>1. QED
  BY ReadAnswered DEF RightRead, Read

\* Windows that follow each other sum over no call twice.
LEMMA WindowsWhole == ReadsInv => WindowsSplit
<1> SUFFICES ASSUME ReadsInv PROVE WindowsSplit
  OBVIOUS
<1>1. \A r \in Request : Read(r, "window") =>
        /\ RightWindow(r, mem[r].seen) /\ Items(r) = ItemsOf(mem[r].seen)
        /\ {job[r].from, job[r].to} \subseteq Int \cup {None}
  <2>1. PICK s \in Scenario : job = s.job
    BY Shaped DEF ReadsInv, Types
  <2>2. QED
    BY <2>1, ReadAnswered, ListingsAssumption DEF RightRead, Read, Kind
<1>2. \A k \in DOMAIN db : WellFormed(db, k)
  BY DEF ReadsInv, ShapeInv
<1>3. ASSUME NEW q \in Request, NEW r \in Request, Read(q, "window"), Read(r, "window"),
             job[q].to = job[r].from, job[q].to # None, NEW item \in Items(q) \cap Items(r)
      PROVE  FALSE
  <2>1. item \in DOMAIN db /\ item[1] = "call" /\ InWindow(q, db[item]) /\ InWindow(r, db[item])
    BY <1>1, <1>3 DEF RightWindow
  <2>2. db[item].at \in Int /\ job[q].to \in Int
    BY <1>1, <1>2, <1>3, <2>1 DEF WellFormed, InWindow
  <2>3. db[item].at < job[q].to /\ db[item].at >= job[q].to
    BY <1>3, <2>1 DEF InWindow
  <2>4. QED
    BY <2>2, <2>3
<1>4. ASSUME NEW q \in Request, NEW r \in Request, Read(q, "window"), Kind(r) = "walk", answer[r] = 200,
             <<job[q].from, job[q].to, "live", "recent">> = <<job[r].from, job[r].to, job[r].source, job[r].tab>>,
             job[q].from # None \/ job[q].to # None,
             <<job[q].slug, who[q].org, FALSE, FALSE>> = <<job[r].slug, who[r].org, who[q].admin, who[r].admin>>,
             Items(q) \subseteq mem[r].before, NEW item \in Items(q)
      PROVE  item \in Items(r)
  <2>1. /\ item \in DOMAIN db /\ item[1] = "call" /\ InWindow(q, db[item])
        /\ RunRow(db[item].run) \in DOMAIN db /\ db[RunRow(db[item].run)].source = "live"
        /\ item[2] = ProjectRow(who[r].org, job[r].slug)
    <3>1. ~who[q].admin /\ who[q].org = who[r].org /\ job[q].slug = job[r].slug
      BY <1>4
    <3>2. RightWindow(q, mem[q].seen) /\ item \in ItemsOf(mem[q].seen)
      BY <1>1, <1>4
    <3>3. QED
      BY <3>1, <3>2 DEF RightWindow
  <2>2. Walks(r) /\ Told(r) /\ Items(r) = ItemsOf(mem[r].seen) /\ DOMAIN tx[r] = {} /\ \A k : Row(r, k) = db[k]
    BY <1>4, Answered DEF Readers
  <2>3. item[2] \in DOMAIN db
    <3>1. item[2] = db[RunRow(db[item].run)].project
      BY <1>2, <2>1 DEF WellFormed, CallRow
    <3>2. RunRow(db[item].run)[1] = "run"
      BY TagsOf
    <3>3. QED
      BY <1>2, <2>1, <3>1, <3>2 DEF WellFormed
  <2>4. item[2] = Resolve(r, job[r].slug)
    <3>1. ResolvesTo(r, job[r].slug, Resolve(r, job[r].slug))
      BY <2>2, ResolveIs DEF ReadsInv
    <3>2. QED
      BY <2>1, <2>3, <3>1 DEF ResolvesTo
  <2>5. \A row : InWindow(r, row) <=> InWindow(q, row)
    BY <1>4 DEF InWindow
  <2>6. Shown(r, db[item])
    BY <1>4, <2>1, <2>2, <2>5 DEF Shown
  <2>7. item \in CallsBefore(r)
    BY <1>4, <2>1, <2>4, <2>6 DEF CallsBefore
  <2>8. Timely(r)
    BY <1>4 DEF Timely, CallsBefore, Shown, InWindow
  <2>9. QED
    BY <2>2, <2>7, <2>8 DEF Walks
<1>5. QED
  BY <1>3, <1>4 DEF WindowsSplit

\* A set with another of two members and more as its image has two and more.
LEMMA TwoAtLeast ==
  ASSUME NEW S, IsFiniteSet(S), NEW f, Cardinality({f[x] : x \in S}) >= 2
  PROVE  Cardinality(S) >= 2
<1> DEFINE T == {f[x] : x \in S}
           g == [x \in S |-> f[x]]
<1>1. g \in Surjection(S, T)
  BY DEF Surjection
<1>2. IsFiniteSet(T) /\ Cardinality(T) <= Cardinality(S)
  <2> HIDE DEF g, T
  <2>1. QED
    BY <1>1, FS_Surjection
<1>3. Cardinality(T) \in Nat /\ Cardinality(S) \in Nat
  BY <1>2, FS_CardinalityType
<1>4. QED
  BY <1>2, <1>3

\* A pushed run has all of its rows.
LEMMA SamplesWhole == ReadsInv => RunsWhole
<1> SUFFICES ASSUME ReadsInv, NEW r \in Request, Read(r, "drift")
             PROVE  /\ \A run \in Pair(r) :
                         db[RunRow(run)].source # "live" =>
                           {db[k].row : k \in {l \in Items(r) : db[l].run = run}} = DOMAIN db[RunRow(run)].rows
                    /\ (\A run \in Pair(r) : Cardinality(DOMAIN db[RunRow(run)].rows) >= 2) => Compared(r)
  BY DEF RunsWhole, Pair
<1> DEFINE seen == mem[r].seen
           Of(run) == {l \in Items(r) : db[l].run = run}
           Rows(run) == {db[k].row : k \in Of(run)}
<1>1. /\ RightDrift(r, seen) /\ Items(r) = ItemsOf(seen) /\ IsSeq(seen)
      /\ DOMAIN tx[r] = {} /\ \A k : Row(r, k) = db[k]
  BY ReadAnswered, Answered DEF Read, Readers, RightRead, Asking, Sequential
<1>2. ASSUME NEW run \in Pair(r)
      PROVE  IF db[RunRow(run)].source = "live" THEN DOMAIN db[RunRow(run)].rows = {}
             ELSE DOMAIN db[RunRow(run)].rows = Rows(run)
  <2> DEFINE k == RunRow(run)
  <2>1. k \in DOMAIN db /\ k[1] = "run" /\ k[2] = run
    BY <1>1, TagsOf DEF RightDrift, RightPair
  <2>2. Of(run) = {c \in DOMAIN db : c[1] = "call" /\ db[c].run = run}
    BY <1>1 DEF RightDrift, RightPair, Sampled
  <2>3. WellFormed(db, k)
    BY <2>1 DEF ReadsInv, ShapeInv
  <2> HIDE DEF k, Of
  <2>4. IF db[k].source = "live" THEN DOMAIN db[k].rows = {}
        ELSE DOMAIN db[k].rows = {db[l].row : l \in Of(run)}
    BY <2>1, <2>2, <2>3 DEF WellFormed
  <2>5. QED
    BY <2>4 DEF k
<1>3. ASSUME NEW run \in Pair(r), Cardinality(DOMAIN db[RunRow(run)].rows) >= 2
      PROVE  Cardinality({i \in DOMAIN seen : Row(r, seen[i]).run = run}) >= 2
  <2> DEFINE S == {i \in DOMAIN seen : Row(r, seen[i]).run = run}
             f == [i \in S |-> db[seen[i]].row]
  <2>1. DOMAIN db[RunRow(run)].rows = Rows(run)
    <3>1. Cardinality({}) = 0
      BY FS_EmptySet
    <3>2. DOMAIN db[RunRow(run)].rows # {}
      BY <1>3, <3>1
    <3> HIDE DEF Rows
    <3>3. QED
      BY <1>2, <3>2
  <2>2. IsFiniteSet(S)
    <3>1. PICK s : s = seen
      OBVIOUS
    <3>2. Len(s) \in Nat /\ DOMAIN s = 1..Len(s)
      BY <1>1, <3>1, ConcatIs
    <3>3. IsFiniteSet(1..Len(s))
      BY <3>2, FS_Interval
    <3>4. QED
      BY <3>1, <3>2, <3>3, FS_Subset
  <2>3. S = {i \in DOMAIN seen : db[seen[i]].run = run}
    BY <1>1
  <2>4. {f[i] : i \in S} = Rows(run)
    <3>1. \A i \in S : f[i] = db[seen[i]].row
      OBVIOUS
    <3>2. \A i \in S : seen[i] \in Of(run)
      BY <1>1, <2>3 DEF ItemsOf
    <3>3. \A l \in Of(run) : \E i \in S : l = seen[i]
      BY <1>1, <2>3 DEF ItemsOf
    <3> HIDE DEF S, f, Of
    <3>4. QED
      BY <3>1, <3>2, <3>3
  <2>5. Cardinality({f[i] : i \in S}) >= 2
    BY <1>3, <2>1, <2>4
  <2> HIDE DEF S, f
  <2>6. Cardinality(S) >= 2
    BY <2>2, <2>5, TwoAtLeast
  <2>7. QED
    BY <2>6 DEF S
<1>4. QED
  BY <1>2, <1>3 DEF Compared, Pair

\* Every answer to a reader is right: it has what was committed when the reader
\* asked and nothing of another org, for the pages of a walk as for one statement.
THEOREM ReadersServed == Spec => []ReadsWhole
<1>1. ControlPlaneInit => ReadsInv
  BY ReadsInvInit
<1>2. ReadsInv /\ [Next]_vars => ReadsInv'
  BY ReadsInvKept
<1>3. ReadsInv => ReadsWhole
  BY LatestWhole, WalksWhole, MembersApart, ListsWhole, QueueWhole, WindowsWhole, SamplesWhole DEF ReadsWhole
<1>4. QED
  BY <1>1, <1>2, <1>3, PTL DEF Spec
=============================================================================
