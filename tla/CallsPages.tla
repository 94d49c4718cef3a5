----------------------------- MODULE CallsPages -----------------------------
(***************************************************************************)
(* The stream of a project's calls, read page by page with a cursor while  *)
(* runs are ingested: list_project_calls of calls.py.                      *)
(*                                                                         *)
(* The rows of a run are stored with one timestamp, which is taken before  *)
(* they are inserted; their ids are serial.  Rows from before the          *)
(* migration that added ingested_at may have None for it, which PostgreSQL *)
(* puts first in a descending order.  The content of a live call is in its *)
(* row; that of a row of a pushed run is in the payload of the run.        *)
(***************************************************************************)
EXTENDS Tenancy

CONSTANT PageLimit   \* the rows of a page

ASSUME PageLimitAssumption == PageLimit \in Nat \ {0}

\* The calls of an ingest come in order, and no two ingests have one run id, nor
\* one that is stored, and their project is there: what happens otherwise is the
\* subject of RunIngest.  Stored calls belong to stored runs, and no id is drawn
\* twice.
ASSUME IngestsApart ==
  \A s \in Scenario :
    /\ \A r \in Request :
         s.job[r].kind = "ingest" =>
           /\ Len(s.job[r].calls) \in Nat
           /\ s.job[r].calls \in Seq({s.job[r].calls[i] : i \in DOMAIN s.job[r].calls})
           /\ KeyRow(s.job[r].key) \in DOMAIN s.db
           /\ ProjectRow(s.db[KeyRow(s.job[r].key)].org, s.job[r].slug) \in DOMAIN s.db
           /\ RunRow(s.job[r].run) \notin DOMAIN s.db
           /\ \A q \in Request \ {r} : s.job[q].kind = "ingest" => s.job[q].run # s.job[r].run
    /\ \A k \in DOMAIN s.db :
         k[1] = "call" => RunRow(s.db[k].run) \in DOMAIN s.db /\ k[3] \in 1..Cardinality(DOMAIN s.db)

CallRow(project, id) == <<"call", project, id>>

CallsOf(r, project) == {k \in Keys(r) : k[1] = "call" /\ k[2] = project}

\* The half-open window [from, to) on ingested_at, each bound optional.
InWindow(r, row) ==
  /\ job[r].from # None => row.at # None /\ row.at >= job[r].from
  /\ job[r].to # None => row.at # None /\ row.at < job[r].to

\* The WHERE clause but for the cursor: tab, window and source.
Shown(r, row) ==
  /\ job[r].tab = "failures" => ~row.passed
  /\ job[r].tab = "passed" => row.passed
  /\ InWindow(r, row)
  /\ job[r].source # None => Row(r, RunRow(row.run)).source = job[r].source

\* _encode_cursor and _decode_cursor: a row without a timestamp has a cursor
\* of its id only.
Cursor(row) == IF row.at = None THEN [i |-> row.id] ELSE [i |-> row.id, t |-> row.at]

\* Mutant: the cursor is the timestamp alone.
PastCursorByTime(c, y) ==
  IF "t" \in DOMAIN c THEN y.at # None /\ y.at < c.t ELSE y.at = None /\ y.id < c.i

\* Row y is on the pages after the cursor.
PastCursor(c, y) ==
  IF "t" \in DOMAIN c
    THEN y.at # None /\ (y.at < c.t \/ (y.at = c.t /\ y.id < c.i))
    ELSE y.at = None /\ y.id < c.i

\* ORDER BY ingested_at DESC, id DESC.
StreamOrder(x, y) ==
  \/ x.at = None /\ y.at # None
  \/ x.at = y.at /\ x.id > y.id
  \/ x.at # None /\ y.at # None /\ x.at > y.at

\* One page, with a LIMIT of one more row: if there is one, the client sends
\* another request with the cursor of the last row it got.
ReadPage(r) ==
  /\ Begin(r, "walk")
  /\ LET project == Resolve(r, job[r].slug)
         got == mem[r].seen
         rest == {k \in CallsOf(r, project) :
                   /\ Shown(r, Row(r, k))
                   /\ got # <<>> => PastCursor(Cursor(Row(r, got[Len(got)])), Row(r, k))}
         earlier(k, l) == StreamOrder(Row(r, k), Row(r, l))
     IN  IF project = None THEN Refuse(r, 404)
         ELSE \E fetched \in Select(rest, PageLimit + 1, earlier) :
           LET more == Len(fetched) > PageLimit
           IN  /\ mem' = [mem EXCEPT ![r].code = 200,
                                     ![r].seen = got \o (IF more THEN SubSeq(fetched, 1, PageLimit) ELSE fetched)]
               /\ Goto(r, IF more THEN "idle" ELSE "reply")
               /\ UNCHANGED <<tx, clock>>
               /\ Unchanged

\* An ingest of a run with the rows job.calls: now_iso() first...
StampCalls(r) ==
  /\ Begin(r, "ingest")
  /\ mem' = [mem EXCEPT ![r].time = clock + 1]
  /\ clock' = clock + 1
  /\ Goto(r, "insert")
  /\ UNCHANGED tx /\ Unchanged

\* What a run and its row i become.
RunOf(r, project) ==
  [org |-> who[r].org, project |-> project, at |-> mem[r].time, source |-> "cli",
   rows |-> [row \in {job[r].calls[i].row : i \in DOMAIN job[r].calls} |-> "input"],
   assets |-> job[r].assets]

CallOf(r, i) ==
  [at |-> mem[r].time, id |-> clock + i, run |-> job[r].run, row |-> job[r].calls[i].row,
   passed |-> job[r].calls[i].passed, detail |-> None]

\* ...and the INSERTs of the run and of its rows.
InsertCalls(r) ==
  LET project == ProjectRow(who[r].org, job[r].slug)
      n == Len(job[r].calls)
      calls == {CallRow(project, clock + i) : i \in 1..n}
  IN  /\ At(r, "ingest", "insert")
      /\ tx' = [tx EXCEPT ![r] = [k \in {RunRow(job[r].run)} \cup calls |->
           IF k \in calls THEN CallOf(r, k[3] - clock) ELSE RunOf(r, project)]]
      /\ clock' = clock + n
      /\ Return(r, 201)
      /\ Unchanged

Calls(r) == ReadPage(r) \/ StampCalls(r) \/ InsertCalls(r)
=============================================================================
