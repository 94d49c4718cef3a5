------------------------------ MODULE Curation ------------------------------
(***************************************************************************)
(* What people add to the rows of stored runs: the reviews of reviews.py   *)
(* and the golden candidates of golden.py, with `evalguard golden export'. *)
(*                                                                         *)
(* A stored run has its org, its project and, in its payload, the content  *)
(* of its rows: an input or none (telemetry may lack it).  The content of  *)
(* a live call is in its row of run_rows.                                  *)
(***************************************************************************)
EXTENDS CallsPages

CONSTANT ListLimit   \* the limit of a listing

\* Stored candidates have an id, the request that wrote their note, and a stored
\* run.  The lines of a file come in order.
ASSUME CurationAssumption ==
  /\ ListLimit \in Nat
  /\ \A s \in Scenario :
       /\ \A k \in DOMAIN s.db :
            k[1] = "golden" => {"id", "by"} \subseteq DOMAIN s.db[k] /\ RunRow(k[2]) \in DOMAIN s.db
       /\ \A r \in Request :
            s.job[r].kind = "export" => s.job[r].lines \in Seq({s.job[r].lines[i] : i \in DOMAIN s.job[r].lines})

ReviewRow(r) == <<"review", job[r].run, job[r].row, who[r].key>>
GoldenRow(r) == <<"golden", job[r].run, job[r].row, who[r].key>>

\* The visibility gate of a run.
SeesRun(r, run) == Has(r, RunRow(run)) /\ Member(r, Row(r, RunRow(run)).org)

\* The rows of a run in run_rows.
CallsIn(r, run) == {k \in Keys(r) : k[1] = "call" /\ Row(r, k).run = run}

\* The gate of reviews.py and golden.py, and the row's existence.
SeesRow(r) ==
  /\ SeesRun(r, job[r].run)
  /\ \E k \in CallsIn(r, job[r].run) : Row(r, k).row = job[r].row
-----------------------------------------------------------------------------
\* submit_review: SELECT, then UPDATE or INSERT; no savepoint.

SelectReview(r) ==
  /\ Begin(r, "review")
  /\ IF ~SeesRow(r) THEN Refuse(r, 404)
     ELSE /\ Goto(r, IF Has(r, ReviewRow(r)) THEN "update" ELSE "insert")
          /\ UNCHANGED <<tx, mem, clock>>
          /\ Unchanged

UpdateReview(r) ==
  /\ At(r, "review", "update")
  /\ ~Locked(r, ReviewRow(r))
  /\ Write(r, ReviewRow(r), [by |-> r])
  /\ Return(r, 201)
  /\ UNCHANGED clock
  /\ Unchanged

\* The loser of a race has an IntegrityError that nothing catches.
InsertReview(r) ==
  /\ At(r, "review", "insert")
  /\ ~Locked(r, ReviewRow(r))
  /\ IF Has(r, ReviewRow(r))
       THEN Refuse(r, 500)
       ELSE /\ Write(r, ReviewRow(r), [by |-> r])
            /\ Return(r, 201)
            /\ UNCHANGED clock
            /\ Unchanged
-----------------------------------------------------------------------------
\* promote: SELECT, then UPDATE, or INSERT in a savepoint.

SelectGolden(r) ==
  /\ Begin(r, "promote")
  /\ IF ~SeesRow(r) THEN Refuse(r, 404)
     ELSE /\ IF Has(r, GoldenRow(r))
               THEN /\ mem' = [mem EXCEPT ![r].id = Row(r, GoldenRow(r)).id]
                    /\ Goto(r, "update")
               ELSE Goto(r, "insert") /\ UNCHANGED mem
          /\ UNCHANGED <<tx, clock>>
          /\ Unchanged

\* UPDATE ... WHERE id = :id, of no row if that has been deleted meanwhile.
UpdateGolden(r) ==
  /\ At(r, "promote", "update")
  /\ ~Locked(r, GoldenRow(r))
  /\ IF Has(r, GoldenRow(r)) /\ Row(r, GoldenRow(r)).id = mem[r].id
       THEN Write(r, GoldenRow(r), [Row(r, GoldenRow(r)) EXCEPT !.by = r])
       ELSE UNCHANGED tx
  /\ Return(r, 201)
  /\ UNCHANGED clock
  /\ Unchanged

\* Mutant: the loser of the race returns without its update.
InsertGoldenLoses(r) ==
  /\ At(r, "promote", "insert")
  /\ ~Locked(r, GoldenRow(r))
  /\ IF Has(r, GoldenRow(r))
       THEN Return(r, 201) /\ UNCHANGED <<tx, clock>>
       ELSE /\ Write(r, GoldenRow(r), [id |-> clock + 1, created |-> clock + 1, by |-> r])
            /\ clock' = clock + 1
            /\ Return(r, 201)
  /\ Unchanged

InsertGolden(r) ==
  /\ At(r, "promote", "insert")
  /\ ~Locked(r, GoldenRow(r))
  /\ IF Has(r, GoldenRow(r))
       THEN Goto(r, "reselect") /\ UNCHANGED <<tx, mem, clock>>
       ELSE /\ Write(r, GoldenRow(r), [id |-> clock + 1, created |-> clock + 1, by |-> r])
            /\ clock' = clock + 1
            /\ Return(r, 201)
  /\ Unchanged

\* After the IntegrityError; the winner may have been deleted again.
ReselectGolden(r) ==
  /\ At(r, "promote", "reselect")
  /\ IF ~Has(r, GoldenRow(r)) THEN Refuse(r, 500)
     ELSE /\ mem' = [mem EXCEPT ![r].id = Row(r, GoldenRow(r)).id]
          /\ Goto(r, "update")
          /\ UNCHANGED <<tx, clock>>
          /\ Unchanged

\* un_promote of the candidate that its promoter's request names.
TargetRow(r) == <<"golden", job[r].run, job[r].row, job[r].promoter>>

SelectTarget(r) ==
  /\ Begin(r, "un_promote")
  /\ IF ~Has(r, TargetRow(r)) \/ ~Member(r, Row(r, RunRow(job[r].run)).org) THEN Refuse(r, 404)
     ELSE IF ~who[r].admin /\ job[r].promoter # who[r].key THEN Refuse(r, 403)
     ELSE /\ mem' = [mem EXCEPT ![r].id = Row(r, TargetRow(r)).id]
          /\ Goto(r, "delete")
          /\ UNCHANGED <<tx, clock>>
          /\ Unchanged

DeleteTarget(r) ==
  /\ At(r, "un_promote", "delete")
  /\ ~Locked(r, TargetRow(r))
  /\ IF Has(r, TargetRow(r)) /\ Row(r, TargetRow(r)).id = mem[r].id
       THEN Write(r, TargetRow(r), Gone)
       ELSE UNCHANGED tx
  /\ Return(r, 204)
  /\ UNCHANGED clock
  /\ Unchanged
-----------------------------------------------------------------------------
\* golden export.  Every request of it is authenticated anew; the token of a
\* member sees its own org.  The lines of the JSONL file are in mem.seen.

CandidatesOf(r, project) ==
  {k \in Keys(r) : k[1] = "golden" /\ Row(r, RunRow(k[2])).project = project}

\* _try_live_detail: the content in run_rows, None for a pushed row.
LiveDetail(r, run, row) ==
  (CHOOSE x \in {Row(r, k) : k \in CallsIn(r, run)} : x.row = row).detail

\* get_call_detail of a row that exists.
RowOf(r, run, row) ==
  IF LiveDetail(r, run, row) # None THEN LiveDetail(r, run, row) ELSE Row(r, RunRow(run)).rows[row]

\* list_for_project, newest first.  Without candidates the file is left alone.
\* Ghost mem.before: the candidates that were listed.
ListGolden(r) ==
  /\ Begin(r, "export")
  /\ LET project == Resolve(r, job[r].slug)
         newer(k, l) == Row(r, k).id > Row(r, l).id
     IN  IF project = None THEN Refuse(r, 404)
         ELSE \E listed \in Select(CandidatesOf(r, project), ListLimit, newer) :
           /\ mem' = [mem EXCEPT ![r].todo = listed, ![r].before = {listed[i] : i \in DOMAIN listed}]
           /\ IF listed = <<>>
                THEN answer' = [answer EXCEPT ![r] = 200] /\ Goto(r, "done")
                ELSE Goto(r, "details") /\ UNCHANGED answer
           /\ UNCHANGED <<job, db, tx, who, clock, history, failures>>

InFile(r, id) ==
  job[r].mode = "merge" /\ \E i \in DOMAIN job[r].lines : job[r].lines[i] = id

Candidate(r) == Head(mem[r].todo)

AtDetail(r) == At(r, "export", "details") /\ mem[r].todo # <<>>

Skipped(r) == mem' = [mem EXCEPT ![r].todo = Tail(@)]

\* Mutant: every failure counts as a fetch failure.
FetchRefusedMasked(r) ==
  /\ AtDetail(r)
  /\ ~InFile(r, Candidate(r)[3])
  /\ ~FindKey(job[r].key)
  /\ Skipped(r)
  /\ UNCHANGED <<pc, tx, clock>> /\ Unchanged

\* 401 ends the export...
FetchRefused(r) ==
  /\ AtDetail(r)
  /\ ~InFile(r, Candidate(r)[3])
  /\ ~FindKey(job[r].key)
  /\ Refuse(r, 401)

\* ...and any other error is counted.
FetchFailed(r) ==
  /\ AtDetail(r)
  /\ ~InFile(r, Candidate(r)[3])
  /\ failures < MaxFailures
  /\ failures' = failures + 1
  /\ Skipped(r)
  /\ UNCHANGED <<job, db, tx, pc, who, answer, clock, history>>

\* get_call_detail of the next candidate, or no request if its id is in the
\* file; a row without an input makes no line.
FetchDetail(r) ==
  /\ AtDetail(r)
  /\ LET k == Candidate(r)
     IN  IF InFile(r, k[3]) THEN Skipped(r)
         ELSE /\ FindKey(job[r].key)
              /\ IF RowOf(r, k[2], k[3]) = "no input"
                   THEN Skipped(r)
                   ELSE mem' = [mem EXCEPT ![r].todo = Tail(@), ![r].seen = Append(@, k[3])]
  /\ UNCHANGED <<pc, tx, clock>> /\ Unchanged

\* The lines are written when all details were asked for.
WriteFile(r) ==
  /\ At(r, "export", "details")
  /\ mem[r].todo = <<>>
  /\ mem' = [mem EXCEPT ![r].written = TRUE]
  /\ answer' = [answer EXCEPT ![r] = 200]
  /\ Goto(r, "done")
  /\ UNCHANGED <<job, db, tx, who, clock, history, failures>>

\* The ids of the file after the export.
FileAfter(r) ==
  IF ~mem[r].written THEN job[r].lines
  ELSE IF job[r].mode = "merge" THEN job[r].lines \o mem[r].seen
  ELSE mem[r].seen

Curations(r) ==
  \/ SelectReview(r) \/ UpdateReview(r) \/ InsertReview(r)
  \/ SelectGolden(r) \/ UpdateGolden(r) \/ InsertGolden(r) \/ ReselectGolden(r)
  \/ SelectTarget(r) \/ DeleteTarget(r)
  \/ ListGolden(r) \/ FetchRefused(r) \/ FetchFailed(r) \/ FetchDetail(r) \/ WriteFile(r)
=============================================================================
