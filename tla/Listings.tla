------------------------------ MODULE Listings ------------------------------
(***************************************************************************)
(* The read side of the server: every GET that is not a page of calls or   *)
(* the latest config.                                                      *)
(*                                                                         *)
(* A request of kind "read" names in `what' the route it is for; the rows  *)
(* that are answered, or the keys of them, are in mem.seen, in their order *)
(* where there is one.  Rows do not change once committed but for reviews, *)
(* candidates, revocations and live calls.                                 *)
(***************************************************************************)
EXTENDS ConfigRegistry, Curation

Seqs == INSTANCE SequencesExt

\* What is stored under the key k of the rows of a database: a run belongs to a
\* stored project and, if it was pushed, has a call for each row of its payload; a
\* call belongs to its run's project; a config is one that push_config lets pass.
WellFormed(rows, k) ==
  LET row == rows[k]
  IN  /\ k[1] = "project" => row.created \in Int
      /\ k[1] = "config" =>
           /\ k[2] \in DOMAIN rows /\ k[2][1] = "project" /\ ProxyEssentialShape(k[3])
           /\ row.at \in Int /\ row.id \in Int
      /\ k[1] = "run" =>
           /\ k = RunRow(k[2])
           /\ row.project \in DOMAIN rows /\ row.project[1] = "project" /\ row.project[2] = row.org
           /\ row.at \in Int
           /\ IF row.source = "live" THEN DOMAIN row.rows = {}
              ELSE DOMAIN row.rows = {rows[l].row : l \in {c \in DOMAIN rows : c[1] = "call" /\ rows[c].run = k[2]}}
      /\ k[1] = "call" =>
           /\ k = CallRow(rows[RunRow(row.run)].project, row.id)
           /\ row.id \in Int /\ (row.at = None \/ row.at \in Int)
      /\ k[1] = "golden" => k = <<"golden", k[2], k[3], k[4]>>

\* Stored rows are well-formed, no two projects have one timestamp, and the bounds
\* of a window are timestamps.
ASSUME ListingsAssumption ==
  /\ None \notin Int
  /\ \A s \in Scenario :
       /\ \A k \in DOMAIN s.db : WellFormed(s.db, k)
       /\ \A k, l \in {p \in DOMAIN s.db : p[1] = "project"} :
            /\ s.db[k].created <= Cardinality(DOMAIN s.db)
            /\ s.db[k].created = s.db[l].created => k = l
       /\ \A r \in Request :
            s.job[r].kind = "read" /\ s.job[r].what = "window" => {s.job[r].from, s.job[r].to} \subseteq Int \cup {None}

Reading(r, what) == Begin(r, "read") /\ job[r].what = what

\* The handler answers with these rows.
Answer(r, rows) ==
  /\ mem' = [mem EXCEPT ![r].code = 200, ![r].seen = rows]
  /\ Goto(r, "reply")
  /\ UNCHANGED <<tx, clock>>
  /\ Unchanged

\* With this row, if it is one the caller may see; a foreign row is answered
\* like a missing one.
AnswerOne(r, k, sees) ==
  IF Has(r, k) /\ sees THEN Answer(r, <<k>>) ELSE Refuse(r, 404)

\* The handler answers with rows ORDER BY at DESC LIMIT.
AnswerLatest(r, S) ==
  LET later(k, l) == Row(r, k).at > Row(r, l).at
  IN  \E rows \in Select(S, ListLimit, later) : Answer(r, rows)
-----------------------------------------------------------------------------
\* Orgs, projects and keys.

\* list_ of orgs.py, through filter_orgs_visible_to.
ListOrgs(r) ==
  /\ Reading(r, "orgs")
  /\ Answer(r, Seqs!SetToSeq({k \in Keys(r) : k[1] = "org" /\ Member(r, k[2])}))

GetOrg(r) ==
  /\ Reading(r, "org")
  /\ AnswerOne(r, OrgRow(job[r].org), Member(r, job[r].org))

\* _resolve_target_org: the caller's org if none is asked for.
TargetOrg(r) == IF job[r].org = None THEN who[r].org ELSE job[r].org

ListProjects(r) ==
  /\ Reading(r, "projects")
  /\ IF ~Member(r, TargetOrg(r)) THEN Refuse(r, 403)
     ELSE Answer(r, Seqs!SetToSeq({k \in Keys(r) : k[1] = "project" /\ k[2] = TargetOrg(r)}))

GetProject(r) ==
  /\ Reading(r, "project")
  /\ IF ~Member(r, TargetOrg(r)) THEN Refuse(r, 403)
     ELSE AnswerOne(r, ProjectRow(TargetOrg(r), job[r].slug), TRUE)

\* Revoked keys are listed too.
ListKeys(r) ==
  /\ Reading(r, "keys")
  /\ IF ~Member(r, job[r].org) THEN Refuse(r, 403)
     ELSE Answer(r, Seqs!SetToSeq({k \in Keys(r) : k[1] = "key" /\ Row(r, k).org = job[r].org}))
-----------------------------------------------------------------------------
\* Runs.

ListRuns(r) ==
  /\ Reading(r, "runs")
  /\ AnswerLatest(r, {k \in Keys(r) :
       /\ k[1] = "run"
       /\ SeesRun(r, k[2])
       /\ job[r].source \in {None, Row(r, k).source}})

GetRun(r) ==
  /\ Reading(r, "run")
  /\ AnswerOne(r, RunRow(job[r].run), SeesRun(r, job[r].run))

\* get_drift: both runs must be visible...
SelectPair(r) ==
  /\ Reading(r, "drift")
  /\ IF job[r].run = job[r].vs THEN Refuse(r, 400)
     ELSE IF ~SeesRun(r, job[r].run) \/ ~SeesRun(r, job[r].vs) THEN Refuse(r, 404)
     ELSE /\ mem' = [mem EXCEPT ![r].todo = <<job[r].run, job[r].vs>>]
          /\ Goto(r, "samples")
          /\ UNCHANGED <<tx, clock>>
          /\ Unchanged

\* ...and the samples of each are read in a statement of its own.
Sample(r) ==
  /\ At(r, "read", "samples")
  /\ mem' = [mem EXCEPT ![r].seen = @ \o Seqs!SetToSeq(CallsIn(r, Head(mem[r].todo))),
                        ![r].todo = Tail(@),
                        ![r].code = 200]
  /\ Goto(r, IF Len(mem[r].todo) = 1 THEN "reply" ELSE "samples")
  /\ UNCHANGED <<tx, clock>>
  /\ Unchanged

\* A metric is compared if both sides have two samples, and skipped otherwise.
Compared(r) ==
  \A run \in {job[r].run, job[r].vs} :
    Cardinality({i \in DOMAIN mem[r].seen : Row(r, mem[r].seen[i]).run = run}) >= 2
-----------------------------------------------------------------------------
\* Revisions of a project's config.

ListHistory(r) ==
  /\ Reading(r, "history")
  /\ LET project == Resolve(r, job[r].slug)
     IN  IF project = None THEN Refuse(r, 404)
         ELSE AnswerLatest(r, ConfigsOf(r, project))

GetRevision(r) ==
  /\ Reading(r, "revision")
  /\ LET project == Resolve(r, job[r].slug)
         revision == {k \in ConfigsOf(r, project) : Row(r, k).id = job[r].id}
     IN  IF project = None \/ revision = {} THEN Refuse(r, 404)
         ELSE Answer(r, Seqs!SetToSeq(revision))
-----------------------------------------------------------------------------
\* Reviews and candidates.

\* The row failed, and this reviewer has not reviewed it.
ToReview(r, k) ==
  ~Row(r, k).passed /\ ~Has(r, <<"review", Row(r, k).run, Row(r, k).row, who[r].key>>)

\* queue of reviews.py.
ReviewQueue(r) ==
  LET byId(k, l) == k[3] < l[3]
  IN  /\ Reading(r, "queue")
      /\ IF ~SeesRun(r, job[r].run) THEN Refuse(r, 404)
         ELSE \E rows \in Select({k \in CallsIn(r, job[r].run) : ToReview(r, k)}, ListLimit, byId) : Answer(r, rows)

ListReviews(r) ==
  /\ Reading(r, "reviews")
  /\ IF ~SeesRun(r, job[r].run) THEN Refuse(r, 404)
     ELSE Answer(r, Seqs!SetToSeq({k \in Keys(r) : k[1] = "review" /\ k[2] = job[r].run}))

\* _expand_row_content: from the payload of the run alone, so that a live call
\* has none.
Expanded(r, k) ==
  LET rows == Row(r, RunRow(k[2])).rows
  IN  Append(k, IF k[3] \in DOMAIN rows THEN rows[k[3]] ELSE None)

\* list_for_project with expand=row.
ListExpanded(r) ==
  /\ Reading(r, "golden")
  /\ LET project == Resolve(r, job[r].slug)
         newer(k, l) == Row(r, k).id > Row(r, l).id
     IN  IF project = None THEN Refuse(r, 404)
         ELSE \E listed \in Select(CandidatesOf(r, project), ListLimit, newer) :
                Answer(r, [i \in DOMAIN listed |-> Expanded(r, listed[i])])
-----------------------------------------------------------------------------
\* Live runs.

\* get_live_timeline; started_at of a live run is its day, in the order of at.
Timeline(r) ==
  /\ Reading(r, "days")
  /\ LET project == Resolve(r, job[r].slug)
     IN  IF project = None THEN Refuse(r, 404)
         ELSE AnswerLatest(r, {k \in Keys(r) :
                /\ k[1] = "run"
                /\ Row(r, k).project = project
                /\ Row(r, k).source = "live"})

\* get_live_aggregate; the rows it sums over.
Aggregate(r) ==
  /\ Reading(r, "window")
  /\ LET project == Resolve(r, job[r].slug)
     IN  IF project = None THEN Refuse(r, 404)
         ELSE Answer(r, Seqs!SetToSeq({k \in CallsOf(r, project) :
                /\ InWindow(r, Row(r, k))
                /\ Row(r, RunRow(Row(r, k).run)).source = "live"}))
-----------------------------------------------------------------------------
\* Assets.  A run has pairs of an asset and a version.

RunsWith(r, project, asset) ==
  {k \in Keys(r) : /\ k[1] = "run"
                   /\ Row(r, k).project = project
                   /\ \E a \in Row(r, k).assets : a[1] = asset}

\* A group of list_assets, with its counts and its last run.
AssetGroup(r, project, asset) ==
  LET runs == RunsWith(r, project, asset)
      versions == {a[2] : a \in {b \in UNION {Row(r, k).assets : k \in runs} : b[1] = asset}}
  IN  <<"asset", project, asset, Cardinality(versions), Cardinality(runs),
        CHOOSE k \in runs : \A l \in runs : Row(r, k).at >= Row(r, l).at>>

ListAssets(r) ==
  /\ Reading(r, "assets")
  /\ LET runs == {k \in Keys(r) : k[1] = "run" /\ SeesRun(r, k[2])}
         groups == UNION {{AssetGroup(r, Row(r, k).project, a[1]) : a \in Row(r, k).assets} : k \in runs}
         later(g, h) == Row(r, g[6]).at > Row(r, h[6]).at
     IN  \E rows \in Select(groups, ListLimit, later) : Answer(r, rows)

\* list_asset_versions, of a project that is named by its id.
AssetVersions(r) ==
  /\ Reading(r, "versions")
  /\ LET project == job[r].project
         runs == RunsWith(r, project, job[r].asset)
         rows == UNION {{<<"version", project, a[2], k>> :
                   a \in {b \in Row(r, k).assets : b[1] = job[r].asset}} : k \in runs}
         later(v, w) == Row(r, v[4]).at > Row(r, w[4]).at
     IN  IF ~Has(r, project) \/ ~Member(r, project[2]) \/ rows = {} THEN Refuse(r, 404)
         ELSE \E listed \in Select(rows, ListLimit, later) : Answer(r, listed)

Reads(r) ==
  \/ ListOrgs(r) \/ GetOrg(r) \/ ListProjects(r) \/ GetProject(r) \/ ListKeys(r)
  \/ ListRuns(r) \/ GetRun(r) \/ SelectPair(r) \/ Sample(r)
  \/ ListHistory(r) \/ GetRevision(r)
  \/ ReviewQueue(r) \/ ListReviews(r) \/ ListExpanded(r)
  \/ Timeline(r) \/ Aggregate(r) \/ ListAssets(r) \/ AssetVersions(r)
=============================================================================
