---------------------------- MODULE ControlPlane ----------------------------
(***************************************************************************)
(* The requests of Tenancy, ConfigRegistry, Curation, CallsPages and       *)
(* Listings against one database.                                          *)
(***************************************************************************)
EXTENDS Listings

ControlPlaneInit == TenancyInit

\* Nothing is left to do: the processes stop.
AllDone ==
  /\ \A r \in Request : pc[r] = "done" \/ Kind(r) = "nothing"
  /\ UNCHANGED vars

Next ==
  \/ \E r \in Request :
       Served(r) \/ Tenancies(r) \/ Configs(r) \/ Curations(r) \/ Calls(r) \/ Reads(r)
  \/ AllDone

Spec == ControlPlaneInit /\ [][Next]_vars
-----------------------------------------------------------------------------
Steps == {"idle", "sent", "touch", "begin", "insert", "update", "reselect", "revoke",
          "delete", "samples", "ensure", "boot_insert", "details", "reply", "commit", "done"}

\* Every variable stays in its type; only a request whose handler runs has
\* written something, and two transactions never hold one row.
TypeOK ==
  /\ pc \in [Request -> Steps]
  /\ answer \in [Request -> {0, 200, 201, 204, 400, 401, 403, 404, 409, 422, 500}]
  /\ clock \in Nat
  /\ barred \cup lost_acks \subseteq Request
  /\ failures \in 0..MaxFailures
  /\ \A r \in Request : tx[r] # NoTx => Open(r)
  /\ \A q, r \in Request : q # r => DOMAIN tx[q] \cap DOMAIN tx[r] = {}

Success == {200, 201, 204}

\* A request was told of success and its transaction has committed.
Kept(r) == answer[r] \in Success /\ pc[r] = "done" /\ r \notin lost_acks

\* A revocation that was acknowledged holds, over restarts with that key in the
\* environment too, and no request sent after it committed has an effect.
RevocationHolds ==
  \A r \in Request :
    /\ r \in barred => answer[r] \notin Success
    /\ Kind(r) = "revoke_key" /\ Kept(r) => db[KeyRow(job[r].target)].revoked

\* One of several creators of the same thing is told that it created it, and
\* that is the one who did; the others are told that it is there.  Servers that
\* start together all start, unless a request creates one of their rows.
CreatedOnce ==
  \A r \in Request :
    /\ Kind(r) \in {"create_org", "create_project"} =>
         /\ Kept(r) => db[NewRow(r)].by = r
         /\ answer[r] = 409 => NewRow(r) \in DOMAIN db
    /\ Kind(r) = "push_config" /\ Kept(r) =>
         \E k \in DOMAIN db :
           /\ k[1] = "config"
           /\ k[3] = job[r].config
           /\ answer[r] = 201 => db[k].by = r
    /\ Kind(r) = "create_key" /\ Kept(r) => KeyRow(job[r].new) \in DOMAIN db
    /\ Kind(r) = "boot" /\ answer[r] = 500 =>
         \/ failures > 0
         \/ \E i \in DOMAIN BootRows(r) :
              /\ BootRows(r)[i] \in DOMAIN db
              /\ i < 3
              /\ db[BootRows(r)[i]].by \notin {q \in Request : Kind(q) = "boot"}
    /\ Kind(r) = "boot" /\ Kept(r) =>
         \A i \in DOMAIN BootRows(r) : BootRows(r)[i] \in DOMAIN db

\* The config an invoke gets is one the proxy can use, and no older than any
\* that was there when the request was sent.
ConfigCurrent ==
  \A r \in Request :
    Kind(r) \in {"get_config", "invoke"} /\ answer[r] = 200 =>
      LET got == mem[r].seen[1]
      IN  /\ ProxyEssentialShape(got[3])
          /\ \A k \in mem[r].before :
               k[1] = "config" /\ k[2] = got[2] => Newer(db[got], db[k])

\* A walk over all pages returns every call it is for that was there when it
\* began, once, whatever is ingested meanwhile; as long as all have timestamps.
PagesWhole ==
  \A r \in Request :
    Kind(r) = "walk" /\ answer[r] = 200 =>
      LET seen == mem[r].seen
          calls == {k \in mem[r].before :
                     k[1] = "call" /\ k[2] = Resolve(r, job[r].slug) /\ Shown(r, db[k])}
      IN  /\ (\A k \in calls : db[k].at # None) => calls \subseteq {seen[i] : i \in DOMAIN seen}
          /\ \A i, j \in DOMAIN seen : seen[i] = seen[j] => i = j

Read(r, what) == Kind(r) = "read" /\ job[r].what = what /\ answer[r] = 200

Items(r) == {mem[r].seen[i] : i \in DOMAIN mem[r].seen}

\* The org that an answered item belongs to.
OrgOf(item) ==
  CASE item[1] \in {"org", "project"} -> item[2]
    [] item[1] \in {"key", "run"} -> db[item].org
    [] item[1] \in {"config", "call", "asset", "version"} -> item[2][2]
    [] item[1] \in {"review", "golden"} -> db[RunRow(item[2])].org

\* No answer to a member has anything of another org in it.
TenantsApart ==
  \A r \in Request :
    Kind(r) \in Readers /\ answer[r] = 200 /\ ~who[r].admin =>
      \A item \in Items(r) : OrgOf(item) = who[r].org

\* A limited listing of an org's runs, of its project's live days or revisions, or
\* of assets leaves out none that was there when it was sent and is newer than one
\* it has.
NewestFirst ==
  \A r \in Request :
    /\ \A what \in {"runs", "days", "history"} :
         Read(r, what) =>
           \A k \in mem[r].before \ Items(r) :
             /\ k[1] = (IF what = "history" THEN "config" ELSE "run")
             /\ OrgOf(k) = who[r].org
             /\ what = "history" => k[2] = ProjectRow(who[r].org, job[r].slug)
             /\ what = "days" => db[k].project = ProjectRow(who[r].org, job[r].slug) /\ db[k].source = "live"
             /\ what = "runs" => job[r].source \in {None, db[k].source}
             => Len(mem[r].seen) = ListLimit /\ \A item \in Items(r) : db[item].at >= db[k].at
    /\ Read(r, "assets") =>
         \A k \in mem[r].before : \A item \in Items(r) :
           k[1] = "run" /\ item[2] = db[k].project /\ (\E a \in db[k].assets : a[1] = item[3])
             => db[item[6]].at >= db[k].at

\* The queue of a reviewer has no row that the reviewer had reviewed when it was
\* sent, and all that fail and that the reviewer has never reviewed, up to the
\* limit.
QueueDue ==
  \A r \in Request :
    Read(r, "queue") =>
      \A k \in {l \in mem[r].before : l[1] = "call" /\ db[l].run = job[r].run} :
        LET mine == <<"review", db[k].run, db[k].row, who[r].key>>
        IN  IF db[k].passed \/ mine \in mem[r].before THEN k \notin Items(r)
            ELSE mine \notin DOMAIN db => k \in Items(r) \/ Len(mem[r].seen) = ListLimit

\* Windows that follow each other sum over no call twice.  A sum over a window,
\* bounded on one side at least, has no call more than a walk of the same project
\* and window that is sent later.
WindowsSplit ==
  \A q, r \in Request :
    /\ Read(q, "window") /\ Read(r, "window") /\ job[q].to = job[r].from /\ job[q].to # None =>
         Items(q) \cap Items(r) = {}
    /\ /\ Read(q, "window")
       /\ Kind(r) = "walk" /\ answer[r] = 200
       /\ <<job[q].from, job[q].to, "live", "recent">> = <<job[r].from, job[r].to, job[r].source, job[r].tab>>
       /\ job[q].from # None \/ job[q].to # None
       /\ <<job[q].slug, who[q].org, FALSE, FALSE>> = <<job[r].slug, who[r].org, who[q].admin, who[r].admin>>
       /\ Items(q) \subseteq mem[r].before
       => Items(q) \subseteq Items(r)

\* A pushed run that a reader sees has all of its rows: a drift between two of two
\* rows and more always compares them.
RunsWhole ==
  \A r \in Request :
    Read(r, "drift") =>
      /\ \A run \in {job[r].run, job[r].vs} :
           db[RunRow(run)].source # "live" =>
             {db[k].row : k \in {l \in Items(r) : db[l].run = run}} = DOMAIN db[RunRow(run)].rows
      /\ (\A run \in {job[r].run, job[r].vs} : Cardinality(DOMAIN db[RunRow(run)].rows) >= 2) => Compared(r)

\* Readers get what was committed when they asked, and only of their org.
ReadsWhole ==
  /\ ConfigCurrent
  /\ PagesWhole
  /\ TenantsApart
  /\ NewestFirst
  /\ QueueDue
  /\ WindowsSplit
  /\ RunsWhole

Removed(row) ==
  \E q \in Request : Kind(q) = "un_promote" /\ answer[q] = 204 /\ TargetRow(q) = row

CuratedRow(r) == IF Kind(r) = "review" THEN ReviewRow(r) ELSE GoldenRow(r)

\* When the transaction of an acknowledged review or promotion commits, it is
\* that verdict or note that is stored, whoever else submitted for the row,
\* unless the candidate has been deleted.  A promotion never fails because its
\* promoter clicked twice (a review does).
CurationLands ==
  /\ [][\A r \in Request :
          /\ Kind(r) \in {"review", "promote"}
          /\ pc[r] = "commit"
          /\ pc'[r] = "done"
          /\ r \notin lost_acks'
          => \/ CuratedRow(r) \in DOMAIN db' /\ db'[CuratedRow(r)].by = r
             \/ Kind(r) = "promote" /\ Removed(CuratedRow(r))]_vars
  /\ [][\A r \in Request :
          Kind(r) = "promote" /\ answer'[r] = 500 =>
            failures' > 0 \/ Removed(CuratedRow(r))]_vars

\* An export that was refused leaves the file alone, and one that is done has
\* added the input of every candidate it listed but those that could not be
\* fetched.  A merge repeats nothing that was in the file.
ExportWhole ==
  \A r \in Request :
    Kind(r) = "export" =>
      LET file == FileAfter(r)
          missing == {k \in mem[r].before :
                       /\ RowOf(r, k[2], k[3]) # "no input"
                       /\ \A i \in DOMAIN file : file[i] # k[3]}
      IN  /\ answer[r] # 200 => file = job[r].lines
          /\ answer[r] = 200 => Cardinality(missing) <= failures
          /\ job[r].mode = "merge" =>
               \A i \in DOMAIN job[r].lines : \A j \in DOMAIN file :
                 file[j] = job[r].lines[i] /\ j # i => j <= Len(job[r].lines)
=============================================================================
