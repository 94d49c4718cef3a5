--------------------------- MODULE MCControlPlane ---------------------------
(***************************************************************************)
(* Instances of ControlPlane: small databases, with two or three requests  *)
(* that meet in one of its parts.                                          *)
(***************************************************************************)
EXTENDS ControlPlane, TLC

Nothing == [kind |-> "nothing"]

\* Org o1 with a member key, an admin key and a revoked one; org o2 with a
\* member key and, in one database, a project of its own.
Base ==
  (OrgRow("o1") :> [created |-> 1, by |-> 0]) @@
  (OrgRow("o2") :> [created |-> 2, by |-> 0]) @@
  (ProjectRow("o1", "p") :> [created |-> 3, by |-> 0]) @@
  (KeyRow("member") :> [org |-> "o1", admin |-> FALSE, revoked |-> FALSE]) @@
  (KeyRow("admin") :> [org |-> "o2", admin |-> TRUE, revoked |-> FALSE]) @@
  (KeyRow("other") :> [org |-> "o2", admin |-> FALSE, revoked |-> FALSE]) @@
  (KeyRow("old") :> [org |-> "o1", admin |-> FALSE, revoked |-> TRUE])

Empty == [k \in {} |-> Gone]

P == ProjectRow("o1", "p")

Config(n) == [n |-> n, version |-> TRUE, providers |-> <<"id">>, rate_limit |-> 0, cost_cap |-> 1]
Config1 == Config(1)
Config2 == Config(2)
NoQuota == [Config(3) EXCEPT !.rate_limit = -1]
NoProvider == [Config(4) EXCEPT !.providers = <<>>]

\* A pushed run with rows in its payload, a live run, and their rows.
Run(run, project, at, rows, assets) ==
  RunRow(run) :> [org |-> project[2], project |-> project, at |-> at, source |-> "cli",
                  rows |-> rows, assets |-> assets]
Live(run, at) ==
  RunRow(run) :> [org |-> "o1", project |-> P, at |-> at, source |-> "live", rows |-> <<>>,
                  assets |-> {}]
CallIn(run, project, id, at, row, passed, detail) ==
  CallRow(project, id) :>
    [at |-> at, id |-> id, run |-> run, row |-> row, passed |-> passed, detail |-> detail]
Golden(run, row, key, id) == <<"golden", run, row, key>> :> [id |-> id, created |-> id, by |-> 0]

WithRuns ==
  Run("run1", P, 4, [a |-> "input", b |-> "no input"], {}) @@
  CallIn("run1", P, 1, 4, "a", FALSE, None) @@ CallIn("run1", P, 2, 4, "b", FALSE, None) @@
  Live("run2", 5) @@ CallIn("run2", P, 3, 5, "c", TRUE, "input") @@ Base
WithGolden ==
  Golden("run1", "a", "member", 6) @@ Golden("run1", "b", "member", 7) @@
  Golden("run2", "c", "admin", 8) @@ WithRuns

\* Live calls of two days, and a pushed run of another org.
Call(id, at) == CallIn("day2", P, id, at, "r", TRUE, "input")
WithCalls ==
  Live("day2", 2) @@ Call(4, 2) @@ Call(5, 2) @@ Call(6, 2) @@
  Live("day1", 1) @@ CallIn("day1", P, 7, 1, "r", FALSE, "input") @@ Base
WithOldCalls ==
  Live("day2", 2) @@ Call(4, None) @@ Call(5, None) @@ Call(6, 2) @@ Base

\* Two pushed runs with versions of an asset, a live run and a foreign run.
Q == ProjectRow("o2", "p")
WithAll ==
  Run("run1", P, 4, [a |-> "input", b |-> "input"], {<<"prompt", "v1">>}) @@
  CallIn("run1", P, 1, 4, "a", FALSE, None) @@ CallIn("run1", P, 2, 4, "b", FALSE, None) @@
  Run("run2", P, 5, [a |-> "input", b |-> "input"], {<<"prompt", "v2">>}) @@
  CallIn("run2", P, 3, 5, "a", TRUE, None) @@ CallIn("run2", P, 4, 5, "b", FALSE, None) @@
  Live("day2", 4) @@ CallIn("day2", P, 5, 6, "r", TRUE, "input") @@
  Run("run9", Q, 6, [a |-> "input"], {<<"prompt", "v9">>}) @@ CallIn("run9", Q, 6, 6, "a", FALSE, None) @@
  (Q :> [created |-> 4, by |-> 0]) @@
  (ConfigRow(P, Config(1)) :> [id |-> 4, at |-> 4, by |-> 0]) @@
  Golden("run1", "a", "member", 7) @@ Golden("day2", "r", "member", 8) @@ Base

WithConfig == (ConfigRow(P, Config1) :> [id |-> 4, at |-> 4, by |-> 0]) @@ Base

-----------------------------------------------------------------------------
\* Requests.
CreateOrg(key, org) == [kind |-> "create_org", key |-> key, org |-> org]
CreateProject(key, org, slug) ==
  [kind |-> "create_project", key |-> key, org |-> org, slug |-> slug]
NewKey(key, new, org, admin) ==
  [kind |-> "create_key", key |-> key, new |-> new, org |-> org, admin |-> admin]
Revoke(key, target) == [kind |-> "revoke_key", key |-> key, target |-> target]
Start(key) == [kind |-> "boot", org |-> "o0", slug |-> "default", key |-> key]
Push(key, config, retries) ==
  [kind |-> "push_config", key |-> key, slug |-> "p", config |-> config, retries |-> retries]
GetConfig(key) == [kind |-> "get_config", key |-> key, slug |-> "p"]
Invoke(key) == [kind |-> "invoke", key |-> key, slug |-> "p"]
Review(key, row) == [kind |-> "review", key |-> key, run |-> "run1", row |-> row]
Promote(key, row) == [kind |-> "promote", key |-> key, run |-> "run1", row |-> row]
UnPromote(key, promoter) ==
  [kind |-> "un_promote", key |-> key, run |-> "run1", row |-> "a", promoter |-> promoter]
Export(key, mode, lines) ==
  [kind |-> "export", key |-> key, slug |-> "p", mode |-> mode, lines |-> lines]
WalkOf(key, tab, from, to, source) ==
  [kind |-> "walk", key |-> key, slug |-> "p", tab |-> tab, from |-> from, to |-> to,
   source |-> source]
Walk(key) == WalkOf(key, "recent", None, None, None)
Ingest(key, run, n) ==
  [kind |-> "ingest", key |-> key, slug |-> "p", run |-> run, assets |-> {<<"prompt", "v3">>},
   calls |-> SubSeq(<<[row |-> "a", passed |-> FALSE], [row |-> "b", passed |-> TRUE]>>, 1, n)]

\* GETs; of the fields a route does not use, none is looked at.
Get(key, what) == [kind |-> "read", key |-> key, what |-> what, slug |-> "p", org |-> "o1",
  run |-> "run1", vs |-> "run2", source |-> None, from |-> None, to |-> None, id |-> 4,
  project |-> P, asset |-> "prompt"]

On(base, jobs) == {[job |-> j, db |-> base] : j \in jobs}

Creating == On(Base, {
  <<CreateOrg("admin", "o3"), CreateOrg("admin", "o3"), Revoke("other", "admin")>>,
  <<CreateOrg("member", "o3"), CreateOrg("admin", "o1"), CreateProject("admin", "o3", "p")>>,
  <<CreateProject("member", "o1", "q"), CreateProject("admin", "o1", "q"), Revoke("member", "member")>>,
  <<CreateProject("other", "o1", "q"), CreateProject("member", "o1", "p"), Revoke("member", "member")>>})

Keying == On(Base, {
  <<NewKey("member", "new", "o1", FALSE), Revoke("admin", "new"), CreateProject("new", "o1", "q")>>,
  <<NewKey("member", "new", "o1", TRUE), NewKey("other", "newer", "o1", FALSE), Revoke("other", "member")>>,
  <<NewKey("admin", "new", "o3", FALSE), Revoke("admin", "old"), Revoke("admin", "none")>>,
  <<Revoke("member", "member"), Revoke("admin", "member"), CreateProject("member", "o1", "q")>>})

Starting ==
  On(Empty, {<<Start("env"), Start("env"), CreateProject("env", "o0", "default")>>}) \cup
  On(Base, {<<Start("old"), Start("env"), CreateProject("old", "o1", "q")>>,
            <<Start("member"), Revoke("member", "member"), CreateOrg("admin", "o0")>>})

Pushing ==
  On(Base, {
    <<Push("member", Config1, 1), Push("member", Config1, 0), GetConfig("other")>>,
    <<Push("member", Config1, 0), Push("admin", Config2, 0), Invoke("admin")>>,
    <<Push("member", NoQuota, 0), Push("other", Config1, 0), GetConfig("member")>>,
    <<Push("member", NoProvider, 0), Push("admin", Config1, 0), Invoke("member")>>}) \cup
  On(WithConfig, {
    <<Push("member", Config2, 0), Invoke("member"), Invoke("other")>>,
    <<Push("member", Config2, 0), Push("member", Config1, 0), GetConfig("member")>>})

Curating ==
  On(WithRuns, {
    <<Review("member", "a"), Review("member", "a"), Review("admin", "a")>>,
    <<Review("other", "a"), Review("member", "c"), Revoke("member", "member")>>,
    <<Promote("member", "a"), Promote("member", "a"), UnPromote("admin", "member")>>,
    <<Promote("other", "a"), Promote("member", "c"), UnPromote("member", "member")>>}) \cup
  On(WithGolden, {
    <<Promote("member", "a"), UnPromote("member", "member"), UnPromote("admin", "member")>>,
    <<Promote("admin", "a"), UnPromote("member", "admin"), UnPromote("other", "member")>>})

Exporting ==
  On(WithRuns, {<<Export("member", "overwrite", <<"a">>), Export("other", "merge", <<>>), Nothing>>}) \cup
  On(WithGolden, {
    <<Export("member", "overwrite", <<"x">>), Revoke("admin", "member"), Promote("admin", "a")>>,
    <<Export("member", "merge", <<"x", "a">>), Revoke("admin", "member"), UnPromote("member", "member")>>})

Walking ==
  On(WithCalls, {
    <<Walk("member"), Ingest("member", "new", 2), Ingest("member", "newer", 1)>>,
    <<Walk("admin"), Revoke("other", "admin"), Walk("other")>>,
    <<WalkOf("member", "failures", 1, None, None), Ingest("member", "new", 2),
      WalkOf("member", "passed", None, 3, "live")>>,
    <<WalkOf("member", "recent", 2, 3, "live"), [Get("member", "window") EXCEPT !.from = 2, !.to = 3],
      [Get("member", "window") EXCEPT !.to = 2]>>}) \cup
  On(WithOldCalls, {<<Walk("member"), Ingest("member", "new", 1), Nothing>>})

\* Two GETs, with a request that changes what they read.
Reading2(key, what1, what2, write) == <<Get(key, what1), Get(key, what2), write>>
ReadingAll ==
  On(Base, {
    Reading2("member", "orgs", "projects", CreateProject("member", "o1", "q")),
    Reading2("other", "org", "projects", CreateProject("member", "o1", "q")),
    Reading2("other", "project", "keys", NewKey("member", "new", "o1", FALSE)),
    Reading2("admin", "project", "keys", Revoke("member", "member")),
    Reading2("admin", "orgs", "org", CreateOrg("admin", "o3")),
    <<[Get("other", "project") EXCEPT !.org = None], [Get("member", "projects") EXCEPT !.org = None], Nothing>>}) \cup
  On(WithAll, {
    Reading2("member", "runs", "run", Ingest("member", "new", 2)),
    Reading2("other", "runs", "run", Ingest("member", "new", 2)),
    Reading2("other", "drift", "queue", Ingest("other", "new", 2)),
    <<[Get("member", "drift") EXCEPT !.vs = "new"], [Get("member", "drift") EXCEPT !.vs = "run1"],
      Ingest("member", "new", 2)>>,
    <<Get("admin", "drift"), [Get("member", "runs") EXCEPT !.source = "live"], Ingest("member", "new", 2)>>,
    Reading2("member", "history", "revision", Push("member", Config2, 0)),
    Reading2("other", "history", "revision", Push("member", Config2, 0)),
    Reading2("member", "queue", "reviews", Review("member", "a")),
    Reading2("admin", "queue", "reviews", Review("member", "a")),
    Reading2("other", "reviews", "golden", Review("member", "a")),
    Reading2("member", "golden", "days", Promote("member", "b")),
    Reading2("admin", "golden", "days", UnPromote("member", "member")),
    Reading2("member", "assets", "versions", Ingest("member", "new", 2)),
    Reading2("other", "assets", "versions", Ingest("member", "new", 2)),
    Reading2("other", "days", "window", Ingest("other", "new", 1))})

Scenarios ==
  Creating \cup Keying \cup Starting \cup Pushing \cup Curating \cup Exporting \cup Walking \cup
  ReadingAll
=============================================================================
