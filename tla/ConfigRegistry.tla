--------------------------- MODULE ConfigRegistry ---------------------------
(***************************************************************************)
(* The configs of a project, pushed with `evalguard push-config' and read  *)
(* by every invoke: the routes of configs.py and the retry loop of the CLI.*)
(*                                                                         *)
(* A config is an abstraction of its bytes: what _validate_proxy_          *)
(* essential_shape looks at, and a tag n that tells configs apart.  A      *)
(* number that is -1 stands for one the check refuses: negative, not       *)
(* finite, -0.0, a boolean or a text.                                      *)
(***************************************************************************)
EXTENDS Tenancy

ConfigRow(project, config) == <<"config", project, config>>

\* _validate_proxy_essential_shape: a version, providers that all have an id
\* and, if any, a mapping as their config, and sane quotas.
ProxyEssentialShape(config) ==
  /\ config.version
  /\ config.providers # <<>>
  /\ \A i \in DOMAIN config.providers : config.providers[i] = "id"
  /\ config.rate_limit >= 0
  /\ config.cost_cap >= 0

ConfigsOf(r, project) == {k \in Keys(r) : k[1] = "config" /\ k[2] = project}

\* ORDER BY pushed_at DESC, id DESC.
Newer(x, y) == x.at > y.at \/ (x.at = y.at /\ x.id >= y.id)

\* push_config, up to its INSERT; now_iso() is read before it.
SelectConfig(r) ==
  /\ Begin(r, "push_config")
  /\ LET project == Resolve(r, job[r].slug)
     IN  IF project = None THEN Refuse(r, 404)
         ELSE IF ~ProxyEssentialShape(job[r].config) THEN Refuse(r, 422)
         ELSE /\ IF Has(r, ConfigRow(project, job[r].config))
                   THEN Return(r, 200) /\ UNCHANGED clock
                   ELSE /\ mem' = [mem EXCEPT ![r].time = clock + 1,
                                              ![r].seen = <<ConfigRow(project, job[r].config)>>]
                        /\ clock' = clock + 1
                        /\ Goto(r, "insert")
              /\ UNCHANGED tx
              /\ Unchanged

\* The INSERT in its savepoint.  The loser of a race for the same bytes reads
\* the winner's revision and returns that.
InsertConfig(r) ==
  /\ At(r, "push_config", "insert")
  /\ LET k == mem[r].seen[1]
     IN  /\ ~Locked(r, k)
         /\ IF Has(r, k)
              THEN Return(r, 200) /\ UNCHANGED <<tx, clock>>
              ELSE /\ Write(r, k, [id |-> clock + 1, at |-> mem[r].time, by |-> r])
                   /\ clock' = clock + 1
                   /\ Return(r, 201)
  /\ Unchanged

\* The handler has the latest revision of the project, which has one.
GetsLatest(r, project) ==
  LET configs == ConfigsOf(r, project)
  IN  /\ mem' = [mem EXCEPT ![r].code = 200,
           ![r].seen = <<CHOOSE k \in configs : \A l \in configs : Newer(Row(r, k), Row(r, l))>>]
      /\ Goto(r, "reply")
      /\ UNCHANGED <<tx, clock>>
      /\ Unchanged

\* get_latest_config.
ReadLatest(r) ==
  /\ Begin(r, "get_config")
  /\ LET project == Resolve(r, job[r].slug)
     IN  IF project = None \/ ConfigsOf(r, project) = {}
           THEN Refuse(r, 404)
           ELSE GetsLatest(r, project)

\* _load_latest_config of an invoke; its cache of parsed configs is keyed by
\* their bytes, which are the revision here.
LoadLatest(r) ==
  /\ Begin(r, "invoke")
  /\ LET project == Resolve(r, job[r].slug)
     IN  IF project = None THEN Refuse(r, 404)
         ELSE IF ConfigsOf(r, project) = {} THEN Refuse(r, 422)
         ELSE GetsLatest(r, project)

\* The loop of push-config: another attempt after a 500.  One after a proxy's
\* answer, while the first goes on in the server, is another request for the
\* same bytes; one after a URLError the server has not seen.
PushAgain(r) ==
  /\ Step(r, "done")
  /\ Kind(r) = "push_config"
  /\ answer[r] = 500
  /\ mem[r].id < job[r].retries
  /\ mem' = [mem EXCEPT ![r] = [NoMem EXCEPT !.id = mem[r].id + 1]]
  /\ who' = [who EXCEPT ![r] = Nobody]
  /\ answer' = [answer EXCEPT ![r] = 0]
  /\ Goto(r, "idle")
  /\ UNCHANGED <<job, db, tx, clock, history, failures>>

Configs(r) ==
  SelectConfig(r) \/ InsertConfig(r) \/ ReadLatest(r) \/ LoadLatest(r) \/ PushAgain(r)
=============================================================================
