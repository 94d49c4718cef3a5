---------------------------- MODULE AuditVerify ----------------------------
(***************************************************************************)
(* The reader side of the audit trail: GET .../audit/verify, which counts  *)
(* the events of a run, then lists them and walks the chain, while the     *)
(* writers of AuditChain go on.  Under READ COMMITTED the two SELECTs see  *)
(* different snapshots.  Stored event_json may have been damaged since it  *)
(* was written: undecodable, or decodable with other content.              *)
(***************************************************************************)
EXTENDS AuditChain

CONSTANTS
  EventsMax,   \* _EVENTS_MAX
  MaxDamage    \* bound: rows damaged in a behaviour

ASSUME VerifyAssumption == EventsMax \in Nat \ {0} /\ MaxDamage \in Nat

VARIABLES
  undecodable,   \* ids of the rows whose event_json json.loads refuses
  altered,       \* ids of the rows whose event_json no longer has its hash
  verify         \* the request: its run, where it is, what the count saw

verifyVars == <<undecodable, altered, verify>>

Answered == {"too_large", "intact", "not_ok"}

\* list_events_for_run: ORDER BY id ASC LIMIT n.
FirstRows(r, n) ==
  {e \in RowsOf(r) : Cardinality({d \in RowsOf(r) : d.id <= e.id}) <= n}

\* verify_chain_events on the rows S in id order: every event names the one
\* before it, the first none, and hashes to its event_hash.
WalkOk(S) ==
  \A e \in S :
    LET earlier == {d \in S : d.id < e.id}
    IN  /\ IF earlier = {} THEN e.prev = NoHash
           ELSE \E d \in earlier : d.hash = e.prev /\ \A c \in earlier : c.id <= d.id
        /\ e.id \notin altered

VerifyInit ==
  /\ undecodable = {}
  /\ altered = {}
  /\ verify \in [run : {r \in Run : Owner[r] # NoProject},
                 pc : {"count"}, counted : {{}}]

\* Mutant: no page cap at the count.
CountEventsNoCap ==
  /\ verify.pc = "count"
  /\ verify' = [verify EXCEPT !.pc = "list", !.counted = RowsOf(verify.run)]
  /\ UNCHANGED <<undecodable, altered, vars>>

\* The chain longer than a page is refused with 413.
CountEvents ==
  /\ verify.pc = "count"
  /\ verify' = [verify EXCEPT
       !.pc = IF Cardinality(RowsOf(verify.run)) > EventsMax THEN "too_large" ELSE "list",
       !.counted = RowsOf(verify.run)]
  /\ UNCHANGED <<undecodable, altered, vars>>

\* An undecodable row makes the answer not ok, whatever the others say.
ListAndWalk ==
  /\ verify.pc = "list"
  /\ LET page == FirstRows(verify.run, EventsMax)
     IN  verify' = [verify EXCEPT !.pc =
           IF (\A e \in page : e.id \notin undecodable) /\ WalkOk(page)
             THEN "intact" ELSE "not_ok"]
  /\ UNCHANGED <<undecodable, altered, vars>>

\* The stored JSON of a committed row is damaged.
Damage ==
  /\ Cardinality(undecodable \cup altered) < MaxDamage
  /\ \E e \in event_rows :
       /\ e.id \notin undecodable \cup altered
       /\ \/ undecodable' = undecodable \cup {e.id} /\ UNCHANGED altered
          \/ altered' = altered \cup {e.id} /\ UNCHANGED undecodable
  /\ UNCHANGED <<verify, vars>>

TrailInit == Init /\ VerifyInit

TrailNext ==
  \/ Next /\ UNCHANGED verifyVars
  \/ CountEvents
  \/ ListAndWalk
  \/ Damage

trailVars == <<vars, verifyVars>>

TrailSpec ==
  /\ TrailInit
  /\ [][TrailNext]_trailVars
  /\ \A w \in Writer : WF_vars(Emit(w))
-----------------------------------------------------------------------------
\* "intact" is said only of a chain every event of which, at the moment of
\* the count, was listed, decoded and re-hashed: never of a visible prefix,
\* and never over a damaged row.
IntactMeansWhole ==
  [][verify.pc = "list" /\ verify'.pc = "intact" =>
       /\ verify.counted \subseteq FirstRows(verify.run, EventsMax)
       /\ \A e \in verify.counted : e.id \notin undecodable \cup altered]_trailVars

\* A chain nobody damaged verifies, however many writers append to it between
\* the count and the list.
NoFalseAlarm ==
  verify.pc = "not_ok" => undecodable \cup altered # {}
=============================================================================
