----------------------------- MODULE LiveLedger -----------------------------
(***************************************************************************)
(* What the gateway promises of a project's live calls, whatever the       *)
(* number of workers that serve them and however they fail: a call is      *)
(* posted at most once, and its row, its audit event, the totals of its    *)
(* day's run and those of its provider's trial change together or not at   *)
(* all.                                                                    *)
(***************************************************************************)
EXTENDS Naturals, Sequences

CONSTANTS
  Request,    \* calls of POST .../invoke
  Day,        \* UTC dates: a live run is one day
  Provider,   \* provider ids: a live trial is one provider of one day
  Cost        \* what a call may be charged

VARIABLES
  run_rows,    \* the calls that are in the ledger
  event_rows,  \* the chain of each day's run, oldest event first
  runs,        \* the totals of each day's run
  trials       \* the totals of each provider's trial under it

ledger == <<run_rows, event_rows, runs, trials>>

Zero == [rows |-> 0, pass |-> 0, fail |-> 0, cost |-> 0]

\* One more call in a run's or a trial's totals.
Add(totals, passed, cost) ==
  [rows |-> totals.rows + 1,
   pass |-> totals.pass + (IF passed THEN 1 ELSE 0),
   fail |-> totals.fail + (IF passed THEN 0 ELSE 1),
   cost |-> totals.cost + cost]

Init ==
  /\ run_rows = {}
  /\ event_rows = [d \in Day |-> <<>>]
  /\ runs = [d \in Day |-> Zero]
  /\ trials = [t \in Day \X Provider |-> Zero]

Post(r, d, p, passed, cost) ==
  /\ \A row \in run_rows : row.req # r
  /\ run_rows' = run_rows \cup
       {[req |-> r, day |-> d, provider |-> p, passed |-> passed, cost |-> cost]}
  /\ \E kind \in {"provider.called", "provider.failed"} :
       /\ passed => kind = "provider.called"
       /\ event_rows' = [event_rows EXCEPT ![d] = Append(@, [req |-> r, kind |-> kind])]
  /\ runs' = [runs EXCEPT ![d] = Add(@, passed, cost)]
  /\ trials' = [trials EXCEPT ![<<d, p>>] = Add(@, passed, cost)]

Next ==
  \E r \in Request, d \in Day, p \in Provider, passed \in BOOLEAN, cost \in Cost :
    Post(r, d, p, passed, cost)

Spec == Init /\ [][Next]_ledger
=============================================================================
