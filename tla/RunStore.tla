------------------------------ MODULE RunStore ------------------------------
(***************************************************************************)
(* What run ingest promises of the stored runs, whichever clients, retries *)
(* and crashes produced them: the store only grows, by whole runs, and a   *)
(* run id that is in it names the same run for ever.                       *)
(***************************************************************************)
EXTENDS FiniteSets

VARIABLE store    \* set of records with a field id

IdsOf(S) == {x.id : x \in S}

Init == store = {}

\* Several runs may arrive together: one telemetry batch is one transaction.
Next ==
  LET new == store' \ store
  IN  /\ store \subseteq store'
      /\ new # {}
      /\ \A x, y \in new : x.id = y.id => x = y
      /\ IdsOf(new) \cap IdsOf(store) = {}

Spec == Init /\ [][Next]_store
=============================================================================
