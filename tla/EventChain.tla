----------------------------- MODULE EventChain -----------------------------
(***************************************************************************)
(* What the audit trail promises, with no database in it: every run has    *)
(* one hash chain that only grows, by one event at a time, at its tip.     *)
(* The trail of a run is "linear, not a fork" (docstring of emit_event).   *)
(* A link records that the event hashed `hash' follows the one hashed      *)
(* `prev'; the first event of a run follows NoHash.                        *)
(***************************************************************************)
CONSTANTS
  Run,     \* live runs, one per project and UTC day
  Hash,    \* event hashes
  NoHash   \* the null prev_event_hash of a first event, not a hash

VARIABLE links

Link == [run : Run, prev : Hash \cup {NoHash}, hash : Hash]

\* p is where the chain of run r ends: nothing follows it.
IsTip(r, p) ==
  /\ \/ p = NoHash
     \/ \E l \in links : l.run = r /\ l.hash = p
  /\ \A l \in links : l.run = r => l.prev # p

Init == links = {}

\* One event joins the chain of run r, behind its tip, under a hash that no
\* event of any run has.
AppendEvent(r, h) ==
  /\ \A l \in links : l.hash # h
  /\ \E p \in Hash \cup {NoHash} :
       /\ IsTip(r, p)
       /\ links' = links \cup {[run |-> r, prev |-> p, hash |-> h]}

Next == \E r \in Run, h \in Hash : AppendEvent(r, h)

Spec == Init /\ [][Next]_links
=============================================================================
