----------------------------- MODULE AuditChain -----------------------------
(***************************************************************************)
(* The writer side of the proxy's audit trail: emit_event of               *)
(* audit_persistence.py, run by concurrent transactions on event_rows.     *)
(*                                                                         *)
(* A writer is one transaction that emits one event.  It reads the tip of  *)
(* its run's chain, builds an event on it, inserts it under a savepoint    *)
(* and, if the unique indexes refuse it, reads the tip again, at most      *)
(* MaxChainRetries times.  An insert whose key another open transaction    *)
(* already holds waits until that transaction ends (PostgreSQL); on SQLite *)
(* writers are serialised, which is a special case of these behaviours.    *)
(* The module takes nothing from the callers but the arguments: the row    *)
(* lock that invoke.py happens to hold is in LiveGateway.                  *)
(***************************************************************************)
EXTENDS Naturals, FiniteSets

CONSTANTS
  Writer,           \* transactions that call emit_event
  Run,              \* run ids
  Project,          \* project ids
  Owner,            \* runs.project_id of each run, NoProject if no such run
  NoProject,
  NoHash,           \* SQL NULL in prev_event_hash
  MaxChainRetries   \* _MAX_CHAIN_RETRIES

\* sha256 over a record that holds a fresh event_id is taken as injective:
\* the hash of an event is the attempt that built it.
Attempt == 1..MaxChainRetries
Hash == Writer \X Attempt
PrevHash == Hash \cup {NoHash}

ASSUME ConstantsAssumption ==
  /\ MaxChainRetries \in Nat \ {0}
  /\ NoProject \notin Project
  /\ Owner \in [Run -> Project \cup {NoProject}]
  /\ NoHash \notin Hash

VARIABLES
  event_rows,   \* committed rows of table event_rows
  next_id,      \* next value of the id sequence
  pc,           \* where each writer is in emit_event
  run,          \* the run_id argument of each writer
  attempt,      \* the retry loop's counter
  prev_hash,    \* the tip each writer read last
  row_id        \* the id its last INSERT drew

vars == <<event_rows, next_id, pc, run, attempt, prev_hash, row_id>>

EventRow == [id : Nat, run : Run, prev : PrevHash, hash : Hash]

InTransaction == {"tip", "insert", "index", "inserted"}
Ended == {"refused", "exhausted", "committed", "rolled_back"}

RowsOf(r) == {e \in event_rows : e.run = r}

\* chain_tip_for_run: ORDER BY id DESC LIMIT 1.
ChainTip(r) ==
  IF RowsOf(r) = {}
    THEN NoHash
    ELSE (CHOOSE e \in RowsOf(r) : \A d \in RowsOf(r) : d.id <= e.id).hash

\* The record build_event returns, as the row the INSERT writes.
RowBuiltBy(w) ==
  [id |-> row_id[w], run |-> run[w], prev |-> prev_hash[w], hash |-> <<w, attempt[w]>>]

\* The two unique indexes: (run_id, prev_event_hash), to which SQL NULLs are
\* all distinct, and the partial one on run_id where prev_event_hash is NULL.
ChainIndexClash(e, f) == e.run = f.run /\ e.prev = f.prev /\ e.prev # NoHash
RootIndexClash(e, f)  == e.run = f.run /\ e.prev = NoHash /\ f.prev = NoHash
\* Mutants: the partial index on the chain root is missing, or only it is there.
ClashNoRootIndex(e, f) == ChainIndexClash(e, f)
ClashRootIndexOnly(e, f) == RootIndexClash(e, f)

Clash(e, f) == ChainIndexClash(e, f) \/ RootIndexClash(e, f)

-----------------------------------------------------------------------------
Init ==
  /\ event_rows = {}
  /\ next_id = 1
  /\ pc = [w \in Writer |-> "idle"]
  /\ run \in [Writer -> Run]
  /\ attempt = [w \in Writer |-> 1]
  /\ prev_hash = [w \in Writer |-> NoHash]
  /\ row_id = [w \in Writer |-> 0]

\* emit_event is called for a project; a run that does not exist or belongs
\* to another project is refused before any row is written.
Call(w, project) ==
  /\ pc[w] = "idle"
  /\ pc' = [pc EXCEPT ![w] = IF Owner[run[w]] = project THEN "tip" ELSE "refused"]
  /\ UNCHANGED <<event_rows, next_id, run, attempt, prev_hash, row_id>>

ReadTip(w) ==
  /\ pc[w] = "tip"
  /\ prev_hash' = [prev_hash EXCEPT ![w] = ChainTip(run[w])]
  /\ pc' = [pc EXCEPT ![w] = "insert"]
  /\ UNCHANGED <<event_rows, next_id, run, attempt, row_id>>

\* The INSERT draws its id before the indexes are consulted, and does not
\* give it back if they refuse the row.
StartInsert(w) ==
  /\ pc[w] = "insert"
  /\ row_id' = [row_id EXCEPT ![w] = next_id]
  /\ next_id' = next_id + 1
  /\ pc' = [pc EXCEPT ![w] = "index"]
  /\ UNCHANGED <<event_rows, run, attempt, prev_hash>>

\* No committed row and no row of an open transaction has the key.
InsertAccepted(w) ==
  /\ pc[w] = "index"
  /\ \A e \in event_rows : ~Clash(RowBuiltBy(w), e)
  /\ \A v \in Writer : pc[v] = "inserted" => ~Clash(RowBuiltBy(w), RowBuiltBy(v))
  /\ pc' = [pc EXCEPT ![w] = "inserted"]
  /\ UNCHANGED <<event_rows, next_id, run, attempt, prev_hash, row_id>>

\* Mutants: the loop runs once too often; it inserts again on the tip it read
\* before; it does so without counting.
InsertRefusedOnceMore(w) ==
  /\ pc[w] = "index"
  /\ \E e \in event_rows : Clash(RowBuiltBy(w), e)
  /\ attempt' = [attempt EXCEPT ![w] = @ + 1]
  /\ pc' = [pc EXCEPT ![w] = IF attempt[w] <= MaxChainRetries THEN "tip" ELSE "exhausted"]
  /\ UNCHANGED <<event_rows, next_id, run, prev_hash, row_id>>

InsertRefusedStaleTip(w) ==
  /\ pc[w] = "index"
  /\ \E e \in event_rows : Clash(RowBuiltBy(w), e)
  /\ IF attempt[w] < MaxChainRetries
       THEN /\ attempt' = [attempt EXCEPT ![w] = @ + 1]
            /\ pc' = [pc EXCEPT ![w] = "insert"]
       ELSE /\ pc' = [pc EXCEPT ![w] = "exhausted"]
            /\ UNCHANGED attempt
  /\ UNCHANGED <<event_rows, next_id, run, prev_hash, row_id>>

InsertRefusedUncounted(w) ==
  /\ pc[w] = "index"
  /\ \E e \in event_rows : Clash(RowBuiltBy(w), e)
  /\ pc' = [pc EXCEPT ![w] = "index"]
  /\ UNCHANGED <<event_rows, next_id, run, attempt, prev_hash, row_id>>

\* IntegrityError: the savepoint is undone and the loop goes round, or ends
\* in the RuntimeError "lost N retries", which rolls the transaction back.
InsertRefused(w) ==
  /\ pc[w] = "index"
  /\ \E e \in event_rows : Clash(RowBuiltBy(w), e)
  /\ IF attempt[w] < MaxChainRetries
       THEN /\ attempt' = [attempt EXCEPT ![w] = @ + 1]
            /\ pc' = [pc EXCEPT ![w] = "tip"]
       ELSE /\ pc' = [pc EXCEPT ![w] = "exhausted"]
            /\ UNCHANGED attempt
  /\ UNCHANGED <<event_rows, next_id, run, prev_hash, row_id>>

Commit(w) ==
  /\ pc[w] = "inserted"
  /\ event_rows' = event_rows \cup {RowBuiltBy(w)}
  /\ pc' = [pc EXCEPT ![w] = "committed"]
  /\ UNCHANGED <<next_id, run, attempt, prev_hash, row_id>>

\* The caller's transaction fails for any other reason, at any point.
Rollback(w) ==
  /\ pc[w] \in InTransaction
  /\ pc' = [pc EXCEPT ![w] = "rolled_back"]
  /\ UNCHANGED <<event_rows, next_id, run, attempt, prev_hash, row_id>>

AllEnded ==
  /\ \A w \in Writer : pc[w] \in Ended
  /\ UNCHANGED vars

Emit(w) ==
  \/ ReadTip(w)
  \/ StartInsert(w)
  \/ InsertAccepted(w)
  \/ InsertRefused(w)
  \/ Commit(w)

Next ==
  \/ \E w \in Writer :
       \/ \E project \in Project : Call(w, project)
       \/ Emit(w)
       \/ Rollback(w)
  \/ AllEnded

Spec == Init /\ [][Next]_vars

\* A thread that runs emit_event keeps running it; nothing makes a client
\* call or a transaction fail.
FairSpec == Spec /\ \A w \in Writer : WF_vars(Emit(w))
-----------------------------------------------------------------------------
\* Every variable stays in its type.
TypeOK ==
  /\ event_rows \subseteq EventRow
  /\ next_id \in Nat
  /\ pc \in [Writer -> {"idle"} \cup InTransaction \cup Ended]
  /\ run \in [Writer -> Run]
  /\ attempt \in [Writer -> Attempt]
  /\ prev_hash \in [Writer -> PrevHash]
  /\ row_id \in [Writer -> Nat]

\* No two events of a run follow the same event, and a run has one first
\* event: the fork that the comment on event_rows says would "silently
\* corrupt the chain".
NoFork ==
  \A e, f \in event_rows : e.run = f.run /\ e.prev = f.prev => e = f

\* The order of ids, which is the order list_events_for_run returns, is the
\* order of the chain: each event names the one before it, the first none.
\* verify_chain_events walks exactly this.
Before(d, e) == d.run = e.run /\ d.id < e.id
Adjacent(d, e) == Before(d, e) /\ ~\E m \in event_rows : Before(d, m) /\ Before(m, e)

IdOrderIsChainOrder ==
  \A e \in event_rows :
    /\ (~\E d \in event_rows : Before(d, e)) => e.prev = NoHash
    /\ \A d \in event_rows : Adjacent(d, e) => e.prev = d.hash

\* A retry is spent only on an event somebody else committed to the same run:
\* however the writers interleave, a writer has lost at most as many attempts
\* as the run has events, so exhaustion needs MaxChainRetries winners.
RetriesHaveWinners ==
  \A w \in Writer :
    LET lost == IF pc[w] = "exhausted" THEN attempt[w] ELSE attempt[w] - 1
    IN  lost <= Cardinality(RowsOf(run[w]))

\* emit_event ends: no set of writers waits on each other's index entries for
\* ever, and the retry loop is bounded.
EmitEnds ==
  \A w \in Writer : (pc[w] \in InTransaction) ~> (pc[w] \in Ended)

\* The committed rows are a linear chain per run that only grows at its tip.
Chain == INSTANCE EventChain WITH
  links <- {[run |-> e.run, prev |-> e.prev, hash |-> e.hash] : e \in event_rows}

LinearChain == Chain!Spec
=============================================================================
