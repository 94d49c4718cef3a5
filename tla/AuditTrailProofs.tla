-------------------------- MODULE AuditTrailProofs --------------------------
(***************************************************************************)
(* Theorems on AuditChain and AuditVerify, for any number of writers, runs *)
(* and retries and any page size.                                          *)
(*                                                                         *)
(* NoFork and IdOrderIsChainOrder are not inductive.  What makes them so   *)
(* is IndInv: ids and hashes are never used twice (Fresh), a writer that   *)
(* has read a tip inserts above it (Built), rows past the indexes but not  *)
(* yet committed share no key with each other or with a committed row      *)
(* (Reserved), and the committed rows of a run hang together from one root *)
(* (Linked).                                                               *)
(*                                                                         *)
(* The steps of the trail are steps of the writers or leave their state    *)
(* alone, so all of that holds in the trail too.  To it is added what the  *)
(* count has established by the time of the list (CountStands): a set of   *)
(* at most EventsMax rows, with nothing of the run below or between them   *)
(* that was not counted.  New events only come above it, because a writer  *)
(* past the indexes inserts above the newest event.                        *)
(***************************************************************************)
EXTENDS AuditVerify, TLAPS, FiniteSetTheorems

\* ORDER BY id DESC LIMIT 1 has a first row whenever the run has a row.
HasNewest ==
  \A e \in event_rows : \E m \in event_rows :
    m.run = e.run /\ \A d \in event_rows : d.run = e.run => d.id <= m.id

Inserting == {w \in Writer : pc[w] \in {"index", "inserted"}}

Fresh ==
  /\ \A e \in event_rows : e.id < next_id
  /\ \A w \in Writer : row_id[w] < next_id
  /\ \A e \in event_rows : \A w \in Inserting : e.id # row_id[w]
  /\ \A v, w \in Inserting : v # w => row_id[v] # row_id[w]
  /\ \A e, f \in event_rows : e.id = f.id => e = f
  /\ \A e \in event_rows : pc[e.hash[1]] = "committed"
  /\ \A e, f \in event_rows : e.hash = f.hash => e = f

Built ==
  \A w \in Writer : pc[w] \in {"insert", "index", "inserted"} =>
    \/ prev_hash[w] = NoHash
    \/ \E e \in event_rows :
         /\ e.run = run[w]
         /\ e.hash = prev_hash[w]
         /\ pc[w] # "insert" => e.id < row_id[w]

SameKey(e, f) == e.run = f.run /\ e.prev = f.prev

Reserved ==
  /\ \A v, w \in Writer : v # w /\ pc[v] = "inserted" /\ pc[w] = "inserted" =>
       ~SameKey(RowBuiltBy(v), RowBuiltBy(w))
  /\ \A w \in Writer : \A e \in event_rows : pc[w] = "inserted" =>
       ~SameKey(RowBuiltBy(w), e)

HasRoot ==
  \A e \in event_rows : \E r \in event_rows :
    r.run = e.run /\ r.prev = NoHash /\ r.id <= e.id

HasPredecessor ==
  \A e \in event_rows : e.prev # NoHash =>
    \E d \in event_rows : d.run = e.run /\ d.hash = e.prev /\ d.id < e.id

\* An event that is not the newest of its run has been followed.
HasSuccessor ==
  \A e, f \in event_rows : e.run = f.run /\ e.id < f.id =>
    \E s \in event_rows : s.run = e.run /\ s.prev = e.hash /\ s.id <= f.id

Linked == HasRoot /\ HasPredecessor /\ HasSuccessor

IndInv == TypeOK /\ HasNewest /\ Fresh /\ Built /\ Reserved /\ NoFork /\ Linked

-----------------------------------------------------------------------------
\* What the index check sees of a pair of rows: the same run and the same
\* predecessor, null or not.
LEMMA ClashIsSameKey ==
  ASSUME NEW e, NEW f
  PROVE  Clash(e, f) <=> SameKey(e, f)
  BY DEF Clash, ChainIndexClash, RootIndexClash, SameKey

\* The row of a writer is a row of the table.
LEMMA RowBuiltByType ==
  ASSUME TypeOK, NEW w \in Writer
  PROVE  /\ RowBuiltBy(w) \in EventRow
         /\ RowBuiltBy(w).id = row_id[w]
         /\ RowBuiltBy(w).run = run[w]
         /\ RowBuiltBy(w).prev = prev_hash[w]
         /\ RowBuiltBy(w).hash = <<w, attempt[w]>>
  BY DEF RowBuiltBy, EventRow, Hash, TypeOK

\* chain_tip_for_run returns NULL for a run without events, and otherwise the
\* hash of an event of the run.
LEMMA ChainTipOfRun ==
  ASSUME TypeOK, HasNewest, NEW r \in Run
  PROVE  /\ ChainTip(r) \in PrevHash
         /\ \/ ChainTip(r) = NoHash
            \/ \E e \in event_rows : e.run = r /\ e.hash = ChainTip(r)
<1>1. CASE RowsOf(r) = {}
  BY <1>1 DEF ChainTip, PrevHash
<1>2. CASE RowsOf(r) # {}
  <2> DEFINE tip == CHOOSE e \in RowsOf(r) : \A d \in RowsOf(r) : d.id <= e.id
  <2>1. \E e \in RowsOf(r) : \A d \in RowsOf(r) : d.id <= e.id
    BY <1>2 DEF HasNewest, RowsOf
  <2>2. tip \in RowsOf(r)
    BY <2>1
  <2>3. tip \in event_rows /\ tip.run = r /\ tip.hash \in Hash
    BY <2>2 DEF RowsOf, TypeOK, EventRow
  <2>4. ChainTip(r) = tip.hash
    BY <1>2 DEF ChainTip
  <2>5. QED
    BY <2>3, <2>4 DEF PrevHash
<1>3. QED
  BY <1>1, <1>2

-----------------------------------------------------------------------------
LEMMA InitIndInv == Init => IndInv
<1> SUFFICES ASSUME Init PROVE IndInv
  OBVIOUS
<1> USE ConstantsAssumption DEF Init
<1>1. TypeOK
  BY DEF TypeOK, Attempt, PrevHash
<1>2. HasNewest /\ NoFork /\ Linked
  BY DEF HasNewest, NoFork, Linked, HasRoot, HasPredecessor, HasSuccessor
<1>3. Fresh
  BY DEF Fresh, Inserting
<1>4. Built /\ Reserved
  BY DEF Built, Reserved
<1>5. QED
  BY <1>1, <1>2, <1>3, <1>4 DEF IndInv

\* A step that writes no row and reserves no key keeps the invariant if the
\* writer it moves ends up holding neither an id nor a tip, or is refused.
LEMMA LeaveIndInv ==
  ASSUME IndInv, NEW w \in Writer, TypeOK',
         pc[w] # "committed",
         UNCHANGED <<event_rows, next_id, run, prev_hash, row_id>>,
         \A v \in Writer : v # w => pc'[v] = pc[v] /\ attempt'[v] = attempt[v],
         pc'[w] \notin {"insert", "index", "inserted", "committed"}
  PROVE  IndInv'
<1> USE DEF IndInv
<1>1. HasNewest' /\ NoFork' /\ Linked'
  BY DEF HasNewest, NoFork, Linked, HasRoot, HasPredecessor, HasSuccessor
<1>2. Inserting' \subseteq Inserting
  BY DEF Inserting
<1>3. Fresh'
  <2>1. \A e \in event_rows : e.hash[1] \in Writer
    BY DEF TypeOK, EventRow, Hash
  <2>2. \A e \in event_rows : pc'[e.hash[1]] = "committed"
    BY <2>1 DEF Fresh
  <2>3. QED
    BY <1>2, <2>2 DEF Fresh
<1>4. Built'
  BY DEF Built
<1>5. Reserved'
  <2>1. \A v \in Writer : v # w => RowBuiltBy(v)' = RowBuiltBy(v)
    BY DEF RowBuiltBy
  <2>2. QED
    BY <2>1 DEF Reserved
<1>6. QED
  BY <1>1, <1>3, <1>4, <1>5

LEMMA ReadTipIndInv ==
  ASSUME IndInv, NEW w \in Writer, ReadTip(w)
  PROVE  IndInv'
<1> USE DEF IndInv, ReadTip
<1>1. TypeOK'
  BY ChainTipOfRun DEF TypeOK, InTransaction
<1>2. HasNewest' /\ NoFork' /\ Linked'
  BY DEF HasNewest, NoFork, Linked, HasRoot, HasPredecessor, HasSuccessor
<1>3. Fresh'
  <2>1. Inserting' \subseteq Inserting
    BY DEF Inserting, TypeOK
  <2>2. \A e \in event_rows : e.hash[1] \in Writer
    BY DEF TypeOK, EventRow, Hash
  <2>3. \A e \in event_rows : pc'[e.hash[1]] = "committed"
    BY <2>2 DEF Fresh, TypeOK
  <2>4. QED
    BY <2>1, <2>3 DEF Fresh
<1>4. Built'
  <2> SUFFICES ASSUME NEW v \in Writer, pc'[v] \in {"insert", "index", "inserted"}
               PROVE  \/ prev_hash'[v] = NoHash
                      \/ \E e \in event_rows :
                           /\ e.run = run[v]
                           /\ e.hash = prev_hash'[v]
                           /\ pc'[v] # "insert" => e.id < row_id[v]
    BY DEF Built
  <2>1. CASE v = w
    <3>1. prev_hash'[w] = ChainTip(run[w]) /\ pc'[w] = "insert" /\ run[w] \in Run
      BY DEF TypeOK
    <3>2. QED
      BY <2>1, <3>1, ChainTipOfRun
  <2>2. CASE v # w
    BY <2>2 DEF Built, TypeOK
  <2>3. QED
    BY <2>1, <2>2
<1>5. Reserved'
  <2>1. \A v \in Writer : v # w => RowBuiltBy(v)' = RowBuiltBy(v)
    BY DEF RowBuiltBy, TypeOK
  <2>2. QED
    BY <2>1 DEF Reserved, TypeOK
<1>6. QED
  BY <1>1, <1>2, <1>3, <1>4, <1>5

LEMMA StartInsertIndInv ==
  ASSUME IndInv, NEW w \in Writer, StartInsert(w)
  PROVE  IndInv'
<1> USE DEF IndInv, StartInsert
<1>1. TypeOK'
  BY DEF TypeOK, InTransaction
<1>2. HasNewest' /\ NoFork' /\ Linked'
  BY DEF HasNewest, NoFork, Linked, HasRoot, HasPredecessor, HasSuccessor
<1>3. \A e \in event_rows : e.id \in Nat /\ e.hash[1] \in Writer
  BY DEF TypeOK, EventRow, Hash
<1>4. Fresh'
  <2>1. Inserting' = Inserting \cup {w}
    BY DEF Inserting, TypeOK
  <2>2. \A v \in Writer : row_id'[v] < next_id'
    BY DEF Fresh, TypeOK
  <2>3. /\ \A e \in event_rows : e.id < next_id'
        /\ \A e \in event_rows : \A v \in Inserting' : e.id # row_id'[v]
        /\ \A u, v \in Inserting' : u # v => row_id'[u] # row_id'[v]
    BY <1>3, <2>1 DEF Fresh, TypeOK, Inserting
  <2>4. \A e \in event_rows : pc'[e.hash[1]] = "committed"
    BY <1>3 DEF Fresh, TypeOK
  <2>5. QED
    BY <2>2, <2>3, <2>4 DEF Fresh
<1>5. Built'
  BY <1>3 DEF Built, Fresh, TypeOK
<1>6. Reserved'
  <2>1. \A v \in Writer : v # w => RowBuiltBy(v)' = RowBuiltBy(v)
    BY DEF RowBuiltBy, TypeOK
  <2>2. QED
    BY <2>1 DEF Reserved, TypeOK
<1>7. QED
  BY <1>1, <1>2, <1>4, <1>5, <1>6

LEMMA InsertAcceptedIndInv ==
  ASSUME IndInv, NEW w \in Writer, InsertAccepted(w)
  PROVE  IndInv'
<1> USE DEF IndInv, InsertAccepted
<1>1. TypeOK'
  BY DEF TypeOK, InTransaction
<1>2. HasNewest' /\ NoFork' /\ Linked'
  BY DEF HasNewest, NoFork, Linked, HasRoot, HasPredecessor, HasSuccessor
<1>3. Fresh'
  <2>1. Inserting' = Inserting
    BY DEF Inserting, TypeOK
  <2>2. \A e \in event_rows : e.hash[1] \in Writer
    BY DEF TypeOK, EventRow, Hash
  <2>3. \A e \in event_rows : pc'[e.hash[1]] = "committed"
    BY <2>2 DEF Fresh, TypeOK
  <2>4. QED
    BY <2>1, <2>3 DEF Fresh
<1>4. Built'
  BY DEF Built, TypeOK
<1>5. Reserved'
  <2>1. \A v \in Writer : RowBuiltBy(v)' = RowBuiltBy(v)
    BY DEF RowBuiltBy
  <2>2. \A e \in event_rows : ~SameKey(RowBuiltBy(w), e)
    BY ClashIsSameKey
  <2>3. \A v \in Writer : pc[v] = "inserted" =>
          ~SameKey(RowBuiltBy(w), RowBuiltBy(v)) /\ ~SameKey(RowBuiltBy(v), RowBuiltBy(w))
    BY ClashIsSameKey DEF SameKey
  <2>4. \A v \in Writer : v # w => pc'[v] = pc[v]
    BY DEF TypeOK
  <2>5. QED
    BY <2>1, <2>2, <2>3, <2>4 DEF Reserved
<1>6. QED
  BY <1>1, <1>2, <1>3, <1>4, <1>5

\* The predecessor that a writer past the indexes names is still the tip of
\* its run: a run with events has a root, so a null predecessor would clash,
\* and an event with a later one has a successor, which would clash too.
LEMMA InsertedAtTip ==
  ASSUME IndInv, NEW w \in Writer, pc[w] = "inserted"
  PROVE  /\ prev_hash[w] = NoHash => \A e \in event_rows : e.run # run[w]
         /\ prev_hash[w] # NoHash =>
              \E d \in event_rows :
                /\ d.run = run[w] /\ d.hash = prev_hash[w] /\ d.id < row_id[w]
                /\ \A e \in event_rows : e.run = run[w] => e.id <= d.id
<1> USE DEF IndInv
<1>1. \A e \in event_rows : e.run = run[w] => e.prev # prev_hash[w]
  BY RowBuiltByType DEF Reserved, SameKey
<1>2. ASSUME prev_hash[w] = NoHash, NEW e \in event_rows, e.run = run[w]
      PROVE  FALSE
  BY <1>1, <1>2 DEF Linked, HasRoot
<1>3. ASSUME prev_hash[w] # NoHash
      PROVE  \E d \in event_rows :
                /\ d.run = run[w] /\ d.hash = prev_hash[w] /\ d.id < row_id[w]
                /\ \A e \in event_rows : e.run = run[w] => e.id <= d.id
  <2>1. PICK d \in event_rows :
          d.run = run[w] /\ d.hash = prev_hash[w] /\ d.id < row_id[w]
    BY <1>3 DEF Built
  <2>2. ASSUME NEW e \in event_rows, e.run = run[w], d.id < e.id
        PROVE  FALSE
    BY <1>1, <2>1, <2>2 DEF Linked, HasSuccessor
  <2>3. \A e \in event_rows : e.id \in Nat
    BY DEF TypeOK, EventRow
  <2>4. QED
    BY <2>1, <2>2, <2>3
<1>4. QED
  BY <1>2, <1>3

LEMMA CommitIndInv ==
  ASSUME IndInv, NEW w \in Writer, Commit(w)
  PROVE  IndInv'
<1> DEFINE n == RowBuiltBy(w)
<1> USE DEF IndInv, Commit
<1>1. /\ n \in EventRow
      /\ n.id = row_id[w] /\ n.run = run[w] /\ n.prev = prev_hash[w]
      /\ n.hash = <<w, attempt[w]>> /\ n.hash[1] = w
  BY RowBuiltByType
<1>2. event_rows' = event_rows \cup {n}
  OBVIOUS
<1>3. \A e \in event_rows : /\ e.id \in Nat /\ e.hash \in Hash
                            /\ e.hash[1] \in Writer /\ e \in EventRow
  BY DEF TypeOK, EventRow, Hash
<1>4. /\ w \in Inserting
      /\ row_id[w] \in Nat /\ n.id \in Nat /\ n.id < next_id
      /\ \A e \in event_rows : e.id # n.id
      /\ \A e \in event_rows : e.hash # n.hash
  BY <1>1, <1>3 DEF Inserting, Fresh, TypeOK
<1>5. /\ n.prev = NoHash => \A e \in event_rows : e.run # n.run
      /\ n.prev # NoHash =>
           \E d \in event_rows :
             /\ d.run = n.run /\ d.hash = n.prev /\ d.id < n.id
             /\ \A e \in event_rows : e.run = n.run => e.id <= d.id
  BY <1>1, InsertedAtTip
<1>6. \A e \in event_rows : e.run = n.run => e.id < n.id
  BY <1>3, <1>4, <1>5
<1> HIDE DEF n
<1>7. TypeOK'
  BY <1>1, <1>2 DEF TypeOK, Ended
<1>8. HasNewest'
  <2> SUFFICES ASSUME NEW e \in event_rows'
               PROVE  \E m \in event_rows' : m.run = e.run
                        /\ \A d \in event_rows' : d.run = e.run => d.id <= m.id
    BY DEF HasNewest
  <2>1. CASE e.run = n.run
    BY <2>1, <1>2, <1>3, <1>4, <1>6
  <2>2. CASE e.run # n.run
    <3>1. e \in event_rows
      BY <1>2, <2>2
    <3>2. PICK m \in event_rows :
            m.run = e.run /\ \A d \in event_rows : d.run = e.run => d.id <= m.id
      BY <3>1 DEF HasNewest
    <3>3. QED
      BY <1>2, <2>2, <3>2
  <2>3. QED
    BY <2>1, <2>2
<1>9. \A v \in Writer : v # w => pc'[v] = pc[v]
  BY DEF TypeOK
<1>10. pc'[w] = "committed" /\ pc[w] = "inserted"
  BY DEF TypeOK
<1>11. Fresh'
  <2>1. Inserting' = Inserting \ {w}
    BY <1>9, <1>10 DEF Inserting
  <2>2. \A e \in event_rows' : pc'[e.hash[1]] = "committed"
    BY <1>1, <1>2, <1>3, <1>9, <1>10 DEF Fresh
  <2>3. \A e \in event_rows' : \A v \in Inserting' : e.id # row_id[v]
    BY <1>1, <1>2, <1>4, <2>1 DEF Fresh
  <2>4. /\ \A e, f \in event_rows' : e.id = f.id => e = f
        /\ \A e, f \in event_rows' : e.hash = f.hash => e = f
        /\ \A e \in event_rows' : e.id < next_id
    BY <1>2, <1>4 DEF Fresh
  <2>5. QED
    BY <2>1, <2>2, <2>3, <2>4 DEF Fresh
<1>12. Built'
  BY <1>2, <1>9, <1>10 DEF Built
<1>13. Reserved'
  <2>1. \A v \in Writer : RowBuiltBy(v)' = RowBuiltBy(v)
    BY DEF RowBuiltBy
  <2>2. \A v \in Writer : pc'[v] = "inserted" => ~SameKey(RowBuiltBy(v), n)
    BY <1>9, <1>10 DEF Reserved, n
  <2>3. QED
    BY <1>2, <1>9, <1>10, <2>1, <2>2 DEF Reserved
<1>14. NoFork'
  <2>1. \A e \in event_rows : ~(e.run = n.run /\ e.prev = n.prev)
    BY <1>10 DEF Reserved, SameKey, n
  <2>2. QED
    BY <1>2, <2>1 DEF NoFork
<1>15. HasRoot'
  <2>1. \E r \in event_rows' : r.run = n.run /\ r.prev = NoHash /\ r.id <= n.id
    BY <1>2, <1>3, <1>4, <1>5, <1>6 DEF Linked, HasRoot
  <2>2. QED
    BY <1>2, <2>1 DEF Linked, HasRoot
<1>16. HasPredecessor'
  BY <1>2, <1>5 DEF Linked, HasPredecessor
<1>17. HasSuccessor'
  <2> SUFFICES ASSUME NEW e \in event_rows', NEW f \in event_rows',
                      e.run = f.run, e.id < f.id
               PROVE  \E s \in event_rows' : s.run = e.run /\ s.prev = e.hash /\ s.id <= f.id
    BY DEF HasSuccessor
  <2>1. CASE e \in event_rows /\ f \in event_rows
    BY <1>2, <2>1 DEF Linked, HasSuccessor
  <2>2. CASE e = n
    BY <1>2, <1>3, <1>4, <1>6, <2>2
  <2>3. CASE e \in event_rows /\ f = n
    <3>1. PICK d \in event_rows :
            /\ d.run = n.run /\ d.hash = n.prev
            /\ \A c \in event_rows : c.run = n.run => c.id <= d.id
      BY <1>5, <2>3
    <3>2. CASE e.id < d.id
      <4>1. PICK s \in event_rows : s.run = e.run /\ s.prev = e.hash /\ s.id <= d.id
        BY <2>3, <3>1, <3>2 DEF Linked, HasSuccessor
      <4>2. s.id <= n.id
        BY <1>3, <1>4, <1>6, <2>3, <4>1
      <4>3. QED
        BY <1>2, <2>3, <4>1, <4>2
    <3>3. CASE e.id = d.id
      <4>1. e = d
        BY <2>3, <3>3 DEF Fresh
      <4>2. QED
        BY <1>2, <1>4, <2>3, <3>1, <4>1
    <3>4. QED
      BY <1>3, <2>3, <3>1, <3>2, <3>3
  <2>4. QED
    BY <1>2, <2>1, <2>2, <2>3
<1>18. QED
  BY <1>7, <1>8, <1>11, <1>12, <1>13, <1>14, <1>15, <1>16, <1>17 DEF Linked

LEMMA NextIndInv == IndInv /\ [Next]_vars => IndInv'
<1> SUFFICES ASSUME IndInv, [Next]_vars PROVE IndInv'
  OBVIOUS
<1>1. TypeOK
  BY DEF IndInv
<1>2. ASSUME NEW w \in Writer, NEW project \in Project, Call(w, project)
      PROVE  IndInv'
  <2>1. TypeOK'
    BY <1>1, <1>2 DEF Call, TypeOK, InTransaction, Ended
  <2>2. pc'[w] \in {"tip", "refused"} /\ \A v \in Writer : v # w => pc'[v] = pc[v]
    BY <1>1, <1>2 DEF Call, TypeOK
  <2>3. QED
    BY <1>2, <2>1, <2>2, LeaveIndInv DEF Call
<1>3. ASSUME NEW w \in Writer, InsertRefused(w)
      PROVE  IndInv'
  <2>1. TypeOK'
    BY <1>1, <1>3, ConstantsAssumption DEF InsertRefused, TypeOK, InTransaction, Ended, Attempt
  <2>2. /\ pc'[w] \in {"tip", "exhausted"}
        /\ \A v \in Writer : v # w => pc'[v] = pc[v] /\ attempt'[v] = attempt[v]
    BY <1>1, <1>3 DEF InsertRefused, TypeOK
  <2>3. QED
    BY <1>3, <2>1, <2>2, LeaveIndInv DEF InsertRefused
<1>4. ASSUME NEW w \in Writer, Rollback(w)
      PROVE  IndInv'
  <2>1. TypeOK'
    BY <1>1, <1>4 DEF Rollback, TypeOK, InTransaction, Ended
  <2>2. pc'[w] = "rolled_back" /\ \A v \in Writer : v # w => pc'[v] = pc[v]
    BY <1>1, <1>4 DEF Rollback, TypeOK
  <2>3. QED
    BY <1>4, <2>1, <2>2, LeaveIndInv DEF Rollback, InTransaction
<1>5. CASE UNCHANGED vars
  <2>1. \A w \in Writer : RowBuiltBy(w)' = RowBuiltBy(w)
    BY <1>5 DEF vars, RowBuiltBy
  <2>2. Reserved'
    BY <1>5, <2>1 DEF vars, IndInv, Reserved
  <2>3. QED
    BY <1>5, <2>2 DEF vars, IndInv, TypeOK, HasNewest, Fresh, Inserting, Built,
                      NoFork, Linked, HasRoot, HasPredecessor, HasSuccessor
<1>6. QED
  BY <1>2, <1>3, <1>4, <1>5, ReadTipIndInv, StartInsertIndInv, InsertAcceptedIndInv,
     CommitIndInv DEF Next, Emit, AllEnded

\* The strengthened invariant of emit_event holds in every reachable state.
THEOREM Invariance == Spec => []IndInv
<1>1. Init => IndInv
  BY InitIndInv
<1>2. IndInv /\ [Next]_vars => IndInv'
  BY NextIndInv
<1>3. QED
  BY <1>1, <1>2, PTL DEF Spec

\* TypeOK: what emit_event keeps in its variables and writes to event_rows
\* always has its type.
THEOREM TypeCorrect == Spec => []TypeOK
<1>1. IndInv => TypeOK
  BY DEF IndInv
<1>2. QED
  BY <1>1, Invariance, PTL

\* NoFork: however many transactions race on a run, no two committed events
\* follow the same event, and none but one is the first.
THEOREM ForkFree == Spec => []NoFork
<1>1. IndInv => NoFork
  BY DEF IndInv
<1>2. QED
  BY <1>1, Invariance, PTL

\* IdOrderIsChainOrder: the rows of a run in id order are what
\* verify_chain_events accepts, each naming the row just before it.
THEOREM ListOrderIsChainOrder == Spec => []IdOrderIsChainOrder
<1>1. IndInv => IdOrderIsChainOrder
  <2> SUFFICES ASSUME IndInv, NEW e \in event_rows
               PROVE  /\ (~\E d \in event_rows : Before(d, e)) => e.prev = NoHash
                      /\ \A d \in event_rows : Adjacent(d, e) => e.prev = d.hash
    BY DEF IdOrderIsChainOrder
  <2> USE DEF IndInv, Before
  <2>0. \A d \in event_rows : d.id \in Nat /\ d.hash \in Hash /\ d.hash # NoHash
    BY ConstantsAssumption DEF TypeOK, EventRow
  <2>1. (~\E d \in event_rows : Before(d, e)) => e.prev = NoHash
    BY DEF Linked, HasPredecessor
  <2>2. ASSUME NEW d \in event_rows, Adjacent(d, e) PROVE e.prev = d.hash
    <3>1. d.run = e.run /\ d.id < e.id /\ ~\E m \in event_rows : Before(d, m) /\ Before(m, e)
      BY <2>2 DEF Adjacent
    <3>2. PICK s \in event_rows : s.run = d.run /\ s.prev = d.hash /\ s.id <= e.id
      BY <3>1 DEF Linked, HasSuccessor
    <3>3. PICK p \in event_rows : p.run = s.run /\ p.hash = s.prev /\ p.id < s.id
      BY <2>0, <3>2 DEF Linked, HasPredecessor
    <3>4. p = d
      BY <3>2, <3>3 DEF Fresh
    <3>5. s.id = e.id
      BY <2>0, <3>1, <3>2, <3>3, <3>4
    <3>6. QED
      BY <3>2, <3>5 DEF Fresh
  <2>3. QED
    BY <2>1, <2>2
<1>2. QED
  BY <1>1, Invariance, PTL

-----------------------------------------------------------------------------
\* What a writer saw when it read its tip: the run's events up to the tip.
Seen(w) ==
  {e \in RowsOf(run[w]) : \E d \in RowsOf(run[w]) : d.hash = prev_hash[w] /\ e.id <= d.id}

\* RetriesHaveWinners is not inductive: the winner of the next lost attempt
\* must be an event that was not there at the attempts lost before it.  A
\* writer that holds a tip has lost no more attempts than it saw events.
SeenCoversLost ==
  /\ IsFiniteSet(event_rows)
  /\ \A w \in Writer : pc[w] \in {"insert", "index"} => attempt[w] - 1 <= Cardinality(Seen(w))

LEMMA RowsCounted ==
  ASSUME IsFiniteSet(event_rows), NEW r
  PROVE  IsFiniteSet(RowsOf(r)) /\ Cardinality(RowsOf(r)) \in Nat
<1>1. RowsOf(r) \subseteq event_rows
  BY DEF RowsOf
<1>2. QED
  BY <1>1, FS_Subset, FS_CardinalityType

LEMMA SeenCounted ==
  ASSUME IsFiniteSet(event_rows), NEW w
  PROVE  /\ IsFiniteSet(Seen(w)) /\ Cardinality(Seen(w)) \in Nat
         /\ Seen(w) \subseteq RowsOf(run[w])
<1>1. Seen(w) \subseteq RowsOf(run[w])
  BY DEF Seen
<1>2. QED
  BY <1>1, RowsCounted, FS_Subset, FS_CardinalityType

\* The committed rows only grow, and with them both counts.
LEMMA RowsGrow ==
  ASSUME IndInv, IsFiniteSet(event_rows), [Next]_vars
  PROVE  /\ IsFiniteSet(event_rows')
         /\ event_rows \subseteq event_rows'
         /\ run' = run
<1>1. \A w \in Writer : Commit(w) => event_rows' = event_rows \cup {RowBuiltBy(w)} /\ run' = run
  BY DEF Commit
<1>2. (\E w \in Writer : Commit(w)) \/ (event_rows' = event_rows /\ run' = run)
  BY DEF Next, Emit, Call, ReadTip, StartInsert, InsertAccepted, InsertRefused,
         Commit, Rollback, AllEnded, vars
<1>3. QED
  BY <1>1, <1>2, FS_AddElement

LEMMA CountsGrow ==
  ASSUME IndInv, IsFiniteSet(event_rows), [Next]_vars, NEW w \in Writer
  PROVE  /\ Cardinality(RowsOf(run[w])) <= Cardinality(RowsOf(run[w])')
         /\ prev_hash'[w] = prev_hash[w] => Cardinality(Seen(w)) <= Cardinality(Seen(w)')
<1>1. event_rows \subseteq event_rows' /\ run' = run
  BY RowsGrow
<1>2. RowsOf(run[w]) \subseteq RowsOf(run[w])'
  BY <1>1 DEF RowsOf
<1>3. ASSUME prev_hash'[w] = prev_hash[w] PROVE Seen(w) \subseteq Seen(w)'
  BY <1>1, <1>2, <1>3 DEF Seen
<1>4. IsFiniteSet(event_rows')
  BY RowsGrow
<1>5. IsFiniteSet(RowsOf(run[w])')
  <2>1. RowsOf(run[w])' \subseteq event_rows'
    BY DEF RowsOf
  <2>2. QED
    BY <1>4, <2>1, FS_Subset
<1>6. IsFiniteSet(Seen(w)')
  <2>1. Seen(w)' \subseteq RowsOf(run[w])'
    BY DEF Seen
  <2>2. QED
    BY <1>5, <2>1, FS_Subset
<1>7. QED
  BY <1>2, <1>3, <1>5, <1>6, FS_Subset

\* A row that a refused insert clashes with follows the tip that the writer
\* read, so it was not there to be seen.
LEMMA WinnerIsUnseen ==
  ASSUME IndInv, NEW w \in Writer, pc[w] = "index",
         NEW e \in event_rows, Clash(RowBuiltBy(w), e)
  PROVE  e \in RowsOf(run[w]) /\ e \notin Seen(w)
<1> USE DEF IndInv
<1>1. e.run = run[w] /\ e.prev = prev_hash[w]
  BY ClashIsSameKey, RowBuiltByType DEF SameKey
<1>2. \A d \in event_rows : d.id \in Nat /\ d.hash \in Hash /\ d.hash # NoHash
  BY ConstantsAssumption DEF TypeOK, EventRow
<1>3. ASSUME NEW d \in event_rows, d.hash = prev_hash[w] PROVE d.id < e.id
  <2>1. PICK p \in event_rows : p.hash = e.prev /\ p.id < e.id
    BY <1>1, <1>2, <1>3 DEF Linked, HasPredecessor
  <2>2. p = d
    BY <1>1, <1>3, <2>1 DEF Fresh
  <2>3. QED
    BY <2>1, <2>2
<1>4. QED
  BY <1>1, <1>2, <1>3 DEF Seen, RowsOf

\* Right after the read, all the run's events have been seen.
LEMMA TipSeesAll ==
  ASSUME IndInv, NEW w \in Writer, ReadTip(w)
  PROVE  RowsOf(run[w]) \subseteq Seen(w)'
<1> USE DEF IndInv
<1>1. prev_hash'[w] = ChainTip(run[w]) /\ event_rows' = event_rows /\ run' = run
  BY DEF ReadTip, TypeOK
<1>2. ASSUME NEW e \in RowsOf(run[w]) PROVE e \in Seen(w)'
  <2> DEFINE tip == CHOOSE m \in RowsOf(run[w]) : \A d \in RowsOf(run[w]) : d.id <= m.id
  <2>1. \E m \in RowsOf(run[w]) : \A d \in RowsOf(run[w]) : d.id <= m.id
    BY <1>2 DEF HasNewest, RowsOf
  <2>2. tip \in RowsOf(run[w]) /\ e.id <= tip.id
    BY <1>2, <2>1
  <2>3. prev_hash'[w] = tip.hash
    BY <1>1, <1>2 DEF ChainTip
  <2> HIDE DEF tip
  <2>4. RowsOf(run[w])' = RowsOf(run[w])
    BY <1>1 DEF RowsOf
  <2>5. QED
    BY <1>2, <2>2, <2>3, <2>4 DEF Seen
<1>3. QED
  BY <1>2

LEMMA NextRetries ==
  ASSUME IndInv, SeenCoversLost, RetriesHaveWinners, [Next]_vars
  PROVE  SeenCoversLost' /\ RetriesHaveWinners'
<1> DEFINE Good(w) ==
      /\ (IF pc[w] = "exhausted" THEN attempt[w] ELSE attempt[w] - 1) <= Cardinality(RowsOf(run[w]))
      /\ pc[w] \in {"insert", "index"} => attempt[w] - 1 <= Cardinality(Seen(w))
<1>1. IsFiniteSet(event_rows) /\ IsFiniteSet(event_rows')
  BY RowsGrow DEF SeenCoversLost
<1>2. ASSUME NEW w \in Writer PROVE Good(w)'
  <2> DEFINE R == Cardinality(RowsOf(run[w]))
             S == Cardinality(Seen(w))
             R2 == Cardinality(RowsOf(run[w])')
             S2 == Cardinality(Seen(w)')
  <2>1. R \in Nat /\ S \in Nat /\ R2 \in Nat /\ S2 \in Nat /\ S <= R
    <3>1. R \in Nat /\ S \in Nat
      BY <1>1, RowsCounted, SeenCounted
    <3>2. S <= R
      BY <1>1, RowsCounted, SeenCounted, FS_Subset
    <3>3. IsFiniteSet(RowsOf(run[w])')
      <4>1. RowsOf(run[w])' \subseteq event_rows'
        BY DEF RowsOf
      <4>2. QED
        BY <1>1, <4>1, FS_Subset
    <3>4. Seen(w)' \subseteq RowsOf(run[w])'
      BY DEF Seen
    <3>5. QED
      BY <3>1, <3>2, <3>3, <3>4, FS_Subset, FS_CardinalityType
  <2>2. R <= R2 /\ (prev_hash'[w] = prev_hash[w] => S <= S2)
    BY <1>1, CountsGrow
  <2>3. attempt[w] \in Nat /\ attempt[w] >= 1
    BY ConstantsAssumption DEF IndInv, TypeOK, Attempt
  <2>4. /\ (IF pc[w] = "exhausted" THEN attempt[w] ELSE attempt[w] - 1) <= R
        /\ pc[w] \in {"insert", "index"} => attempt[w] - 1 <= S
    BY DEF SeenCoversLost, RetriesHaveWinners
  <2> SUFFICES /\ (IF pc'[w] = "exhausted" THEN attempt'[w] ELSE attempt'[w] - 1) <= R2
               /\ pc'[w] \in {"insert", "index"} => attempt'[w] - 1 <= S2
    OBVIOUS
  <2> HIDE DEF R, S, R2, S2
  <2>5. CASE pc'[w] = pc[w] /\ attempt'[w] = attempt[w] /\ prev_hash'[w] = prev_hash[w]
    BY <2>1, <2>2, <2>3, <2>4, <2>5
  <2>6. CASE ReadTip(w)
    <3>1. R <= S2
      <4>1. IsFiniteSet(Seen(w)')
        <5>1. Seen(w)' \subseteq event_rows'
          BY DEF Seen, RowsOf
        <5>2. QED
          BY <1>1, <5>1, FS_Subset
      <4>2. QED
        BY <2>6, <4>1, TipSeesAll, FS_Subset DEF R, S2
    <3>2. pc[w] = "tip" /\ pc'[w] = "insert" /\ attempt'[w] = attempt[w]
      BY <2>6 DEF ReadTip, IndInv, TypeOK
    <3>3. QED
      BY <2>1, <2>2, <2>3, <2>4, <3>1, <3>2
  <2>7. CASE InsertRefused(w)
    <3>1. S + 1 <= R
      <4>1. PICK e \in event_rows : Clash(RowBuiltBy(w), e)
        BY <2>7 DEF InsertRefused
      <4>2. e \in RowsOf(run[w]) /\ e \notin Seen(w)
        BY <2>7, <4>1, WinnerIsUnseen DEF InsertRefused
      <4>3. Seen(w) \cup {e} \subseteq RowsOf(run[w]) /\ IsFiniteSet(Seen(w))
        BY <1>1, <4>2, SeenCounted
      <4>4. Cardinality(Seen(w) \cup {e}) = S + 1
        BY <4>2, <4>3, FS_AddElement DEF S
      <4>5. QED
        BY <1>1, <4>3, <4>4, RowsCounted, FS_Subset DEF R
    <3>2. pc[w] = "index" /\ (\/ pc'[w] = "tip" /\ attempt'[w] = attempt[w] + 1
                              \/ pc'[w] = "exhausted" /\ attempt'[w] = attempt[w])
      BY <2>7 DEF InsertRefused, IndInv, TypeOK
    <3>3. QED
      BY <2>1, <2>2, <2>3, <2>4, <3>1, <3>2
  <2>8. CASE /\ StartInsert(w) \/ InsertAccepted(w) \/ Commit(w) \/ Rollback(w)
                \/ \E project \in Project : Call(w, project)
    <3>1. /\ attempt'[w] = attempt[w] /\ prev_hash'[w] = prev_hash[w]
          /\ pc[w] # "exhausted" /\ pc'[w] # "exhausted"
          /\ pc'[w] \in {"insert", "index"} => pc[w] \in {"insert", "index"}
      BY <2>8 DEF StartInsert, InsertAccepted, Commit, Rollback, Call, IndInv, TypeOK, InTransaction
    <3>2. QED
      BY <2>1, <2>2, <2>3, <2>4, <3>1
  <2>9. \/ pc'[w] = pc[w] /\ attempt'[w] = attempt[w] /\ prev_hash'[w] = prev_hash[w]
        \/ ReadTip(w) \/ InsertRefused(w)
        \/ StartInsert(w) \/ InsertAccepted(w) \/ Commit(w) \/ Rollback(w)
        \/ \E project \in Project : Call(w, project)
    <3>1. CASE UNCHANGED vars
      BY <3>1 DEF vars
    <3>2. ASSUME NEW v \in Writer, v # w,
                 (\E project \in Project : Call(v, project)) \/ Emit(v) \/ Rollback(v)
          PROVE  pc'[w] = pc[w] /\ attempt'[w] = attempt[w] /\ prev_hash'[w] = prev_hash[w]
      BY <3>2 DEF Call, Emit, ReadTip, StartInsert, InsertAccepted, InsertRefused,
                  Commit, Rollback, IndInv, TypeOK
    <3>3. QED
      BY <3>1, <3>2 DEF Next, AllEnded, Emit
  <2>10. QED
    BY <2>5, <2>6, <2>7, <2>8, <2>9
<1>3. QED
  BY <1>1, <1>2 DEF SeenCoversLost, RetriesHaveWinners

\* RetriesHaveWinners: a writer loses an attempt only to an event that
\* somebody committed since it read the tip, so "lost N retries" is never
\* raised over fewer than N events of the run.
THEOREM RetriesWon == Spec => []RetriesHaveWinners
<1>1. Init => SeenCoversLost /\ RetriesHaveWinners
  <2> SUFFICES ASSUME Init PROVE SeenCoversLost /\ RetriesHaveWinners
    OBVIOUS
  <2>1. event_rows = {} /\ IsFiniteSet(event_rows)
    BY FS_EmptySet DEF Init
  <2>2. \A w \in Writer : pc[w] = "idle" /\ attempt[w] = 1
    BY DEF Init
  <2>3. \A w \in Writer : Cardinality(RowsOf(run[w])) \in Nat
    BY <2>1, RowsCounted
  <2>4. QED
    BY <2>1, <2>2, <2>3 DEF SeenCoversLost, RetriesHaveWinners
<1>2. IndInv /\ SeenCoversLost /\ RetriesHaveWinners /\ [Next]_vars
        => SeenCoversLost' /\ RetriesHaveWinners'
  BY NextRetries
<1>3. QED
  BY <1>1, <1>2, Invariance, PTL DEF Spec

-----------------------------------------------------------------------------
LinksOf(rows) == {[run |-> e.run, prev |-> e.prev, hash |-> e.hash] : e \in rows}

\* A commit appends one link at the tip of its run.
LEMMA CommitAppends ==
  ASSUME IndInv, NEW w \in Writer, Commit(w)
  PROVE  Chain!AppendEvent(run[w], <<w, attempt[w]>>)
<1> DEFINE n == RowBuiltBy(w)
           L == LinksOf(event_rows)
           link == [run |-> run[w], prev |-> prev_hash[w], hash |-> <<w, attempt[w]>>]
<1>1. /\ n.id = row_id[w] /\ n.run = run[w] /\ n.prev = prev_hash[w]
      /\ n.hash = <<w, attempt[w]>>
  BY RowBuiltByType DEF IndInv
<1>2. event_rows' = event_rows \cup {n} /\ pc[w] = "inserted"
  BY DEF Commit
<1>3. LinksOf(event_rows') = L \cup {link}
  BY <1>1, <1>2 DEF LinksOf
<1>4. \A l \in L : \E e \in event_rows : l.run = e.run /\ l.prev = e.prev /\ l.hash = e.hash
  BY DEF LinksOf
<1>5. \A e \in event_rows : \E l \in L : l.run = e.run /\ l.prev = e.prev /\ l.hash = e.hash
  <2> TAKE e \in event_rows
  <2> DEFINE le == [run |-> e.run, prev |-> e.prev, hash |-> e.hash]
  <2>1. le \in L
    BY DEF LinksOf
  <2>2. le.run = e.run /\ le.prev = e.prev /\ le.hash = e.hash
    OBVIOUS
  <2>3. QED
    BY <2>1, <2>2
<1>6. \A e \in event_rows : e.hash # <<w, attempt[w]>>
  <2>1. \A e \in event_rows : pc[e.hash[1]] = "committed"
    BY DEF IndInv, Fresh
  <2>2. QED
    BY <1>2, <2>1
<1>7. prev_hash[w] \in Hash \cup {NoHash}
  BY DEF IndInv, TypeOK, PrevHash
<1>8. /\ \/ prev_hash[w] = NoHash
         \/ \E l \in L : l.run = run[w] /\ l.hash = prev_hash[w]
      /\ \A l \in L : l.run = run[w] => l.prev # prev_hash[w]
  <2>1. \A e \in event_rows : e.run = run[w] => e.prev # prev_hash[w]
    BY <1>1, <1>2 DEF IndInv, Reserved, SameKey
  <2>2. \/ prev_hash[w] = NoHash
        \/ \E e \in event_rows : e.run = run[w] /\ e.hash = prev_hash[w]
    BY <1>2 DEF IndInv, Built
  <2>3. QED
    BY <1>4, <1>5, <2>1, <2>2
<1>9. \A l \in L : l.hash # <<w, attempt[w]>>
  BY <1>4, <1>6
<1>10. QED
  BY <1>3, <1>7, <1>8, <1>9 DEF Chain!AppendEvent, Chain!IsTip, LinksOf

\* LinearChain: emit_event implements EventChain.  Each commit appends one
\* event at the tip of its run's chain and every other step, the lost races
\* and the rollbacks included, leaves the chain as it is.
THEOREM ImplementsEventChain == Spec => LinearChain
<1>1. Init => Chain!Init
  BY DEF Init, Chain!Init
<1>2. IndInv /\ [Next]_vars => [Chain!Next]_(LinksOf(event_rows))
  <2> SUFFICES ASSUME IndInv, [Next]_vars
               PROVE  Chain!Next \/ UNCHANGED event_rows
    BY DEF LinksOf
  <2>1. ASSUME NEW w \in Writer, Commit(w) PROVE Chain!Next
    <3>1. run[w] \in Run /\ <<w, attempt[w]>> \in Hash
      BY DEF IndInv, TypeOK, Hash
    <3>2. Chain!AppendEvent(run[w], <<w, attempt[w]>>)
      BY <2>1, CommitAppends
    <3>3. QED
      BY <3>1, <3>2 DEF Chain!Next, Chain!AppendEvent
  <2>2. QED
    BY <2>1 DEF Next, Emit, Call, ReadTip, StartInsert, InsertAccepted, InsertRefused,
                Rollback, AllEnded, vars
<1>3. QED
  BY <1>1, <1>2, Invariance, PTL DEF Spec, LinearChain, Chain!Spec, LinksOf

-----------------------------------------------------------------------------
(* The reader *)


\* The request's fields.
VerifyTyped ==
  verify \in [run : Run, pc : {"count", "list"} \cup Answered, counted : SUBSET EventRow]

CountStands ==
  /\ IsFiniteSet(event_rows)
  /\ VerifyTyped
  /\ verify.pc = "list" =>
       /\ verify.counted \subseteq RowsOf(verify.run)
       /\ Cardinality(verify.counted) <= EventsMax
       /\ \A e \in RowsOf(verify.run) \ verify.counted :
            \A d \in verify.counted : d.id < e.id

-----------------------------------------------------------------------------
\* The writers do not see the reader.
LEMMA StepOfWriters == [TrailNext]_trailVars => [Next]_vars
BY DEF TrailNext, trailVars, CountEvents, ListAndWalk, Damage

\* Every behaviour of the trail is one of emit_event, so its theorems, the
\* chain without forks and the implementation of EventChain, hold of it.
THEOREM TrailHasWriters == TrailSpec => Spec
<1>1. TrailInit => Init
  BY DEF TrailInit
<1>2. [TrailNext]_trailVars => [Next]_vars
  BY StepOfWriters
<1>3. QED
  BY <1>1, <1>2, PTL DEF TrailSpec, Spec

\* A committed event comes above all the events of its run.
LEMMA CommittedAbove ==
  ASSUME IndInv, [Next]_vars, NEW n \in event_rows' \ event_rows,
         NEW e \in event_rows, e.run = n.run
  PROVE  e.id < n.id
<1>1. PICK w \in Writer : Commit(w)
  BY DEF Next, Emit, Call, ReadTip, StartInsert, InsertAccepted, InsertRefused,
         Rollback, AllEnded, vars
<1>2. n = RowBuiltBy(w) /\ pc[w] = "inserted"
  BY <1>1 DEF Commit
<1>3. n.id = row_id[w] /\ n.run = run[w] /\ row_id[w] \in Nat
  BY <1>2, RowBuiltByType DEF IndInv, TypeOK
<1>4. \A d \in event_rows : d.id \in Nat
  BY DEF IndInv, TypeOK, EventRow
<1>5. PICK d \in event_rows : d.id < row_id[w] /\ e.id <= d.id
  BY <1>2, <1>3, InsertedAtTip
<1>6. QED
  BY <1>3, <1>4, <1>5

-----------------------------------------------------------------------------
LEMMA InitCount == TrailInit => CountStands
<1> SUFFICES ASSUME TrailInit PROVE CountStands
  OBVIOUS
<1>1. event_rows = {} /\ IsFiniteSet(event_rows)
  BY FS_EmptySet DEF TrailInit, Init
<1>2. VerifyTyped /\ verify.pc = "count"
  BY DEF TrailInit, VerifyInit, VerifyTyped
<1>3. QED
  BY <1>1, <1>2 DEF CountStands

LEMMA WritersKeepCount ==
  ASSUME IndInv, CountStands, [Next]_vars, verify' = verify
  PROVE  CountStands'
<1>1. IsFiniteSet(event_rows') /\ event_rows \subseteq event_rows'
  BY RowsGrow DEF CountStands
<1>2. VerifyTyped'
  BY DEF CountStands, VerifyTyped
<1>3. ASSUME verify.pc = "list"
      PROVE  /\ verify.counted \subseteq RowsOf(verify.run)'
             /\ \A e \in RowsOf(verify.run)' \ verify.counted :
                  \A d \in verify.counted : d.id < e.id
  <2>1. \A d \in verify.counted : d \in event_rows /\ d.run = verify.run
    BY <1>3 DEF CountStands, RowsOf
  <2>2. verify.counted \subseteq RowsOf(verify.run)'
    BY <1>1, <2>1 DEF RowsOf
  <2>3. ASSUME NEW e \in RowsOf(verify.run)' \ verify.counted, NEW d \in verify.counted
        PROVE  d.id < e.id
    <3>1. e \in event_rows' /\ e.run = verify.run
      BY <2>3 DEF RowsOf
    <3>2. CASE e \in event_rows
      BY <1>3, <2>3, <3>1, <3>2 DEF CountStands, RowsOf
    <3>3. CASE e \notin event_rows
      BY <2>1, <3>1, <3>3, CommittedAbove
    <3>4. QED
      BY <3>2, <3>3
  <2>4. QED
    BY <2>2, <2>3
<1>4. QED
  BY <1>1, <1>2, <1>3 DEF CountStands

LEMMA CountEventsCounts ==
  ASSUME IndInv, CountStands, CountEvents
  PROVE  CountStands'
<1>1. /\ verify' = [verify EXCEPT
           !.pc = IF Cardinality(RowsOf(verify.run)) > EventsMax THEN "too_large" ELSE "list",
           !.counted = RowsOf(verify.run)]
      /\ event_rows' = event_rows
  BY DEF CountEvents, vars
<1>2. RowsOf(verify.run) \subseteq EventRow
  BY DEF IndInv, TypeOK, RowsOf
<1>3. VerifyTyped' /\ verify'.run = verify.run /\ verify'.counted = RowsOf(verify.run)
  BY <1>1, <1>2 DEF CountStands, VerifyTyped, Answered
<1>4. verify'.pc = "list" => ~(Cardinality(RowsOf(verify.run)) > EventsMax)
  BY <1>1 DEF CountStands, VerifyTyped
<1>5. Cardinality(RowsOf(verify.run)) \in Nat /\ EventsMax \in Nat
  BY RowsCounted, VerifyAssumption DEF CountStands
<1>6. RowsOf(verify.run)' = RowsOf(verify'.run)
  BY <1>1, <1>3 DEF RowsOf
<1>7. RowsOf(verify'.run) = verify'.counted
  BY <1>3
<1>8. QED
  BY <1>1, <1>3, <1>4, <1>5, <1>6, <1>7 DEF CountStands, RowsOf

LEMMA NextCount ==
  ASSUME IndInv, CountStands, [TrailNext]_trailVars
  PROVE  CountStands'
<1>1. CASE ListAndWalk
  <2>1. verify'.pc \in {"intact", "not_ok"} /\ VerifyTyped' /\ event_rows' = event_rows
    BY <1>1 DEF ListAndWalk, CountStands, VerifyTyped, Answered, vars
  <2>2. QED
    BY <2>1 DEF CountStands
<1>2. CASE verify' = verify
  BY <1>2, StepOfWriters, WritersKeepCount
<1>3. QED
  BY <1>1, <1>2, CountEventsCounts DEF TrailNext, trailVars, verifyVars, Damage

\* The count still stands whenever the request lists.
THEOREM TrailInvariance == TrailSpec => [](IndInv /\ CountStands)
<1>1. TrailInit => IndInv /\ CountStands
  BY InitIndInv, InitCount DEF TrailInit
<1>2. IndInv /\ CountStands /\ [TrailNext]_trailVars => IndInv' /\ CountStands'
  BY StepOfWriters, NextIndInv, NextCount
<1>3. QED
  BY <1>1, <1>2, PTL DEF TrailSpec

-----------------------------------------------------------------------------
\* The first page holds every row below a row it holds.
LEMMA PageIsPrefix ==
  ASSUME IndInv, IsFiniteSet(event_rows), NEW r,
         NEW e \in FirstRows(r, EventsMax), NEW d \in RowsOf(r), d.id < e.id
  PROVE  d \in FirstRows(r, EventsMax)
<1> DEFINE UpTo(i) == {c \in RowsOf(r) : c.id <= i}
<1>1. \A c \in RowsOf(r) : c.id \in Nat
  BY DEF IndInv, TypeOK, EventRow, RowsOf
<1>2. e \in RowsOf(r) /\ Cardinality(UpTo(e.id)) <= EventsMax
  BY DEF FirstRows
<1>3. UpTo(d.id) \subseteq UpTo(e.id)
  BY <1>1, <1>2
<1>4. UpTo(e.id) \subseteq RowsOf(r) /\ UpTo(d.id) \subseteq RowsOf(r)
  OBVIOUS
<1>5. IsFiniteSet(UpTo(e.id)) /\ IsFiniteSet(UpTo(d.id))
  BY <1>4, RowsCounted, FS_Subset
<1> HIDE DEF UpTo
<1>6. /\ Cardinality(UpTo(d.id)) <= Cardinality(UpTo(e.id))
      /\ Cardinality(UpTo(d.id)) \in Nat /\ Cardinality(UpTo(e.id)) \in Nat
  BY <1>3, <1>5, FS_Subset, FS_CardinalityType
<1>7. Cardinality(UpTo(d.id)) <= EventsMax
  BY <1>2, <1>6, VerifyAssumption
<1>8. QED
  BY <1>7 DEF FirstRows, UpTo

\* So a page of rows nobody altered passes verify_chain_events.
LEMMA PageWalks ==
  ASSUME IndInv, IsFiniteSet(event_rows), NEW r, altered = {}
  PROVE  WalkOk(FirstRows(r, EventsMax))
<1> DEFINE page == FirstRows(r, EventsMax)
           Earlier(e) == {d \in page : d.id < e.id}
<1> USE DEF IndInv
<1>1. \A e \in page : e \in event_rows /\ e.run = r
  BY DEF FirstRows, RowsOf
<1>2. \A e \in event_rows : e.id \in Nat /\ e.hash \in Hash /\ e.hash # NoHash
  BY ConstantsAssumption DEF TypeOK, EventRow
<1>3. ASSUME NEW e \in page, NEW d \in event_rows, d.run = r, d.id < e.id
      PROVE  d \in Earlier(e)
  BY <1>3, PageIsPrefix DEF RowsOf
<1>4. ASSUME NEW e \in page, e.prev # NoHash
      PROVE  \E d \in Earlier(e) : d.hash = e.prev /\ \A c \in Earlier(e) : c.id <= d.id
  <2>1. PICK d \in event_rows : d.run = e.run /\ d.hash = e.prev /\ d.id < e.id
    BY <1>1, <1>4 DEF Linked, HasPredecessor
  <2>2. d \in Earlier(e)
    BY <1>1, <1>3, <2>1
  <2>3. ASSUME NEW c \in Earlier(e), d.id < c.id PROVE FALSE
    <3>1. c \in event_rows /\ c.run = d.run /\ c.id < e.id
      BY <1>1, <2>1, <2>3
    <3>2. PICK s \in event_rows : s.run = d.run /\ s.prev = d.hash /\ s.id <= c.id
      BY <2>3, <3>1 DEF Linked, HasSuccessor
    <3>3. s = e
      BY <1>1, <2>1, <3>2 DEF NoFork
    <3>4. QED
      BY <1>1, <1>2, <3>1, <3>2, <3>3
  <2>4. \A c \in Earlier(e) : c.id <= d.id
    BY <1>1, <1>2, <2>3
  <2>5. QED
    BY <2>1, <2>2, <2>4
<1>5. ASSUME NEW e \in page, e.prev = NoHash PROVE Earlier(e) = {}
  <2>1. SUFFICES ASSUME NEW d \in Earlier(e) PROVE FALSE
    OBVIOUS
  <2>2. d \in event_rows /\ d.run = e.run /\ d.id < e.id /\ e \in event_rows
    BY <1>1, <2>1
  <2>3. PICK f \in event_rows : f.run = d.run /\ f.prev = NoHash /\ f.id <= d.id
    BY <2>2 DEF Linked, HasRoot
  <2>4. f = e
    BY <1>5, <2>2, <2>3 DEF NoFork
  <2>5. QED
    BY <1>2, <2>2, <2>3, <2>4
<1>6. ASSUME NEW e \in page
      PROVE  IF Earlier(e) = {} THEN e.prev = NoHash
             ELSE \E d \in Earlier(e) : d.hash = e.prev /\ \A c \in Earlier(e) : c.id <= d.id
  BY <1>4, <1>5
<1>7. QED
  BY <1>6 DEF WalkOk

\* NoFalseAlarm: audit/verify never answers "not ok" for a run whose stored
\* events nobody damaged, whatever is appended between its two SELECTs.
THEOREM VerifyNeverCriesWolf == TrailSpec => []NoFalseAlarm
<1>1. TrailInit => NoFalseAlarm
  BY DEF TrailInit, VerifyInit, NoFalseAlarm
<1>2. IndInv /\ CountStands /\ NoFalseAlarm /\ [TrailNext]_trailVars => NoFalseAlarm'
  <2> SUFFICES ASSUME IndInv, CountStands, NoFalseAlarm, [TrailNext]_trailVars,
                      verify'.pc = "not_ok"
               PROVE  undecodable' \cup altered' # {}
    BY DEF NoFalseAlarm
  <2>1. CASE CountEvents
    BY <2>1 DEF CountEvents, CountStands, VerifyTyped
  <2>2. CASE ListAndWalk
    <3>1. SUFFICES ASSUME undecodable = {}, altered = {} PROVE FALSE
      BY <2>2 DEF ListAndWalk
    <3>2. WalkOk(FirstRows(verify.run, EventsMax))
      BY <3>1, PageWalks DEF CountStands
    <3>3. QED
      BY <2>2, <3>1, <3>2 DEF ListAndWalk, CountStands, VerifyTyped
  <2>3. CASE Damage
    BY <2>3 DEF Damage
  <2>4. CASE UNCHANGED verifyVars
    BY <2>4 DEF verifyVars, NoFalseAlarm
  <2>5. QED
    BY <2>1, <2>2, <2>3, <2>4 DEF TrailNext, trailVars
<1>3. QED
  BY <1>1, <1>2, TrailInvariance, PTL DEF TrailSpec

\* What was counted is on the page that is listed.
LEMMA CountedIsListed ==
  ASSUME IndInv, CountStands, verify.pc = "list"
  PROVE  verify.counted \subseteq FirstRows(verify.run, EventsMax)
<1>1. SUFFICES ASSUME NEW e \in verify.counted
               PROVE  e \in FirstRows(verify.run, EventsMax)
  OBVIOUS
<1> DEFINE upTo == {d \in RowsOf(verify.run) : d.id <= e.id}
<1>2. e \in RowsOf(verify.run) /\ Cardinality(verify.counted) <= EventsMax
  BY <1>1 DEF CountStands
<1>3. \A d \in RowsOf(verify.run) : d.id \in Nat
  BY DEF IndInv, TypeOK, EventRow, RowsOf
<1>4. upTo \subseteq verify.counted
  <2>1. SUFFICES ASSUME NEW d \in upTo, d \notin verify.counted PROVE FALSE
    OBVIOUS
  <2>2. e.id < d.id
    BY <1>1, <2>1 DEF CountStands
  <2>3. QED
    BY <1>2, <1>3, <2>1, <2>2
<1>5. IsFiniteSet(verify.counted)
  BY RowsCounted, FS_Subset DEF CountStands
<1>6. Cardinality(upTo) <= Cardinality(verify.counted)
      /\ Cardinality(upTo) \in Nat /\ Cardinality(verify.counted) \in Nat
  BY <1>4, <1>5, FS_Subset, FS_CardinalityType
<1>7. Cardinality(upTo) <= EventsMax
  BY <1>2, <1>6, VerifyAssumption
<1>8. QED
  BY <1>2, <1>7 DEF FirstRows

\* IntactMeansWhole: when audit/verify answers "intact", every event the run
\* had at the count was listed, decoded and hashed again: the page the answer
\* is about is no mere prefix of the chain and holds no damaged event.
THEOREM IntactIsWhole == TrailSpec => IntactMeansWhole
<1>1. IndInv /\ CountStands /\ [TrailNext]_trailVars =>
        [verify.pc = "list" /\ verify'.pc = "intact" =>
           /\ verify.counted \subseteq FirstRows(verify.run, EventsMax)
           /\ \A e \in verify.counted : e.id \notin undecodable \cup altered]_trailVars
  <2> SUFFICES ASSUME IndInv, CountStands, [TrailNext]_trailVars,
                      verify.pc = "list", verify'.pc = "intact"
               PROVE  /\ verify.counted \subseteq FirstRows(verify.run, EventsMax)
                      /\ \A e \in verify.counted : e.id \notin undecodable \cup altered
    OBVIOUS
  <2>1. verify.counted \subseteq FirstRows(verify.run, EventsMax)
    BY CountedIsListed
  <2>2. ListAndWalk
    BY DEF TrailNext, trailVars, verifyVars, CountEvents, Damage
  <2>3. /\ \A e \in FirstRows(verify.run, EventsMax) : e.id \notin undecodable
        /\ WalkOk(FirstRows(verify.run, EventsMax))
    BY <2>2 DEF ListAndWalk, CountStands, VerifyTyped
  <2>4. \A e \in FirstRows(verify.run, EventsMax) : e.id \notin altered
    BY <2>3 DEF WalkOk
  <2>5. QED
    BY <2>1, <2>3, <2>4
<1>2. QED
  BY <1>1, TrailInvariance, PTL DEF TrailSpec, IntactMeansWhole
=============================================================================
