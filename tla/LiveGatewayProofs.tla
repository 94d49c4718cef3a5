------------------------- MODULE LiveGatewayProofs -------------------------
(***************************************************************************)
(* Proofs about LiveGateway, for any number of requests, workers, days and *)
(* providers, any cap and any number of requests in flight.                *)
(*                                                                         *)
(* The ledger's step is Commit, and what Commit writes was computed at     *)
(* Record and ReadTip.  IndInv says that it is still right when it is      *)
(* committed: the row of the run is held by one transaction at a time      *)
(* (OneHolder), so the totals and the tip of the holder are those of the   *)
(* committed state (StagedFresh, TipFresh).                                *)
(***************************************************************************)
EXTENDS LiveGateway, SumsProofs, TLAPS

CallRecord == [provider : Provider, error : Errors, cost : Charge, passed : BOOLEAN]

TxRecord ==
  [day : Day, makes : SUBSET {"run", "trial"}, run : Totals, trial : Totals, tip : Nat]

OneHolder ==
  \A q, r \in Request :
    q # r /\ pc[q] \in HoldsRun /\ pc[r] \in HoldsRun => tx[q].day # tx[r].day

StagedFresh ==
  \A r \in Request : pc[r] \in HoldsRun =>
    /\ tx[r].run = Add(runs[tx[r].day], call[r])
    /\ tx[r].trial = Add(trials[TrialOf(r)], call[r])

TipFresh ==
  \A r \in Request : pc[r] \in {"event", "commit"} =>
    tx[r].tip = Len(event_rows[tx[r].day])

RowsAreAnswered == \A row \in run_rows : pc[row.req] = "answered"

\* Before its provider has answered a request has neither charge nor verdict,
\* and a verdict of the evaluators is one on an answer.
CallSoFar ==
  \A r \in Request :
    /\ pc[r] = "idle" => call[r].cost = 0
    /\ pc[r] \in {"idle", "calling"} => call[r].passed = FALSE
    /\ pc[r] = "evaluating" => call[r].error = "none"
    /\ call[r].passed = TRUE => call[r].error = "none"

IndInv ==
  /\ TypeOK
  /\ OneHolder
  /\ StagedFresh
  /\ TipFresh
  /\ RowsAreAnswered
  /\ CallSoFar
  /\ EmitNeverRaces

-----------------------------------------------------------------------------
\* Adding a call to totals gives totals.
LEMMA AddType ==
  ASSUME NEW t \in Totals, NEW o,
         o.cost \in Nat, o.passed \in BOOLEAN
  PROVE  Add(t, o) \in Totals
<1>1. (IF o.passed THEN 1 ELSE 0) \in Nat /\ (IF o.passed THEN 0 ELSE 1) \in Nat
  OBVIOUS
<1>2. QED
  BY <1>1 DEF Add, Totals

\* A charge is a number, and nothing is one.
LEMMA ChargeType ==
  /\ Charge \subseteq Nat
  /\ Cost \subseteq Charge
  /\ 0 \in Charge
  BY GatewayAssumption DEF Charge

LEMMA CallType ==
  ASSUME TypeOK, NEW r \in Request
  PROVE  /\ call[r].cost \in Nat /\ call[r].cost \in Charge
         /\ call[r].passed \in BOOLEAN
         /\ call[r].error \in Errors
         /\ call[r].provider \in Provider
         /\ tx[r].day \in Day
         /\ TrialOf(r) \in Day \X Provider
  BY ChargeType DEF TypeOK, TrialOf

LEMMA NoTxType ==
  /\ Zero \in Totals
  /\ NoTx \in TxRecord
<1>1. 1 \in Day
  BY GatewayAssumption DEF Day
<1>2. Zero \in Totals
  BY DEF Zero, Totals
<1>3. QED
  BY <1>1, <1>2 DEF NoTx, TxRecord

LEMMA InitIndInv == Init => IndInv
<1> SUFFICES ASSUME Init PROVE IndInv
  OBVIOUS
<1> USE GatewayAssumption DEF Init
<1>1. 1 \in Day
  BY DEF Day
<1>4. NoCall \in [provider : Provider, error : Errors, cost : Charge, passed : BOOLEAN]
  BY ChargeType DEF NoCall, Errors
<1>5. TypeOK
  BY <1>1, NoTxType, <1>4 DEF TypeOK, TxRecord
<1>6. OneHolder /\ StagedFresh /\ TipFresh
  BY DEF OneHolder, StagedFresh, TipFresh, HoldsRun
<1>7. RowsAreAnswered /\ CallSoFar /\ EmitNeverRaces
  BY DEF RowsAreAnswered, CallSoFar, EmitNeverRaces, NoCall
<1>8. QED
  BY <1>5, <1>6, <1>7 DEF IndInv

-----------------------------------------------------------------------------
LEMMA StagedNext ==
  ASSUME \A q \in Request : pc'[q] \in HoldsRun =>
           /\ tx'[q].run = Add(runs'[tx'[q].day], call'[q])
           /\ tx'[q].trial = Add(trials'[<<tx'[q].day, call'[q].provider>>], call'[q])
  PROVE  StagedFresh'
BY DEF StagedFresh, TrialOf, Add

\* A step that commits nothing and gives nobody the row of a run: what the
\* holders hold stays right.
LEMMA KeepIndInv ==
  ASSUME IndInv, TypeOK', CallSoFar',
         UNCHANGED <<run_rows, runs, trials, event_rows, raced>>,
         \A q \in Request : pc[q] = "answered" => pc'[q] = "answered",
         \A q \in Request : pc'[q] \in HoldsRun =>
           pc'[q] = pc[q] /\ tx'[q] = tx[q] /\ call'[q] = call[q]
  PROVE  IndInv'
<1> USE DEF IndInv
<1>1. OneHolder'
  BY DEF OneHolder
<1>2. StagedFresh'
  <2>1. \A q \in Request : pc'[q] \in HoldsRun =>
          tx[q].run = Add(runs[tx[q].day], call[q]) /\ tx[q].trial = Add(trials[TrialOf(q)], call[q])
    BY DEF StagedFresh
  <2>2. QED
    BY <2>1, StagedNext DEF TrialOf
<1>3. TipFresh'
  BY DEF TipFresh, HoldsRun
<1>4. RowsAreAnswered'
  <2>1. \A row \in run_rows : row.req \in Request
    BY DEF TypeOK
  <2>2. QED
    BY <2>1 DEF RowsAreAnswered
<1>5. EmitNeverRaces'
  BY DEF EmitNeverRaces
<1>6. QED
  BY <1>1, <1>2, <1>3, <1>4, <1>5

\* What KeepIndInv asks of a step of one request.
LEMMA StepIndInv ==
  ASSUME IndInv, NEW r \in Request, TypeOK', CallSoFar',
         UNCHANGED <<run_rows, runs, trials, event_rows, raced>>,
         pc[r] # "answered",
         pc'[r] \notin HoldsRun,
         \A q \in Request \ {r} :
           pc'[q] = pc[q] /\ tx'[q] = tx[q] /\ call'[q] = call[q]
  PROVE  IndInv'
<1>1. \A q \in Request : pc[q] = "answered" => pc'[q] = "answered"
  OBVIOUS
<1>2. \A q \in Request : pc'[q] \in HoldsRun =>
         pc'[q] = pc[q] /\ tx'[q] = tx[q] /\ call'[q] = call[q]
  OBVIOUS
<1>3. QED
  BY <1>1, <1>2, KeepIndInv

\* A step that notes something of a call and sends the request on, outside
\* the part of phase 3 that holds the row of a run.
LEMMA NoteIndInv ==
  ASSUME IndInv, NEW r \in Request,
         NEW p \in Provider, NEW error \in Errors, NEW cost \in Charge, NEW passed \in BOOLEAN,
         NEW label \in {"calling", "evaluating", "select_run"},
         Note(r, p, error, cost, passed), Goto(r, label),
         pc[r] \in {"idle", "calling", "evaluating"},
         label # "select_run" => passed = FALSE,
         label = "evaluating" => error = "none",
         passed = TRUE => error = "none",
         UNCHANGED <<day, database, tx, status, logs>>
  PROVE  IndInv'
<1> USE DEF IndInv, Note, Goto
<1>1. /\ call' \in [Request -> CallRecord]
      /\ call'[r] = [provider |-> p, error |-> error, cost |-> cost, passed |-> passed]
      /\ \A q \in Request \ {r} : call'[q] = call[q]
  BY DEF TypeOK, CallRecord, Charge
<1>2. /\ pc'[r] = label
      /\ \A q \in Request \ {r} : pc'[q] = pc[q]
  BY DEF TypeOK
<1>3. TypeOK'
  <2>1. pc[r] \notin Transaction => tx[r] = NoTx
    BY DEF TypeOK
  <2>2. label = "select_run" => label \in Transaction
    BY DEF Transaction
  <2>3. pc[r] \notin Transaction
    BY DEF Transaction
  <2>4. QED
    BY <1>1, <2>1, <2>2, <2>3 DEF TypeOK, database, logs, CallRecord
<1>4. CallSoFar'
  BY <1>1, <1>2 DEF CallSoFar
<1>5. QED
  BY <1>1, <1>2, <1>3, <1>4, StepIndInv DEF database, logs, HoldsRun

\* A step that ends a request without committing anything.
LEMMA AnswerIndInv ==
  ASSUME IndInv, NEW r \in Request,
         NEW code \in {"500", "refused"},
         Answer(r, code),
         pc[r] # "answered",
         reconcile' \subseteq Request,
         UNCHANGED <<day, database, call, warned, raced>>
  PROVE  IndInv'
<1> USE DEF IndInv, Answer, Goto
<1>1. /\ pc'[r] = "answered"
      /\ \A q \in Request \ {r} : pc'[q] = pc[q] /\ tx'[q] = tx[q] /\ call'[q] = call[q]
  BY DEF TypeOK
<1>2. TypeOK'
  BY NoTxType DEF TypeOK, database, TxRecord
<1>3. CallSoFar'
  BY <1>1 DEF CallSoFar
<1>4. QED
  BY <1>1, <1>2, <1>3, StepIndInv DEF database, HoldsRun

LEMMA ResolveIndInv ==
  ASSUME IndInv, NEW r \in Request, Resolve(r)
  PROVE  IndInv'
<1> USE DEF Resolve
<1>1. CASE Answer(r, "refused") /\ UNCHANGED call
  BY <1>1, AnswerIndInv DEF IndInv, TypeOK, logs
<1>2. CASE ~(Answer(r, "refused") /\ UNCHANGED call)
  <2>1. PICK p \in Provider :
          Note(r, p, IF CapReached(runs[day].cost) THEN "cost_capped" ELSE "none", 0, FALSE)
    BY <1>2
  <2>2. CASE CapReached(runs[day].cost)
    BY <1>2, <2>1, <2>2, NoteIndInv, ChargeType DEF Errors
  <2>3. CASE ~CapReached(runs[day].cost)
    BY <1>2, <2>1, <2>3, NoteIndInv, ChargeType DEF Errors
  <2>4. QED
    BY <2>2, <2>3
<1>3. QED
  BY <1>1, <1>2

LEMMA CallProviderIndInv ==
  ASSUME IndInv, NEW r \in Request, CallProvider(r)
  PROVE  IndInv'
<1> USE DEF CallProvider
<1>1. PICK error \in {"none", "failed", "throttled"}, cost \in Cost :
        /\ Note(r, call[r].provider, error, IF error = "throttled" THEN 0 ELSE cost, FALSE)
        /\ Goto(r, IF error = "none" THEN "evaluating" ELSE "select_run")
  OBVIOUS
<1>2. call[r].provider \in Provider /\ error \in Errors
  BY CallType DEF IndInv, Errors
<1>6. (IF error = "throttled" THEN 0 ELSE cost) \in Charge
  BY ChargeType
<1>3. CASE error = "none"
  BY <1>1, <1>2, <1>3, <1>6, NoteIndInv
<1>4. CASE error # "none"
  BY <1>1, <1>2, <1>4, <1>6, NoteIndInv
<1>5. QED
  BY <1>3, <1>4

LEMMA EvaluateIndInv ==
  ASSUME IndInv, NEW r \in Request, Evaluate(r)
  PROVE  IndInv'
<1> USE DEF Evaluate
<1>1. CASE Answer(r, "500") /\ UNCHANGED call
  BY <1>1, AnswerIndInv DEF IndInv, TypeOK, logs
<1>2. CASE ~(Answer(r, "500") /\ UNCHANGED call)
  <2>1. PICK passed \in BOOLEAN :
          /\ Note(r, call[r].provider, call[r].error, call[r].cost, passed)
          /\ Goto(r, "select_run")
          /\ UNCHANGED <<tx, status>>
    BY <1>2
  <2>2. call[r].error = "none"
    BY DEF IndInv, CallSoFar
  <2>3. QED
    BY <2>1, <2>2, CallType, NoteIndInv DEF IndInv
<1>3. QED
  BY <1>1, <1>2

LEMMA FailIndInv ==
  ASSUME IndInv, NEW r \in Request, Fail(r)
  PROVE  IndInv'
<1>1. reconcile' \subseteq Request
  BY DEF Fail, IndInv, TypeOK
<1>2. pc[r] # "answered"
  BY DEF Fail, Transaction
<1>3. QED
  BY <1>1, <1>2, AnswerIndInv DEF Fail

\* A step inside the transaction before the row of the run is taken.
LEMMA PrepareIndInv ==
  ASSUME IndInv, NEW r \in Request,
         NEW label \in {"insert_run", "select_trial", "insert_trial", "record"},
         Goto(r, label),
         pc[r] \in Transaction,
         tx' \in [Request -> TxRecord],
         \A q \in Request \ {r} : tx'[q] = tx[q],
         UNCHANGED <<day, database, call, status, logs>>
  PROVE  IndInv'
<1> USE DEF IndInv, Goto
<1>1. /\ pc'[r] = label
      /\ \A q \in Request \ {r} : pc'[q] = pc[q] /\ tx'[q] = tx[q] /\ call'[q] = call[q]
  BY DEF TypeOK
<1>2. TypeOK'
  <2>1. label \in Transaction
    BY DEF Transaction
  <2>2. QED
    BY <1>1, <2>1 DEF TypeOK, database, logs, TxRecord
<1>3. CallSoFar'
  BY <1>1 DEF CallSoFar
<1>4. pc[r] # "answered"
  BY DEF Transaction
<1>5. QED
  BY <1>1, <1>2, <1>3, <1>4, StepIndInv DEF database, logs, HoldsRun

LEMMA SelectRunIndInv ==
  ASSUME IndInv, NEW r \in Request, SelectRun(r)
  PROVE  IndInv'
<1>1. /\ tx' \in [Request -> TxRecord]
      /\ \A q \in Request \ {r} : tx'[q] = tx[q]
  <2>1. tx \in [Request -> TxRecord] /\ day \in Day
    BY DEF IndInv, TypeOK, TxRecord
  <2>2. tx' = [tx EXCEPT ![r].day = day]
    BY DEF SelectRun
  <2>3. [tx[r] EXCEPT !.day = day] \in TxRecord
    BY <2>1 DEF TxRecord
  <2>4. QED
    BY <2>1, <2>2, <2>3
<1>2. pc[r] \in Transaction
  BY DEF SelectRun, Transaction
<1>3. QED
  BY <1>1, <1>2, PrepareIndInv DEF SelectRun

LEMMA InsertRunIndInv ==
  ASSUME IndInv, NEW r \in Request, InsertRun(r)
  PROVE  IndInv'
<1>1. /\ tx' \in [Request -> TxRecord]
      /\ \A q \in Request \ {r} : tx'[q] = tx[q]
  <2>1. PICK makes : tx' = [tx EXCEPT ![r].makes = makes] /\ makes \in SUBSET {"run", "trial"}
    <3>1. tx[r].makes \in SUBSET {"run", "trial"}
      BY DEF IndInv, TypeOK
    <3>2. CASE tx[r].day \in have_run
      BY <3>1, <3>2 DEF InsertRun
    <3>3. CASE ~(tx[r].day \in have_run)
      BY <3>1, <3>3 DEF InsertRun
    <3>4. QED
      BY <3>2, <3>3
  <2>2. tx \in [Request -> TxRecord]
    BY DEF IndInv, TypeOK, TxRecord
  <2>3. [tx[r] EXCEPT !.makes = makes] \in TxRecord
    BY <2>1, <2>2 DEF TxRecord
  <2>4. QED
    BY <2>1, <2>2, <2>3
<1>2. pc[r] \in Transaction
  BY DEF InsertRun, Transaction
<1>3. QED
  BY <1>1, <1>2, PrepareIndInv DEF InsertRun

LEMMA SelectTrialIndInv ==
  ASSUME IndInv, NEW r \in Request, SelectTrial(r)
  PROVE  IndInv'
<1>1. /\ tx' \in [Request -> TxRecord]
      /\ \A q \in Request \ {r} : tx'[q] = tx[q]
  BY DEF SelectTrial, IndInv, TypeOK, TxRecord
<1>2. pc[r] \in Transaction
  BY DEF SelectTrial, Transaction
<1>3. QED
  BY <1>1, <1>2, PrepareIndInv DEF SelectTrial

LEMMA InsertTrialIndInv ==
  ASSUME IndInv, NEW r \in Request, InsertTrial(r)
  PROVE  IndInv'
<1>1. /\ tx' \in [Request -> TxRecord]
      /\ \A q \in Request \ {r} : tx'[q] = tx[q]
  <2>1. PICK makes : tx' = [tx EXCEPT ![r].makes = makes] /\ makes \in SUBSET {"run", "trial"}
    <3>1. tx[r].makes \in SUBSET {"run", "trial"}
      BY DEF IndInv, TypeOK
    <3>2. CASE TrialOf(r) \in have_trial
      BY <3>1, <3>2 DEF InsertTrial
    <3>3. CASE ~(TrialOf(r) \in have_trial)
      BY <3>1, <3>3 DEF InsertTrial
    <3>4. QED
      BY <3>2, <3>3
  <2>2. tx \in [Request -> TxRecord]
    BY DEF IndInv, TypeOK, TxRecord
  <2>3. [tx[r] EXCEPT !.makes = makes] \in TxRecord
    BY <2>1, <2>2 DEF TxRecord
  <2>4. QED
    BY <2>1, <2>2, <2>3
<1>2. pc[r] \in Transaction
  BY DEF InsertTrial, Transaction
<1>3. QED
  BY <1>1, <1>2, PrepareIndInv DEF InsertTrial

LEMMA RecordIndInv ==
  ASSUME IndInv, NEW r \in Request, Record(r)
  PROVE  IndInv'
<1> DEFINE d == tx[r].day
           R == Add(runs[d], call[r])
           T == Add(trials[TrialOf(r)], call[r])
<1> USE DEF IndInv, Record, Goto
<1>1. R \in Totals /\ T \in Totals
  BY AddType, CallType DEF TypeOK
<1>2. /\ tx' \in [Request -> TxRecord]
      /\ tx'[r].day = d /\ tx'[r].run = R /\ tx'[r].trial = T
      /\ \A q \in Request \ {r} : tx'[q] = tx[q]
  <2>1. tx \in [Request -> TxRecord] /\ tx[r] \in TxRecord
    BY DEF TypeOK, TxRecord
  <2>2. PICK o : o = [tx[r] EXCEPT !.run = R, !.trial = T]
    OBVIOUS
  <2>3. tx' = [tx EXCEPT ![r] = o]
    BY <2>2
  <2> HIDE DEF d, R, T, IndInv, Record
  <2>4. o \in TxRecord /\ o.day = tx[r].day /\ o.run = R /\ o.trial = T
    BY <1>1, <2>1, <2>2 DEF TxRecord
  <2>5. QED
    BY <2>1, <2>3, <2>4 DEF d
<1>3. /\ pc'[r] = "tip"
      /\ \A q \in Request \ {r} : pc'[q] = pc[q]
  BY DEF TypeOK
<1>4. TypeOK'
  <2>1. "tip" \in Transaction
    BY DEF Transaction
  <2>2. QED
    BY <1>2, <1>3, <2>1 DEF TypeOK, database, logs, TxRecord
<1>5. OneHolder'
  <2>1. \A q \in Request \ {r} : pc[q] \in HoldsRun => tx[q].day # d
    BY DEF RunLocked
  <2>2. QED
    BY <1>2, <1>3, <2>1 DEF OneHolder
<1>6. StagedFresh'
  <2>1. runs' = runs /\ trials' = trials /\ call' = call
    BY DEF database
  <2>2. ASSUME NEW q \in Request, pc'[q] \in HoldsRun
        PROVE  /\ tx'[q].run = Add(runs[tx'[q].day], call[q])
               /\ tx'[q].trial = Add(trials[<<tx'[q].day, call[q].provider>>], call[q])
    <3>1. CASE q = r
      BY <1>2, <3>1 DEF TrialOf
    <3>2. CASE q # r
      BY <1>2, <1>3, <2>2, <3>2 DEF StagedFresh, TrialOf
    <3>3. QED
      BY <3>1, <3>2
  <2>3. QED
    BY <2>1, <2>2, StagedNext
<1>7. TipFresh'
  BY <1>2, <1>3 DEF TipFresh, database
<1>8. CallSoFar' /\ EmitNeverRaces'
  BY <1>3 DEF CallSoFar, EmitNeverRaces, logs
<1>9. RowsAreAnswered'
  <2>1. \A row \in run_rows : row.req \in Request
    BY DEF TypeOK
  <2>2. QED
    BY <1>3, <2>1 DEF RowsAreAnswered, database
<1>10. QED
  BY <1>4, <1>5, <1>6, <1>7, <1>8, <1>9

LEMMA ReadTipIndInv ==
  ASSUME IndInv, NEW r \in Request, ReadTip(r)
  PROVE  IndInv'
<1> DEFINE d == tx[r].day
<1> USE DEF IndInv, ReadTip, Goto
<1>1. Len(event_rows[d]) \in Nat
  BY DEF TypeOK
<1>2. /\ tx' \in [Request -> TxRecord]
      /\ tx'[r].day = d /\ tx'[r].run = tx[r].run /\ tx'[r].trial = tx[r].trial
      /\ tx'[r].tip = Len(event_rows[d])
      /\ \A q \in Request \ {r} : tx'[q] = tx[q]
  <2>1. tx \in [Request -> TxRecord] /\ tx[r] \in TxRecord
    BY DEF TypeOK, TxRecord
  <2>2. PICK n \in Nat : n = Len(event_rows[d])
    BY <1>1
  <2>3. PICK o : o = [tx[r] EXCEPT !.tip = n]
    OBVIOUS
  <2>4. tx' = [tx EXCEPT ![r] = o]
    BY <2>1, <2>2, <2>3
  <2> HIDE DEF IndInv, ReadTip
  <2>5. /\ o \in TxRecord /\ o.day = tx[r].day /\ o.run = tx[r].run /\ o.trial = tx[r].trial
        /\ o.tip = n
    BY <2>1, <2>3 DEF TxRecord
  <2>6. QED
    BY <2>1, <2>2, <2>4, <2>5
<1>3. /\ pc'[r] = "event"
      /\ \A q \in Request \ {r} : pc'[q] = pc[q]
  BY DEF TypeOK
<1>4. TypeOK'
  <2>1. "event" \in Transaction
    BY DEF Transaction
  <2>2. QED
    BY <1>2, <1>3, <2>1 DEF TypeOK, database, logs, TxRecord
<1>5. OneHolder'
  BY <1>2, <1>3 DEF OneHolder, HoldsRun
<1>6. StagedFresh'
  <2>1. ASSUME NEW q \in Request, pc'[q] \in HoldsRun
        PROVE  /\ pc[q] \in HoldsRun /\ tx'[q].day = tx[q].day
               /\ tx'[q].run = tx[q].run /\ tx'[q].trial = tx[q].trial
    BY <1>2, <1>3, <2>1 DEF HoldsRun
  <2>2. runs' = runs /\ trials' = trials /\ call' = call
    BY DEF database
  <2>3. \A q \in Request : pc[q] \in HoldsRun =>
          /\ tx[q].run = Add(runs[tx[q].day], call[q])
          /\ tx[q].trial = Add(trials[<<tx[q].day, call[q].provider>>], call[q])
    BY DEF StagedFresh, TrialOf
  <2>4. QED
    BY <2>1, <2>2, <2>3, StagedNext
<1>7. TipFresh'
  BY <1>2, <1>3 DEF TipFresh, database
<1>8. CallSoFar' /\ EmitNeverRaces'
  BY <1>3 DEF CallSoFar, EmitNeverRaces, logs
<1>9. RowsAreAnswered'
  <2>1. \A row \in run_rows : row.req \in Request
    BY DEF TypeOK
  <2>2. QED
    BY <1>3, <2>1 DEF RowsAreAnswered, database
<1>10. QED
  BY <1>4, <1>5, <1>6, <1>7, <1>8, <1>9

LEMMA InsertEventIndInv ==
  ASSUME IndInv, NEW r \in Request, InsertEvent(r)
  PROVE  IndInv'
<1> USE DEF IndInv, InsertEvent, Goto
<1>1. tx[r].tip = Len(event_rows[tx[r].day])
  BY DEF TipFresh
<1>2. /\ pc'[r] = "commit" /\ raced' = raced /\ warned' \subseteq Request
      /\ \A q \in Request \ {r} : pc'[q] = pc[q]
  BY <1>1 DEF TypeOK
<1>3. TypeOK'
  <2>1. "commit" \in Transaction
    BY DEF Transaction
  <2>2. pc' \in [Request -> {"idle", "calling", "evaluating", "answered"} \cup Transaction]
    BY <1>1, <2>1 DEF TypeOK
  <2>3. QED
    BY <1>2, <2>1, <2>2 DEF TypeOK, database, logs
<1>4. OneHolder'
  BY <1>2 DEF OneHolder, HoldsRun
<1>5. StagedFresh' /\ TipFresh'
  BY <1>2 DEF StagedFresh, TipFresh, TrialOf, Add, database, HoldsRun
<1>6. CallSoFar' /\ EmitNeverRaces'
  BY <1>2 DEF CallSoFar, EmitNeverRaces
<1>7. RowsAreAnswered'
  <2>1. \A row \in run_rows : row.req \in Request
    BY DEF TypeOK
  <2>2. QED
    BY <1>2, <2>1 DEF RowsAreAnswered, database
<1>8. QED
  BY <1>3, <1>4, <1>5, <1>6, <1>7

\* What Commit writes has the types of the tables.
LEMMA CommitType ==
  ASSUME TypeOK, NEW r \in Request
  PROVE  /\ RowOf(r) \in [req : Request, day : Day, provider : Provider, passed : BOOLEAN, cost : Charge]
         /\ EventOf(r) \in [req : Request, kind : {"provider.called", "provider.failed"}]
         /\ tx[r] \in TxRecord
         /\ CodeOf(call[r].error) \in {"200", "402", "429", "502"}
<1>1. RowOf(r) \in [req : Request, day : Day, provider : Provider, passed : BOOLEAN, cost : Charge]
  BY CallType DEF RowOf
<1>2. EventOf(r) \in [req : Request, kind : {"provider.called", "provider.failed"}]
  BY DEF EventOf
<1>3. tx[r] \in TxRecord
  BY DEF TypeOK, TxRecord
<1>4. CodeOf(call[r].error) \in {"200", "402", "429", "502"}
  BY CallType DEF CodeOf, Errors
<1>5. QED
  BY <1>1, <1>2, <1>3, <1>4

LEMMA CommitTypeOK ==
  ASSUME TypeOK, NEW r \in Request, Commit(r)
  PROVE  TypeOK'
<1> USE DEF Commit, Answer, Goto
<1> DEFINE d == tx[r].day
<1>1. d \in Day /\ TrialOf(r) \in Day \X Provider
  BY CallType
<1>2. run_rows' \subseteq
        [req : Request, day : Day, provider : Provider, passed : BOOLEAN, cost : Charge]
  BY CommitType DEF TypeOK
<1>3. runs' \in [Day -> Totals] /\ trials' \in [Day \X Provider -> Totals]
  BY CommitType DEF TypeOK, TxRecord
<1>4. event_rows' \in [Day -> Seq([req : Request, kind : {"provider.called", "provider.failed"}])]
  <2>1. Append(event_rows[d], EventOf(r)) \in
          Seq([req : Request, kind : {"provider.called", "provider.failed"}])
    <3>1. event_rows[d] \in Seq([req : Request, kind : {"provider.called", "provider.failed"}])
      BY <1>1 DEF TypeOK
    <3>2. EventOf(r) \in [req : Request, kind : {"provider.called", "provider.failed"}]
      BY CommitType
    <3>3. QED
      BY <3>1, <3>2
  <2>2. QED
    BY <2>1 DEF TypeOK
<1>5. have_run' \subseteq Day /\ have_trial' \subseteq Day \X Provider
  BY <1>1 DEF TypeOK
<1>6. /\ pc' \in [Request -> {"idle", "calling", "evaluating", "answered"} \cup Transaction]
      /\ tx' \in [Request -> TxRecord]
      /\ \A q \in Request : tx'[q] # NoTx => pc'[q] \in Transaction
  BY NoTxType DEF TypeOK, TxRecord
<1>7. status' \in [Request ->
        {"none", "200", "402", "429", "502", "500", "refused", "dropped"}]
  BY CommitType DEF TypeOK
<1>8. QED
  BY <1>2, <1>3, <1>4, <1>5, <1>6, <1>7 DEF TypeOK, logs, TxRecord

LEMMA CommitIndInv ==
  ASSUME IndInv, NEW r \in Request, Commit(r)
  PROVE  IndInv'
<1> USE DEF IndInv
<1> DEFINE d == tx[r].day
<1>1. TypeOK'
  BY CommitTypeOK
<1>2. /\ pc'[r] = "answered" /\ call' = call /\ raced' = raced
      /\ run_rows' = run_rows \cup {RowOf(r)}
      /\ \A q \in Request \ {r} : pc'[q] = pc[q] /\ tx'[q] = tx[q]
  BY DEF Commit, Answer, Goto, TypeOK, logs
<1>3. \A q \in Request \ {r} : pc[q] \in HoldsRun =>
        /\ tx[q].day \in Day /\ tx[q].day # d
        /\ TrialOf(q) \in Day \X Provider /\ TrialOf(q) # TrialOf(r)
  BY CallType DEF OneHolder, HoldsRun, Commit, TrialOf
<1>4. \A q \in Request \ {r} : pc[q] \in HoldsRun =>
        /\ runs'[tx[q].day] = runs[tx[q].day]
        /\ trials'[TrialOf(q)] = trials[TrialOf(q)]
        /\ event_rows'[tx[q].day] = event_rows[tx[q].day]
  BY <1>3 DEF Commit, TypeOK
<1>5. OneHolder'
  BY <1>2 DEF OneHolder, HoldsRun
<1>6. StagedFresh'
  <2>1. ASSUME NEW q \in Request, pc'[q] \in HoldsRun
        PROVE  /\ tx'[q].run = Add(runs'[tx'[q].day], call'[q])
               /\ tx'[q].trial = Add(trials'[<<tx'[q].day, call'[q].provider>>], call'[q])
    <3>1. q # r /\ pc[q] \in HoldsRun
      BY <1>2, <2>1 DEF HoldsRun
    <3>2. tx[q].run = Add(runs[tx[q].day], call[q]) /\ tx[q].trial = Add(trials[TrialOf(q)], call[q])
      BY <3>1 DEF StagedFresh
    <3>3. /\ tx'[q] = tx[q] /\ call'[q] = call[q] /\ runs'[tx[q].day] = runs[tx[q].day]
          /\ trials'[<<tx[q].day, call[q].provider>>] = trials[TrialOf(q)]
      BY <1>2, <1>4, <3>1 DEF TrialOf
    <3>4. QED
      BY <3>2, <3>3
  <2>2. QED
    BY <2>1, StagedNext
<1>7. TipFresh'
  BY <1>2, <1>4 DEF TipFresh, HoldsRun
<1>8. RowsAreAnswered'
  <2>1. \A row \in run_rows : row.req \in Request
    BY DEF TypeOK
  <2>2. RowOf(r).req = r
    BY DEF RowOf
  <2>3. QED
    BY <1>2, <2>1, <2>2 DEF RowsAreAnswered
<1>9. CallSoFar' /\ EmitNeverRaces'
  BY <1>2 DEF CallSoFar, EmitNeverRaces
<1>10. QED
  BY <1>1, <1>5, <1>6, <1>7, <1>8, <1>9

LEMMA CrashIndInv ==
  ASSUME IndInv, NEW w \in Worker, Crash(w)
  PROVE  IndInv'
<1> USE DEF IndInv
<1> DEFINE dead == {r \in InFlight : WorkerOf[r] = w}
<1>1. dead \subseteq Request /\ \A q \in dead : pc[q] # "answered"
  BY DEF InFlight
<1>2. /\ \A q \in dead : pc'[q] = "answered" /\ tx'[q] = NoTx
      /\ \A q \in Request \ dead : pc'[q] = pc[q] /\ tx'[q] = tx[q]
  BY <1>1 DEF Crash
<1>3. TypeOK'
  <2>1. /\ pc' \in [Request -> {"idle", "calling", "evaluating", "answered"} \cup Transaction]
        /\ tx' \in [Request -> TxRecord]
        /\ \A q \in Request : tx'[q] # NoTx => pc'[q] \in Transaction
        /\ status' \in [Request ->
             {"none", "200", "402", "429", "502", "500", "refused", "dropped"}]
    BY NoTxType DEF Crash, TypeOK, TxRecord
  <2>2. QED
    BY <2>1 DEF TypeOK, Crash, database, logs, TxRecord
<1>4. CallSoFar'
  BY <1>1, <1>2 DEF CallSoFar, Crash
<1>5. \A q \in Request : pc[q] = "answered" => pc'[q] = "answered"
  BY <1>1, <1>2
<1>6. \A q \in Request : pc'[q] \in HoldsRun =>
        pc'[q] = pc[q] /\ tx'[q] = tx[q] /\ call'[q] = call[q]
  BY <1>1, <1>2 DEF HoldsRun, Crash
<1>7. QED
  BY <1>3, <1>4, <1>5, <1>6, KeepIndInv DEF Crash, database, logs

LEMMA MidnightIndInv ==
  ASSUME IndInv, Midnight
  PROVE  IndInv'
<1> USE DEF IndInv, Midnight, database, request, logs
<1>1. day' \in Day
  BY GatewayAssumption DEF TypeOK, Day
<1>2. TypeOK'
  BY <1>1 DEF TypeOK
<1>3. CallSoFar'
  BY DEF CallSoFar
<1>4. \A q \in Request : pc'[q] = pc[q] /\ tx'[q] = tx[q] /\ call'[q] = call[q]
  OBVIOUS
<1>5. QED
  BY <1>2, <1>3, <1>4, KeepIndInv

LEMMA StutterIndInv ==
  ASSUME IndInv, UNCHANGED vars
  PROVE  IndInv'
<1> USE DEF IndInv, vars, database, request, logs
<1>1. TypeOK'
  BY DEF TypeOK
<1>2. CallSoFar'
  BY DEF CallSoFar
<1>3. QED
  BY <1>1, <1>2, KeepIndInv

LEMMA NextIndInv ==
  ASSUME IndInv, [Next]_vars
  PROVE  IndInv'
<1>1. ASSUME NEW r \in Request, Resolve(r) PROVE IndInv'
  BY <1>1, ResolveIndInv
<1>2. ASSUME NEW r \in Request, Proceed(r) PROVE IndInv'
  BY <1>2, CallProviderIndInv, SelectRunIndInv, InsertRunIndInv, SelectTrialIndInv,
     InsertTrialIndInv, RecordIndInv, ReadTipIndInv, InsertEventIndInv, CommitIndInv
     DEF Proceed
<1>3. ASSUME NEW r \in Request, Evaluate(r) PROVE IndInv'
  BY <1>3, EvaluateIndInv
<1>4. ASSUME NEW r \in Request, Fail(r) PROVE IndInv'
  BY <1>4, FailIndInv
<1>5. ASSUME NEW w \in Worker, Crash(w) PROVE IndInv'
  BY <1>5, CrashIndInv
<1>6. CASE Midnight
  BY <1>6, MidnightIndInv
<1>7. CASE AllAnswered \/ UNCHANGED vars
  BY <1>7, StutterIndInv DEF AllAnswered
<1>8. QED
  BY <1>1, <1>2, <1>3, <1>4, <1>5, <1>6, <1>7 DEF Next

-----------------------------------------------------------------------------
\* The invariant of the gateway: at every moment the transaction that holds a
\* run's row has staged the totals and the tip of the committed state.
THEOREM Invariance == Spec => []IndInv
<1>1. Init => IndInv
  BY InitIndInv
<1>2. IndInv /\ [Next]_vars => IndInv'
  BY NextIndInv
<1>3. QED
  BY <1>1, <1>2, PTL DEF Spec

\* Every variable of the gateway keeps its type.
THEOREM TypeCorrect == Spec => []TypeOK
<1>1. IndInv => TypeOK
  BY DEF IndInv
<1>2. QED
  BY <1>1, Invariance, PTL

\* However many requests and workers there are, no call of the proxy ever
\* uses the retry loop of emit_event: the UPDATE of the runs row before it
\* keeps every other call off the chain until this one has committed.
THEOREM NoEmitRace == Spec => []EmitNeverRaces
<1>1. IndInv => EmitNeverRaces
  BY DEF IndInv
<1>2. QED
  BY <1>1, Invariance, PTL
-----------------------------------------------------------------------------
\* A commit is one posting of the ledger.
LEMMA CommitPosts ==
  ASSUME IndInv, NEW r \in Request, Commit(r)
  PROVE  Ledger!Post(r, tx[r].day, call[r].provider, call[r].passed, call[r].cost)
<1> DEFINE d == tx[r].day
           p == call[r].provider
<1> USE DEF IndInv
<1>1. \A row \in run_rows : row.req # r
  BY DEF RowsAreAnswered, Commit
<1>2. run_rows' = run_rows \cup
        {[req |-> r, day |-> d, provider |-> p, passed |-> call[r].passed, cost |-> call[r].cost]}
  BY DEF Commit, RowOf
<1>3. \E kind \in {"provider.called", "provider.failed"} :
        /\ call[r].passed => kind = "provider.called"
        /\ event_rows' = [event_rows EXCEPT ![d] = Append(@, [req |-> r, kind |-> kind])]
  <2> DEFINE kind == EventOf(r).kind
  <2>1. EventOf(r) = [req |-> r, kind |-> kind]
    BY DEF EventOf
  <2>2. kind \in {"provider.called", "provider.failed"}
    BY DEF EventOf
  <2>3. call[r].passed => kind = "provider.called"
    <3>1. call[r].passed => call[r].error = "none"
      BY CallType DEF CallSoFar
    <3>2. call[r].error = "none" => kind = "provider.called"
      BY DEF EventOf
    <3>3. QED
      BY <3>1, <3>2
  <2>4. event_rows' = [event_rows EXCEPT ![d] = Append(@, [req |-> r, kind |-> kind])]
    BY <2>1 DEF Commit
  <2>5. QED
    BY <2>2, <2>3, <2>4
<1>4. /\ tx[r].run = Add(runs[d], call[r])
      /\ tx[r].trial = Add(trials[<<d, p>>], call[r])
  BY DEF StagedFresh, HoldsRun, Commit, TrialOf
<1>5. /\ runs' = [runs EXCEPT ![d] = Ledger!Add(@, call[r].passed, call[r].cost)]
      /\ trials' = [trials EXCEPT ![<<d, p>>] = Ledger!Add(@, call[r].passed, call[r].cost)]
  BY <1>4 DEF Commit, TrialOf, Add, Ledger!Add
<1>6. QED
  BY <1>1, <1>2, <1>3, <1>5 DEF Ledger!Post

\* Every other step leaves the committed tables alone.
LEMMA NextPosts ==
  ASSUME IndInv, [Next]_vars
  PROVE  [Ledger!Next]_(Ledger!ledger)
<1> SUFFICES ASSUME ~UNCHANGED database PROVE Ledger!Next
  BY DEF database, Ledger!ledger
<1>1. PICK r \in Request : Commit(r)
  BY DEF Next, Proceed, Resolve, CallProvider, Evaluate, SelectRun, InsertRun,
     SelectTrial, InsertTrial, Record, ReadTip, InsertEvent, Fail, Crash, Midnight,
     AllAnswered, vars
<1>2. QED
  BY <1>1, CommitPosts, CallType DEF Ledger!Next, IndInv

\* The gateway implements the ledger: a call's row, its audit event, the
\* totals of its run and those of its trial are posted together, once, or not
\* at all, whatever the interleaving, the failures and the crashes.
THEOREM ImplementsLedger == Spec => PostsToLedger
<1>1. Init => Ledger!Init
  BY DEF Init, Ledger!Init, Zero, Ledger!Zero
<1>2. IndInv /\ [Next]_vars => [Ledger!Next]_(Ledger!ledger)
  BY NextPosts
<1>3. QED
  BY <1>1, <1>2, Invariance, PTL DEF Spec, PostsToLedger, Ledger!Spec

-----------------------------------------------------------------------------
Accounted(q) ==
  pc[q] = "answered" /\ call[q].cost > 0 /\ status[q] # "dropped" =>
    \/ q \in reconcile
    \/ \E row \in run_rows : row.req = q /\ row.cost = call[q].cost

\* What has been accounted for stays so: rows and log lines are only added,
\* and an answered request is not touched again.
LEMMA AccountedStays ==
  ASSUME NEW q \in Request, Accounted(q),
         pc'[q] = pc[q], call'[q].cost = call[q].cost, status'[q] = status[q],
         run_rows \subseteq run_rows', reconcile \subseteq reconcile'
  PROVE  Accounted(q)'
  BY DEF Accounted

LEMMA NotAnswered ==
  ASSUME NEW q \in Request, pc'[q] # "answered"
  PROVE  Accounted(q)'
  BY DEF Accounted

\* A step of request r that leaves the tables and the log: the others stay as
\* they are, and r is accounted for if it is not answered or was not charged.
LEMMA AccountedLocal ==
  ASSUME IndInv, NEW r \in Request, NEW q \in Request, Accounted(q),
         NEW label, Goto(r, label),
         UNCHANGED <<run_rows, reconcile>>,
         \A o \in Request \ {r} : call'[o] = call[o] /\ status'[o] = status[o],
         label # "answered" \/ call'[r].cost = 0
  PROVE  Accounted(q)'
<1> USE DEF IndInv
<1>1. CASE q # r
  BY <1>1, AccountedStays DEF Goto, TypeOK
<1>2. CASE q = r
  BY <1>2 DEF Accounted, Goto, TypeOK
<1>3. QED
  BY <1>1, <1>2

LEMMA ChargeStep ==
  ASSUME EvaluatorEscapes = FALSE, IndInv, ChargedAccounted, [Next]_vars
  PROVE  ChargedAccounted'
<1> SUFFICES ASSUME NEW q \in Request PROVE Accounted(q)'
  BY DEF ChargedAccounted, Accounted
<1> USE DEF IndInv
<1>0. Accounted(q)
  BY DEF ChargedAccounted, Accounted
<1>1. ASSUME NEW r \in Request, Resolve(r) PROVE Accounted(q)'
  <2>1. CASE Answer(r, "refused") /\ UNCHANGED call
    BY <1>0, <1>1, <2>1, AccountedLocal DEF Resolve, Answer, database, logs, CallSoFar, TypeOK
  <2>2. CASE ~(Answer(r, "refused") /\ UNCHANGED call)
    <3>1. PICK p \in Provider :
            Note(r, p, IF CapReached(runs[day].cost) THEN "cost_capped" ELSE "none", 0, FALSE)
      BY <1>1, <2>2 DEF Resolve
    <3>2. Goto(r, IF CapReached(runs[day].cost) THEN "select_run" ELSE "calling")
      BY <1>1, <2>2 DEF Resolve
    <3>3. \A o \in Request \ {r} : call'[o] = call[o] /\ status'[o] = status[o]
      BY <1>1, <2>2, <3>1 DEF Resolve, Note, TypeOK
    <3>4. QED
      BY <1>0, <1>1, <3>2, <3>3, AccountedLocal DEF Resolve, database, logs
  <2>3. QED
    BY <2>1, <2>2
<1>2. ASSUME NEW r \in Request, CallProvider(r) PROVE Accounted(q)'
  <2>1. PICK error \in {"none", "failed", "throttled"}, cost \in Cost :
          /\ Note(r, call[r].provider, error, IF error = "throttled" THEN 0 ELSE cost, FALSE)
          /\ Goto(r, IF error = "none" THEN "evaluating" ELSE "select_run")
    BY <1>2 DEF CallProvider
  <2>2. \A o \in Request \ {r} : call'[o] = call[o] /\ status'[o] = status[o]
    BY <1>2, <2>1 DEF CallProvider, Note, TypeOK
  <2>3. QED
    BY <1>0, <1>2, <2>1, <2>2, AccountedLocal DEF CallProvider, database, logs
<1>3. ASSUME NEW r \in Request, Evaluate(r) PROVE Accounted(q)'
  <2>1. PICK passed \in BOOLEAN :
          /\ Note(r, call[r].provider, call[r].error, call[r].cost, passed)
          /\ Goto(r, "select_run")
          /\ UNCHANGED <<tx, status>>
    BY <1>3 DEF Evaluate
  <2>2. \A o \in Request \ {r} : call'[o] = call[o] /\ status'[o] = status[o]
    BY <1>3, <2>1 DEF Note, TypeOK
  <2>3. QED
    BY <1>0, <1>3, <2>1, <2>2, AccountedLocal DEF Evaluate, database, logs
<1>4. ASSUME NEW r \in Request,
             SelectRun(r) \/ InsertRun(r) \/ SelectTrial(r) \/ InsertTrial(r)
               \/ Record(r) \/ ReadTip(r) \/ InsertEvent(r)
      PROVE  Accounted(q)'
  <2>1. PICK label : Goto(r, label) /\ label # "answered"
    BY <1>4 DEF SelectRun, InsertRun, SelectTrial, InsertTrial, Record, ReadTip, InsertEvent
  <2>2. UNCHANGED <<run_rows, reconcile, call, status>>
    BY <1>4 DEF SelectRun, InsertRun, SelectTrial, InsertTrial, Record, ReadTip, InsertEvent,
       database, logs
  <2>3. QED
    BY <1>0, <2>1, <2>2, AccountedLocal
<1>5. ASSUME NEW r \in Request, Commit(r) PROVE Accounted(q)'
  <2>1. run_rows' = run_rows \cup {RowOf(r)} /\ reconcile' = reconcile /\ call' = call
    BY <1>5 DEF Commit, logs
  <2>2. CASE q = r
    <3>1. RowOf(r) \in run_rows' /\ RowOf(r).req = q /\ RowOf(r).cost = call'[q].cost
      BY <2>1, <2>2 DEF RowOf
    <3>2. QED
      BY <3>1 DEF Accounted
  <2>3. CASE q # r
    BY <1>0, <1>5, <2>1, <2>3, AccountedStays DEF Commit, Answer, Goto, TypeOK
  <2>4. QED
    BY <2>2, <2>3
<1>6. ASSUME NEW r \in Request, Fail(r) PROVE Accounted(q)'
  <2>1. run_rows' = run_rows /\ reconcile \subseteq reconcile' /\ call' = call
    BY <1>6 DEF Fail, database
  <2>2. CASE q = r
    BY <1>6, <2>1, <2>2 DEF Accounted, Fail
  <2>3. CASE q # r
    BY <1>0, <1>6, <2>1, <2>3, AccountedStays DEF Fail, Answer, Goto, TypeOK
  <2>4. QED
    BY <2>2, <2>3
<1>7. ASSUME NEW w \in Worker, Crash(w) PROVE Accounted(q)'
  <2>1. run_rows' = run_rows /\ reconcile' = reconcile /\ call' = call
    BY <1>7 DEF Crash, database, logs
  <2>2. CASE status'[q] = "dropped"
    BY <2>2 DEF Accounted
  <2>3. CASE status'[q] # "dropped"
    BY <1>0, <1>7, <2>1, <2>3, AccountedStays DEF Crash
  <2>4. QED
    BY <2>2, <2>3
<1>8. CASE Midnight \/ AllAnswered \/ UNCHANGED vars
  BY <1>0, <1>8, AccountedStays DEF Midnight, AllAnswered, vars, database, request, logs
<1>9. QED
  BY <1>1, <1>2, <1>3, <1>4, <1>5, <1>6, <1>7, <1>8 DEF Next, Proceed

\* Where no evaluator breaks the handler, every charge of a request that was
\* answered is in the ledger or in the log operators reconcile from.
THEOREM ChargesAccounted ==
  ASSUME EvaluatorEscapes = FALSE
  PROVE  Spec => []ChargedAccounted
<1>1. Init => ChargedAccounted
  BY DEF Init, ChargedAccounted
<1>2. IndInv /\ ChargedAccounted /\ [Next]_vars => ChargedAccounted'
  BY ChargeStep
<1>3. QED
  BY <1>1, <1>2, Invariance, PTL DEF Spec
-----------------------------------------------------------------------------
(* What the clients and the operator may conclude from the ledger, on top of *)
(* that invariant                                                            *)

\* The answers of a call that went through phase 3.
Posted == {"200", "402", "429", "502"}

\* What row and chain hold of a call that was answered so.
InLedger(q) ==
  \E row \in run_rows :
    /\ row.req = q
    /\ row.passed => status[q] = "200"
    /\ \E i \in 1..Len(event_rows[row.day]) : event_rows[row.day][i] = EventOf(q)

Matches(q) ==
  /\ pc[q] # "answered" => status[q] = "none"
  /\ status[q] \in Posted => InLedger(q)
  /\ status[q] \notin Posted => \A row \in run_rows : row.req # q

\* A step that leaves the tables: an open request r has no row, so it may be
\* answered anything that claims none.
LEMMA MatchesLocal ==
  ASSUME NEW r \in Request, NEW q \in Request, Matches(q),
         UNCHANGED <<run_rows, event_rows>>,
         \A o \in Request \ {r} :
           pc'[o] = pc[o] /\ status'[o] = status[o] /\ call'[o] = call[o],
         pc[r] # "answered",
         \/ status'[r] = status[r]
         \/ pc'[r] = "answered" /\ status'[r] \notin Posted
  PROVE  Matches(q)'
<1>1. CASE q # r
  <2>1. InLedger(q) => InLedger(q)'
    BY <1>1 DEF InLedger, EventOf
  <2>2. QED
    BY <1>1, <2>1 DEF Matches
<1>2. CASE q = r
  <2>1. status[q] \notin Posted /\ \A row \in run_rows : row.req # q
    BY <1>2 DEF Matches, Posted
  <2>2. QED
    BY <1>2, <2>1 DEF Matches
<1>3. QED
  BY <1>1, <1>2

LEMMA MatchesStays ==
  ASSUME NEW q \in Request, Matches(q),
         UNCHANGED <<run_rows, event_rows>>,
         pc'[q] = pc[q], status'[q] = status[q], call'[q] = call[q]
  PROVE  Matches(q)'
<1>1. InLedger(q) => InLedger(q)'
  BY DEF InLedger, EventOf
<1>2. QED
  BY <1>1 DEF Matches

\* The commit of another request only adds to the tables.
LEMMA MatchesOther ==
  ASSUME IndInv, NEW r \in Request, NEW q \in Request, Commit(r), Matches(q), q # r
  PROVE  Matches(q)'
<1> USE DEF IndInv
<1> DEFINE d == tx[r].day
<1>1. /\ pc'[q] = pc[q] /\ status'[q] = status[q] /\ call'[q] = call[q]
      /\ run_rows' = run_rows \cup {RowOf(r)} /\ RowOf(r).req # q
  BY DEF Commit, Answer, Goto, TypeOK, RowOf
<1>2. ASSUME InLedger(q) PROVE InLedger(q)'
  <2>1. PICK row \in run_rows :
          /\ row.req = q
          /\ row.passed => status[q] = "200"
          /\ \E i \in 1..Len(event_rows[row.day]) : event_rows[row.day][i] = EventOf(q)
    BY <1>2 DEF InLedger
  <2>2. PICK i \in 1..Len(event_rows[row.day]) : event_rows[row.day][i] = EventOf(q)
    BY <2>1
  <2>3. row.day \in Day /\ d \in Day
    BY CallType DEF TypeOK
  <2>4. event_rows[d] \in Seq([req : Request, kind : {"provider.called", "provider.failed"}])
    BY <2>3 DEF TypeOK
  <2>5. event_rows' = [event_rows EXCEPT ![d] = Append(event_rows[d], EventOf(r))]
    BY DEF Commit
  <2>6. i \in 1..Len(event_rows'[row.day]) /\ event_rows'[row.day][i] = EventOf(q)
    <3>1. CASE row.day = d
      <4>1. event_rows'[row.day] = Append(event_rows[d], EventOf(r))
        BY <2>3, <2>5, <3>1 DEF TypeOK
      <4>2. QED
        BY <2>2, <2>4, <3>1, <4>1
    <3>2. CASE row.day # d
      BY <2>2, <2>3, <2>5, <3>2 DEF TypeOK
    <3>3. QED
      BY <3>1, <3>2
  <2>7. EventOf(q)' = EventOf(q)
    BY <1>1 DEF EventOf
  <2>8. row \in run_rows'
    BY <1>1
  <2>9. QED
    BY <1>1, <2>1, <2>6, <2>7, <2>8 DEF InLedger
<1>3. QED
  BY <1>1, <1>2 DEF Matches

\* A request that commits has its row and its event from that moment, and is
\* answered by the error the event tells of.
LEMMA MatchesCommit ==
  ASSUME IndInv, NEW r \in Request, Commit(r)
  PROVE  Matches(r)'
<1> USE DEF IndInv
<1> DEFINE d == tx[r].day
           S == Seq([req : Request, kind : {"provider.called", "provider.failed"}])
<1>1. /\ pc'[r] = "answered" /\ status'[r] = CodeOf(call[r].error) /\ call' = call
      /\ RowOf(r) \in run_rows' /\ RowOf(r).req = r /\ RowOf(r).day = d
      /\ RowOf(r).passed = call[r].passed
  BY DEF Commit, Answer, Goto, TypeOK, RowOf
<1>2. status'[r] \in Posted
  BY <1>1, CommitType DEF Posted
<1>3. call[r].passed => status'[r] = "200"
  BY <1>1, CallType DEF CallSoFar, CodeOf
<1>4. d \in Day /\ event_rows[d] \in S
  BY CallType DEF TypeOK
<1>5. event_rows'[d] = Append(event_rows[d], EventOf(r))
  BY <1>4 DEF Commit, TypeOK
<1>6. EventOf(r) \in [req : Request, kind : {"provider.called", "provider.failed"}]
  BY CommitType
<1>7. Len(event_rows[d]) + 1 \in 1..Len(event_rows'[d])
  BY <1>4, <1>5, <1>6
<1>8. event_rows'[d][Len(event_rows[d]) + 1] = EventOf(r)
  BY <1>4, <1>5, <1>6
<1>9. EventOf(r)' = EventOf(r)
  BY <1>1 DEF EventOf
<1>10. InLedger(r)'
  BY <1>1, <1>3, <1>7, <1>8, <1>9 DEF InLedger
<1>11. QED
  BY <1>1, <1>2, <1>10 DEF Matches

LEMMA MatchesStep ==
  ASSUME IndInv, [Next]_vars, NEW q \in Request, Matches(q)
  PROVE  Matches(q)'
<1> USE DEF IndInv
<1>1. ASSUME NEW r \in Request, Resolve(r) \/ CallProvider(r) \/ Evaluate(r)
      PROVE  Matches(q)'
  <2>1. pc[r] # "answered" /\ UNCHANGED <<run_rows, event_rows>>
    BY <1>1 DEF Resolve, CallProvider, Evaluate, database
  <2>2. \A o \in Request \ {r} :
          pc'[o] = pc[o] /\ status'[o] = status[o] /\ call'[o] = call[o]
    BY <1>1 DEF Resolve, CallProvider, Evaluate, Note, Goto, Answer, TypeOK
  <2>3. \/ status'[r] = status[r]
        \/ pc'[r] = "answered" /\ status'[r] \notin Posted
    <3>1. CASE Resolve(r)
      BY <3>1 DEF Resolve, Goto, Answer, TypeOK, Posted
    <3>2. CASE CallProvider(r)
      BY <3>2 DEF CallProvider
    <3>3. CASE Evaluate(r)
      BY <3>3 DEF Evaluate, Goto, Answer, TypeOK, Posted
    <3>4. QED
      BY <1>1, <3>1, <3>2, <3>3
  <2>4. QED
    BY <2>1, <2>2, <2>3, MatchesLocal
<1>2. ASSUME NEW r \in Request,
             SelectRun(r) \/ InsertRun(r) \/ SelectTrial(r) \/ InsertTrial(r)
               \/ Record(r) \/ ReadTip(r) \/ InsertEvent(r)
      PROVE  Matches(q)'
  <2>1. UNCHANGED <<run_rows, event_rows, call, status>>
    BY <1>2 DEF SelectRun, InsertRun, SelectTrial, InsertTrial, Record, ReadTip, InsertEvent,
       database
  <2>2. pc[r] # "answered"
    BY <1>2 DEF SelectRun, InsertRun, SelectTrial, InsertTrial, Record, ReadTip, InsertEvent
  <2>3. \A o \in Request \ {r} : pc'[o] = pc[o]
    BY <1>2 DEF SelectRun, InsertRun, SelectTrial, InsertTrial, Record, ReadTip, InsertEvent,
       Goto, TypeOK
  <2>4. QED
    BY <2>1, <2>2, <2>3, MatchesLocal
<1>3. ASSUME NEW r \in Request, Commit(r) PROVE Matches(q)'
  BY <1>3, MatchesCommit, MatchesOther
<1>4. ASSUME NEW r \in Request, Fail(r) PROVE Matches(q)'
  <2>1. pc[r] # "answered" /\ UNCHANGED <<run_rows, event_rows, call>>
    BY <1>4 DEF Fail, Transaction, database
  <2>2. /\ pc'[r] = "answered" /\ status'[r] \notin Posted
        /\ \A o \in Request \ {r} : pc'[o] = pc[o] /\ status'[o] = status[o]
    BY <1>4 DEF Fail, Answer, Goto, TypeOK, Posted
  <2>3. QED
    BY <2>1, <2>2, MatchesLocal
<1>5. ASSUME NEW w \in Worker, Crash(w) PROVE Matches(q)'
  <2>1. UNCHANGED <<run_rows, event_rows, call>>
    BY <1>5 DEF Crash, database
  <2>2. CASE q \in InFlight /\ WorkerOf[q] = w
    <3>1. pc[q] # "answered" /\ pc'[q] = "answered" /\ status'[q] = "dropped"
      BY <1>5, <2>2 DEF Crash, InFlight
    <3>2. \A row \in run_rows : row.req # q
      BY <3>1 DEF Matches, Posted
    <3>3. QED
      BY <2>1, <3>1, <3>2 DEF Matches, Posted
  <2>3. CASE ~(q \in InFlight /\ WorkerOf[q] = w)
    BY <1>5, <2>1, <2>3, MatchesStays DEF Crash
  <2>4. QED
    BY <2>2, <2>3
<1>6. CASE Midnight \/ AllAnswered \/ UNCHANGED vars
  BY <1>6, MatchesStays DEF Midnight, AllAnswered, vars, database, request
<1>7. QED
  BY <1>1, <1>2, <1>3, <1>4, <1>5, <1>6 DEF Next, Proceed

\* The client's answer is the ledger's: whatever the interleaving of requests
\* and workers, a call answered 200, 402, 429 or 502 has its row and its event
\* in the day's chain, and one answered anything else has no row at all.
THEOREM AnswersMatch == Spec => []AnswersMatchLedger
<1> DEFINE AllMatch == \A q \in Request : Matches(q)
<1>1. Init => AllMatch
  BY DEF Init, Matches, Posted
<1>2. IndInv /\ AllMatch /\ [Next]_vars => AllMatch'
  BY MatchesStep
<1>3. AllMatch => AnswersMatchLedger
  BY DEF Matches, InLedger, Posted, AnswersMatchLedger
<1> HIDE DEF AllMatch
<1>4. QED
  BY <1>1, <1>2, <1>3, Invariance, PTL DEF Spec

-----------------------------------------------------------------------------
\* A transaction that is about to commit an overshoot has logged it.
LoggedFirst ==
  \A r \in Request : pc[r] = "commit" /\ Overshoot(r) => r \in warned

\* The log is not taken back.
LEMMA WarnedGrows ==
  ASSUME [Next]_vars
  PROVE  warned \subseteq warned'
  BY DEF Next, Proceed, Resolve, CallProvider, Evaluate, SelectRun, InsertRun,
     SelectTrial, InsertTrial, Record, ReadTip, InsertEvent, Commit, Fail, Crash,
     Midnight, AllAnswered, vars, logs

LEMMA LoggedFirstStep ==
  ASSUME IndInv, LoggedFirst, [Next]_vars
  PROVE  LoggedFirst'
<1> USE DEF IndInv
<1> DEFINE Logged(q) == pc[q] = "commit" /\ Overshoot(q) => q \in warned
           Stays(q) == pc'[q] = "commit" =>
                         pc[q] = "commit" /\ tx'[q] = tx[q] /\ call'[q] = call[q]
<1> SUFFICES ASSUME NEW q \in Request PROVE Logged(q)'
  BY DEF LoggedFirst
<1>0. Logged(q)
  BY DEF LoggedFirst
<1>1. ASSUME NEW r \in Request, InsertEvent(r) PROVE Logged(q)'
  <2>1. warned \subseteq warned' /\ tx' = tx /\ call' = call
    BY <1>1 DEF InsertEvent
  <2>2. CASE q = r
    BY <1>1, <2>1, <2>2 DEF InsertEvent, Goto, Overshoot, TypeOK
  <2>3. CASE q # r
    BY <1>0, <1>1, <2>1, <2>3 DEF InsertEvent, Goto, Overshoot, TypeOK
  <2>4. QED
    BY <2>2, <2>3
<1>2. ASSUME Stays(q) PROVE Logged(q)'
  BY <1>0, <1>2, WarnedGrows DEF Overshoot
<1>3. ASSUME NEW r \in Request, Resolve(r) \/ CallProvider(r) \/ Evaluate(r)
      PROVE  Stays(q)
  BY <1>3 DEF Resolve, CallProvider, Evaluate, Note, Goto, Answer, TypeOK
<1>4. ASSUME NEW r \in Request, Fail(r) \/ Commit(r) PROVE Stays(q)
  BY <1>4 DEF Fail, Commit, Goto, Answer, TypeOK
<1>5. ASSUME NEW r \in Request,
             SelectRun(r) \/ InsertRun(r) \/ SelectTrial(r) \/ InsertTrial(r)
      PROVE  Stays(q)
  BY <1>5 DEF SelectRun, InsertRun, SelectTrial, InsertTrial, Goto, TypeOK
<1>6. ASSUME NEW r \in Request, Record(r) \/ ReadTip(r) PROVE Stays(q)
  BY <1>6 DEF Record, ReadTip, Goto, TypeOK
<1>7. ASSUME NEW w \in Worker, Crash(w) PROVE Stays(q)
  BY <1>7 DEF Crash, TypeOK
<1>8. ASSUME Midnight \/ AllAnswered \/ UNCHANGED vars PROVE Stays(q)
  BY <1>8 DEF Midnight, AllAnswered, vars, request
<1> HIDE DEF Stays, Logged
<1>9. QED
  BY <1>1, <1>2, <1>3, <1>4, <1>5, <1>6, <1>7, <1>8 DEF Next, Proceed

\* Only Commit writes the tables.
LEMMA OnlyCommitWrites ==
  ASSUME [Next]_vars
  PROVE  UNCHANGED database \/ \E r \in Request : Commit(r)
<1>1. ASSUME NEW r \in Request, Resolve(r) \/ CallProvider(r) \/ Evaluate(r) PROVE UNCHANGED database
  BY <1>1 DEF Resolve, CallProvider, Evaluate
<1>2. ASSUME NEW r \in Request, SelectRun(r) \/ InsertRun(r) \/ SelectTrial(r) \/ InsertTrial(r)
      PROVE  UNCHANGED database
  BY <1>2 DEF SelectRun, InsertRun, SelectTrial, InsertTrial
<1>3. ASSUME NEW r \in Request, Record(r) \/ ReadTip(r) \/ InsertEvent(r) \/ Fail(r)
      PROVE  UNCHANGED database
  BY <1>3 DEF Record, ReadTip, InsertEvent, Fail
<1>4. ASSUME NEW w \in Worker, Crash(w) PROVE UNCHANGED database
  BY <1>4 DEF Crash
<1>5. ASSUME Midnight \/ AllAnswered \/ UNCHANGED vars PROVE UNCHANGED database
  BY <1>5 DEF Midnight, AllAnswered, vars, database
<1>6. QED
  BY <1>1, <1>2, <1>3, <1>4, <1>5 DEF Next, Proceed

\* What a commit adds to the spend of its day is its cost.
LEMMA CommitAdds ==
  ASSUME IndInv, NEW r \in Request, Commit(r)
  PROVE  LET d == tx[r].day IN
         /\ d \in Day
         /\ runs[d].cost \in Nat
         /\ runs'[d] = tx[r].run
         /\ tx[r].run = Add(runs[d], call[r])
         /\ tx[r].run.cost = runs[d].cost + call[r].cost
         /\ \A e \in Day \ {d} : runs'[e] = runs[e]
<1> USE DEF IndInv
<1>1. tx[r].day \in Day
  BY CallType
<1>2. tx[r].run = Add(runs[tx[r].day], call[r])
  BY DEF StagedFresh, Commit, HoldsRun
<1>3. runs[tx[r].day] \in Totals /\ runs[tx[r].day].cost \in Nat
  BY <1>1 DEF TypeOK, Totals
<1>4. /\ runs'[tx[r].day] = tx[r].run
      /\ \A e \in Day \ {tx[r].day} : runs'[e] = runs[e]
  BY <1>1 DEF Commit, TypeOK
<1>5. QED
  BY <1>1, <1>2, <1>3, <1>4 DEF Add

LEMMA OvershootStep ==
  ASSUME IndInv, LoggedFirst, OvershootWarned, [Next]_vars
  PROVE  OvershootWarned'
<1> USE DEF IndInv
<1>0. warned \subseteq warned'
  BY WarnedGrows
<1>1. CASE UNCHANGED database
  BY <1>0, <1>1 DEF OvershootWarned, database
<1>2. ASSUME NEW r \in Request, Commit(r) PROVE OvershootWarned'
  <2> DEFINE d == tx[r].day
  <2>1. /\ run_rows' = run_rows \cup {RowOf(r)}
        /\ RowOf(r).req = r /\ RowOf(r).day = d
        /\ pc[r] = "commit"
    BY <1>2 DEF Commit, RowOf
  <2>2. SUFFICES ASSUME Cap > 0, NEW e \in Day, runs'[e].cost > Cap
                 PROVE  \E row \in run_rows' : row.day = e /\ row.req \in warned'
    BY DEF OvershootWarned
  <2>3. CASE runs[e].cost > Cap
    BY <1>0, <2>1, <2>2, <2>3 DEF OvershootWarned
  <2>4. CASE ~(runs[e].cost > Cap)
    <3>1. e = d
      BY <1>2, <2>2, <2>4, CommitAdds
    <3>2. tx[r].run.cost > Cap /\ call[r].cost > 0
      BY <1>2, <2>2, <2>4, <3>1, CommitAdds, CallType, GatewayAssumption
    <3>3. r \in warned
      BY <2>1, <2>2, <3>2 DEF LoggedFirst, Overshoot
    <3>4. QED
      BY <1>0, <2>1, <3>1, <3>3
  <2>5. QED
    BY <2>3, <2>4
<1>3. QED
  BY <1>1, <1>2, OnlyCommitWrites

\* Spend above the cap never goes unannounced: a day whose committed spend is
\* over the cap has a committed call that logged cost_cap_overshot, however
\* many calls raced to it.
THEOREM OvershootAnnounced == Spec => []OvershootWarned
<1>1. Init => LoggedFirst /\ OvershootWarned
  BY GatewayAssumption DEF Init, LoggedFirst, OvershootWarned, Zero
<1>2. IndInv /\ LoggedFirst /\ OvershootWarned /\ [Next]_vars => LoggedFirst' /\ OvershootWarned'
  BY LoggedFirstStep, OvershootStep
<1>3. QED
  BY <1>1, <1>2, Invariance, PTL DEF Spec
-----------------------------------------------------------------------------
\* There is a most that a provider may charge for one call.
CostBounded == \E most \in Charge : \A cost \in Charge : cost <= most

\* The open requests that may still charge a day: those that were let through
\* by the cap and have that day's run, or have none yet and the day is not
\* over.
MayChargeTo(d) ==
  {r \in InFlight :
     /\ call[r].error # "cost_capped"
     /\ IF pc[r] \in {"calling", "evaluating", "select_run"}
          THEN day <= d ELSE tx[r].day = d}

InFlightBounded == IsFiniteSet(InFlight) /\ Cardinality(InFlight) <= MaxInFlight

CappedFree ==
  \A r \in Request :
    /\ call[r].error = "cost_capped" => call[r].cost = 0
    /\ pc[r] = "calling" => call[r].error = "none"

FutureFree ==
  /\ \A r \in Request : tx[r].day <= day
  /\ \A d \in Day : d > day => runs[d].cost = 0

\* Once a day has reached the cap, what the open requests may still add to it
\* is bounded by what they were when it was reached.
Room ==
  \A d \in Day : Cap > 0 /\ runs[d].cost >= Cap =>
    runs[d].cost + Cardinality(MayChargeTo(d)) * Max(Charge) < Cap + MaxInFlight * Max(Charge)

LEMMA GreatestCharge ==
  ASSUME CostBounded
  PROVE  Max(Charge) \in Nat /\ \A cost \in Charge : cost <= Max(Charge)
<1>1. PICK most \in Charge : \A cost \in Charge : cost <= most
  BY DEF CostBounded
<1>2. \E x \in Charge : \A y \in Charge : x >= y
  BY <1>1, ChargeType
<1>3. Max(Charge) \in Charge /\ \A y \in Charge : Max(Charge) >= y
  BY <1>2 DEF Max
<1>4. QED
  BY <1>3, ChargeType

LEMMA FewOpen ==
  ASSUME NEW T, IsFiniteSet(T), Cardinality(T) <= MaxInFlight,
         NEW S \in SUBSET T
  PROVE  /\ IsFiniteSet(S) /\ Cardinality(S) \in Nat
         /\ Cardinality(S) <= MaxInFlight
<1>1. IsFiniteSet(S) /\ Cardinality(S) <= Cardinality(T)
  BY FS_Subset
<1>2. Cardinality(S) \in Nat /\ Cardinality(T) \in Nat
  BY <1>1, FS_CardinalityType
<1>3. QED
  BY <1>1, <1>2, GatewayAssumption

\* Only Resolve opens a request, and only below the bound.
LEMMA InFlightStep ==
  ASSUME IndInv, InFlightBounded, [Next]_vars
  PROVE  InFlightBounded'
<1> USE DEF IndInv
<1>0. Cardinality(InFlight) \in Nat
  BY FS_CardinalityType DEF InFlightBounded
<1>1. ASSUME InFlight' \subseteq InFlight PROVE InFlightBounded'
  <2>1. InFlight' \in SUBSET InFlight
    BY <1>1
  <2>2. IsFiniteSet(InFlight') /\ Cardinality(InFlight') <= Cardinality(InFlight)
    BY <2>1, FS_Subset DEF InFlightBounded
  <2>3. Cardinality(InFlight') \in Nat
    BY <2>2, FS_CardinalityType
  <2>4. QED
    BY <1>0, <2>2, <2>3, GatewayAssumption DEF InFlightBounded
<1>2. ASSUME NEW r \in Request, Resolve(r) PROVE InFlightBounded'
  <2>1. InFlight' \in SUBSET (InFlight \cup {r})
    BY <1>2 DEF Resolve, Goto, Answer, InFlight, TypeOK
  <2>2. /\ IsFiniteSet(InFlight \cup {r})
        /\ Cardinality(InFlight \cup {r}) <= Cardinality(InFlight) + 1
    <3>1. IsFiniteSet(InFlight)
      BY DEF InFlightBounded
    <3>2. /\ IsFiniteSet(InFlight \cup {r})
          /\ Cardinality(InFlight \cup {r}) =
               IF r \in InFlight THEN Cardinality(InFlight) ELSE Cardinality(InFlight) + 1
      BY <3>1, FS_AddElement
    <3>3. QED
      BY <1>0, <3>2
  <2>3. IsFiniteSet(InFlight') /\ Cardinality(InFlight') <= Cardinality(InFlight \cup {r})
    BY <2>1, <2>2, FS_Subset
  <2>4. Cardinality(InFlight') \in Nat /\ Cardinality(InFlight \cup {r}) \in Nat
    BY <2>2, <2>3, FS_CardinalityType
  <2>5. Cardinality(InFlight) < MaxInFlight
    BY <1>2 DEF Resolve
  <2>6. QED
    BY <1>0, <2>2, <2>3, <2>4, <2>5, GatewayAssumption DEF InFlightBounded
<1>3. ASSUME NEW r \in Request, CallProvider(r) \/ Evaluate(r) PROVE InFlight' \subseteq InFlight
  BY <1>3 DEF CallProvider, Evaluate, Goto, Answer, InFlight, TypeOK
<1>4. ASSUME NEW r \in Request,
             SelectRun(r) \/ InsertRun(r) \/ SelectTrial(r) \/ InsertTrial(r)
      PROVE  InFlight' \subseteq InFlight
  BY <1>4 DEF SelectRun, InsertRun, SelectTrial, InsertTrial, Goto, InFlight, TypeOK
<1>5. ASSUME NEW r \in Request, Record(r) \/ ReadTip(r) \/ InsertEvent(r)
      PROVE  InFlight' \subseteq InFlight
  BY <1>5 DEF Record, ReadTip, InsertEvent, Goto, InFlight, TypeOK
<1>6. ASSUME NEW r \in Request, Fail(r) \/ Commit(r) PROVE InFlight' \subseteq InFlight
  BY <1>6 DEF Fail, Commit, Goto, Answer, InFlight, TypeOK
<1>7. ASSUME NEW w \in Worker, Crash(w) PROVE InFlight' \subseteq InFlight
  BY <1>7 DEF Crash, InFlight
<1>8. ASSUME Midnight \/ AllAnswered \/ UNCHANGED vars PROVE InFlight' \subseteq InFlight
  BY <1>8 DEF Midnight, AllAnswered, vars, request, InFlight
<1>9. QED
  BY <1>1, <1>2, <1>3, <1>4, <1>5, <1>6, <1>7, <1>8 DEF Next, Proceed

LEMMA CappedFreeStep ==
  ASSUME IndInv, CappedFree, [Next]_vars
  PROVE  CappedFree'
<1> USE DEF IndInv
<1> DEFINE Free(q) == /\ call[q].error = "cost_capped" => call[q].cost = 0
                      /\ pc[q] = "calling" => call[q].error = "none"
<1> SUFFICES ASSUME NEW q \in Request PROVE Free(q)'
  BY DEF CappedFree
<1>0. Free(q)
  BY DEF CappedFree
<1>1. ASSUME call'[q] = call[q], pc'[q] # "calling" \/ pc'[q] = pc[q] PROVE Free(q)'
  BY <1>0, <1>1
<1>2. ASSUME NEW r \in Request, Resolve(r) PROVE Free(q)'
  <2>1. CASE Answer(r, "refused") /\ UNCHANGED call
    BY <1>0, <2>1 DEF Answer, Goto, TypeOK
  <2>2. CASE ~(Answer(r, "refused") /\ UNCHANGED call)
    <3>1. PICK p \in Provider :
            Note(r, p, IF CapReached(runs[day].cost) THEN "cost_capped" ELSE "none", 0, FALSE)
      BY <1>2, <2>2 DEF Resolve
    <3>2. Goto(r, IF CapReached(runs[day].cost) THEN "select_run" ELSE "calling")
      BY <1>2, <2>2 DEF Resolve
    <3>3. CASE q = r
      BY <3>1, <3>2, <3>3 DEF Note, Goto, TypeOK
    <3>4. CASE q # r
      BY <1>0, <3>1, <3>2, <3>4 DEF Note, Goto, TypeOK
    <3>5. QED
      BY <3>3, <3>4
  <2>3. QED
    BY <2>1, <2>2
<1>3. ASSUME NEW r \in Request, CallProvider(r) PROVE Free(q)'
  BY <1>0, <1>3 DEF CallProvider, Note, Goto, TypeOK
<1>4. ASSUME NEW r \in Request, Evaluate(r) PROVE Free(q)'
  BY <1>0, <1>4 DEF Evaluate, Note, Goto, Answer, TypeOK
<1>5. ASSUME NEW r \in Request,
             SelectRun(r) \/ InsertRun(r) \/ SelectTrial(r) \/ InsertTrial(r) \/ Record(r)
               \/ ReadTip(r) \/ InsertEvent(r) \/ Fail(r) \/ Commit(r)
      PROVE  call'[q] = call[q] /\ (pc'[q] # "calling" \/ pc'[q] = pc[q])
  BY <1>5 DEF SelectRun, InsertRun, SelectTrial, InsertTrial, Record, ReadTip, InsertEvent,
     Fail, Commit, Goto, Answer, TypeOK
<1>6. ASSUME NEW w \in Worker, Crash(w)
      PROVE  call'[q] = call[q] /\ (pc'[q] # "calling" \/ pc'[q] = pc[q])
  BY <1>6 DEF Crash
<1>7. ASSUME Midnight \/ AllAnswered \/ UNCHANGED vars
      PROVE  call'[q] = call[q] /\ (pc'[q] # "calling" \/ pc'[q] = pc[q])
  BY <1>7 DEF Midnight, AllAnswered, vars, request
<1> HIDE DEF Free
<1>8. QED
  BY <1>1, <1>2, <1>3, <1>4, <1>5, <1>6, <1>7 DEF Next, Proceed

\* From SelectRun to its end a transaction keeps its day.
LEMMA KeepsDay ==
  ASSUME TypeOK, NEW r \in Request, NEW q \in Request,
         InsertRun(r) \/ SelectTrial(r) \/ InsertTrial(r) \/ Record(r) \/ ReadTip(r)
           \/ InsertEvent(r)
  PROVE  tx'[q].day = tx[q].day
<1>1. tx \in [Request -> TxRecord]
  BY DEF TypeOK, TxRecord
<1>2. CASE SelectTrial(r) \/ InsertEvent(r)
  BY <1>2 DEF SelectTrial, InsertEvent
<1>3. CASE InsertRun(r) \/ InsertTrial(r)
  BY <1>1, <1>3 DEF InsertRun, InsertTrial, TxRecord
<1>4. CASE Record(r)
  BY <1>1, <1>4 DEF Record, TxRecord
<1>5. CASE ReadTip(r)
  BY <1>1, <1>5 DEF ReadTip, TxRecord
<1>6. QED
  BY <1>2, <1>3, <1>4, <1>5

\* The days of the transactions are past or today.
LEMMA FutureFreeStep ==
  ASSUME IndInv, FutureFree, [Next]_vars
  PROVE  FutureFree'
<1> USE DEF IndInv
<1>0. day \in Nat /\ day' \in Nat /\ day <= day' /\ \A d \in Day : d \in Nat
  <2>1. day \in Nat /\ \A d \in Day : d \in Nat
    BY GatewayAssumption DEF TypeOK, Day
  <2>2. day' = day \/ day' = day + 1
    BY DEF Next, Proceed, Resolve, CallProvider, Evaluate, SelectRun, InsertRun, SelectTrial,
       InsertTrial, Record, ReadTip, InsertEvent, Commit, Fail, Crash, Midnight, AllAnswered, vars
  <2>3. QED
    BY <2>1, <2>2
<1>1. ASSUME NEW q \in Request PROVE tx'[q].day <= day'
  <2>0. tx[q].day <= day /\ tx[q].day \in Nat
    BY <1>0, CallType DEF FutureFree
  <2>1. ASSUME tx'[q].day = tx[q].day \/ tx'[q] = NoTx \/ tx'[q].day = day
        PROVE  tx'[q].day <= day'
    <3>1. NoTx.day = 1 /\ 1 <= day
      BY DEF NoTx, TypeOK, Day
    <3>2. QED
      BY <1>0, <2>0, <2>1, <3>1
  <2>2. ASSUME NEW r \in Request, Resolve(r) \/ CallProvider(r) \/ Evaluate(r)
        PROVE  tx'[q].day = tx[q].day \/ tx'[q] = NoTx \/ tx'[q].day = day
    BY <2>2 DEF Resolve, CallProvider, Evaluate, Answer, TypeOK
  <2>3. ASSUME NEW r \in Request, SelectRun(r)
        PROVE  tx'[q].day = tx[q].day \/ tx'[q] = NoTx \/ tx'[q].day = day
    BY <2>3 DEF SelectRun, TypeOK
  <2>4. ASSUME NEW r \in Request,
               InsertRun(r) \/ SelectTrial(r) \/ InsertTrial(r) \/ Record(r) \/ ReadTip(r)
                 \/ InsertEvent(r)
        PROVE  tx'[q].day = tx[q].day \/ tx'[q] = NoTx \/ tx'[q].day = day
    BY <2>4, KeepsDay
  <2>5. ASSUME NEW r \in Request, Fail(r) \/ Commit(r)
        PROVE  tx'[q].day = tx[q].day \/ tx'[q] = NoTx \/ tx'[q].day = day
    BY <2>5 DEF Fail, Commit, Answer, TypeOK
  <2>6. ASSUME NEW w \in Worker, Crash(w)
        PROVE  tx'[q].day = tx[q].day \/ tx'[q] = NoTx \/ tx'[q].day = day
    BY <2>6 DEF Crash
  <2>7. ASSUME Midnight \/ AllAnswered \/ UNCHANGED vars
        PROVE  tx'[q].day = tx[q].day \/ tx'[q] = NoTx \/ tx'[q].day = day
    BY <2>7 DEF Midnight, AllAnswered, vars, request
  <2>8. QED
    BY <2>1, <2>2, <2>3, <2>4, <2>5, <2>6, <2>7 DEF Next, Proceed
<1>2. ASSUME NEW d \in Day, d > day' PROVE runs'[d].cost = 0
  <2>0. d > day
    BY <1>0, <1>2
  <2>1. CASE UNCHANGED database
    BY <2>0, <2>1 DEF FutureFree, database
  <2>2. ASSUME NEW r \in Request, Commit(r) PROVE runs'[d].cost = 0
    <3>1. d # tx[r].day
      BY <1>0, <2>0, CallType DEF FutureFree
    <3>2. QED
      BY <2>0, <2>2, <3>1, CommitAdds DEF FutureFree
  <2>3. QED
    BY <2>1, <2>2, OnlyCommitWrites
<1>3. QED
  BY <1>1, <1>2 DEF FutureFree

\* No request that might charge a day joins it once it has reached the cap:
\* the check of the cap and the opening of the request are one step.
LEMMA NobodyJoins ==
  ASSUME IndInv, CappedFree, FutureFree, [Next]_vars,
         NEW d \in Day, Cap > 0, runs[d].cost >= Cap
  PROVE  MayChargeTo(d)' \subseteq MayChargeTo(d)
<1> USE DEF IndInv
<1> DEFINE Early == {"calling", "evaluating", "select_run"}
<1> SUFFICES ASSUME NEW q \in Request, q \in MayChargeTo(d)' PROVE q \in MayChargeTo(d)
  BY DEF MayChargeTo, InFlight
<1>0. /\ pc'[q] \notin {"idle", "answered"} /\ call'[q].error # "cost_capped"
      /\ pc'[q] \in Early => day' <= d
      /\ pc'[q] \notin Early => tx'[q].day = d
  BY DEF MayChargeTo, InFlight
<1>00. day \in Nat /\ d \in Nat
  BY GatewayAssumption DEF TypeOK, Day
<1>1. ASSUME call'[q] = call[q], pc'[q] = pc[q], tx'[q].day = tx[q].day, day <= day', day' \in Nat
      PROVE  q \in MayChargeTo(d)
  BY <1>0, <1>00, <1>1 DEF MayChargeTo, InFlight
<1>2. ASSUME NEW r \in Request, Resolve(r) PROVE q \in MayChargeTo(d)
  <2>1. CASE q # r
    BY <1>0, <1>00, <1>1, <1>2, <2>1 DEF Resolve, Note, Goto, Answer, TypeOK
  <2>2. CASE q = r
    <3>1. pc'[q] \in Early /\ ~CapReached(runs[day].cost) /\ day' = day
      BY <1>0, <1>2, <2>2 DEF Resolve, Note, Goto, Answer, TypeOK
    <3>2. runs[day].cost \in Nat /\ runs[day].cost < Cap
      <4>1. day \in Day /\ runs \in [Day -> Totals]
        BY DEF TypeOK
      <4>2. runs[day].cost \in Nat
        BY <4>1 DEF Totals
      <4>3. QED
        BY <3>1, <4>2, GatewayAssumption DEF CapReached
    <3>3. day < d
      BY <1>0, <1>00, <3>1, <3>2, GatewayAssumption
    <3>4. QED
      BY <1>00, <3>3, GatewayAssumption DEF FutureFree
  <2>3. QED
    BY <2>1, <2>2
<1>3. ASSUME NEW r \in Request, CallProvider(r) PROVE q \in MayChargeTo(d)
  <2>1. CASE q # r
    BY <1>0, <1>00, <1>1, <1>3, <2>1 DEF CallProvider, Note, Goto, TypeOK
  <2>2. CASE q = r
    <3>1. pc[q] = "calling" /\ call[q].error = "none" /\ pc'[q] \in Early /\ day' = day
      BY <1>3, <2>2 DEF CallProvider, Goto, CappedFree, TypeOK
    <3>2. QED
      BY <1>0, <3>1 DEF MayChargeTo, InFlight
  <2>3. QED
    BY <2>1, <2>2
<1>4. ASSUME NEW r \in Request, Evaluate(r) PROVE q \in MayChargeTo(d)
  <2>1. CASE q # r
    BY <1>0, <1>00, <1>1, <1>4, <2>1 DEF Evaluate, Note, Goto, Answer, TypeOK
  <2>2. CASE q = r
    <3>1. pc[q] = "evaluating" /\ call[q].error = "none" /\ pc'[q] \in Early /\ day' = day
      BY <1>0, <1>4, <2>2 DEF Evaluate, Goto, Answer, CallSoFar, TypeOK
    <3>2. QED
      BY <1>0, <3>1 DEF MayChargeTo, InFlight
  <2>3. QED
    BY <2>1, <2>2
<1>5. ASSUME NEW r \in Request, SelectRun(r) PROVE q \in MayChargeTo(d)
  <2>1. CASE q # r
    BY <1>0, <1>00, <1>1, <1>5, <2>1 DEF SelectRun, Goto, TypeOK
  <2>2. CASE q = r
    <3>1. /\ pc[q] = "select_run" /\ pc'[q] \in {"select_trial", "insert_run"}
          /\ call'[q] = call[q] /\ tx'[q].day = day
      BY <1>5, <2>2 DEF SelectRun, Goto, TypeOK
    <3>2. day <= d
      BY <1>0, <1>00, <3>1
    <3>3. QED
      BY <1>0, <3>1, <3>2 DEF MayChargeTo, InFlight
  <2>3. QED
    BY <2>1, <2>2
<1>6. ASSUME NEW r \in Request,
             InsertRun(r) \/ SelectTrial(r) \/ InsertTrial(r) \/ Record(r)
               \/ ReadTip(r) \/ InsertEvent(r)
      PROVE  q \in MayChargeTo(d)
  <2>1. /\ pc'[q] = pc[q] \/ pc[q] \notin Early \cup {"idle", "answered"}
        /\ pc'[q] = pc[q] \/ pc'[q] \notin Early
    BY <1>6 DEF InsertRun, SelectTrial, InsertTrial, Record, ReadTip, InsertEvent, Goto, TypeOK
  <2>2. call'[q] = call[q] /\ day' = day
    BY <1>6 DEF InsertRun, SelectTrial, InsertTrial, Record, ReadTip, InsertEvent
  <2>3. tx'[q].day = tx[q].day
    BY <1>6, KeepsDay
  <2>4. QED
    BY <1>0, <2>1, <2>2, <2>3 DEF MayChargeTo, InFlight
<1>7. ASSUME NEW r \in Request, Fail(r) \/ Commit(r) PROVE q \in MayChargeTo(d)
  BY <1>0, <1>00, <1>1, <1>7 DEF Fail, Commit, Goto, Answer, TypeOK
<1>8. ASSUME NEW w \in Worker, Crash(w) PROVE q \in MayChargeTo(d)
  BY <1>0, <1>00, <1>1, <1>8 DEF Crash
<1>9. ASSUME Midnight \/ AllAnswered \/ UNCHANGED vars PROVE q \in MayChargeTo(d)
  BY <1>0, <1>00, <1>1, <1>9 DEF Midnight, AllAnswered, vars, request
<1>10. QED
  BY <1>2, <1>3, <1>4, <1>5, <1>6, <1>7, <1>8, <1>9 DEF Next, Proceed

\* The arithmetic of one commit: a request that leaves the open ones takes
\* the room that was kept for it.
LEMMA TakesItsRoom ==
  ASSUME NEW m \in Nat, NEW n \in Nat, NEW k \in Nat, n + 1 <= k
  PROVE  n * m + m <= k * m
<1>1. k - (n + 1) \in Nat
  OBVIOUS
<1>2. (k - (n + 1)) * m >= 0
  BY <1>1
<1>3. k * m = (k - (n + 1)) * m + n * m + m
  OBVIOUS
<1>4. n * m \in Nat /\ k * m \in Nat /\ (k - (n + 1)) * m \in Nat
  BY <1>1
<1>5. QED
  BY <1>2, <1>3, <1>4

LEMMA Fewer ==
  ASSUME NEW m \in Nat, NEW n \in Nat, NEW k \in Nat, n <= k
  PROVE  n * m <= k * m /\ n * m \in Nat /\ k * m \in Nat
<1>1. (k - n) * m >= 0
  OBVIOUS
<1>2. k * m = (k - n) * m + n * m
  OBVIOUS
<1>3. n * m \in Nat /\ k * m \in Nat /\ (k - n) * m \in Nat
  OBVIOUS
<1>4. QED
  BY <1>1, <1>2, <1>3

LEMMA RoomStep ==
  ASSUME CostBounded, IndInv, InFlightBounded, CappedFree, FutureFree, Room, [Next]_vars
  PROVE  Room'
<1> USE DEF IndInv
<1> DEFINE M == Max(Charge)
           Open(d) == Cardinality(MayChargeTo(d))
<1>0. M \in Nat /\ (\A cost \in Charge : cost <= M) /\ Cap \in Nat /\ MaxInFlight \in Nat
  BY GreatestCharge, GatewayAssumption
<1> HIDE DEF M
<1> SUFFICES ASSUME NEW d \in Day, Cap > 0, runs'[d].cost >= Cap
             PROVE  runs'[d].cost + Open(d)' * M < Cap + MaxInFlight * M
  BY DEF Room, M
<1>1. /\ Open(d) \in Nat /\ Open(d)' \in Nat /\ Open(d) <= MaxInFlight
      /\ IsFiniteSet(MayChargeTo(d))
  <2>1. MayChargeTo(d) \in SUBSET InFlight /\ MayChargeTo(d)' \in SUBSET InFlight'
    BY DEF MayChargeTo
  <2>2. /\ IsFiniteSet(InFlight) /\ Cardinality(InFlight) <= MaxInFlight
        /\ IsFiniteSet(InFlight') /\ Cardinality(InFlight') <= MaxInFlight
    BY InFlightStep DEF InFlightBounded
  <2>3. QED
    BY <2>1, <2>2, FewOpen
<1>2. runs[d].cost \in Nat
  BY DEF TypeOK, Totals
<1>3. CASE runs'[d] = runs[d]
  <2>1. MayChargeTo(d)' \in SUBSET MayChargeTo(d)
    BY <1>3, NobodyJoins
  <2>2. Open(d)' <= Open(d)
    BY <1>1, <2>1, FS_Subset
  <2>3. runs[d].cost + Open(d) * M < Cap + MaxInFlight * M
    BY <1>3 DEF Room, M
  <2> HIDE DEF Open
  <2>4. Open(d)' * M <= Open(d) * M /\ Open(d)' * M \in Nat /\ Open(d) * M \in Nat
    BY <1>0, <1>1, <2>2, Fewer
  <2>5. MaxInFlight * M \in Nat
    BY <1>0
  <2>6. runs'[d].cost = runs[d].cost
    BY <1>3
  <2>7. QED
    BY <1>0, <1>2, <2>3, <2>4, <2>5, <2>6
<1>4. ASSUME NEW r \in Request, Commit(r), runs'[d] # runs[d]
      PROVE  runs'[d].cost + Open(d)' * M < Cap + MaxInFlight * M
  <2>1. d = tx[r].day /\ runs'[d].cost = runs[d].cost + call[r].cost
    BY <1>4, CommitAdds
  <2>2. call[r].cost \in Nat /\ call[r].cost <= M
    BY <1>0, CallType
  <2>3. MaxInFlight * M \in Nat
    BY <1>0
  <2>4. r \in InFlight /\ r \notin MayChargeTo(d)'
    BY <1>4 DEF Commit, Answer, Goto, InFlight, MayChargeTo, TypeOK
  <2>5. /\ call'= call /\ day' = day
        /\ \A q \in Request \ {r} : pc'[q] = pc[q] /\ tx'[q] = tx[q]
    BY <1>4 DEF Commit, Answer, Goto, TypeOK
  <2>6. MayChargeTo(d)' \in SUBSET (MayChargeTo(d) \ {r})
    BY <2>4, <2>5 DEF MayChargeTo, InFlight
  <2>7. CASE call[r].error = "cost_capped"
    <3>1. call[r].cost = 0
      BY <2>7 DEF CappedFree
    <3>2. runs'[d].cost = runs[d].cost
      BY <1>2, <2>1, <3>1
    <3>3. runs[d].cost + Open(d) * M < Cap + MaxInFlight * M
      BY <3>2 DEF Room, M
    <3>4. MayChargeTo(d)' \in SUBSET MayChargeTo(d)
      BY <2>6
    <3>5. Open(d)' <= Open(d)
      BY <1>1, <3>4, FS_Subset
    <3> HIDE DEF Open
    <3>6. Open(d)' * M <= Open(d) * M /\ Open(d)' * M \in Nat /\ Open(d) * M \in Nat
      BY <1>0, <1>1, <3>5, Fewer
    <3>7. QED
      BY <1>0, <1>2, <2>3, <3>2, <3>3, <3>6
  <2>8. CASE call[r].error # "cost_capped"
    <3>1. r \in MayChargeTo(d)
      BY <1>4, <2>1, <2>4, <2>8 DEF MayChargeTo, Commit
    <3>2. /\ IsFiniteSet(MayChargeTo(d) \ {r})
          /\ Cardinality(MayChargeTo(d) \ {r}) = Open(d) - 1
      BY <1>1, <3>1, FS_RemoveElement
    <3>3. Open(d)' <= Open(d) - 1
      BY <2>6, <3>2, FS_Subset
    <3> HIDE DEF Open
    <3>4. /\ Open(d)' * M + M <= Open(d) * M
          /\ Open(d)' * M + M <= MaxInFlight * M
      BY <1>0, <1>1, <3>3, TakesItsRoom
    <3>5. Open(d)' * M \in Nat /\ Open(d) * M \in Nat
      BY <1>0, <1>1
    <3>6. CASE runs[d].cost >= Cap
      <4>1. runs[d].cost + Open(d) * M < Cap + MaxInFlight * M
        BY <3>6 DEF Room, M, Open
      <4>2. QED
        BY <1>0, <1>2, <2>1, <2>2, <2>3, <3>4, <3>5, <4>1
    <3>7. CASE runs[d].cost < Cap
      BY <1>0, <1>2, <2>1, <2>2, <2>3, <3>4, <3>5, <3>7
    <3>8. QED
      BY <1>0, <1>2, <3>6, <3>7
  <2>9. QED
    BY <2>7, <2>8
<1>5. runs' = runs \/ \E r \in Request : Commit(r)
  BY OnlyCommitWrites DEF database
<1>6. QED
  BY <1>3, <1>4, <1>5

\* The cap is overshot by less than one charge for each request that may be
\* in flight, whatever their number, the cap, and the moments at which they
\* read the spend, call the provider, commit, fail or die; also across
\* midnight, when the requests of one day may charge the next.
THEOREM SpendBounded ==
  ASSUME CostBounded
  PROVE  Spec => []SpendBound
<1> DEFINE SpendInv == InFlightBounded /\ CappedFree /\ FutureFree /\ Room
<1>0. Max(Charge) \in Nat /\ Cap \in Nat /\ MaxInFlight \in Nat
  BY GreatestCharge, GatewayAssumption
<1>1. Init => SpendInv
  <2> SUFFICES ASSUME Init PROVE SpendInv
    OBVIOUS
  <2>1. InFlight = {}
    BY DEF Init, InFlight
  <2>2. InFlightBounded
    BY <1>0, <2>1, FS_EmptySet DEF InFlightBounded
  <2>3. CappedFree /\ FutureFree
    BY GatewayAssumption DEF Init, CappedFree, FutureFree, NoCall, NoTx, Zero
  <2>4. Room
    BY <1>0 DEF Init, Room, Zero
  <2>5. QED
    BY <2>2, <2>3, <2>4
<1>2. IndInv /\ SpendInv /\ [Next]_vars => SpendInv'
  BY InFlightStep, CappedFreeStep, FutureFreeStep, RoomStep
<1>3. IndInv /\ SpendInv => SpendBound
  <2> SUFFICES ASSUME IndInv, SpendInv, Cap > 0, NEW d \in Day
               PROVE  runs[d].cost < Cap + MaxInFlight * Max(Charge)
    BY DEF SpendBound
  <2>1. runs[d].cost \in Nat
    BY DEF IndInv, TypeOK, Totals
  <2>2. Cardinality(MayChargeTo(d)) \in Nat
    <3>1. MayChargeTo(d) \in SUBSET InFlight
      BY DEF MayChargeTo
    <3>2. QED
      BY <3>1, FewOpen DEF InFlightBounded
  <2>3. /\ MaxInFlight * Max(Charge) \in Nat
        /\ Cardinality(MayChargeTo(d)) * Max(Charge) \in Nat
    BY <1>0, <2>2
  <2>4. QED
    BY <1>0, <2>1, <2>3 DEF Room
<1> HIDE DEF SpendInv
<1>4. QED
  BY <1>1, <1>2, <1>3, Invariance, PTL DEF Spec
-----------------------------------------------------------------------------
\* The totals are those of the rows.
Counts(totals, rows) ==
  /\ totals.rows = Cardinality(rows)
  /\ totals.pass = Cardinality({row \in rows : row.passed})
  /\ totals.fail = Cardinality({row \in rows : ~row.passed})
  /\ totals.cost = CostOf(rows)

RowsOfDay(d) == {row \in run_rows : row.day = d}
RowsOfTrial(d, p) == {row \in run_rows : row.day = d /\ row.provider = p}

CountersAgree ==
  \A d \in Day :
    /\ Counts(runs[d], RowsOfDay(d))
    /\ \A p \in Provider : Counts(trials[<<d, p>>], RowsOfTrial(d, p))

\* With their types, that is the property the runs check.
LEMMA CountsIsTotals ==
  ASSUME NEW totals \in Totals, NEW rows, Counts(totals, rows)
  PROVE  totals = TotalsOf(rows)
<1>1. totals = [rows |-> totals.rows, pass |-> totals.pass,
                fail |-> totals.fail, cost |-> totals.cost]
  BY DEF Totals
<1>2. QED
  BY <1>1 DEF Counts, TotalsOf

LEMMA AggregatesAreCounters ==
  ASSUME TypeOK, CountersAgree
  PROVE  AggregatesAgree
<1>1. ASSUME NEW d \in Day PROVE runs[d] = TotalsOf(RowsOfDay(d))
  BY CountsIsTotals DEF CountersAgree, TypeOK
<1>2. ASSUME NEW d \in Day, NEW p \in Provider
      PROVE  trials[<<d, p>>] = TotalsOf(RowsOfTrial(d, p))
  BY CountsIsTotals DEF CountersAgree, TypeOK
<1>3. QED
  BY <1>1, <1>2 DEF AggregatesAgree, RowsOfDay, RowsOfTrial

\* The cost of one more row is added.
LEMMA AddCost ==
  ASSUME NEW rows, IsFiniteSet(rows), NEW row, row \notin rows,
         \A x \in rows \cup {row} : x.cost \in Nat
  PROVE  CostOf(rows \cup {row}) = CostOf(rows) + row.cost
<1> DEFINE v == [x \in rows |-> x.cost]
           w == [x \in rows \cup {row} |-> x.cost]
<1>1. \A x \in rows : v[x] = w[x]
  OBVIOUS
<1>2. w[row] = row.cost /\ \A x \in rows \cup {row} : w[x] \in Nat
  OBVIOUS
<1> HIDE DEF v, w
<1>3. SumOf(rows \cup {row}, w) = SumOf(rows, w) + w[row]
  BY <1>2, SumOfMore
<1>4. SumOf(rows, v) = SumOf(rows, w)
  BY <1>1, SumSame
<1>5. QED
  BY <1>2, <1>3, <1>4 DEF CostOf, v, w

\* One more row, one more in the totals.
LEMMA AddCounts ==
  ASSUME NEW rows, IsFiniteSet(rows), NEW row, row \notin rows, NEW o,
         o.passed \in BOOLEAN, row.passed = o.passed, row.cost = o.cost,
         \A x \in rows \cup {row} : x.cost \in Nat,
         NEW totals \in Totals, Counts(totals, rows)
  PROVE  Counts(Add(totals, o), rows \cup {row})
<1> DEFINE Pass(S) == {x \in S : x.passed}
           Fails(S) == {x \in S : ~x.passed}
<1>1. Cardinality(rows \cup {row}) = Cardinality(rows) + 1
  BY FS_AddElement
<1>5. Add(totals, o).cost = CostOf(rows \cup {row})
  <2>1. Add(totals, o).cost = totals.cost + o.cost
    BY DEF Add, Totals
  <2>2. QED
    BY <2>1, AddCost DEF Counts
<1>2. IsFiniteSet(Pass(rows)) /\ IsFiniteSet(Fails(rows))
  <2>1. Pass(rows) \in SUBSET rows /\ Fails(rows) \in SUBSET rows
    OBVIOUS
  <2>2. QED
    BY <2>1, FS_Subset
<1>3. CASE o.passed
  <2>1. Pass(rows \cup {row}) = Pass(rows) \cup {row} /\ row \notin Pass(rows)
    BY <1>3
  <2>2. Fails(rows \cup {row}) = Fails(rows)
    BY <1>3
  <2>3. Cardinality(Pass(rows) \cup {row}) = Cardinality(Pass(rows)) + 1
    BY <1>2, <2>1, FS_AddElement
  <2> HIDE DEF Pass, Fails
  <2>4. /\ Add(totals, o).rows = totals.rows + 1
        /\ Add(totals, o).pass = totals.pass + 1
        /\ Add(totals, o).fail = totals.fail
    BY <1>3 DEF Add, Totals
  <2>5. QED
    BY <1>1, <1>5, <2>1, <2>2, <2>3, <2>4 DEF Counts, Pass, Fails
<1>4. CASE ~o.passed
  <2>1. Fails(rows \cup {row}) = Fails(rows) \cup {row} /\ row \notin Fails(rows)
    BY <1>4
  <2>2. Pass(rows \cup {row}) = Pass(rows)
    BY <1>4
  <2>3. Cardinality(Fails(rows) \cup {row}) = Cardinality(Fails(rows)) + 1
    BY <1>2, <2>1, FS_AddElement
  <2> HIDE DEF Pass, Fails
  <2>4. /\ Add(totals, o).rows = totals.rows + 1
        /\ Add(totals, o).pass = totals.pass
        /\ Add(totals, o).fail = totals.fail + 1
    BY <1>4 DEF Add, Totals
  <2>5. QED
    BY <1>1, <1>5, <2>1, <2>2, <2>3, <2>4 DEF Counts, Pass, Fails
<1>6. QED
  BY <1>3, <1>4

LEMMA CountersStep ==
  ASSUME IndInv, IsFiniteSet(run_rows), CountersAgree, [Next]_vars
  PROVE  IsFiniteSet(run_rows)' /\ CountersAgree'
<1> USE DEF IndInv
<1>1. CASE UNCHANGED database
  BY <1>1 DEF database, CountersAgree, Counts, CostOf, RowsOfDay, RowsOfTrial
<1>2. ASSUME NEW r \in Request, Commit(r)
      PROVE  IsFiniteSet(run_rows)' /\ CountersAgree'
  <2> DEFINE e == tx[r].day
             row == RowOf(r)
  <2>1. /\ run_rows' = run_rows \cup {row}
        /\ row.day = e /\ row.provider = call[r].provider
        /\ row.passed = call[r].passed /\ call[r].passed \in BOOLEAN
        /\ row.cost = call[r].cost
    BY <1>2, CallType DEF Commit, RowOf
  <2>9. \A x \in run_rows \cup {row} : x.cost \in Nat
    <3>1. call[r].cost \in Nat
      BY CallType, ChargeType
    <3>2. \A x \in run_rows : x.cost \in Nat
      BY ChargeType DEF TypeOK
    <3>3. QED
      BY <2>1, <3>1, <3>2
  <2>2. row \notin run_rows
    BY <1>2 DEF RowsAreAnswered, Commit, RowOf
  <2>3. IsFiniteSet(run_rows')
    BY <2>1, FS_AddElement
  <2>4. /\ e \in Day /\ call[r].provider \in Provider
        /\ runs' = [runs EXCEPT ![e] = Add(runs[e], call[r])]
        /\ trials' = [trials EXCEPT ![<<e, call[r].provider>>] =
                                       Add(trials[<<e, call[r].provider>>], call[r])]
    BY <1>2, CallType DEF Commit, StagedFresh, HoldsRun, TrialOf
  <2> HIDE DEF e, row
  <2>5. ASSUME NEW d \in Day PROVE Counts(runs'[d], RowsOfDay(d)')
    <3>0. Counts(runs[d], RowsOfDay(d)) /\ runs[d] \in Totals
      BY DEF CountersAgree, TypeOK
    <3>1. CASE d = e
      <4>1. RowsOfDay(d) \in SUBSET run_rows /\ row \notin RowsOfDay(d)
        BY <2>2 DEF RowsOfDay
      <4>2. IsFiniteSet(RowsOfDay(d))
        BY <4>1, FS_Subset
      <4>3. RowsOfDay(d)' = RowsOfDay(d) \cup {row}
        BY <2>1, <3>1 DEF RowsOfDay
      <4>4. runs'[d] = Add(runs[d], call[r])
        BY <2>4, <3>1 DEF TypeOK
      <4>5. QED
        BY <2>1, <2>9, <3>0, <4>1, <4>2, <4>3, <4>4, AddCounts
    <3>2. CASE d # e
      <4>1. RowsOfDay(d)' = RowsOfDay(d) /\ runs'[d] = runs[d]
        BY <2>1, <2>4, <3>2 DEF RowsOfDay, TypeOK
      <4>2. QED
        BY <3>0, <4>1
    <3>3. QED
      BY <3>1, <3>2
  <2>6. ASSUME NEW d \in Day, NEW p \in Provider
        PROVE  Counts(trials'[<<d, p>>], RowsOfTrial(d, p)')
    <3>0. Counts(trials[<<d, p>>], RowsOfTrial(d, p)) /\ trials[<<d, p>>] \in Totals
      BY DEF CountersAgree, TypeOK
    <3>1. CASE d = e /\ p = call[r].provider
      <4>1. RowsOfTrial(d, p) \in SUBSET run_rows /\ row \notin RowsOfTrial(d, p)
        BY <2>2 DEF RowsOfTrial
      <4>2. IsFiniteSet(RowsOfTrial(d, p))
        BY <4>1, FS_Subset
      <4>3. RowsOfTrial(d, p)' = RowsOfTrial(d, p) \cup {row}
        BY <2>1, <3>1 DEF RowsOfTrial
      <4>4. trials'[<<d, p>>] = Add(trials[<<d, p>>], call[r])
        BY <2>4, <3>1 DEF TypeOK
      <4>5. QED
        BY <2>1, <2>9, <3>0, <4>1, <4>2, <4>3, <4>4, AddCounts
    <3>2. CASE ~(d = e /\ p = call[r].provider)
      <4>1. RowsOfTrial(d, p)' = RowsOfTrial(d, p) /\ trials'[<<d, p>>] = trials[<<d, p>>]
        BY <2>1, <2>4, <3>2 DEF RowsOfTrial, TypeOK
      <4>2. QED
        BY <3>0, <4>1
    <3>3. QED
      BY <3>1, <3>2
  <2>7. CountersAgree'
    BY <2>5, <2>6 DEF CountersAgree, Counts, CostOf
  <2>8. QED
    BY <2>3, <2>7
<1>3. QED
  BY <1>1, <1>2, OnlyCommitWrites

\* AggregatesAgree: the totals of every live run and of each of its trials,
\* their cost included, are those of the rows under them: "we never end up
\* with a row whose aggregate counters disagree".  No commit overwrites the
\* totals of another, however many of them race.
THEOREM AggregatesTrue == Spec => []AggregatesAgree
<1>1. Init => IsFiniteSet(run_rows) /\ CountersAgree
  <2> SUFFICES ASSUME Init PROVE IsFiniteSet(run_rows) /\ CountersAgree
    OBVIOUS
  <2>1. run_rows = {}
    BY DEF Init
  <2>2. Counts(Zero, {})
    BY FS_EmptySet, SumOfNone DEF Counts, Zero, CostOf
  <2>3. /\ \A d \in Day : RowsOfDay(d) = {} /\ runs[d] = Zero
        /\ \A d \in Day, p \in Provider : RowsOfTrial(d, p) = {} /\ trials[<<d, p>>] = Zero
    BY DEF Init, RowsOfDay, RowsOfTrial
  <2>4. QED
    BY <2>1, <2>2, <2>3, FS_EmptySet DEF CountersAgree
<1>2. IndInv /\ IsFiniteSet(run_rows) /\ CountersAgree /\ [Next]_vars
        => IsFiniteSet(run_rows)' /\ CountersAgree'
  BY CountersStep
<1>3. IndInv /\ CountersAgree => AggregatesAgree
  BY AggregatesAreCounters DEF IndInv
<1>4. QED
  BY <1>1, <1>2, <1>3, Invariance, PTL DEF Spec
-----------------------------------------------------------------------------
\* Where every evaluator keeps to its contract, a broken one is a failed score
\* and nothing else: evaluation ends in phase 3, or with the worker.  (The run
\* with an evaluator that breaks it shows what the try does not cover.)
THEOREM BrokenIsAScore ==
  ASSUME EvaluatorEscapes = FALSE
  PROVE  Spec => BrokenEvaluatorIsAScore
<1> DEFINE Scored ==
      \A r \in Request :
        pc[r] = "evaluating" /\ pc'[r] = "answered" => status'[r] = "dropped"
<1>1. IndInv /\ [Next]_vars => [Scored]_vars
  <2> SUFFICES ASSUME IndInv, [Next]_vars, NEW q \in Request,
                      pc[q] = "evaluating", pc'[q] = "answered"
               PROVE  status'[q] = "dropped"
    OBVIOUS
  <2> USE DEF IndInv
  <2>1. ASSUME NEW r \in Request, Resolve(r) \/ CallProvider(r) \/ Fail(r) \/ Commit(r)
        PROVE  FALSE
    <3>1. pc[r] # "evaluating" /\ \A o \in Request \ {r} : pc'[o] = pc[o]
      BY <2>1 DEF Resolve, CallProvider, Fail, Commit, Transaction, Goto, Answer, TypeOK
    <3>2. QED
      BY <3>1
  <2>2. ASSUME NEW r \in Request,
               SelectRun(r) \/ InsertRun(r) \/ SelectTrial(r) \/ InsertTrial(r)
                 \/ Record(r) \/ ReadTip(r) \/ InsertEvent(r)
        PROVE  FALSE
    BY <2>2 DEF SelectRun, InsertRun, SelectTrial, InsertTrial, Record, ReadTip, InsertEvent,
       Goto, TypeOK
  <2>3. ASSUME NEW r \in Request, Evaluate(r) PROVE FALSE
    BY <2>3 DEF Evaluate, Goto, TypeOK
  <2>4. ASSUME NEW w \in Worker, Crash(w) PROVE status'[q] = "dropped"
    BY <2>4 DEF Crash
  <2>5. ASSUME Midnight \/ AllAnswered \/ UNCHANGED vars PROVE FALSE
    BY <2>5 DEF Midnight, AllAnswered, vars, request
  <2>6. QED
    BY <2>1, <2>2, <2>3, <2>4, <2>5 DEF Next, Proceed
<1>2. QED
  BY <1>1, Invariance, PTL DEF Spec, BrokenEvaluatorIsAScore
=============================================================================
