--------------------------- MODULE LocalRunProofs ---------------------------
(***************************************************************************)
(* Theorems on LocalRun, for any number of providers, rows and layers, any *)
(* concurrency, cap, retry policy and gates.                               *)
(***************************************************************************)
EXTENDS LocalRun, SumsProofs

LEMMA Numbers ==
  /\ NTrials \in Nat \ {0} /\ NRows \in Nat \ {0} /\ NLayers \in Nat \ {0}
  /\ Concurrency \in Nat \ {0} /\ Cap \in Nat /\ MaxRetries \in Nat
  /\ CallCost \subseteq Nat /\ FailCost \subseteq Nat
BY RunAssumption

-----------------------------------------------------------------------------
(* Types *)

State == {"waiting", "calling", "backoff", "evaluating", "done"}

Coroutines ==
  [at : State, attempt : 0..MaxRetries, spent : Nat, layer : Layer,
   scored : SUBSET Layer, failed : SUBSET Layer, cost : Nat,
   passed : BOOLEAN, attempted : BOOLEAN]

\* What can be said of a coroutine by itself: a row that waits is as it was
\* made, one that backs off has an attempt left, one that is not done is not
\* counted yet, and what failed it scored it.
Sound(c) ==
  /\ c \in Coroutines
  /\ c.at = "waiting" => c = Fresh
  /\ c.at = "backoff" => c.attempt < MaxRetries
  /\ c.at # "done" => ~c.attempted
  /\ ~c.attempted => ~c.passed
  /\ c.failed \subseteq c.scored

\* The coroutines, the phase and the exit code go together.
Turns ==
  /\ row \in [Row -> Coroutines]
  /\ \A r \in Row : Sound(row[r])
  /\ phase \in {"trials", "rows", "unwinding", "ended"}
  /\ exit \in {"none", "pass", "gate_fail", "infra_error"}
  /\ trial \in 1..NTrials + 1
  /\ Executing => trial <= NTrials
  /\ phase = "trials" => \A r \in Row : row[r].at \in {"waiting", "done"}
  /\ phase = "ended" <=> exit # "none"
  /\ aborted \in BOOLEAN /\ capped \in BOOLEAN

LEMMA FreshSound == Sound(Fresh) /\ Fresh.at = "waiting" /\ ~Fresh.attempted
BY Numbers DEF Sound, Fresh, Coroutines, State, Layer

\* What a step of row r does to the coroutines.
Moves(r, c) ==
  /\ row' \in [Row -> Coroutines]
  /\ \A q \in Row : Sound(row'[q])
  /\ \A q \in Row \ {r} : row'[q] = row[q]
  /\ row'[r] = c

LEMMA OneRowMoves ==
  ASSUME Turns, NEW r \in Row, NEW c, Sound(c), row' = [row EXCEPT ![r] = c]
  PROVE  Moves(r, c)
BY DEF Turns, Sound, Moves

BeginsAs(r) ==
  [row[r] EXCEPT !.at = IF aborted \/ AtCap(total) THEN "done"
                        ELSE IF CacheHit(r) THEN "evaluating" ELSE "calling"]

LEMMA BeginMoves ==
  ASSUME Turns, NEW r \in Row, Begin(r)
  PROVE  row[r] = Fresh /\ Moves(r, BeginsAs(r))
<1>1. row[r] = Fresh
  BY DEF Begin, MayBegin, Turns, Sound
<1>2. row' = [row EXCEPT ![r] = BeginsAs(r)]
  BY DEF Begin, BeginsAs, Turns, Sound
<1>3. BeginsAs(r) \in Coroutines
  BY <1>1, FreshSound DEF BeginsAs, Sound, Coroutines, State
<1>4. /\ BeginsAs(r).at \in {"done", "evaluating", "calling"}
      /\ ~BeginsAs(r).attempted /\ ~BeginsAs(r).passed
      /\ BeginsAs(r).failed = {}
  BY <1>1 DEF BeginsAs, Fresh
<1>5. Sound(BeginsAs(r))
  BY <1>3, <1>4 DEF Sound
<1>6. QED
  BY <1>1, <1>2, <1>5, OneRowMoves

AnswersAs(r, cost) == [row[r] EXCEPT !.at = "evaluating", !.cost = cost]

LEMMA AnswerMoves ==
  ASSUME Turns, NEW r \in Row, Answer(r)
  PROVE  /\ row[r].at = "calling"
         /\ \E cost \in CallCost :
              /\ cost \in Nat
              /\ Moves(r, AnswersAs(r, cost))
              /\ total' = total + cost
              /\ billed' = billed + cost
<1>1. PICK cost \in CallCost :
        /\ row' = [row EXCEPT ![r].at = "evaluating", ![r].cost = cost]
        /\ total' = total + cost
        /\ billed' = billed + cost
  BY DEF Answer
<1>2. row[r] \in Coroutines /\ Sound(row[r]) /\ row[r].at = "calling" /\ cost \in Nat
  BY Numbers DEF Answer, Turns
<1>3. row' = [row EXCEPT ![r] = AnswersAs(r, cost)]
  BY <1>1, <1>2 DEF AnswersAs, Turns
<1>4. AnswersAs(r, cost) \in Coroutines
  BY <1>2 DEF AnswersAs, Coroutines, State
<1>5. Sound(AnswersAs(r, cost))
  BY <1>2, <1>4 DEF AnswersAs, Sound, Coroutines
<1>6. QED
  BY <1>1, <1>2, <1>3, <1>5, OneRowMoves

RetriesAs(r, cost) == [row[r] EXCEPT !.at = "backoff", !.spent = row[r].spent + cost]

LEMMA RetryMoves ==
  ASSUME Turns, NEW r \in Row, Retry(r)
  PROVE  /\ row[r].at = "calling"
         /\ \E cost \in FailCost :
              /\ cost \in Nat
              /\ Moves(r, RetriesAs(r, cost))
              /\ billed' = billed + cost
<1>1. PICK cost \in FailCost :
        /\ row' = [row EXCEPT ![r].at = "backoff", ![r].spent = @ + cost]
        /\ billed' = billed + cost
  BY DEF Retry
<1>2. /\ row[r] \in Coroutines /\ Sound(row[r]) /\ row[r].at = "calling" /\ cost \in Nat
      /\ row[r].attempt < MaxRetries
  BY Numbers DEF Retry, AttemptsLeft, Turns
<1>3. row' = [row EXCEPT ![r] = RetriesAs(r, cost)]
  BY <1>1, <1>2 DEF RetriesAs, Turns
<1>4. RetriesAs(r, cost) \in Coroutines
  <2>1. row[r].spent + cost \in Nat
    BY <1>2 DEF Coroutines
  <2>2. QED
    BY <1>2, <2>1 DEF RetriesAs, Coroutines, State
<1>5. Sound(RetriesAs(r, cost))
  BY <1>2, <1>4 DEF RetriesAs, Sound, Coroutines
<1>6. QED
  BY <1>1, <1>2, <1>3, <1>5, OneRowMoves

GivesUpAs(r, cost) ==
  [row[r] EXCEPT !.at = "done", !.spent = row[r].spent + cost, !.attempted = TRUE]

LEMMA GiveUpMoves ==
  ASSUME Turns, NEW r \in Row, GiveUp(r)
  PROVE  /\ row[r].at = "calling"
         /\ \E cost \in FailCost :
              /\ cost \in Nat
              /\ Moves(r, GivesUpAs(r, cost))
              /\ Credit(row[r].spent + cost)
              /\ aborted' = (aborted \/ fail_fast \/ (row[r].spent + cost > 0 /\ AtCap(total')))
              /\ billed' = billed + cost
<1>1. PICK cost \in FailCost :
        /\ row' = [row EXCEPT ![r].at = "done", ![r].spent = row[r].spent + cost,
                              ![r].attempted = TRUE]
        /\ Credit(row[r].spent + cost)
        /\ aborted' = (aborted \/ fail_fast \/ (row[r].spent + cost > 0 /\ AtCap(total')))
        /\ billed' = billed + cost
  BY DEF GiveUp
<1>2. row[r] \in Coroutines /\ Sound(row[r]) /\ row[r].at = "calling" /\ cost \in Nat
  BY Numbers DEF GiveUp, Turns
<1>3. row' = [row EXCEPT ![r] = GivesUpAs(r, cost)]
  BY <1>1, <1>2 DEF GivesUpAs, Turns
<1>4. GivesUpAs(r, cost) \in Coroutines
  <2>1. row[r].spent + cost \in Nat
    BY <1>2 DEF Coroutines
  <2>2. QED
    BY <1>2, <2>1 DEF GivesUpAs, Coroutines, State
<1>5. Sound(GivesUpAs(r, cost))
  BY <1>2, <1>4 DEF GivesUpAs, Sound, Coroutines
<1>6. QED
  BY <1>1, <1>2, <1>3, <1>5, OneRowMoves

StopsAs(r) == [row[r] EXCEPT !.at = "done", !.cost = row[r].spent]
TriesAgainAs(r) == [row[r] EXCEPT !.at = "calling", !.attempt = row[r].attempt + 1]

LEMMA WakeMoves ==
  ASSUME Turns, NEW r \in Row, Wake(r)
  PROVE  /\ row[r].at = "backoff"
         /\ aborted => Moves(r, StopsAs(r)) /\ Credit(row[r].spent)
         /\ ~aborted => Moves(r, TriesAgainAs(r)) /\ UNCHANGED <<total, capped>>
<1>1. /\ row[r] \in Coroutines /\ Sound(row[r]) /\ row[r].at = "backoff"
      /\ row[r].attempt < MaxRetries /\ MaxRetries \in Nat
  BY Numbers DEF Wake, Turns, Sound
<1>2. ASSUME aborted PROVE Moves(r, StopsAs(r)) /\ Credit(row[r].spent)
  <2>1. row' = [row EXCEPT ![r] = StopsAs(r)] /\ Credit(row[r].spent)
    BY <1>1, <1>2 DEF Wake, StopsAs, Turns
  <2>2. StopsAs(r) \in Coroutines
    BY <1>1 DEF StopsAs, Coroutines, State
  <2>3. Sound(StopsAs(r))
    BY <1>1, <2>2 DEF StopsAs, Sound, Coroutines
  <2>4. QED
    BY <2>1, <2>3, OneRowMoves
<1>3. ASSUME ~aborted PROVE Moves(r, TriesAgainAs(r)) /\ UNCHANGED <<total, capped>>
  <2>1. row' = [row EXCEPT ![r] = TriesAgainAs(r)] /\ UNCHANGED <<total, capped>>
    BY <1>1, <1>3 DEF Wake, TriesAgainAs, Turns
  <2>2. TriesAgainAs(r) \in Coroutines
    <3>1. row[r].attempt + 1 \in 0..MaxRetries
      BY <1>1 DEF Coroutines
    <3>2. QED
      BY <1>1, <3>1 DEF TriesAgainAs, Coroutines, State
  <2>3. Sound(TriesAgainAs(r))
    BY <1>1, <2>2 DEF TriesAgainAs, Sound, Coroutines
  <2>4. QED
    BY <2>1, <2>3, OneRowMoves
<1>4. QED
  BY <1>1, <1>2, <1>3

RaisesAs(r) == [row[r] EXCEPT !.at = "done"]

LEMMA RaiseMoves ==
  ASSUME Turns, NEW r \in Row, Raise(r)
  PROVE  row[r].at # "done" /\ Moves(r, RaisesAs(r))
<1>1. row[r] \in Coroutines /\ Sound(row[r]) /\ row[r].at # "done"
  BY DEF Raise, Turns, Holders, MayBegin
<1>2. row' = [row EXCEPT ![r] = RaisesAs(r)]
  BY DEF Raise, RaisesAs, Turns
<1>3. RaisesAs(r) \in Coroutines
  BY <1>1 DEF RaisesAs, Coroutines, State
<1>4. Sound(RaisesAs(r))
  BY <1>1, <1>3 DEF RaisesAs, Sound, Coroutines
<1>5. QED
  BY <1>1, <1>2, <1>4, OneRowMoves

Scores(r, outcome) ==
  IF outcome = "none" THEN row[r].scored ELSE row[r].scored \cup {row[r].layer}
Fails(r, outcome) ==
  IF outcome = "fail" THEN row[r].failed \cup {row[r].layer} ELSE row[r].failed
Shorts(r, outcome) == outcome = "fail" /\ ShortCircuits(row[r].layer)
Finishes(r, outcome) == Shorts(r, outcome) \/ row[r].layer = NLayers

EvaluatesAs(r, outcome) ==
  [row[r] EXCEPT !.scored = Scores(r, outcome),
                 !.failed = Fails(r, outcome),
                 !.layer = IF Finishes(r, outcome) THEN row[r].layer ELSE row[r].layer + 1,
                 !.at = IF Finishes(r, outcome) THEN "done" ELSE "evaluating",
                 !.passed = Fails(r, outcome) = {} /\ row[r].layer = NLayers,
                 !.attempted = Finishes(r, outcome)]

LEMMA EvaluateMoves ==
  ASSUME Turns, NEW r \in Row, Evaluate(r)
  PROVE  /\ row[r].at = "evaluating"
         /\ \E outcome \in Outcome :
              /\ Moves(r, EvaluatesAs(r, outcome))
              /\ Finishes(r, outcome) =>
                   /\ stored' = stored \cup
                        {StoredRow(r, TRUE, Scores(r, outcome), Fails(r, outcome))}
                   /\ aborted' = (aborted \/ (fail_fast /\ Fails(r, outcome) # {}))
              /\ ~Finishes(r, outcome) => UNCHANGED <<stored, aborted>>
              /\ events' = IF Shorts(r, outcome)
                             THEN events \cup {Event(r, "row.short_circuited")} ELSE events
              /\ Scores(r, outcome) \in SUBSET Layer
              /\ Fails(r, outcome) \in SUBSET Scores(r, outcome)
              /\ Shorts(r, outcome) => Fails(r, outcome) # {}
              /\ Shorts(r, outcome) => Finishes(r, outcome)
<1>1. PICK outcome \in Outcome :
        /\ row' = [row EXCEPT ![r].scored = Scores(r, outcome), ![r].failed = Fails(r, outcome),
             ![r].layer = IF Finishes(r, outcome) THEN row[r].layer ELSE row[r].layer + 1,
             ![r].at = IF Finishes(r, outcome) THEN "done" ELSE "evaluating",
             ![r].passed = Fails(r, outcome) = {} /\ row[r].layer = NLayers,
             ![r].attempted = Finishes(r, outcome)]
        /\ IF Finishes(r, outcome)
             THEN /\ stored' = stored \cup
                       {StoredRow(r, TRUE, Scores(r, outcome), Fails(r, outcome))}
                  /\ aborted' = (aborted \/ (fail_fast /\ Fails(r, outcome) # {}))
             ELSE UNCHANGED <<stored, aborted>>
        /\ events' = IF Shorts(r, outcome)
                       THEN events \cup {Event(r, "row.short_circuited")} ELSE events
  BY DEF Evaluate, Scores, Fails, Shorts, Finishes
<1>2. row[r] \in Coroutines /\ Sound(row[r]) /\ row[r].at = "evaluating"
  BY DEF Evaluate, Turns
<1>3. row' = [row EXCEPT ![r] = EvaluatesAs(r, outcome)]
  BY <1>1, <1>2 DEF EvaluatesAs, Turns
<1>4. /\ Scores(r, outcome) \in SUBSET Layer
      /\ Fails(r, outcome) \in SUBSET Scores(r, outcome)
      /\ Finishes(r, outcome) \in BOOLEAN
      /\ ~Finishes(r, outcome) => row[r].layer # NLayers
      /\ Shorts(r, outcome) => Fails(r, outcome) # {}
      /\ Shorts(r, outcome) => Finishes(r, outcome)
  BY <1>2 DEF Scores, Fails, Shorts, Finishes, Sound, Coroutines
<1>5. ~Finishes(r, outcome) => row[r].layer + 1 \in Layer
  BY <1>2, <1>4, Numbers DEF Coroutines, Layer
<1>6. EvaluatesAs(r, outcome) \in Coroutines
  <2>1. CASE Finishes(r, outcome)
    BY <1>2, <1>4, <2>1 DEF EvaluatesAs, Coroutines, State
  <2>2. CASE ~Finishes(r, outcome)
    BY <1>2, <1>4, <1>5, <2>2 DEF EvaluatesAs, Coroutines, State
  <2>3. QED
    BY <2>1, <2>2
<1>7. /\ EvaluatesAs(r, outcome).at = IF Finishes(r, outcome) THEN "done" ELSE "evaluating"
      /\ EvaluatesAs(r, outcome).attempted = Finishes(r, outcome)
      /\ EvaluatesAs(r, outcome).passed = (Fails(r, outcome) = {} /\ row[r].layer = NLayers)
      /\ EvaluatesAs(r, outcome).failed = Fails(r, outcome)
      /\ EvaluatesAs(r, outcome).scored = Scores(r, outcome)
  BY <1>2 DEF EvaluatesAs, Coroutines
<1>8. Sound(EvaluatesAs(r, outcome))
  BY <1>4, <1>6, <1>7 DEF Sound, Finishes
<1>9. QED
  BY <1>1, <1>2, <1>3, <1>4, <1>8, OneRowMoves

LEMMA TurnsInit == Init => Turns
<1> SUFFICES ASSUME Init PROVE Turns
  OBVIOUS
<1>1. row = [r \in Row |-> Fresh]
  BY DEF Init
<1>2. /\ row \in [Row -> Coroutines]
      /\ \A r \in Row : Sound(row[r]) /\ row[r].at = "waiting"
  BY <1>1, FreshSound DEF Sound
<1>3. trial \in 1..NTrials + 1
  BY Numbers DEF Init
<1>4. phase = "trials" /\ exit = "none" /\ aborted = FALSE /\ capped = FALSE
  BY DEF Init
<1>5. QED
  BY <1>2, <1>3, <1>4 DEF Turns, Executing

\* A state that no row's step makes: an action of execute or of run.
LEMMA TurnsStep ==
  ASSUME Turns, [Next]_vars
  PROVE  Turns'
<1> DEFINE others == <<phase, exit, trial>>
<1>1. CASE UNCHANGED vars
  BY <1>1 DEF vars, Turns, Executing
<1>2. CASE BeginTrial
  <2>1. CASE capped
    BY <1>2, <2>1, Numbers DEF BeginTrial, Turns, Executing
  <2>2. CASE ~capped
    <3>1. row' = [r \in Row |-> Fresh]
      BY <1>2, <2>2 DEF BeginTrial
    <3>2. row' \in [Row -> Coroutines] /\ \A r \in Row : Sound(row'[r])
      BY <3>1, FreshSound DEF Sound
    <3>3. QED
      BY <1>2, <2>2, <3>2, Numbers DEF BeginTrial, Turns, Executing
  <2>3. QED
    BY <2>1, <2>2
<1>3. CASE EndTrial
  BY <1>3, Numbers DEF EndTrial, Turns, Executing
<1>4. CASE Unwind
  BY <1>4 DEF Unwind, Turns, Executing
<1>5. CASE Judge
  BY <1>5 DEF Judge, Turns, Executing, ExitCode
<1>6. ASSUME NEW r \in Row, CallStep(r) \/ Evaluate(r) \/ Raise(r)
      PROVE  Turns'
  <2>1. CASE Begin(r)
    <3>1. Moves(r, BeginsAs(r))
      BY <2>1, BeginMoves
    <3>2. UNCHANGED others /\ aborted' \in BOOLEAN /\ capped' \in BOOLEAN
      BY <2>1 DEF Begin, Turns
    <3>3. QED
      BY <2>1, <3>1, <3>2 DEF Moves, Turns, Executing, Begin
  <2>2. CASE Answer(r)
    <3>1. PICK c : Moves(r, c)
      BY <2>2, AnswerMoves
    <3>2. UNCHANGED others /\ aborted' \in BOOLEAN /\ capped' \in BOOLEAN
      BY <2>2 DEF Answer, Turns, AtCap
    <3>3. QED
      BY <2>2, <3>1, <3>2 DEF Moves, Turns, Executing, Answer
  <2>3. CASE Retry(r)
    <3>1. PICK c : Moves(r, c)
      BY <2>3, RetryMoves
    <3>2. UNCHANGED others /\ aborted' \in BOOLEAN /\ capped' \in BOOLEAN
      BY <2>3 DEF Retry, Turns
    <3>3. QED
      BY <2>3, <3>1, <3>2 DEF Moves, Turns, Executing, Retry
  <2>4. CASE GiveUp(r)
    <3>1. PICK c : Moves(r, c)
      BY <2>4, GiveUpMoves
    <3>2. UNCHANGED others /\ aborted' \in BOOLEAN /\ capped' \in BOOLEAN
      BY <2>4 DEF GiveUp, Turns, Credit
    <3>3. QED
      BY <2>4, <3>1, <3>2 DEF Moves, Turns, Executing, GiveUp
  <2>5. CASE Wake(r)
    <3>1. PICK c : Moves(r, c)
      BY <2>5, WakeMoves DEF Turns
    <3>2. UNCHANGED others /\ aborted' \in BOOLEAN /\ capped' \in BOOLEAN
      BY <2>5 DEF Wake, Turns, Credit
    <3>3. QED
      BY <2>5, <3>1, <3>2 DEF Moves, Turns, Executing, Wake
  <2>6. CASE Evaluate(r)
    <3>1. PICK c : Moves(r, c)
      BY <2>6, EvaluateMoves
    <3>2. UNCHANGED others /\ aborted' \in BOOLEAN /\ capped' \in BOOLEAN
      BY <2>6, EvaluateMoves DEF Evaluate, Turns
    <3>3. QED
      BY <2>6, <3>1, <3>2 DEF Moves, Turns, Executing, Evaluate
  <2>7. CASE Raise(r)
    <3>1. Moves(r, RaisesAs(r))
      BY <2>7, RaiseMoves
    <3>2. QED
      BY <2>7, <3>1 DEF Moves, Turns, Executing, Raise
  <2>8. QED
    BY <1>6, <2>1, <2>2, <2>3, <2>4, <2>5, <2>6, <2>7 DEF CallStep
<1>7. CASE Ended
  BY <1>1, <1>7 DEF Ended
<1>8. QED
  BY <1>1, <1>2, <1>3, <1>4, <1>5, <1>6, <1>7 DEF Next

-----------------------------------------------------------------------------
(* The cap is final *)

\* A run that is capped has aborted the trial it executes.
CapAborts == capped /\ Executing => aborted

LEMMA CapAbortsStep ==
  ASSUME Turns, CapAborts, [Next]_vars
  PROVE  CapAborts'
<1>1. CASE UNCHANGED vars
  BY <1>1 DEF vars, CapAborts, Executing
<1>2. CASE BeginTrial \/ EndTrial \/ Unwind \/ Judge
  BY <1>2 DEF BeginTrial, EndTrial, Unwind, Judge, CapAborts, Executing
<1>3. ASSUME NEW r \in Row, Begin(r) \/ Answer(r) \/ Retry(r) \/ Wake(r)
      PROVE  CapAborts'
  BY <1>3 DEF Begin, Answer, Retry, Wake, Credit, CapAborts, Executing
<1>4. ASSUME NEW r \in Row, GiveUp(r)
      PROVE  CapAborts'
  <2>1. PICK cost \in FailCost :
          /\ Credit(row[r].spent + cost)
          /\ aborted' = (aborted \/ fail_fast \/ (row[r].spent + cost > 0 /\ AtCap(total')))
    BY <1>4, GiveUpMoves
  <2>2. QED
    BY <1>4, <2>1 DEF GiveUp, Credit, CapAborts, Executing
<1>5. ASSUME NEW r \in Row, Evaluate(r)
      PROVE  CapAborts'
  BY <1>5, EvaluateMoves DEF Evaluate, CapAborts, Executing
<1>6. ASSUME NEW r \in Row, Raise(r)
      PROVE  CapAborts'
  BY <1>6 DEF Raise, CapAborts, Executing
<1>7. QED
  BY <1>1, <1>2, <1>3, <1>4, <1>5, <1>6 DEF Next, CallStep, Ended

\* What a capped run keeps its rows from.
Stays(r) == row[r].at \in {"waiting", "backoff"} => row'[r].at \notin {"calling", "evaluating"}

LEMMA CapIsFinalStep ==
  ASSUME Turns, CapAborts, Next, capped
  PROVE  \A r \in Row : Stays(r)
<1> SUFFICES ASSUME NEW q \in Row PROVE Stays(q)
  OBVIOUS
<1>1. CASE UNCHANGED row
  BY <1>1 DEF Stays
<1>2. CASE BeginTrial
  BY <1>2, <1>1 DEF BeginTrial
<1>3. ASSUME NEW r \in Row, NEW c, Moves(r, c), Stays(r)
      PROVE  Stays(q)
  BY <1>3 DEF Moves, Stays
<1>4. ASSUME NEW r \in Row, CallStep(r) \/ Evaluate(r) \/ Raise(r)
      PROVE  Stays(q)
  <2>1. CASE Begin(r)
    <3>1. aborted
      BY <2>1 DEF Begin, CapAborts
    <3>2. Moves(r, BeginsAs(r)) /\ row[r] = Fresh
      BY <2>1, BeginMoves
    <3>3. row'[r].at = "done"
      BY <3>1, <3>2 DEF Moves, BeginsAs, Fresh
    <3>4. QED
      BY <1>3, <3>2, <3>3 DEF Stays
  <2>2. CASE Answer(r)
    BY <1>3, <2>2, AnswerMoves DEF Stays
  <2>3. CASE Retry(r)
    BY <1>3, <2>3, RetryMoves DEF Stays
  <2>4. CASE GiveUp(r)
    BY <1>3, <2>4, GiveUpMoves DEF Stays
  <2>5. CASE Wake(r)
    <3>1. aborted
      BY <2>5 DEF Wake, CapAborts
    <3>2. Moves(r, StopsAs(r))
      BY <2>5, <3>1, WakeMoves
    <3>3. row'[r].at = "done"
      BY <3>2 DEF Moves, StopsAs, Turns, Coroutines
    <3>4. QED
      BY <1>3, <3>2, <3>3 DEF Stays
  <2>6. CASE Evaluate(r)
    BY <1>3, <2>6, EvaluateMoves DEF Stays
  <2>7. CASE Raise(r)
    <3>1. Moves(r, RaisesAs(r))
      BY <2>7, RaiseMoves
    <3>2. row'[r].at = "done"
      BY <3>1 DEF Moves, RaisesAs, Turns, Coroutines
    <3>3. QED
      BY <1>3, <3>1, <3>2 DEF Stays
  <2>8. QED
    BY <1>4, <2>1, <2>2, <2>3, <2>4, <2>5, <2>6, <2>7 DEF CallStep
<1>5. CASE Unwind \/ EndTrial \/ Judge \/ Ended
  BY <1>1, <1>5 DEF Unwind, EndTrial, Judge, Ended, vars
<1>6. QED
  BY <1>2, <1>4, <1>5 DEF Next

\* Once the cap is reached no row begins and none comes out of its backoff
\* with another attempt, in this trial or a later one.
THEOREM CapEnds == Spec => CapIsFinal
<1>1. Init => Turns /\ CapAborts
  BY TurnsInit DEF Init, CapAborts
<1>2. Turns /\ CapAborts /\ [Next]_vars => (Turns /\ CapAborts)'
  BY TurnsStep, CapAbortsStep
<1>3. Turns /\ CapAborts /\ [Next]_vars =>
        [capped => \A r \in Row : row[r].at \in {"waiting", "backoff"}
                                    => row'[r].at \notin {"calling", "evaluating"}]_vars
  BY CapIsFinalStep DEF Stays
<1>4. QED
  BY <1>1, <1>2, <1>3, PTL DEF Spec, CapIsFinal

-----------------------------------------------------------------------------
(* The semaphore and the types of the rest *)

LEMMA RowsFinite == IsFiniteSet(Row) /\ Cardinality(Row) = NRows
BY Numbers, FS_Interval DEF Row

LEMMA HoldersStep ==
  ASSUME Turns, Cardinality(Holders) <= Concurrency, [Next]_vars
  PROVE  Cardinality(Holders)' <= Concurrency
<1>1. Holders \in SUBSET Row /\ IsFiniteSet(Holders) /\ Cardinality(Holders) \in Nat
  <2>1. Holders \in SUBSET Row
    BY DEF Holders
  <2>2. QED
    BY <2>1, RowsFinite, FS_Subset, FS_CardinalityType
<1>2. CASE Holders' \in SUBSET Holders
  <2>1. Cardinality(Holders') <= Cardinality(Holders) /\ Cardinality(Holders') \in Nat
    BY <1>1, <1>2, FS_Subset, FS_CardinalityType
  <2>2. QED
    BY <1>1, <2>1, Numbers
<1>3. ASSUME NEW r \in Row, NEW c, Moves(r, c), r \in Holders
      PROVE  Holders' \in SUBSET Holders
  BY <1>3 DEF Moves, Holders
<1>4. CASE UNCHANGED row
  BY <1>2, <1>4 DEF Holders
<1>5. CASE BeginTrial
  <2>1. CASE capped
    BY <1>4, <1>5, <2>1 DEF BeginTrial
  <2>2. CASE ~capped
    <3>1. Holders' = {}
      BY <1>5, <2>2, FreshSound DEF BeginTrial, Holders
    <3>2. QED
      BY <1>2, <3>1
  <2>3. QED
    BY <2>1, <2>2
<1>6. ASSUME NEW r \in Row, Begin(r)
      PROVE  Cardinality(Holders)' <= Concurrency
  <2>1. Moves(r, BeginsAs(r)) /\ row[r] = Fresh /\ Cardinality(Holders) < Concurrency
    BY <1>6, BeginMoves DEF Begin, MayBegin
  <2>2. r \notin Holders
    BY <2>1, FreshSound DEF Holders
  <2>3. Cardinality(Holders \cup {r}) = Cardinality(Holders) + 1 /\ IsFiniteSet(Holders \cup {r})
    BY <1>1, <2>2, FS_AddElement
  <2>4. Holders' \in SUBSET (Holders \cup {r})
    BY <2>1 DEF Moves, Holders
  <2>5. Cardinality(Holders') <= Cardinality(Holders) + 1 /\ Cardinality(Holders') \in Nat
    BY <2>3, <2>4, FS_Subset, FS_CardinalityType
  <2>6. QED
    BY <1>1, <2>1, <2>5, Numbers
<1>7. ASSUME NEW r \in Row, Answer(r) \/ Retry(r) \/ GiveUp(r) \/ Wake(r) \/ Evaluate(r)
      PROVE  Cardinality(Holders)' <= Concurrency
  <2>1. r \in Holders
    BY <1>7 DEF Answer, Retry, GiveUp, Wake, Evaluate, Holders
  <2>2. \E c : Moves(r, c)
    BY <1>7, AnswerMoves, RetryMoves, GiveUpMoves, WakeMoves, EvaluateMoves DEF Turns
  <2>3. QED
    BY <1>2, <1>3, <2>1, <2>2
<1>8. ASSUME NEW r \in Row, Raise(r)
      PROVE  Cardinality(Holders)' <= Concurrency
  <2>1. Moves(r, RaisesAs(r))
    BY <1>8, RaiseMoves
  <2>2. row'[r].at = "done"
    BY <2>1 DEF Moves, RaisesAs, Turns, Coroutines
  <2>3. Holders' \in SUBSET Holders
    BY <2>1, <2>2 DEF Moves, Holders
  <2>4. QED
    BY <1>2, <2>3
<1>9. CASE Unwind \/ EndTrial \/ Judge \/ Ended
  BY <1>4, <1>9 DEF Unwind, EndTrial, Judge, Ended, vars
<1>10. QED
  BY <1>4, <1>5, <1>6, <1>7, <1>8, <1>9 DEF Next, CallStep, vars

LEMMA RowsCounted ==
  ASSUME NEW S \in SUBSET Row
  PROVE  IsFiniteSet(S) /\ Cardinality(S) \in 0..NRows
<1>1. IsFiniteSet(S) /\ Cardinality(S) <= Cardinality(Row)
  BY RowsFinite, FS_Subset
<1>2. Cardinality(S) \in Nat
  BY <1>1, FS_CardinalityType
<1>3. QED
  BY <1>1, <1>2, RowsFinite, Numbers

StoredRows ==
  [trial : Trial, row : Row, id : RowId, called : BOOLEAN, scored : SUBSET Layer,
   failed : SUBSET Layer, cost : Nat, dropped : Nat]

RowEvents ==
  [trial : Trial, row : Row,
   kind : {"provider.called", "provider.retry", "provider.failed", "row.short_circuited"}]

Ledger ==
  /\ fail_fast \in FailFast
  /\ total \in Nat /\ billed \in Nat /\ announced \in Nat
  /\ cached \subseteq Key
  /\ stored \subseteq StoredRows /\ IsFiniteSet(stored)
  /\ events \subseteq RowEvents

LEMMA StoredRowType ==
  ASSUME Turns, Executing, NEW r \in Row, NEW called \in BOOLEAN,
         NEW scored \in SUBSET Layer, NEW failed \in SUBSET Layer
  PROVE  StoredRow(r, called, scored, failed) \in StoredRows
<1>1. trial \in Trial
  BY Numbers DEF Turns, Trial
<1>2. (IF called THEN row[r].cost ELSE 0) \in Nat /\ (IF called THEN row[r].spent ELSE 0) \in Nat
  BY DEF Turns, Coroutines
<1>3. IdOf[r] \in RowId
  BY RunAssumption
<1>4. QED
  BY <1>1, <1>2, <1>3 DEF StoredRow, StoredRows

LEMMA EventType ==
  ASSUME Turns, Executing, NEW r \in Row,
         NEW kind \in {"provider.called", "provider.retry", "provider.failed", "row.short_circuited"}
  PROVE  Event(r, kind) \in RowEvents
BY Numbers DEF Turns, Trial, Event, RowEvents

LEMMA LedgerInit == Init => Ledger
<1> SUFFICES ASSUME Init PROVE Ledger
  OBVIOUS
<1>1. cached \subseteq Key
  <2>1. <<1, 1>> \in Trial \X Row
    BY Numbers DEF Trial, Row
  <2>2. KeyOf[<<1, 1>>] \in Key
    BY <2>1, RunAssumption
  <2>3. QED
    BY <2>2 DEF Init
<1>2. QED
  BY <1>1, FS_EmptySet DEF Init, Ledger

LEMMA LedgerStep ==
  ASSUME Turns, Ledger, [Next]_vars
  PROVE  Ledger'
<1>1. CASE UNCHANGED vars \/ BeginTrial \/ EndTrial \/ Unwind \/ Judge \/ Ended
  BY <1>1 DEF vars, BeginTrial, EndTrial, Unwind, Judge, Ended, Ledger
<1>2. ASSUME NEW r \in Row, Begin(r)
      PROVE  Ledger'
  BY <1>2, EventType DEF Begin, Ledger
<1>3. ASSUME NEW r \in Row, Answer(r)
      PROVE  Ledger'
  <2>1. total' \in Nat /\ billed' \in Nat
    BY <1>3, AnswerMoves DEF Ledger
  <2>2. KeyOf[<<trial, r>>] \in Key
    <3>1. <<trial, r>> \in Trial \X Row
      BY <1>3, Numbers DEF Answer, Turns, Trial
    <3>2. QED
      BY <3>1, RunAssumption
  <2>3. announced' \in Nat
    BY <1>3 DEF Answer, Ledger
  <2>4. Event(r, "provider.called") \in RowEvents
    BY <1>3, EventType DEF Answer
  <2>5. QED
    BY <1>3, <2>1, <2>2, <2>3, <2>4 DEF Answer, Ledger
<1>4. ASSUME NEW r \in Row, Retry(r)
      PROVE  Ledger'
  <2>1. billed' \in Nat
    BY <1>4, RetryMoves DEF Ledger
  <2>2. Event(r, "provider.retry") \in RowEvents
    BY <1>4, EventType DEF Retry
  <2>3. QED
    BY <1>4, <2>1, <2>2 DEF Retry, Ledger
<1>5. ASSUME NEW r \in Row, GiveUp(r)
      PROVE  Ledger'
  <2>1. PICK cost \in FailCost :
          cost \in Nat /\ Credit(row[r].spent + cost) /\ billed' = billed + cost
    BY <1>5, GiveUpMoves
  <2>2. row[r].spent \in Nat
    BY DEF Turns, Coroutines
  <2>3. total' \in Nat /\ billed' \in Nat
    BY <2>1, <2>2 DEF Credit, Ledger
  <2>4. StoredRow(r, FALSE, {}, {}) \in StoredRows
    BY <1>5, StoredRowType DEF GiveUp
  <2>5. Event(r, "provider.failed") \in RowEvents
    BY <1>5, EventType DEF GiveUp
  <2>6. IsFiniteSet(stored')
    BY <1>5, FS_AddElement DEF GiveUp, Ledger
  <2>7. QED
    BY <1>5, <2>3, <2>4, <2>5, <2>6 DEF GiveUp, Ledger
<1>6. ASSUME NEW r \in Row, Wake(r)
      PROVE  Ledger'
  <2>1. row[r].spent \in Nat
    BY DEF Turns, Coroutines
  <2>2. total' \in Nat
    BY <1>6, <2>1 DEF Wake, Credit, Ledger
  <2>3. QED
    BY <1>6, <2>2 DEF Wake, Ledger
<1>7. ASSUME NEW r \in Row, Evaluate(r)
      PROVE  Ledger'
  <2>1. PICK outcome \in Outcome :
          /\ Finishes(r, outcome) =>
               stored' = stored \cup
                 {StoredRow(r, TRUE, Scores(r, outcome), Fails(r, outcome))}
          /\ ~Finishes(r, outcome) => UNCHANGED stored
          /\ events' = IF Shorts(r, outcome)
                         THEN events \cup {Event(r, "row.short_circuited")} ELSE events
          /\ Scores(r, outcome) \in SUBSET Layer
          /\ Fails(r, outcome) \in SUBSET Scores(r, outcome)
    BY <1>7, EvaluateMoves
  <2>2. StoredRow(r, TRUE, Scores(r, outcome), Fails(r, outcome)) \in StoredRows
    <3>1. Fails(r, outcome) \in SUBSET Layer
      BY <2>1
    <3>2. QED
      BY <1>7, <2>1, <3>1, StoredRowType DEF Evaluate
  <2>3. Event(r, "row.short_circuited") \in RowEvents
    BY <1>7, EventType DEF Evaluate
  <2>4. stored' \subseteq StoredRows /\ IsFiniteSet(stored')
    <3> DEFINE new == StoredRow(r, TRUE, Scores(r, outcome), Fails(r, outcome))
    <3>1. CASE Finishes(r, outcome)
      <4>1. stored' = stored \cup {new} /\ new \in StoredRows
        BY <2>1, <2>2, <3>1
      <4> HIDE DEF new
      <4>2. IsFiniteSet(stored \cup {new})
        BY FS_AddElement DEF Ledger
      <4>3. QED
        BY <4>1, <4>2 DEF Ledger
    <3>2. CASE ~Finishes(r, outcome)
      BY <2>1, <3>2 DEF Ledger
    <3>3. QED
      BY <3>1, <3>2
  <2>5. events' \subseteq RowEvents
    BY <2>1, <2>3 DEF Ledger
  <2>6. QED
    BY <1>7, <2>4, <2>5 DEF Evaluate, Ledger
<1>8. ASSUME NEW r \in Row, Raise(r)
      PROVE  Ledger'
  BY <1>8 DEF Raise, Ledger
<1>9. QED
  BY <1>1, <1>2, <1>3, <1>4, <1>5, <1>6, <1>7, <1>8 DEF Next, CallStep

Summary ==
  [status : {"passed", "failed", "cost_capped"}, pass : 0..NRows, fail : 0..NRows, cost : Nat]

Verdict ==
  /\ DOMAIN summary \subseteq Trial
  /\ \A t \in DOMAIN summary : summary[t] \in Summary
  /\ judged.strategy \in Strategy \cup {"none"}
  /\ judged.gates \in GateConfig \cup {{}}

\* What EndTrial counts and records.
PassedNow == {r \in Row : row[r].attempted /\ row[r].passed}
FailedNow == {r \in Row : row[r].attempted /\ ~row[r].passed}
SummaryNow ==
  [status |-> TrialStatus(Cardinality(PassedNow), Cardinality(FailedNow)),
   pass |-> Cardinality(PassedNow), fail |-> Cardinality(FailedNow),
   cost |-> SumOf(Row, [r \in Row |-> row[r].cost])]

LEMMA EndTrialRecords ==
  ASSUME Turns, EndTrial
  PROVE  /\ DOMAIN summary' = DOMAIN summary \cup {trial}
         /\ summary'[trial] = SummaryNow
         /\ \A t \in DOMAIN summary : t # trial => summary'[t] = summary[t]
         /\ SummaryNow \in Summary
<1>1. summary' = [t \in DOMAIN summary \cup {trial} |->
                    IF t = trial THEN SummaryNow ELSE summary[t]]
  BY DEF EndTrial, SummaryNow, PassedNow, FailedNow
<1>2. Cardinality(PassedNow) \in 0..NRows /\ Cardinality(FailedNow) \in 0..NRows
  BY RowsCounted DEF PassedNow, FailedNow
<1>3. SumOf(Row, [r \in Row |-> row[r].cost]) \in Nat
  <2> DEFINE w == [r \in Row |-> row[r].cost]
  <2>1. \A r \in Row : w[r] \in Nat
    BY DEF Turns, Coroutines
  <2> HIDE DEF w
  <2>2. SumOf(Row, w) \in Nat
    BY <2>1, RowsFinite, SumType
  <2>3. QED
    BY <2>2 DEF w
<1>4. TrialStatus(Cardinality(PassedNow), Cardinality(FailedNow))
        \in {"passed", "failed", "cost_capped"}
  BY DEF TrialStatus
<1>5. SummaryNow \in Summary
  BY <1>2, <1>3, <1>4 DEF SummaryNow, Summary
<1>6. QED
  BY <1>1, <1>5

LEMMA VerdictStep ==
  ASSUME Turns, Verdict, [Next]_vars
  PROVE  Verdict'
<1>1. CASE UNCHANGED <<summary, judged>>
  BY <1>1 DEF Verdict
<1>2. CASE EndTrial
  <2>1. trial \in Trial
    BY <1>2, Numbers DEF EndTrial, Turns, Executing, Trial
  <2>2. QED
    BY <1>2, <2>1, EndTrialRecords DEF Verdict, EndTrial
<1>3. CASE Judge
  BY <1>3 DEF Judge, Verdict
<1>4. ASSUME NEW r \in Row, CallStep(r) \/ Evaluate(r) \/ Raise(r)
      PROVE  UNCHANGED <<summary, judged>>
  BY <1>4 DEF CallStep, Begin, Answer, Retry, GiveUp, Wake, Evaluate, Raise
<1>5. QED
  BY <1>1, <1>2, <1>3, <1>4 DEF Next, BeginTrial, Unwind, Ended, vars

\* Every variable stays in its type, no more rows than Concurrency hold the
\* semaphore, and no row makes more attempts than its policy allows.
Types == Turns /\ Ledger /\ Verdict /\ Cardinality(Holders) <= Concurrency

LEMMA TypesStep == Types /\ [Next]_vars => Types'
BY TurnsStep, LedgerStep, VerdictStep, HoldersStep DEF Types

LEMMA TypesInit == Init => Types
<1> SUFFICES ASSUME Init PROVE Types
  OBVIOUS
<1>1. Holders = {} /\ Cardinality({}) = 0
  BY FreshSound, FS_EmptySet DEF Init, Holders
<1>2. Verdict
  BY DEF Init, Verdict, NotJudged
<1>3. QED
  BY <1>1, <1>2, TurnsInit, LedgerInit, Numbers DEF Types

LEMMA TypesAreTypes == Types => TypeOK
BY DEF Types, Turns, Ledger, Verdict, TypeOK, Coroutines, State, StoredRows, RowEvents, Summary

LEMMA TypesHold == Spec => []Types
BY TypesInit, TypesStep, PTL DEF Spec

THEOREM TypeCorrect == Spec => []TypeOK
BY TypesHold, TypesAreTypes, PTL

-----------------------------------------------------------------------------
(* How far the cap can be passed *)

\* What a call may cost, or may have cost when it raises, has a maximum.
CostsHaveMaxima ==
  /\ \E most \in CallCost : \A cost \in CallCost : most >= cost
  /\ \E most \in FailCost : \A cost \in FailCost : most >= cost

FailMax == Max(FailCost)

LEMMA MaxIsMost ==
  ASSUME NEW S \in SUBSET Nat, NEW most \in S, \A x \in S : most >= x
  PROVE  Max(S) \in S /\ \A x \in S : x <= Max(S)
<1>1. \E x \in S : \A y \in S : x >= y
  OBVIOUS
<1>2. Max(S) \in S /\ \A y \in S : Max(S) >= y
  BY <1>1 DEF Max
<1>3. QED
  BY <1>2

LEMMA RowCostIsMost ==
  ASSUME CostsHaveMaxima
  PROVE  /\ RowCost \in Nat /\ FailMax \in Nat
         /\ \A cost \in CallCost : cost <= RowCost
         /\ \A cost \in FailCost : cost <= FailMax
         /\ (MaxRetries + 1) * FailMax <= RowCost
<1> DEFINE calls == Max(CallCost)
           fails == (MaxRetries + 1) * FailMax
<1>1. calls \in CallCost /\ \A cost \in CallCost : cost <= calls
  BY MaxIsMost, Numbers DEF CostsHaveMaxima
<1>2. FailMax \in FailCost /\ \A cost \in FailCost : cost <= FailMax
  BY MaxIsMost, Numbers DEF CostsHaveMaxima, FailMax
<1>3. calls \in Nat /\ FailMax \in Nat
  BY <1>1, <1>2, Numbers
<1>4. fails \in Nat
  BY <1>3, Numbers
<1>5. RowCost = Max({calls, fails})
  BY DEF RowCost, FailMax
<1> HIDE DEF calls, fails
<1>6. RowCost \in {calls, fails} /\ calls <= RowCost /\ fails <= RowCost
  <2>1. CASE calls >= fails
    BY <1>3, <1>4, <1>5, <2>1, MaxIsMost
  <2>2. CASE fails >= calls
    BY <1>3, <1>4, <1>5, <2>2, MaxIsMost
  <2>3. QED
    BY <1>3, <1>4, <2>1, <2>2
<1>7. \A cost \in CallCost : cost <= RowCost
  BY <1>1, <1>3, <1>4, <1>6, Numbers
<1>8. QED
  BY <1>2, <1>3, <1>4, <1>6, <1>7 DEF fails

LEMMA Times ==
  ASSUME NEW m \in Nat
  PROVE  /\ \A n \in Nat : n * m \in Nat /\ (n + 1) * m = n * m + m
         /\ \A n, k \in Nat : n <= k => n * m <= k * m
<1>1. \A n \in Nat : n * m \in Nat /\ (n + 1) * m = n * m + m
  OBVIOUS
<1>2. ASSUME NEW n \in Nat, NEW k \in Nat, n <= k PROVE n * m <= k * m
  <2>1. k - n \in Nat
    BY <1>2
  <2>2. (k - n) * m \in Nat
    BY <2>1
  <2>3. k * m = n * m + (k - n) * m
    BY <2>1
  <2>4. n * m \in Nat
    OBVIOUS
  <2>5. QED
    BY <2>2, <2>3, <2>4
<1>3. QED
  BY <1>1, <1>2

\* The rows that may still add to the cost, and what their failed attempts
\* can have been charged.
Charging == {r \in Row : row[r].at \in {"calling", "backoff"}}

SpentBounded ==
  \A r \in Row :
    /\ row[r].at = "calling" => row[r].spent <= row[r].attempt * FailMax
    /\ row[r].at = "backoff" => row[r].spent <= (row[r].attempt + 1) * FailMax

\* The cost, and what the rows that may still be charged can add to it.
Reserved == Cap > 0 => total + Cardinality(Charging) * RowCost < Cap + Concurrency * RowCost

LEMMA SpentStep ==
  ASSUME CostsHaveMaxima, Turns, SpentBounded, [Next]_vars
  PROVE  SpentBounded'
<1>1. CASE UNCHANGED row
  BY <1>1 DEF SpentBounded
<1>2. CASE BeginTrial
  <2>1. CASE capped
    BY <1>1, <1>2, <2>1 DEF BeginTrial
  <2>2. CASE ~capped
    BY <1>2, <2>2, FreshSound DEF BeginTrial, SpentBounded
  <2>3. QED
    BY <2>1, <2>2
<1>3. ASSUME NEW r \in Row, NEW c, Moves(r, c),
             c.at = "calling" => c.spent <= c.attempt * FailMax,
             c.at = "backoff" => c.spent <= (c.attempt + 1) * FailMax
      PROVE  SpentBounded'
  BY <1>3 DEF Moves, SpentBounded
<1>4. ASSUME NEW r \in Row, Begin(r)
      PROVE  SpentBounded'
  <2>1. Moves(r, BeginsAs(r)) /\ row[r] = Fresh
    BY <1>4, BeginMoves
  <2>2. BeginsAs(r).spent = 0 /\ BeginsAs(r).attempt = 0 /\ BeginsAs(r).at # "backoff"
    BY <2>1 DEF BeginsAs, Fresh
  <2>3. 0 <= 0 * FailMax
    BY RowCostIsMost
  <2>4. QED
    BY <1>3, <2>1, <2>2, <2>3
<1>5. ASSUME NEW r \in Row, Retry(r)
      PROVE  SpentBounded'
  <2>1. PICK cost \in FailCost : cost \in Nat /\ Moves(r, RetriesAs(r, cost))
    BY <1>5, RetryMoves
  <2>2. /\ row[r] \in Coroutines /\ row[r].spent \in Nat /\ row[r].attempt \in Nat
        /\ row[r].spent <= row[r].attempt * FailMax
    BY <1>5, Numbers DEF Retry, Turns, Coroutines, SpentBounded
  <2>3. /\ RetriesAs(r, cost).at = "backoff"
        /\ RetriesAs(r, cost).spent = row[r].spent + cost
        /\ RetriesAs(r, cost).attempt = row[r].attempt
    BY <2>2 DEF RetriesAs, Coroutines
  <2>4. cost <= FailMax /\ FailMax \in Nat
    BY RowCostIsMost
  <2>5. row[r].spent + cost <= (row[r].attempt + 1) * FailMax
    BY <2>1, <2>2, <2>4, Times
  <2>6. QED
    BY <1>3, <2>1, <2>3, <2>5
<1>6. ASSUME NEW r \in Row, Wake(r)
      PROVE  SpentBounded'
  <2>1. row[r] \in Coroutines /\ row[r].spent <= (row[r].attempt + 1) * FailMax
    BY <1>6 DEF Wake, Turns, SpentBounded
  <2>2. CASE aborted
    <3>1. Moves(r, StopsAs(r)) /\ StopsAs(r).at = "done"
      BY <1>6, <2>1, <2>2, WakeMoves DEF StopsAs, Coroutines
    <3>2. QED
      BY <1>3, <3>1
  <2>3. CASE ~aborted
    <3>1. Moves(r, TriesAgainAs(r))
      BY <1>6, <2>3, WakeMoves
    <3>2. /\ TriesAgainAs(r).at = "calling" /\ TriesAgainAs(r).spent = row[r].spent
          /\ TriesAgainAs(r).attempt = row[r].attempt + 1
      BY <2>1 DEF TriesAgainAs, Coroutines
    <3>3. QED
      BY <1>3, <2>1, <3>1, <3>2
  <2>4. QED
    BY <2>2, <2>3 DEF Turns
<1>7. ASSUME NEW r \in Row, Answer(r) \/ GiveUp(r) \/ Evaluate(r) \/ Raise(r)
      PROVE  SpentBounded'
  <2>1. row[r] \in Coroutines
    BY DEF Turns
  <2>2. CASE Answer(r)
    <3>1. PICK cost : Moves(r, AnswersAs(r, cost))
      BY <2>2, AnswerMoves
    <3>2. AnswersAs(r, cost).at = "evaluating"
      BY <2>1 DEF AnswersAs, Coroutines
    <3>3. QED
      BY <1>3, <3>1, <3>2
  <2>3. CASE GiveUp(r)
    <3>1. PICK cost : Moves(r, GivesUpAs(r, cost))
      BY <2>3, GiveUpMoves
    <3>2. GivesUpAs(r, cost).at = "done"
      BY <2>1 DEF GivesUpAs, Coroutines
    <3>3. QED
      BY <1>3, <3>1, <3>2
  <2>4. CASE Evaluate(r)
    <3>1. PICK outcome : Moves(r, EvaluatesAs(r, outcome))
      BY <2>4, EvaluateMoves
    <3>2. EvaluatesAs(r, outcome).at \in {"evaluating", "done"}
      BY <2>1 DEF EvaluatesAs, Coroutines
    <3>3. QED
      BY <1>3, <3>1, <3>2
  <2>5. CASE Raise(r)
    <3>1. Moves(r, RaisesAs(r)) /\ RaisesAs(r).at = "done"
      BY <2>1, <2>5, RaiseMoves DEF RaisesAs, Coroutines
    <3>2. QED
      BY <1>3, <3>1
  <2>6. QED
    BY <1>7, <2>2, <2>3, <2>4, <2>5
<1>8. CASE Unwind \/ EndTrial \/ Judge \/ Ended
  BY <1>1, <1>8 DEF Unwind, EndTrial, Judge, Ended, vars
<1>9. QED
  BY <1>1, <1>2, <1>4, <1>5, <1>6, <1>7, <1>8 DEF Next, CallStep, vars

LEMMA ReservedStep ==
  ASSUME CostsHaveMaxima, Types, Types', SpentBounded, Reserved, [Next]_vars
  PROVE  Reserved'
<1> DEFINE n == Cardinality(Charging)
           k == Cardinality(Charging')
<1>1. /\ IsFiniteSet(Charging) /\ n \in Nat /\ k \in Nat
      /\ Charging \in SUBSET Row /\ Charging' \in SUBSET Row
  <2>1. Charging \in SUBSET Row /\ Charging' \in SUBSET Row
    BY DEF Charging
  <2>2. QED
    BY <2>1, RowsCounted
<1>2. /\ total \in Nat /\ total' \in Nat /\ Cap \in Nat /\ RowCost \in Nat
      /\ Concurrency \in Nat /\ Concurrency * RowCost \in Nat
      /\ n * RowCost \in Nat /\ k * RowCost \in Nat
  <2>1. total \in Nat /\ total' \in Nat /\ Cap \in Nat /\ RowCost \in Nat /\ Concurrency \in Nat
    BY Numbers, RowCostIsMost DEF Types, Ledger
  <2>2. QED
    BY <1>1, <2>1, Times
<1>3. ASSUME Charging' \in SUBSET Charging, total' = total
      PROVE  Reserved'
  <2>1. k <= n
    BY <1>1, <1>3, FS_Subset
  <2>2. k * RowCost <= n * RowCost
    BY <1>1, <1>2, <2>1, Times
  <2> HIDE DEF n, k
  <2>3. Cap > 0 => total' + k * RowCost < Cap + Concurrency * RowCost
    BY <1>2, <1>3, <2>2 DEF Reserved, n
  <2>4. QED
    BY <2>3 DEF Reserved, k
<1>4. ASSUME NEW r \in Charging, Charging' \in SUBSET (Charging \ {r}),
             total' <= total + RowCost
      PROVE  Reserved'
  <2>1. IsFiniteSet(Charging \ {r}) /\ Cardinality(Charging \ {r}) = n - 1
    BY <1>1, FS_RemoveElement
  <2>2. k <= n - 1
    BY <1>4, <2>1, FS_Subset
  <2> HIDE DEF n, k
  <2>3. (k + 1) * RowCost <= n * RowCost /\ (k + 1) * RowCost = k * RowCost + RowCost
    BY <1>1, <1>2, <2>2, Times
  <2>4. Cap > 0 => total' + k * RowCost < Cap + Concurrency * RowCost
    BY <1>2, <1>4, <2>3 DEF Reserved, n
  <2>5. QED
    BY <2>4 DEF Reserved, k
<1>5. ASSUME NEW r \in Row, Begin(r)
      PROVE  Reserved'
  <2>1. /\ Moves(r, BeginsAs(r)) /\ row[r] = Fresh
        /\ total' = total
    BY <1>5, BeginMoves DEF Begin, Types
  <2>2. CASE aborted \/ AtCap(total)
    <3>1. row'[r].at = "done"
      BY <2>1, <2>2 DEF Moves, BeginsAs, Fresh
    <3>2. Charging' \in SUBSET Charging
      BY <2>1, <3>1 DEF Moves, Charging
    <3>3. QED
      BY <1>3, <2>1, <3>2
  <2>3. CASE ~AtCap(total)
    <3>1. Charging' \in SUBSET Holders' /\ Holders' \in SUBSET Row
      BY DEF Charging, Holders
    <3>2. IsFiniteSet(Holders') /\ Cardinality(Holders') \in Nat
      BY <3>1, RowsCounted
    <3>3. k <= Cardinality(Holders')
      BY <3>1, <3>2, FS_Subset
    <3>4. Cardinality(Holders') <= Concurrency
      BY DEF Types
    <3> HIDE DEF k
    <3>5. k <= Concurrency
      BY <1>1, <1>2, <3>2, <3>3, <3>4
    <3>6. k * RowCost <= Concurrency * RowCost
      BY <1>1, <1>2, <3>5, Times
    <3>7. Cap > 0 => total' < Cap
      BY <1>2, <2>1, <2>3 DEF AtCap
    <3>8. Cap > 0 => total' + k * RowCost < Cap + Concurrency * RowCost
      BY <1>2, <3>6, <3>7
    <3>9. QED
      BY <3>8 DEF Reserved, k
  <2>4. QED
    BY <2>2, <2>3
<1>6. ASSUME NEW r \in Row, Answer(r)
      PROVE  Reserved'
  <2>1. PICK cost \in CallCost :
          cost \in Nat /\ Moves(r, AnswersAs(r, cost)) /\ total' = total + cost
    BY <1>6, AnswerMoves DEF Types
  <2>2. row[r].at = "calling" /\ row'[r].at = "evaluating"
    BY <1>6, <2>1 DEF Answer, Moves, AnswersAs, Types, Turns, Coroutines
  <2>3. r \in Charging /\ Charging' \in SUBSET (Charging \ {r})
    BY <2>1, <2>2 DEF Moves, Charging
  <2>4. cost <= RowCost
    BY RowCostIsMost
  <2>5. total' <= total + RowCost
    BY <1>2, <2>1, <2>4
  <2>6. QED
    BY <1>4, <2>3, <2>5
<1>7. ASSUME NEW r \in Row, NEW attempt \in 0..MaxRetries, NEW spent \in Nat,
             spent <= (attempt + 1) * FailMax
      PROVE  spent <= RowCost
  <2>1. attempt \in Nat /\ attempt + 1 \in Nat /\ MaxRetries + 1 \in Nat /\ attempt + 1 <= MaxRetries + 1
    BY Numbers
  <2>2. /\ (attempt + 1) * FailMax <= (MaxRetries + 1) * FailMax
        /\ (attempt + 1) * FailMax \in Nat /\ (MaxRetries + 1) * FailMax \in Nat
        /\ (MaxRetries + 1) * FailMax <= RowCost
    BY <2>1, Times, RowCostIsMost
  <2>3. QED
    BY <1>2, <1>7, <2>2
<1>8. ASSUME NEW r \in Row, GiveUp(r)
      PROVE  Reserved'
  <2>1. PICK cost \in FailCost :
          cost \in Nat /\ Moves(r, GivesUpAs(r, cost)) /\ Credit(row[r].spent + cost)
    BY <1>8, GiveUpMoves DEF Types
  <2>2. /\ row[r] \in Coroutines /\ row[r].at = "calling"
        /\ row[r].spent <= row[r].attempt * FailMax
        /\ row[r].spent \in Nat /\ row[r].attempt \in 0..MaxRetries /\ row[r].attempt \in Nat
    BY <1>8, Numbers DEF GiveUp, Types, Turns, Coroutines, SpentBounded
  <2>3. row'[r].at = "done"
    BY <2>1, <2>2 DEF Moves, GivesUpAs, Coroutines
  <2>4. r \in Charging /\ Charging' \in SUBSET (Charging \ {r})
    BY <2>1, <2>2, <2>3 DEF Moves, Charging
  <2>5. cost <= FailMax /\ FailMax \in Nat
    BY RowCostIsMost
  <2>6. row[r].spent + cost \in Nat /\ row[r].spent + cost <= (row[r].attempt + 1) * FailMax
    <3>1. /\ row[r].attempt * FailMax \in Nat
          /\ (row[r].attempt + 1) * FailMax = row[r].attempt * FailMax + FailMax
      BY <2>2, <2>5, Times
    <3> DEFINE before == row[r].attempt * FailMax
               after == (row[r].attempt + 1) * FailMax
    <3>2. before \in Nat /\ after = before + FailMax /\ row[r].spent <= before
      BY <2>2, <3>1
    <3> HIDE DEF before, after
    <3>3. row[r].spent + cost \in Nat /\ row[r].spent + cost <= after
      BY <2>1, <2>2, <2>5, <3>2
    <3>4. QED
      BY <3>3 DEF after
  <2>7. row[r].spent + cost <= RowCost
    BY <1>7, <2>2, <2>6
  <2>8. total' <= total + RowCost
    BY <1>2, <2>1, <2>6, <2>7 DEF Credit
  <2>9. QED
    BY <1>4, <2>4, <2>8
<1>9. ASSUME NEW r \in Row, Wake(r)
      PROVE  Reserved'
  <2>1. /\ row[r] \in Coroutines /\ row[r].at = "backoff"
        /\ row[r].spent <= (row[r].attempt + 1) * FailMax
        /\ row[r].spent \in Nat /\ row[r].attempt \in 0..MaxRetries
    BY <1>9 DEF Wake, Types, Turns, Coroutines, SpentBounded
  <2>2. CASE aborted
    <3>1. Moves(r, StopsAs(r)) /\ Credit(row[r].spent)
      BY <1>9, <2>2, WakeMoves DEF Types
    <3>2. row'[r].at = "done"
      BY <2>1, <3>1 DEF Moves, StopsAs, Coroutines
    <3>3. r \in Charging /\ Charging' \in SUBSET (Charging \ {r})
      BY <2>1, <3>1, <3>2 DEF Moves, Charging
    <3>4. row[r].spent <= RowCost
      BY <1>7, <2>1
    <3>5. total' <= total + RowCost
      BY <1>2, <2>1, <3>1, <3>4 DEF Credit
    <3>6. QED
      BY <1>4, <3>3, <3>5
  <2>3. CASE ~aborted
    <3>1. Moves(r, TriesAgainAs(r)) /\ total' = total
      BY <1>9, <2>3, WakeMoves DEF Types
    <3>2. Charging' \in SUBSET Charging
      BY <2>1, <3>1 DEF Moves, Charging
    <3>3. QED
      BY <1>3, <3>1, <3>2
  <2>4. QED
    BY <2>2, <2>3 DEF Types, Turns
<1>10. ASSUME NEW r \in Row, Retry(r) \/ Evaluate(r) \/ Raise(r)
      PROVE  Reserved'
  <2>1. total' = total
    BY <1>10 DEF Retry, Evaluate, Raise
  <2>2. row[r] \in Coroutines
    BY DEF Types, Turns
  <2>3. CASE Retry(r)
    <3>1. \E c : Moves(r, c) /\ row[r].at = "calling"
      BY <2>3, RetryMoves DEF Types
    <3>2. Charging' \in SUBSET Charging
      BY <3>1 DEF Moves, Charging
    <3>3. QED
      BY <1>3, <2>1, <3>2
  <2>4. CASE Evaluate(r)
    <3>1. PICK outcome : Moves(r, EvaluatesAs(r, outcome))
      BY <2>4, EvaluateMoves DEF Types
    <3>2. row'[r].at \in {"evaluating", "done"}
      BY <2>2, <3>1 DEF Moves, EvaluatesAs, Coroutines
    <3>3. Charging' \in SUBSET Charging
      BY <3>1, <3>2 DEF Moves, Charging
    <3>4. QED
      BY <1>3, <2>1, <3>3
  <2>5. CASE Raise(r)
    <3>1. Moves(r, RaisesAs(r)) /\ RaisesAs(r).at = "done"
      BY <2>2, <2>5, RaiseMoves DEF RaisesAs, Coroutines, Types
    <3>2. Charging' \in SUBSET Charging
      BY <3>1 DEF Moves, Charging
    <3>3. QED
      BY <1>3, <2>1, <3>2
  <2>6. QED
    BY <1>10, <2>3, <2>4, <2>5
<1>11. CASE BeginTrial
  <2>1. Charging' \in SUBSET Charging /\ total' = total
    BY <1>11, FreshSound DEF BeginTrial, Charging
  <2>2. QED
    BY <1>3, <2>1
<1>12. CASE Unwind \/ EndTrial \/ Judge \/ Ended \/ UNCHANGED vars
  <2>1. Charging' \in SUBSET Charging /\ total' = total
    BY <1>12 DEF Unwind, EndTrial, Judge, Ended, vars, Charging
  <2>2. QED
    BY <1>3, <2>1
<1>13. QED
  BY <1>5, <1>6, <1>8, <1>9, <1>10, <1>11, <1>12 DEF Next, CallStep

\* The cap can be passed, but by less than what the rows that hold the
\* semaphore can add: however calls, retries and failures interleave and
\* over all the trials, if what a call may be charged is bounded.
THEOREM CapBounds ==
  ASSUME CostsHaveMaxima
  PROVE  Spec => []CapBound
<1> DEFINE Inv == Types /\ SpentBounded /\ Reserved
<1>1. Init => Inv
  <2> SUFFICES ASSUME Init PROVE Inv
    OBVIOUS
  <2>1. Types
    BY TypesInit
  <2>2. Charging = {} /\ SpentBounded
    BY FreshSound DEF Init, Charging, SpentBounded
  <2>3. Cardinality(Charging) = 0
    BY <2>2, FS_EmptySet
  <2>4. Concurrency * RowCost \in Nat /\ 0 * RowCost = 0 /\ Concurrency \in Nat
    BY RowCostIsMost, Numbers, Times
  <2>5. Reserved
    BY <2>3, <2>4, Numbers DEF Init, Reserved
  <2>6. QED
    BY <2>1, <2>2, <2>5
<1>2. Inv /\ [Next]_vars => Inv'
  BY TypesStep, SpentStep, ReservedStep DEF Types
<1>3. Inv => CapBound
  <2> SUFFICES ASSUME Inv PROVE CapBound
    OBVIOUS
  <2>1. Cardinality(Charging) \in Nat
    BY RowsCounted DEF Charging
  <2>2. /\ Cardinality(Charging) * RowCost \in Nat /\ Concurrency * RowCost \in Nat
        /\ total \in Nat /\ Cap \in Nat
    BY <2>1, Times, RowCostIsMost, Numbers DEF Types, Ledger
  <2>3. QED
    BY <2>2 DEF Reserved, CapBound
<1>4. QED
  BY <1>1, <1>2, <1>3, PTL DEF Spec

-----------------------------------------------------------------------------
(* The rows that are recorded *)

Passes(s) == s.called /\ s.failed = {}

\* A row is recorded when it has been attempted, once in a trial, and as the
\* coroutine found it.
Records ==
  /\ \A s \in stored :
       \/ s.trial < trial
       \/ /\ s.trial = trial /\ phase # "trials"
          /\ row[s.row].attempted
          /\ row[s.row].passed <=> Passes(s)
  /\ \A r \in Row :
       Executing /\ row[r].attempted => \E s \in stored : s.trial = trial /\ s.row = r
  /\ \A s, t \in stored : s.trial = t.trial /\ s.row = t.row => s = t
  /\ \A s \in stored : s.failed \subseteq s.scored /\ (~s.called => s.scored = {})

\* A row that has not been attempted is not recorded.
LEMMA NotRecorded ==
  ASSUME Types, Records, NEW r \in Row, ~row[r].attempted
  PROVE  \A s \in stored : ~(s.trial = trial /\ s.row = r)
BY DEF Records, Types, Turns

LEMMA NothingRecorded ==
  ASSUME Types, Records, Executing, NEW r \in Row, NEW c, Moves(r, c),
         ~row[r].attempted, ~c.attempted,
         UNCHANGED <<stored, trial>>, phase' # "trials"
  PROVE  Records'
<1>1. \A s \in stored : ~(s.trial = trial /\ s.row = r) /\ s.row \in Row
  BY NotRecorded DEF Types, Ledger, StoredRows
<1>2. \A q \in Row : row'[q].attempted <=> row[q].attempted
  BY DEF Moves, Types, Turns, Sound, Coroutines
<1>3. \A s \in stored : s.trial = trial => row'[s.row] = row[s.row]
  BY <1>1 DEF Moves
<1>4. ASSUME NEW s \in stored
      PROVE  \/ s.trial < trial
             \/ /\ s.trial = trial /\ phase' # "trials"
                /\ row'[s.row].attempted
                /\ row'[s.row].passed <=> Passes(s)
  BY <1>1, <1>3 DEF Records
<1>5. QED
  BY <1>2, <1>4 DEF Records, Passes

LEMMA OneRecorded ==
  ASSUME Types, Records, Executing, NEW r \in Row, NEW c, Moves(r, c),
         ~row[r].attempted, c.attempted,
         NEW s \in StoredRows, s.trial = trial, s.row = r, c.passed <=> Passes(s),
         s.failed \subseteq s.scored, ~s.called => s.scored = {},
         stored' = stored \cup {s}, UNCHANGED <<trial, phase>>
  PROVE  Records'
<1>1. \A t \in stored : ~(t.trial = trial /\ t.row = r) /\ t.row \in Row
  BY NotRecorded DEF Types, Ledger, StoredRows
<1>2. phase' # "trials"
  BY DEF Executing
<1>3. \A t \in stored : t.trial = trial => row'[t.row] = row[t.row]
  BY <1>1 DEF Moves
<1>4. ASSUME NEW t \in stored'
      PROVE  \/ t.trial < trial
             \/ /\ t.trial = trial /\ phase' # "trials"
                /\ row'[t.row].attempted
                /\ row'[t.row].passed <=> Passes(t)
  <2>1. CASE t = s
    BY <1>2, <2>1 DEF Moves
  <2>2. CASE t \in stored
    BY <1>2, <1>3, <2>2 DEF Records
  <2>3. QED
    BY <1>4, <2>1, <2>2
<1>5. ASSUME NEW q \in Row, row'[q].attempted
      PROVE  \E t \in stored' : t.trial = trial /\ t.row = q
  <2>1. CASE q = r
    BY <2>1
  <2>2. CASE q # r
    BY <1>5, <2>2 DEF Moves, Records
  <2>3. QED
    BY <2>1, <2>2
<1>6. ASSUME NEW t \in stored', NEW u \in stored', t.trial = u.trial, t.row = u.row
      PROVE  t = u
  BY <1>1, <1>6 DEF Records
<1>7. \A t \in stored' : t.failed \subseteq t.scored /\ (~t.called => t.scored = {})
  BY DEF Records
<1>8. QED
  BY <1>4, <1>5, <1>6, <1>7 DEF Records, Passes

\* The record that a step adds, if it adds one.
GivesUp(r) == StoredRow(r, FALSE, {}, {})
Evaluated(r, outcome) == StoredRow(r, TRUE, Scores(r, outcome), Fails(r, outcome))

LEMMA GivesUpIs ==
  ASSUME Types, Executing, NEW r \in Row
  PROVE  /\ GivesUp(r) \in StoredRows
         /\ GivesUp(r).trial = trial /\ GivesUp(r).row = r /\ ~GivesUp(r).called
         /\ GivesUp(r).scored = {} /\ GivesUp(r).failed = {}
         /\ GivesUp(r).cost = 0 /\ GivesUp(r).dropped = 0
BY StoredRowType DEF GivesUp, StoredRow, Types

LEMMA EvaluatedIs ==
  ASSUME Types, Executing, NEW r \in Row, NEW outcome,
         Scores(r, outcome) \in SUBSET Layer, Fails(r, outcome) \in SUBSET Scores(r, outcome)
  PROVE  LET s == Evaluated(r, outcome)
         IN  /\ s \in StoredRows
             /\ s.trial = trial /\ s.row = r /\ s.called
             /\ s.scored = Scores(r, outcome) /\ s.failed = Fails(r, outcome)
             /\ s.cost = row[r].cost /\ s.dropped = row[r].spent
<1>1. Fails(r, outcome) \in SUBSET Layer
  OBVIOUS
<1>2. QED
  BY <1>1, StoredRowType DEF Evaluated, StoredRow, Types

LEMMA RecordsStep ==
  ASSUME Types, Types', Records, [Next]_vars
  PROVE  Records'
<1>1. CASE UNCHANGED <<stored, trial, row, phase>>
  BY <1>1 DEF Records, Passes, Executing
<1>2. CASE BeginTrial
  <2>1. CASE capped
    <3>1. \A s \in stored : s.trial < trial /\ s.trial \in Int
      BY <1>2 DEF BeginTrial, Records, Types, Ledger, StoredRows, Trial
    <3>2. trial' = trial + 1 /\ trial \in Int /\ UNCHANGED <<stored, phase>> /\ ~Executing'
      BY <1>2, <2>1, Numbers DEF BeginTrial, Types, Turns, Executing
    <3>3. \A s \in stored' : s.trial < trial'
      BY <3>1, <3>2
    <3>4. QED
      BY <3>2, <3>3 DEF Records
  <2>2. CASE ~capped
    <3>1. \A s \in stored : s.trial < trial
      BY <1>2 DEF BeginTrial, Records
    <3>2. UNCHANGED <<stored, trial>> /\ \A r \in Row : ~row'[r].attempted
      BY <1>2, <2>2, FreshSound DEF BeginTrial
    <3>3. QED
      BY <3>1, <3>2 DEF Records
  <2>3. QED
    BY <2>1, <2>2
<1>3. CASE EndTrial
  <2>1. UNCHANGED stored /\ trial' = trial + 1 /\ ~Executing' /\ trial \in Int
    BY <1>3, Numbers DEF EndTrial, Executing, Types, Turns
  <2>2. \A s \in stored : s.trial \in Int /\ s.trial <= trial
    BY <2>1 DEF Records, Types, Ledger, StoredRows, Trial
  <2>3. \A s \in stored' : s.trial < trial'
    BY <2>1, <2>2
  <2>4. QED
    BY <2>1, <2>3 DEF Records
<1>4. CASE Unwind \/ Judge
  <2>1. UNCHANGED <<stored, trial, row>> /\ ~Executing' /\ phase' # "trials"
    BY <1>4 DEF Unwind, Judge, Executing
  <2>2. QED
    BY <2>1 DEF Records, Passes
<1>5. ASSUME NEW r \in Row, Begin(r) \/ Answer(r) \/ Retry(r) \/ Wake(r) \/ Raise(r)
      PROVE  Records'
  <2>1. Executing /\ UNCHANGED <<stored, trial>> /\ phase' # "trials"
    BY <1>5 DEF Begin, Answer, Retry, Wake, Raise, Executing
  <2>2. row[r] \in Coroutines /\ row[r].at # "done" /\ ~row[r].attempted
    <3>1. row[r] \in Coroutines /\ row[r].at # "done"
      BY <1>5, RaiseMoves DEF Begin, MayBegin, Answer, Retry, Wake, Types, Turns
    <3>2. QED
      BY <3>1 DEF Types, Turns, Sound
  <2>3. ASSUME NEW c, Moves(r, c), ~c.attempted PROVE Records'
    BY <2>1, <2>2, <2>3, NothingRecorded
  <2>4. CASE Begin(r)
    <3>1. ~BeginsAs(r).attempted
      BY <2>2 DEF BeginsAs, Coroutines
    <3>2. QED
      BY <2>3, <2>4, <3>1, BeginMoves DEF Types
  <2>5. CASE Answer(r)
    <3>1. \A cost : ~AnswersAs(r, cost).attempted
      BY <2>2 DEF AnswersAs, Coroutines
    <3>2. QED
      BY <2>3, <2>5, <3>1, AnswerMoves DEF Types
  <2>6. CASE Retry(r)
    <3>1. \A cost : ~RetriesAs(r, cost).attempted
      BY <2>2 DEF RetriesAs, Coroutines
    <3>2. QED
      BY <2>3, <2>6, <3>1, RetryMoves DEF Types
  <2>7. CASE Wake(r)
    <3>1. CASE aborted
      <4>1. ~StopsAs(r).attempted
        BY <2>2 DEF StopsAs, Coroutines
      <4>2. QED
        BY <2>3, <2>7, <3>1, <4>1, WakeMoves DEF Types
    <3>2. CASE ~aborted
      <4>1. ~TriesAgainAs(r).attempted
        BY <2>2 DEF TriesAgainAs, Coroutines
      <4>2. QED
        BY <2>3, <2>7, <3>2, <4>1, WakeMoves DEF Types
    <3>3. QED
      BY <3>1, <3>2
  <2>8. CASE Raise(r)
    BY <2>2, <2>3, <2>8, RaiseMoves DEF Types, RaisesAs, Coroutines
  <2>9. QED
    BY <1>5, <2>4, <2>5, <2>6, <2>7, <2>8
<1>6. ASSUME NEW r \in Row, GiveUp(r)
      PROVE  Records'
  <2>1. PICK cost \in FailCost : Moves(r, GivesUpAs(r, cost))
    BY <1>6, GiveUpMoves DEF Types
  <2>2. /\ Executing /\ row[r] \in Coroutines /\ ~row[r].attempted /\ ~row[r].passed
        /\ stored' = stored \cup {GivesUp(r)} /\ UNCHANGED <<trial, phase>>
    BY <1>6 DEF GiveUp, Types, Turns, Sound, GivesUp
  <2>3. GivesUpAs(r, cost).attempted /\ ~GivesUpAs(r, cost).passed
    BY <2>2 DEF GivesUpAs, Coroutines
  <2>4. QED
    BY <2>1, <2>2, <2>3, GivesUpIs, OneRecorded DEF Passes
<1>7. ASSUME NEW r \in Row, Evaluate(r)
      PROVE  Records'
  <2>1. PICK outcome \in Outcome :
          /\ Moves(r, EvaluatesAs(r, outcome))
          /\ Finishes(r, outcome) => stored' = stored \cup {Evaluated(r, outcome)}
          /\ ~Finishes(r, outcome) => UNCHANGED stored
          /\ Scores(r, outcome) \in SUBSET Layer
          /\ Fails(r, outcome) \in SUBSET Scores(r, outcome)
          /\ Shorts(r, outcome) => Fails(r, outcome) # {}
    BY <1>7, EvaluateMoves DEF Types, Evaluated
  <2>2. /\ Executing /\ row[r] \in Coroutines /\ ~row[r].attempted
        /\ UNCHANGED <<trial, phase>> /\ phase' # "trials"
    BY <1>7 DEF Evaluate, Types, Turns, Sound, Executing
  <2>3. /\ EvaluatesAs(r, outcome).attempted = Finishes(r, outcome)
        /\ EvaluatesAs(r, outcome).passed = (Fails(r, outcome) = {} /\ row[r].layer = NLayers)
    BY <2>2 DEF EvaluatesAs, Coroutines
  <2>4. CASE ~Finishes(r, outcome)
    BY <2>1, <2>2, <2>3, <2>4, NothingRecorded
  <2>5. CASE Finishes(r, outcome)
    <3> DEFINE s == Evaluated(r, outcome)
    <3>1. /\ s \in StoredRows
          /\ s.trial = trial /\ s.row = r /\ s.called
          /\ s.scored = Scores(r, outcome) /\ s.failed = Fails(r, outcome)
      BY <2>1, <2>2, EvaluatedIs
    <3>2. EvaluatesAs(r, outcome).passed <=> Passes(s)
      BY <2>1, <2>3, <2>5, <3>1 DEF Finishes, Passes
    <3>3. stored' = stored \cup {s}
      BY <2>1, <2>5
    <3>4. EvaluatesAs(r, outcome).attempted
      BY <2>3, <2>5
    <3> HIDE DEF s
    <3>5. QED
      BY <2>1, <2>2, <3>1, <3>2, <3>3, <3>4, OneRecorded
  <2>6. QED
    BY <2>4, <2>5
<1>8. QED
  BY <1>1, <1>2, <1>3, <1>4, <1>5, <1>6, <1>7 DEF Next, CallStep, Ended, vars

-----------------------------------------------------------------------------
(* What providers have charged *)

LEMMA RowSumMoves ==
  ASSUME NEW v \in [Row -> Nat], NEW w \in [Row -> Nat], NEW r \in Row,
         \A q \in Row \ {r} : v[q] = w[q]
  PROVE  /\ SumOf(Row, v) \in Nat /\ SumOf(Row, w) \in Nat
         /\ SumOf(Row, w) = SumOf(Row, v) - v[r] + w[r]
<1>1. \A q \in Row : v[q] \in Nat /\ w[q] \in Nat
  OBVIOUS
<1>2. SumOf(Row, v) \in Nat /\ SumOf(Row, w) \in Nat
  BY <1>1, RowsFinite, SumType
<1>3. SumOf(Row, w) = SumOf(Row, v) - v[r] + w[r]
  BY <1>1, RowsFinite, SumChanges
<1>4. QED
  BY <1>2, <1>3

\* What the failed attempts of a row that is still held were charged: nobody
\* has added it yet.
Owes(c) == IF c.at \in {"calling", "backoff", "evaluating"} THEN c.spent ELSE 0
Owed == [r \in Row |-> Owes(row[r])]
Dropped == SumOf(stored, [s \in stored |-> s.dropped])

\* Every charge has been added, is owed, or was dropped.
Balance ==
  phase \in {"trials", "rows"} => billed = total + Dropped + SumOf(Row, Owed)

LEMMA OwedMoves ==
  ASSUME Types, NEW r \in Row, NEW c, Moves(r, c)
  PROVE  /\ SumOf(Row, Owed) \in Nat /\ SumOf(Row, Owed') \in Nat
         /\ Owes(row[r]) \in Nat /\ Owes(c) \in Nat
         /\ SumOf(Row, Owed') = SumOf(Row, Owed) - Owes(row[r]) + Owes(c)
<1> DEFINE v == [q \in Row |-> Owes(row[q])]
           w == [q \in Row |-> Owes(row'[q])]
<1>1. \A q \in Row : Owes(row[q]) \in Nat /\ Owes(row'[q]) \in Nat
  BY DEF Types, Turns, Moves, Coroutines, Owes
<1>2. v \in [Row -> Nat] /\ w \in [Row -> Nat]
  BY <1>1
<1>3. \A q \in Row \ {r} : v[q] = w[q]
  BY DEF Moves
<1>4. v[r] = Owes(row[r]) /\ w[r] = Owes(c)
  BY DEF Moves
<1>5. Owed = v /\ Owed' = w
  BY DEF Owed, Owes
<1> HIDE DEF v, w
<1>6. QED
  BY <1>1, <1>2, <1>3, <1>4, <1>5, RowSumMoves DEF Moves

LEMMA DroppedGrows ==
  ASSUME Types, NEW s \in StoredRows, s \notin stored, stored' = stored \cup {s}
  PROVE  Dropped' = Dropped + s.dropped
<1> DEFINE v == [x \in stored |-> x.dropped]
           w == [x \in stored \cup {s} |-> x.dropped]
<1>1. \A x \in stored : v[x] = w[x]
  OBVIOUS
<1>2. \A x \in stored \cup {s} : w[x] \in Nat
  BY DEF Types, Ledger, StoredRows
<1>3. w[s] = s.dropped /\ Dropped = SumOf(stored, v) /\ Dropped' = SumOf(stored \cup {s}, w)
  BY DEF Dropped
<1>4. IsFiniteSet(stored)
  BY DEF Types, Ledger
<1> HIDE DEF v, w
<1>5. SumOf(stored \cup {s}, w) = SumOf(stored, w) + w[s]
  BY <1>2, <1>4, SumOfMore
<1>6. SumOf(stored, v) = SumOf(stored, w)
  BY <1>1, SumSame
<1>7. QED
  BY <1>3, <1>5, <1>6

LEMMA DroppedType ==
  ASSUME Types
  PROVE  Dropped \in Nat
<1> DEFINE v == [x \in stored |-> x.dropped]
<1>1. \A x \in stored : v[x] \in Nat
  BY DEF Types, Ledger, StoredRows
<1> HIDE DEF v
<1>2. SumOf(stored, v) \in Nat
  BY <1>1, SumType DEF Types, Ledger
<1>3. QED
  BY <1>2 DEF Dropped, v

LEMMA BalanceStep ==
  ASSUME Types, Types', Records, Balance, [Next]_vars
  PROVE  Balance'
<1> DEFINE o == SumOf(Row, Owed)
           d == Dropped
<1>1. /\ total \in Nat /\ billed \in Nat /\ d \in Nat
      /\ \A r \in Row : row[r] \in Coroutines /\ row[r].spent \in Nat
  BY DroppedType DEF Types, Ledger, Turns, Coroutines
<1>2. CASE UNCHANGED <<phase, row, stored, billed, total>>
  <2>1. Owed' = Owed
    BY <1>2 DEF Owed, Owes
  <2>2. QED
    BY <1>2, <2>1 DEF Balance, Dropped
<1>3. ASSUME NEW r \in Row, NEW c, Moves(r, c), phase = "rows",
             stored' = stored,
             billed' = billed + (total' - total) + (Owes(c) - Owes(row[r]))
      PROVE  Balance'
  <2>1. Dropped' = d
    BY <1>3 DEF Dropped
  <2>2. /\ o \in Nat /\ Owes(row[r]) \in Nat /\ Owes(c) \in Nat
        /\ SumOf(Row, Owed') = o - Owes(row[r]) + Owes(c)
    BY <1>3, OwedMoves
  <2>3. billed = total + d + o /\ total' \in Nat /\ billed' \in Nat
    BY <1>3 DEF Balance, Types, Ledger
  <2> HIDE DEF o, d
  <2>4. billed' = total' + d + SumOf(Row, Owed')
    BY <1>1, <1>3, <2>2, <2>3
  <2>5. QED
    BY <2>1, <2>4 DEF Balance
<1>4. ASSUME NEW r \in Row, NEW c, Moves(r, c), phase = "rows",
             NEW s \in StoredRows, s.trial = trial, s.row = r, ~row[r].attempted,
             stored' = stored \cup {s},
             billed' = billed + (total' - total) + (Owes(c) - Owes(row[r])) + s.dropped
      PROVE  Balance'
  <2>1. s \notin stored
    BY <1>4, NotRecorded
  <2>2. Dropped' = d + s.dropped
    BY <1>4, <2>1, DroppedGrows
  <2>3. /\ o \in Nat /\ Owes(row[r]) \in Nat /\ Owes(c) \in Nat
        /\ SumOf(Row, Owed') = o - Owes(row[r]) + Owes(c)
    BY <1>4, OwedMoves
  <2>4. /\ billed = total + d + o /\ total' \in Nat /\ billed' \in Nat
        /\ s.dropped \in Nat
    BY <1>4 DEF Balance, Types, Ledger, StoredRows
  <2> HIDE DEF o, d
  <2>5. billed' = total' + (d + s.dropped) + SumOf(Row, Owed')
    BY <1>1, <1>4, <2>3, <2>4
  <2>6. QED
    BY <2>2, <2>5 DEF Balance
<1>5. CASE phase' \notin {"trials", "rows"}
  BY <1>5 DEF Balance
<1>6. ASSUME \A r \in Row : Owes(row[r]) = 0 /\ Owes(row'[r]) = 0,
             UNCHANGED <<stored, billed, total>>, phase \in {"trials", "rows"}
      PROVE  Balance'
  <2>1. \A r \in Row : Owed[r] = Owed'[r]
    BY <1>6 DEF Owed, Owes
  <2>2. SumOf(Row, Owed') = SumOf(Row, Owed)
    BY <2>1, SumSame
  <2>3. QED
    BY <1>6, <2>2 DEF Balance, Dropped
<1>7. CASE BeginTrial \/ EndTrial
  <2>1. \A r \in Row : Owes(row[r]) = 0 /\ Owes(row'[r]) = 0
    BY <1>7, FreshSound DEF BeginTrial, EndTrial, Owes, Types, Turns
  <2>2. QED
    BY <1>6, <1>7, <2>1 DEF BeginTrial, EndTrial
<1>8. CASE Unwind \/ Judge
  BY <1>5, <1>8 DEF Unwind, Judge
<1>9. ASSUME NEW r \in Row, CallStep(r) \/ Evaluate(r) \/ Raise(r), phase = "rows"
      PROVE  Balance'
  <2>1. CASE Begin(r)
    <3>1. Moves(r, BeginsAs(r)) /\ row[r] = Fresh
      BY <2>1, BeginMoves DEF Types
    <3>2. Owes(row[r]) = 0 /\ Owes(BeginsAs(r)) = 0
      BY <3>1 DEF Owes, BeginsAs, Fresh
    <3>3. UNCHANGED <<stored, total, billed>>
      BY <2>1 DEF Begin
    <3>4. billed' = billed + (total' - total) + (0 - 0)
      BY <1>1, <3>3
    <3>5. QED
      BY <1>3, <1>9, <3>1, <3>2, <3>3, <3>4
  <2>2. CASE Answer(r)
    <3>1. PICK cost \in CallCost :
            /\ cost \in Nat /\ Moves(r, AnswersAs(r, cost))
            /\ total' = total + cost /\ billed' = billed + cost
      BY <2>2, AnswerMoves DEF Types
    <3>2. Owes(row[r]) = row[r].spent /\ Owes(AnswersAs(r, cost)) = row[r].spent
      BY <1>1, <2>2 DEF Owes, AnswersAs, Coroutines, Answer
    <3>3. UNCHANGED stored
      BY <2>2 DEF Answer
    <3>4. billed' = billed + (total' - total) + (row[r].spent - row[r].spent)
      BY <1>1, <3>1
    <3>5. QED
      BY <1>3, <1>9, <3>1, <3>2, <3>3, <3>4
  <2>3. CASE Retry(r)
    <3>1. PICK cost \in FailCost :
            cost \in Nat /\ Moves(r, RetriesAs(r, cost)) /\ billed' = billed + cost
      BY <2>3, RetryMoves DEF Types
    <3>2. /\ Owes(row[r]) = row[r].spent
          /\ Owes(RetriesAs(r, cost)) = row[r].spent + cost
      BY <1>1, <2>3 DEF Owes, RetriesAs, Coroutines, Retry
    <3>3. UNCHANGED <<stored, total>>
      BY <2>3 DEF Retry
    <3>4. billed' = billed + (total' - total) + ((row[r].spent + cost) - row[r].spent)
      BY <1>1, <3>1, <3>3
    <3>5. QED
      BY <1>3, <1>9, <3>1, <3>2, <3>3, <3>4
  <2>4. CASE GiveUp(r)
    <3>1. PICK cost \in FailCost :
            /\ cost \in Nat /\ Moves(r, GivesUpAs(r, cost))
            /\ Credit(row[r].spent + cost) /\ billed' = billed + cost
      BY <2>4, GiveUpMoves DEF Types
    <3>2. Owes(row[r]) = row[r].spent /\ Owes(GivesUpAs(r, cost)) = 0
      BY <1>1, <2>4 DEF Owes, GivesUpAs, Coroutines, GiveUp
    <3>3. stored' = stored \cup {GivesUp(r)} /\ Executing /\ ~row[r].attempted
      BY <2>4 DEF GiveUp, GivesUp, Types, Turns, Sound
    <3>4. total' = total + (row[r].spent + cost)
      BY <3>1 DEF Credit
    <3>5. billed' = billed + (total' - total) + (0 - row[r].spent) + 0
      BY <1>1, <3>1, <3>4
    <3>6. QED
      BY <1>4, <1>9, <3>1, <3>2, <3>3, <3>5, GivesUpIs
  <2>5. CASE Wake(r)
    <3>1. UNCHANGED <<stored, billed>> /\ row[r].at = "backoff"
      BY <2>5 DEF Wake
    <3>2. CASE aborted
      <4>1. Moves(r, StopsAs(r)) /\ total' = total + row[r].spent
        BY <2>5, <3>2, WakeMoves DEF Types, Credit
      <4>2. Owes(row[r]) = row[r].spent /\ Owes(StopsAs(r)) = 0
        BY <1>1, <3>1 DEF Owes, StopsAs, Coroutines
      <4>3. billed' = billed + (total' - total) + (0 - row[r].spent)
        BY <1>1, <3>1, <4>1
      <4>4. QED
        BY <1>3, <1>9, <3>1, <4>1, <4>2, <4>3
    <3>3. CASE ~aborted
      <4>1. Moves(r, TriesAgainAs(r)) /\ total' = total
        BY <2>5, <3>3, WakeMoves DEF Types
      <4>2. Owes(row[r]) = row[r].spent /\ Owes(TriesAgainAs(r)) = row[r].spent
        BY <1>1, <3>1 DEF Owes, TriesAgainAs, Coroutines
      <4>3. billed' = billed + (total' - total) + (row[r].spent - row[r].spent)
        BY <1>1, <3>1, <4>1
      <4>4. QED
        BY <1>3, <1>9, <3>1, <4>1, <4>2, <4>3
    <3>4. QED
      BY <3>2, <3>3 DEF Types, Turns
  <2>6. CASE Evaluate(r)
    <3>1. PICK outcome \in Outcome :
            /\ Moves(r, EvaluatesAs(r, outcome))
            /\ Finishes(r, outcome) => stored' = stored \cup {Evaluated(r, outcome)}
            /\ ~Finishes(r, outcome) => UNCHANGED stored
            /\ Scores(r, outcome) \in SUBSET Layer
            /\ Fails(r, outcome) \in SUBSET Scores(r, outcome)
      BY <2>6, EvaluateMoves DEF Types, Evaluated
    <3>2. /\ UNCHANGED <<total, billed>> /\ row[r].at = "evaluating"
          /\ Executing /\ ~row[r].attempted
      BY <2>6 DEF Evaluate, Types, Turns, Sound
    <3>3. /\ Owes(row[r]) = row[r].spent
          /\ Owes(EvaluatesAs(r, outcome)) = IF Finishes(r, outcome) THEN 0 ELSE row[r].spent
      BY <1>1, <3>2 DEF Owes, EvaluatesAs, Coroutines
    <3>4. CASE Finishes(r, outcome)
      <4> DEFINE s == Evaluated(r, outcome)
      <4>1. s \in StoredRows /\ s.trial = trial /\ s.row = r /\ s.dropped = row[r].spent
        BY <3>1, <3>2, EvaluatedIs
      <4>2. stored' = stored \cup {s}
        BY <3>1, <3>4
      <4> HIDE DEF s
      <4>3. billed' = billed + (total' - total) + (0 - row[r].spent) + row[r].spent
        BY <1>1, <3>2
      <4>4. QED
        BY <1>4, <1>9, <3>1, <3>2, <3>3, <3>4, <4>1, <4>2, <4>3
    <3>5. CASE ~Finishes(r, outcome)
      <4>1. billed' = billed + (total' - total) + (row[r].spent - row[r].spent)
        BY <1>1, <3>2
      <4>2. QED
        BY <1>3, <1>9, <3>1, <3>3, <3>5, <4>1
    <3>6. QED
      BY <3>4, <3>5
  <2>7. CASE Raise(r)
    BY <1>5, <2>7 DEF Raise
  <2>8. QED
    BY <1>9, <2>1, <2>2, <2>3, <2>4, <2>5, <2>6, <2>7 DEF CallStep
<1>10. ASSUME NEW r \in Row, CallStep(r) \/ Evaluate(r) \/ Raise(r), phase # "rows"
       PROVE  Balance'
  <2>1. phase' = "unwinding"
    BY <1>10 DEF CallStep, Begin, Answer, Retry, GiveUp, Wake, Evaluate, Raise, Executing
  <2>2. QED
    BY <1>5, <2>1
<1>11. QED
  BY <1>2, <1>7, <1>8, <1>9, <1>10 DEF Next, Ended, vars

LEMMA RecordsInit == Init => Records
BY FreshSound DEF Init, Records, Executing

LEMMA RecordsHold == Spec => [](Types /\ Records)
<1>1. Types /\ Records /\ [Next]_vars => (Types /\ Records)'
  BY TypesStep, RecordsStep
<1>2. QED
  BY <1>1, TypesInit, RecordsInit, PTL DEF Spec

\* Between trials, every charge of every call has reached the run's cost,
\* except those of attempts that failed before one that answered.
THEOREM ChargesReach == Spec => []ChargesReachTotal
<1> DEFINE Inv == Types /\ Records /\ Balance
<1>1. Init => Balance
  <2> SUFFICES ASSUME Init PROVE Balance
    OBVIOUS
  <2>1. \A r \in Row : Owed[r] = 0
    BY FreshSound DEF Init, Owed, Owes
  <2>2. SumOf(Row, Owed) = 0
    BY <2>1, SumOfZeros
  <2>3. Dropped = 0
    BY SumOfNone DEF Init, Dropped
  <2>4. QED
    BY <2>2, <2>3 DEF Init, Balance
<1>2. Inv /\ [Next]_vars => Inv'
  BY TypesStep, RecordsStep, BalanceStep
<1>3. Inv => ChargesReachTotal
  <2> SUFFICES ASSUME Inv, phase = "trials" PROVE billed = total + Dropped
    BY DEF ChargesReachTotal, Dropped
  <2>1. \A r \in Row : Owed[r] = 0
    BY DEF Types, Turns, Owed, Owes
  <2>2. SumOf(Row, Owed) = 0
    BY <2>1, SumOfZeros
  <2>3. total \in Nat /\ Dropped \in Nat
    BY DroppedType DEF Types, Ledger
  <2>4. QED
    BY <2>2, <2>3 DEF Balance
<1>4. QED
  BY <1>1, <1>2, <1>3, TypesInit, RecordsInit, PTL DEF Spec

-----------------------------------------------------------------------------
(* What the audit log says of the cap *)

\* What an answer has cost that is not recorded yet.
Due(c) == IF c.at = "evaluating" THEN c.cost ELSE 0
Pending == [r \in Row |-> Due(row[r])]
Earned == SumOf(stored, [s \in stored |-> s.cost])

LEMMA AnswersCostIs ==
  /\ AnswersCost = Earned + SumOf(Row, Pending)
  /\ AnswersCost' = Earned' + SumOf(Row, Pending')
BY DEF AnswersCost, Earned, Pending, Due

LEMMA PendingMoves ==
  ASSUME Types, NEW r \in Row, NEW c, Moves(r, c)
  PROVE  /\ SumOf(Row, Pending) \in Nat /\ SumOf(Row, Pending') \in Nat
         /\ Due(row[r]) \in Nat /\ Due(c) \in Nat
         /\ SumOf(Row, Pending') = SumOf(Row, Pending) - Due(row[r]) + Due(c)
<1> DEFINE v == [q \in Row |-> Due(row[q])]
           w == [q \in Row |-> Due(row'[q])]
<1>1. \A q \in Row : Due(row[q]) \in Nat /\ Due(row'[q]) \in Nat
  BY DEF Types, Turns, Moves, Coroutines, Due
<1>2. v \in [Row -> Nat] /\ w \in [Row -> Nat]
  BY <1>1
<1>3. \A q \in Row \ {r} : v[q] = w[q]
  BY DEF Moves
<1>4. v[r] = Due(row[r]) /\ w[r] = Due(c)
  BY DEF Moves
<1>5. Pending = v /\ Pending' = w
  BY DEF Pending, Due
<1> HIDE DEF v, w
<1>6. QED
  BY <1>1, <1>2, <1>3, <1>4, <1>5, RowSumMoves DEF Moves

LEMMA EarnedGrows ==
  ASSUME Types, NEW s \in StoredRows, s \notin stored, stored' = stored \cup {s}
  PROVE  Earned' = Earned + s.cost
<1> DEFINE v == [x \in stored |-> x.cost]
           w == [x \in stored \cup {s} |-> x.cost]
<1>1. \A x \in stored : v[x] = w[x]
  OBVIOUS
<1>2. \A x \in stored \cup {s} : w[x] \in Nat
  BY DEF Types, Ledger, StoredRows
<1>3. w[s] = s.cost /\ Earned = SumOf(stored, v) /\ Earned' = SumOf(stored \cup {s}, w)
  BY DEF Earned
<1>4. IsFiniteSet(stored)
  BY DEF Types, Ledger
<1> HIDE DEF v, w
<1>5. SumOf(stored \cup {s}, w) = SumOf(stored, w) + w[s]
  BY <1>2, <1>4, SumOfMore
<1>6. SumOf(stored, v) = SumOf(stored, w)
  BY <1>1, SumSame
<1>7. QED
  BY <1>3, <1>5, <1>6

LEMMA AnswersCostType ==
  ASSUME Types
  PROVE  AnswersCost \in Nat /\ Earned \in Nat
<1> DEFINE v == [x \in stored |-> x.cost]
<1>1. \A x \in stored : v[x] \in Nat
  BY DEF Types, Ledger, StoredRows
<1>2. \A r \in Row : Pending[r] \in Nat
  BY DEF Types, Turns, Coroutines, Pending, Due
<1> HIDE DEF v
<1>3. SumOf(stored, v) \in Nat /\ SumOf(Row, Pending) \in Nat
  BY <1>1, <1>2, RowsFinite, SumType DEF Types, Ledger
<1>4. QED
  BY <1>3, AnswersCostIs DEF Earned, v

\* How a step of one row changes what answers have cost.
LEMMA AnswersCostMoves ==
  ASSUME Types, Types', Records, NEW r \in Row, NEW c, Moves(r, c)
  PROVE  /\ stored' = stored => AnswersCost' = AnswersCost - Due(row[r]) + Due(c)
         /\ \A s \in StoredRows :
              s.trial = trial /\ s.row = r /\ ~row[r].attempted /\ stored' = stored \cup {s}
                => AnswersCost' = AnswersCost - Due(row[r]) + Due(c) + s.cost
<1> DEFINE p == SumOf(Row, Pending)
           q == SumOf(Row, Pending')
<1>1. /\ p \in Nat /\ q \in Nat /\ Due(row[r]) \in Nat /\ Due(c) \in Nat
      /\ q = p - Due(row[r]) + Due(c)
  BY PendingMoves
<1>2. AnswersCost = Earned + p /\ AnswersCost' = Earned' + q /\ Earned \in Nat
  BY AnswersCostIs, AnswersCostType
<1> HIDE DEF p, q
<1>3. ASSUME stored' = stored
      PROVE  AnswersCost' = AnswersCost - Due(row[r]) + Due(c)
  <2>1. Earned' = Earned
    BY <1>3 DEF Earned
  <2>2. QED
    BY <1>1, <1>2, <2>1
<1>4. ASSUME NEW s \in StoredRows, s.trial = trial, s.row = r, ~row[r].attempted,
             stored' = stored \cup {s}
      PROVE  AnswersCost' = AnswersCost - Due(row[r]) + Due(c) + s.cost
  <2>1. s \notin stored
    BY <1>4, NotRecorded
  <2>2. Earned' = Earned + s.cost /\ s.cost \in Nat
    BY <1>4, <2>1, EarnedGrows DEF StoredRows
  <2>3. QED
    BY <1>1, <1>2, <2>2
<1>5. QED
  BY <1>3, <1>4

\* A run at its cap is capped; this is announced once, by an answer, unless
\* a failed call had a part in it, whose charge is then in the cost too.
Announces ==
  /\ AtCap(total) => capped
  /\ announced <= 1 /\ (announced = 1 => capped)
  /\ total >= AnswersCost
  /\ capped /\ announced = 0 => total > AnswersCost

LEMMA AnnouncesStep ==
  ASSUME Types, Types', Records, Announces, [Next]_vars
  PROVE  Announces'
<1>1. /\ total \in Nat /\ total' \in Nat /\ announced \in Nat /\ announced' \in Nat
      /\ AnswersCost \in Nat /\ AnswersCost' \in Int /\ Cap \in Nat
      /\ capped \in BOOLEAN
      /\ \A r \in Row : /\ row[r] \in Coroutines /\ row[r].spent \in Nat /\ row[r].cost \in Nat
                        /\ row[r].at # "done" => ~row[r].attempted
  <2>1. AnswersCost' \in Int
    <3>1. Earned' \in Nat /\ SumOf(Row, Pending') \in Nat
      <4> DEFINE v == [x \in stored' |-> x.cost]
                 w == [r \in Row |-> Due(row'[r])]
      <4>1. \A x \in stored' : v[x] \in Nat
        BY DEF Types, Ledger, StoredRows
      <4>2. \A r \in Row : w[r] \in Nat
        BY DEF Types, Turns, Coroutines, Due
      <4>3. Earned' = SumOf(stored', v) /\ Pending' = w /\ IsFiniteSet(stored')
        BY DEF Earned, Pending, Due, Types, Ledger
      <4> HIDE DEF v, w
      <4>4. QED
        BY <4>1, <4>2, <4>3, RowsFinite, SumType
    <3>2. AnswersCost' = Earned' + SumOf(Row, Pending')
      BY AnswersCostIs
    <3>3. QED
      BY <3>1, <3>2
  <2>2. QED
    BY <2>1, AnswersCostType, Numbers DEF Types, Ledger, Turns, Sound, Coroutines
<1>2. ASSUME UNCHANGED <<total, capped, announced>>, AnswersCost' <= AnswersCost
      PROVE  Announces'
  BY <1>1, <1>2 DEF Announces, AtCap
<1>3. ASSUME UNCHANGED announced, NEW spent \in Nat, Credit(spent), AnswersCost' = AnswersCost
      PROVE  Announces'
  <2>1. total' = total + spent /\ capped' = (capped \/ (spent > 0 /\ AtCap(total')))
    BY <1>3 DEF Credit
  <2>2. CASE spent = 0
    <3>1. total' = total /\ (capped' <=> capped)
      BY <1>1, <2>1, <2>2
    <3>2. QED
      BY <1>1, <1>3, <3>1 DEF Announces, AtCap
  <2>3. CASE spent > 0
    <3>1. total' > AnswersCost'
      BY <1>1, <1>3, <2>1, <2>3 DEF Announces
    <3>2. (AtCap(total') => capped') /\ (capped => capped')
      BY <2>1, <2>3
    <3>3. QED
      BY <1>1, <1>3, <3>1, <3>2 DEF Announces
  <2>4. QED
    BY <2>2, <2>3
<1>4. CASE BeginTrial \/ EndTrial
  <2>1. \A r \in Row : Due(row[r]) = 0 /\ Due(row'[r]) = 0
    BY <1>4, FreshSound DEF BeginTrial, EndTrial, Due, Types, Turns
  <2>2. \A r \in Row : Pending[r] = Pending'[r]
    BY <2>1 DEF Pending, Due
  <2>3. SumOf(Row, Pending') = SumOf(Row, Pending)
    BY <2>2, SumSame
  <2>4. UNCHANGED <<stored, total, capped, announced>>
    BY <1>4 DEF BeginTrial, EndTrial
  <2>5. AnswersCost' = AnswersCost
    BY <2>3, <2>4, AnswersCostIs DEF Earned
  <2>6. QED
    BY <1>1, <1>2, <2>4, <2>5
<1>5. CASE UNCHANGED vars \/ Unwind \/ Judge \/ Ended
  <2>1. UNCHANGED <<row, stored, total, capped, announced>>
    BY <1>5 DEF vars, Unwind, Judge, Ended
  <2>2. AnswersCost' = AnswersCost
    BY <2>1 DEF AnswersCost
  <2>3. QED
    BY <1>1, <1>2, <2>1, <2>2
<1>6. ASSUME NEW r \in Row, Begin(r)
      PROVE  Announces'
  <2>1. Moves(r, BeginsAs(r)) /\ row[r] = Fresh
    BY <1>6, BeginMoves DEF Types
  <2>2. Due(row[r]) = 0 /\ Due(BeginsAs(r)) = 0
    BY <2>1 DEF Due, BeginsAs, Fresh
  <2>3. AnswersCost' = AnswersCost - 0 + 0
    BY <1>6, <2>1, <2>2, AnswersCostMoves DEF Begin
  <2>4. UNCHANGED <<total, announced>> /\ (capped' <=> capped)
    BY <1>6 DEF Begin, Announces
  <2>5. QED
    BY <1>1, <2>3, <2>4 DEF Announces, AtCap
<1>7. ASSUME NEW r \in Row, Answer(r)
      PROVE  Announces'
  <2>1. PICK cost \in CallCost :
          cost \in Nat /\ Moves(r, AnswersAs(r, cost)) /\ total' = total + cost
    BY <1>7, AnswerMoves DEF Types
  <2>2. Due(row[r]) = 0 /\ Due(AnswersAs(r, cost)) = cost
    BY <1>1, <1>7 DEF Due, AnswersAs, Coroutines, Answer
  <2>3. AnswersCost' = AnswersCost - 0 + cost
    BY <1>7, <2>1, <2>2, AnswersCostMoves DEF Answer
  <2>4. /\ capped' = (capped \/ AtCap(total'))
        /\ announced' = IF AtCap(total') /\ ~capped THEN announced + 1 ELSE announced
    BY <1>7 DEF Answer
  <2>5. CASE AtCap(total') /\ ~capped
    <3>0. announced = 0
      BY <1>1, <2>5 DEF Announces
    <3>1. announced' = 1 /\ capped'
      <4>1. announced' = announced + 1
        BY <2>4, <2>5
      <4>2. capped'
        BY <2>4, <2>5
      <4>3. QED
        BY <3>0, <4>1, <4>2
    <3>2. total' >= AnswersCost'
      BY <1>1, <2>1, <2>3 DEF Announces
    <3>3. QED
      BY <3>1, <3>2 DEF Announces
  <2>6. CASE ~(AtCap(total') /\ ~capped)
    <3>1. announced' = announced /\ (capped' <=> capped) /\ (AtCap(total') => capped)
      BY <2>4, <2>6
    <3>2. QED
      BY <1>1, <2>1, <2>3, <3>1 DEF Announces, AtCap
  <2>7. QED
    BY <2>5, <2>6
<1>8. ASSUME NEW r \in Row, Retry(r)
      PROVE  Announces'
  <2>1. PICK cost \in FailCost : Moves(r, RetriesAs(r, cost))
    BY <1>8, RetryMoves DEF Types
  <2>2. Due(row[r]) = 0 /\ Due(RetriesAs(r, cost)) = 0
    BY <1>1, <1>8 DEF Due, RetriesAs, Coroutines, Retry
  <2>3. AnswersCost' = AnswersCost - 0 + 0
    BY <1>8, <2>1, <2>2, AnswersCostMoves DEF Retry
  <2>4. UNCHANGED <<total, capped, announced>>
    BY <1>8 DEF Retry
  <2>5. QED
    BY <1>1, <1>2, <2>3, <2>4
<1>9. ASSUME NEW r \in Row, GiveUp(r)
      PROVE  Announces'
  <2>1. PICK cost \in FailCost :
          cost \in Nat /\ Moves(r, GivesUpAs(r, cost)) /\ Credit(row[r].spent + cost)
    BY <1>9, GiveUpMoves DEF Types
  <2>2. Due(row[r]) = 0 /\ Due(GivesUpAs(r, cost)) = 0
    BY <1>1, <1>9 DEF Due, GivesUpAs, Coroutines, GiveUp
  <2>3. stored' = stored \cup {GivesUp(r)} /\ Executing /\ ~row[r].attempted
    BY <1>1, <1>9 DEF GiveUp, GivesUp
  <2>4. AnswersCost' = AnswersCost - 0 + 0 + 0
    BY <2>1, <2>2, <2>3, GivesUpIs, AnswersCostMoves
  <2>5. AnswersCost' = AnswersCost /\ row[r].spent + cost \in Nat /\ UNCHANGED announced
    BY <1>1, <1>9, <2>1, <2>4 DEF GiveUp
  <2>6. QED
    BY <1>3, <2>1, <2>5
<1>10. ASSUME NEW r \in Row, Wake(r)
       PROVE  Announces'
  <2>1. UNCHANGED <<stored, announced>> /\ Due(row[r]) = 0
    BY <1>10 DEF Wake, Due
  <2>2. CASE aborted
    <3>1. Moves(r, StopsAs(r)) /\ Credit(row[r].spent)
      BY <1>10, <2>2, WakeMoves DEF Types
    <3>2. Due(StopsAs(r)) = 0
      BY <1>1 DEF Due, StopsAs, Coroutines
    <3>3. AnswersCost' = AnswersCost - 0 + 0
      BY <2>1, <3>1, <3>2, AnswersCostMoves
    <3>4. QED
      BY <1>1, <1>3, <2>1, <3>1, <3>3
  <2>3. CASE ~aborted
    <3>1. Moves(r, TriesAgainAs(r)) /\ UNCHANGED <<total, capped>>
      BY <1>10, <2>3, WakeMoves DEF Types
    <3>2. Due(TriesAgainAs(r)) = 0
      BY <1>1 DEF Due, TriesAgainAs, Coroutines
    <3>3. AnswersCost' = AnswersCost - 0 + 0
      BY <2>1, <3>1, <3>2, AnswersCostMoves
    <3>4. QED
      BY <1>1, <1>2, <2>1, <3>1, <3>3
  <2>4. QED
    BY <2>2, <2>3 DEF Types, Turns
<1>11. ASSUME NEW r \in Row, Evaluate(r)
       PROVE  Announces'
  <2>1. PICK outcome \in Outcome :
          /\ Moves(r, EvaluatesAs(r, outcome))
          /\ Finishes(r, outcome) => stored' = stored \cup {Evaluated(r, outcome)}
          /\ ~Finishes(r, outcome) => UNCHANGED stored
          /\ Scores(r, outcome) \in SUBSET Layer
          /\ Fails(r, outcome) \in SUBSET Scores(r, outcome)
    BY <1>11, EvaluateMoves DEF Types, Evaluated
  <2>2. /\ UNCHANGED <<total, capped, announced>> /\ row[r].at = "evaluating"
        /\ Executing /\ ~row[r].attempted
    BY <1>1, <1>11 DEF Evaluate
  <2>3. /\ Due(row[r]) = row[r].cost
        /\ Due(EvaluatesAs(r, outcome)) = IF Finishes(r, outcome) THEN 0 ELSE row[r].cost
    BY <1>1, <2>2 DEF Due, EvaluatesAs, Coroutines
  <2>4. CASE Finishes(r, outcome)
    <3> DEFINE s == Evaluated(r, outcome)
    <3>1. s \in StoredRows /\ s.trial = trial /\ s.row = r /\ s.cost = row[r].cost
      BY <2>1, <2>2, EvaluatedIs
    <3>2. stored' = stored \cup {s}
      BY <2>1, <2>4
    <3> HIDE DEF s
    <3>3. AnswersCost' = AnswersCost - row[r].cost + 0 + row[r].cost
      BY <2>1, <2>2, <2>3, <2>4, <3>1, <3>2, AnswersCostMoves
    <3>4. QED
      BY <1>1, <1>2, <2>2, <3>3
  <2>5. CASE ~Finishes(r, outcome)
    <3>1. AnswersCost' = AnswersCost - row[r].cost + row[r].cost
      BY <2>1, <2>3, <2>5, AnswersCostMoves
    <3>2. QED
      BY <1>1, <1>2, <2>2, <3>1
  <2>6. QED
    BY <2>4, <2>5
<1>12. ASSUME NEW r \in Row, Raise(r)
       PROVE  Announces'
  <2>1. Moves(r, RaisesAs(r)) /\ UNCHANGED <<stored, total, capped, announced>>
    BY <1>12, RaiseMoves DEF Types, Raise
  <2>2. Due(row[r]) \in Nat /\ Due(RaisesAs(r)) = 0
    BY <1>1 DEF Due, RaisesAs, Coroutines
  <2>3. AnswersCost' = AnswersCost - Due(row[r]) + 0
    BY <2>1, <2>2, AnswersCostMoves
  <2>4. QED
    BY <1>1, <1>2, <2>1, <2>2, <2>3
<1>13. QED
  BY <1>4, <1>5, <1>6, <1>7, <1>8, <1>9, <1>10, <1>11, <1>12 DEF Next, CallStep

-----------------------------------------------------------------------------
(* What the trials and the audit log say of the rows *)

\* A step records nothing of any other row or trial than these.
OnlyOf(r) ==
  /\ stored \subseteq stored' /\ events \subseteq events'
  /\ \A s \in stored' : s \in stored \/ (s.trial = trial /\ s.row = r)
  /\ \A e \in events' : e \in events \/ (e.trial = trial /\ e.row = r)

LEMMA StepsAreOnlyOf ==
  ASSUME Types, NEW r \in Row, CallStep(r) \/ Evaluate(r) \/ Raise(r)
  PROVE  OnlyOf(r)
<1>1. \A kind : Event(r, kind).trial = trial /\ Event(r, kind).row = r
  BY DEF Event
<1>2. CASE Begin(r) \/ Answer(r) \/ Retry(r) \/ Wake(r) \/ Raise(r)
  <2>1. UNCHANGED stored
    BY <1>2 DEF Begin, Answer, Retry, Wake, Raise
  <2>2. \/ UNCHANGED events
        \/ \E kind : events' = events \cup {Event(r, kind)}
    BY <1>2 DEF Begin, Answer, Retry, Wake, Raise
  <2>3. QED
    BY <1>1, <2>1, <2>2 DEF OnlyOf
<1>3. CASE GiveUp(r)
  <2>1. /\ stored' = stored \cup {GivesUp(r)}
        /\ events' = events \cup {Event(r, "provider.failed")} /\ Executing
    BY <1>3 DEF GiveUp, GivesUp
  <2>2. QED
    BY <1>1, <2>1, GivesUpIs DEF OnlyOf
<1>4. CASE Evaluate(r)
  <2>1. PICK outcome \in Outcome :
          /\ Finishes(r, outcome) => stored' = stored \cup {Evaluated(r, outcome)}
          /\ ~Finishes(r, outcome) => UNCHANGED stored
          /\ events' = IF Shorts(r, outcome)
                         THEN events \cup {Event(r, "row.short_circuited")} ELSE events
          /\ Scores(r, outcome) \in SUBSET Layer
          /\ Fails(r, outcome) \in SUBSET Scores(r, outcome)
    BY <1>4, EvaluateMoves DEF Types, Evaluated
  <2>2. Evaluated(r, outcome).trial = trial /\ Evaluated(r, outcome).row = r
    <3>1. Executing
      BY <1>4 DEF Evaluate
    <3>2. QED
      BY <2>1, <3>1, EvaluatedIs
  <2>3. \A s \in stored' : s \in stored \/ (s.trial = trial /\ s.row = r)
    BY <2>1, <2>2
  <2>4. \A e \in events' : e \in events \/ (e.trial = trial /\ e.row = r)
    BY <1>1, <2>1
  <2>5. stored \subseteq stored' /\ events \subseteq events'
    BY <2>1
  <2>6. QED
    BY <2>3, <2>4, <2>5 DEF OnlyOf
<1>5. QED
  BY <1>2, <1>3, <1>4 DEF CallStep

PassedRows(t) == {r \in Row : \E s \in stored : s.trial = t /\ s.row = r /\ Passes(s)}
FailedRows(t) == {r \in Row : \E s \in stored : s.trial = t /\ s.row = r /\ ~Passes(s)}

\* A trial that has been executed is summed up by the rows it has recorded.
Summaries ==
  /\ \A t \in DOMAIN summary :
       /\ t < trial
       /\ summary[t].pass = Cardinality(PassedRows(t))
       /\ summary[t].fail = Cardinality(FailedRows(t))
       /\ summary[t].status = "passed" => summary[t].pass = NRows /\ summary[t].fail = 0
  /\ ~capped => DOMAIN summary = 1..trial - 1

LEMMA SummariesStep ==
  ASSUME Types, Records, Summaries, [Next]_vars
  PROVE  Summaries'
<1>1. trial \in Int /\ \A t \in DOMAIN summary : t \in Int
  BY Numbers DEF Types, Turns, Verdict, Trial
<1>2. ASSUME NEW r \in Row, CallStep(r) \/ Evaluate(r) \/ Raise(r)
      PROVE  Summaries'
  <2>1. UNCHANGED <<summary, trial>> /\ (capped => capped')
    <3>1. UNCHANGED <<summary, trial>>
      BY <1>2 DEF CallStep, Begin, Answer, Retry, GiveUp, Wake, Evaluate, Raise
    <3>2. \A spent : Credit(spent) => (capped => capped')
      BY DEF Credit
    <3>3. CASE GiveUp(r)
      BY <3>1, <3>2, <3>3, GiveUpMoves DEF Types
    <3>4. CASE Wake(r)
      BY <3>1, <3>2, <3>4 DEF Wake
    <3>5. CASE Begin(r)
      <4>1. CASE aborted \/ AtCap(total)
        <5>1. capped' = (capped \/ ~aborted)
          BY <3>5, <4>1 DEF Begin
        <5>2. QED
          BY <3>1, <5>1
      <4>2. CASE ~(aborted \/ AtCap(total))
        <5>1. capped' = capped
          BY <3>5, <4>2 DEF Begin
        <5>2. QED
          BY <3>1, <5>1
      <4>3. QED
        BY <4>1, <4>2
    <3>6. CASE Answer(r)
      <4>1. capped' = (capped \/ AtCap(total'))
        BY <3>6 DEF Answer
      <4>2. QED
        BY <3>1, <4>1
    <3>7. CASE Retry(r) \/ Evaluate(r) \/ Raise(r)
      <4>1. UNCHANGED capped
        BY <3>7 DEF Retry, Evaluate, Raise
      <4>2. QED
        BY <3>1, <4>1
    <3>8. QED
      BY <1>2, <3>3, <3>4, <3>5, <3>6, <3>7 DEF CallStep
  <2>2. OnlyOf(r)
    BY <1>2, StepsAreOnlyOf
  <2>3. ASSUME NEW t, t < trial
        PROVE  PassedRows(t)' = PassedRows(t) /\ FailedRows(t)' = FailedRows(t)
    <3>1. t # trial
      BY <1>1, <2>3
    <3>2. \A s : s.trial = t => (s \in stored' <=> s \in stored)
      BY <2>2, <3>1 DEF OnlyOf
    <3>3. QED
      BY <3>2 DEF PassedRows, FailedRows, Passes
  <2>4. QED
    BY <2>1, <2>3 DEF Summaries
<1>3. CASE BeginTrial
  <2>1. UNCHANGED <<summary, stored, capped>>
    BY <1>3 DEF BeginTrial
  <2>2. trial' = trial \/ (capped /\ trial' = trial + 1)
    BY <1>3 DEF BeginTrial
  <2>3. \A t \in DOMAIN summary : t < trial => t < trial'
    BY <1>1, <2>2
  <2>4. \A t : PassedRows(t)' = PassedRows(t) /\ FailedRows(t)' = FailedRows(t)
    BY <2>1 DEF PassedRows, FailedRows, Passes
  <2>5. \A t \in DOMAIN summary :
          /\ t < trial'
          /\ summary[t].pass = Cardinality(PassedRows(t)')
          /\ summary[t].fail = Cardinality(FailedRows(t)')
          /\ summary[t].status = "passed" => summary[t].pass = NRows /\ summary[t].fail = 0
    BY <2>3, <2>4 DEF Summaries
  <2>6. ~capped => DOMAIN summary = 1..trial' - 1
    BY <2>2 DEF Summaries
  <2>7. QED
    BY <2>1, <2>5, <2>6 DEF Summaries
<1>4. CASE EndTrial
  <2>1. /\ phase = "rows" /\ trial' = trial + 1 /\ UNCHANGED <<stored, row, capped>>
        /\ DOMAIN summary' = DOMAIN summary \cup {trial}
        /\ summary'[trial] = SummaryNow
        /\ \A t \in DOMAIN summary : t # trial => summary'[t] = summary[t]
    BY <1>4, EndTrialRecords DEF EndTrial, Types
  <2>2. \A s \in stored : s.trial = trial =>
          s.row \in Row /\ row[s.row].attempted /\ (row[s.row].passed <=> Passes(s))
    BY <1>1 DEF Records, Types, Ledger, StoredRows
  <2>3. \A r \in Row : row[r].attempted => \E s \in stored : s.trial = trial /\ s.row = r
    BY <2>1 DEF Records, Executing
  <2>4. PassedNow = PassedRows(trial) /\ FailedNow = FailedRows(trial)
    BY <2>2, <2>3 DEF PassedNow, FailedNow, PassedRows, FailedRows
  <2>5. \A t : PassedRows(t)' = PassedRows(t) /\ FailedRows(t)' = FailedRows(t)
    BY <2>1 DEF PassedRows, FailedRows, Passes
  <2>6. /\ SummaryNow.pass = Cardinality(PassedRows(trial))
        /\ SummaryNow.fail = Cardinality(FailedRows(trial))
        /\ SummaryNow.status = "passed" => SummaryNow.pass = NRows /\ SummaryNow.fail = 0
    BY <2>4 DEF SummaryNow, TrialStatus
  <2>7. ASSUME NEW t \in DOMAIN summary'
        PROVE  /\ t < trial'
               /\ summary'[t].pass = Cardinality(PassedRows(t)')
               /\ summary'[t].fail = Cardinality(FailedRows(t)')
               /\ summary'[t].status = "passed" =>
                    summary'[t].pass = NRows /\ summary'[t].fail = 0
    <3>1. CASE t = trial
      BY <1>1, <2>1, <2>5, <2>6, <3>1
    <3>2. CASE t # trial
      <4>1. t \in DOMAIN summary /\ summary'[t] = summary[t]
        BY <2>1, <2>7, <3>2
      <4>2. t < trial'
        BY <1>1, <2>1, <4>1 DEF Summaries
      <4>3. QED
        BY <2>5, <4>1, <4>2 DEF Summaries
    <3>3. QED
      BY <3>1, <3>2
  <2>8. ~capped => DOMAIN summary' = 1..trial' - 1
    <3>1. ASSUME ~capped PROVE DOMAIN summary' = 1..trial' - 1
      <4>1. DOMAIN summary' = (1..trial - 1) \cup {trial}
        BY <2>1, <3>1 DEF Summaries
      <4>2. trial \in Nat \ {0}
        BY Numbers DEF Types, Turns
      <4>3. QED
        BY <2>1, <4>1, <4>2
    <3>2. QED
      BY <3>1
  <2>9. QED
    BY <2>1, <2>7, <2>8 DEF Summaries
<1>5. CASE Unwind \/ Judge \/ Ended \/ UNCHANGED vars
  <2>1. UNCHANGED <<summary, stored, capped, trial>>
    BY <1>5 DEF Unwind, Judge, Ended, vars
  <2>2. QED
    <3>1. \A t : PassedRows(t)' = PassedRows(t) /\ FailedRows(t)' = FailedRows(t)
      BY <2>1 DEF PassedRows, FailedRows, Passes
    <3>2. QED
      BY <2>1, <3>1 DEF Summaries
<1>6. QED
  BY <1>2, <1>3, <1>4, <1>5 DEF Next

Said(t, r, kind) == [trial |-> t, row |-> r, kind |-> kind] \in events

\* Neither the store nor the log knows a call of the row that answered or
\* finally failed...
Untold(t, r) ==
  /\ ~ \E s \in stored : s.trial = t /\ s.row = r
  /\ ~Said(t, r, "provider.called")
  /\ ~Said(t, r, "provider.failed")
  /\ ~Said(t, r, "row.short_circuited")

\* ...or both know it, and agree.
Told(t, r) ==
  \E s \in stored :
    /\ s.trial = t /\ s.row = r
    /\ s.called <=> Said(t, r, "provider.called")
    /\ ~s.called <=> Said(t, r, "provider.failed")
    /\ Said(t, r, "row.short_circuited") => s.failed # {}

RowTrail(r) ==
  /\ row[r].at \in {"waiting", "calling", "backoff"} => Untold(trial, r)
  /\ row[r].at = "evaluating" =>
       /\ Said(trial, r, "provider.called")
       /\ ~Said(trial, r, "provider.failed")
       /\ ~Said(trial, r, "row.short_circuited")
  /\ row[r].at = "done" => Untold(trial, r) \/ Told(trial, r)

Trail ==
  /\ \A e \in events : e.trial < trial \/ (e.trial = trial /\ phase # "trials")
  /\ phase = "rows" => \A r \in Row : RowTrail(r)
  /\ \A t \in DOMAIN summary, r \in Row : Untold(t, r) \/ Told(t, r)

LEMMA OthersTold ==
  ASSUME NEW r \in Row, OnlyOf(r), NEW t, NEW q, ~(t = trial /\ q = r)
  PROVE  /\ \A kind : Said(t, q, kind)' <=> Said(t, q, kind)
         /\ Untold(t, q)' <=> Untold(t, q)
         /\ Told(t, q)' <=> Told(t, q)
<1>1. ASSUME NEW kind PROVE Said(t, q, kind)' <=> Said(t, q, kind)
  <2> DEFINE e == [trial |-> t, row |-> q, kind |-> kind]
  <2>1. e.trial = t /\ e.row = q
    OBVIOUS
  <2> HIDE DEF e
  <2>2. e \in events' <=> e \in events
    BY <2>1 DEF OnlyOf
  <2>3. QED
    BY <2>2 DEF Said, e
<1>2. \A s : s.trial = t /\ s.row = q => (s \in stored' <=> s \in stored)
  BY DEF OnlyOf
<1>3. Untold(t, q)' <=> Untold(t, q)
  BY <1>1, <1>2 DEF Untold
<1>4. Told(t, q)' <=> Told(t, q)
  <2>1. ASSUME Told(t, q) PROVE Told(t, q)'
    <3>1. PICK s \in stored :
            /\ s.trial = t /\ s.row = q
            /\ s.called <=> Said(t, q, "provider.called")
            /\ ~s.called <=> Said(t, q, "provider.failed")
            /\ Said(t, q, "row.short_circuited") => s.failed # {}
      BY <2>1 DEF Told
    <3>2. s \in stored'
      BY <1>2, <3>1
    <3>3. QED
      BY <1>1, <3>1, <3>2 DEF Told
  <2>2. ASSUME Told(t, q)' PROVE Told(t, q)
    <3>1. PICK s \in stored' :
            /\ s.trial = t /\ s.row = q
            /\ s.called <=> Said(t, q, "provider.called")'
            /\ ~s.called <=> Said(t, q, "provider.failed")'
            /\ Said(t, q, "row.short_circuited")' => s.failed # {}
      BY <2>2 DEF Told
    <3>2. s \in stored
      BY <1>2, <3>1
    <3>3. QED
      BY <1>1, <3>1, <3>2 DEF Told
  <2>3. QED
    BY <2>1, <2>2
<1>5. QED
  BY <1>1, <1>3, <1>4

\* What is said of a row after an event of it.
LEMMA SaysMore ==
  ASSUME NEW r, NEW kind, events' = events \cup {Event(r, kind)}, trial' = trial
  PROVE  \A k : Said(trial, r, k)' <=> Said(trial, r, k) \/ k = kind
BY DEF Said, Event

LEMMA SaysNoMore ==
  ASSUME UNCHANGED <<events, trial>>, NEW r
  PROVE  \A k : Said(trial, r, k)' <=> Said(trial, r, k)
BY DEF Said

LEMMA RowTrailStep ==
  ASSUME Types, Records, NEW r \in Row, RowTrail(r), phase = "rows",
         CallStep(r) \/ Evaluate(r)
  PROVE  RowTrail(r)'
<1>1. row[r] \in Coroutines
  BY DEF Types, Turns
<1>2. CASE Begin(r)
  <2>1. Moves(r, BeginsAs(r)) /\ row[r] = Fresh /\ UNCHANGED <<stored, trial>>
    BY <1>2, BeginMoves DEF Types, Begin
  <2>2. Untold(trial, r)
    BY <2>1, FreshSound DEF RowTrail
  <2>3. CASE aborted \/ AtCap(total)
    <3>1. row'[r].at = "done" /\ UNCHANGED events
      BY <1>2, <2>1, <2>3 DEF Moves, BeginsAs, Fresh, Begin
    <3>2. Untold(trial, r)'
      BY <2>1, <2>2, <3>1, SaysNoMore DEF Untold
    <3>3. QED
      BY <3>1, <3>2 DEF RowTrail
  <2>4. CASE ~(aborted \/ AtCap(total)) /\ CacheHit(r)
    <3>1. row'[r].at = "evaluating" /\ events' = events \cup {Event(r, "provider.called")}
      BY <1>2, <2>1, <2>4 DEF Moves, BeginsAs, Fresh, Begin
    <3>2. QED
      BY <2>1, <2>2, <3>1, SaysMore DEF RowTrail, Untold
  <2>5. CASE ~(aborted \/ AtCap(total)) /\ ~CacheHit(r)
    <3>1. row'[r].at = "calling" /\ UNCHANGED events
      BY <1>2, <2>1, <2>5 DEF Moves, BeginsAs, Fresh, Begin
    <3>2. Untold(trial, r)'
      BY <2>1, <2>2, <3>1, SaysNoMore DEF Untold
    <3>3. QED
      BY <3>1, <3>2 DEF RowTrail
  <2>6. QED
    BY <2>3, <2>4, <2>5
<1>3. CASE Answer(r)
  <2>1. PICK cost \in CallCost : Moves(r, AnswersAs(r, cost))
    BY <1>3, AnswerMoves DEF Types
  <2>2. /\ row[r].at = "calling" /\ UNCHANGED <<stored, trial>>
        /\ events' = events \cup {Event(r, "provider.called")}
    BY <1>3 DEF Answer
  <2>3. row'[r].at = "evaluating"
    BY <1>1, <2>1 DEF Moves, AnswersAs, Coroutines
  <2>4. QED
    BY <2>2, <2>3, SaysMore DEF RowTrail, Untold
<1>4. CASE Retry(r)
  <2>1. PICK cost \in FailCost : Moves(r, RetriesAs(r, cost))
    BY <1>4, RetryMoves DEF Types
  <2>2. /\ row[r].at = "calling" /\ UNCHANGED <<stored, trial>>
        /\ events' = events \cup {Event(r, "provider.retry")}
    BY <1>4 DEF Retry
  <2>3. row'[r].at = "backoff"
    BY <1>1, <2>1 DEF Moves, RetriesAs, Coroutines
  <2>4. QED
    BY <2>2, <2>3, SaysMore DEF RowTrail, Untold
<1>5. CASE GiveUp(r)
  <2>1. PICK cost \in FailCost : Moves(r, GivesUpAs(r, cost))
    BY <1>5, GiveUpMoves DEF Types
  <2>2. /\ row[r].at = "calling" /\ UNCHANGED trial /\ Executing
        /\ events' = events \cup {Event(r, "provider.failed")}
        /\ stored' = stored \cup {GivesUp(r)}
    BY <1>5 DEF GiveUp, GivesUp
  <2>3. row'[r].at = "done"
    BY <1>1, <2>1 DEF Moves, GivesUpAs, Coroutines
  <2>4. GivesUp(r).trial = trial /\ GivesUp(r).row = r /\ ~GivesUp(r).called
    BY <2>2, GivesUpIs
  <2>5. /\ ~Said(trial, r, "provider.called")'
        /\ Said(trial, r, "provider.failed")'
        /\ ~Said(trial, r, "row.short_circuited")'
    BY <2>2, SaysMore DEF RowTrail, Untold
  <2>6. GivesUp(r) \in stored'
    BY <2>2
  <2> DEFINE s == GivesUp(r)
  <2>7. s \in stored' /\ s.trial = trial' /\ s.row = r /\ ~s.called
    BY <2>2, <2>4, <2>6
  <2> HIDE DEF s
  <2>8. Told(trial, r)'
    BY <2>2, <2>5, <2>7 DEF Told
  <2>9. QED
    BY <2>3, <2>8 DEF RowTrail
<1>6. CASE Wake(r)
  <2>1. row[r].at = "backoff" /\ UNCHANGED <<stored, events, trial>>
    BY <1>6 DEF Wake
  <2>2. Untold(trial, r)'
    BY <2>1, SaysNoMore DEF RowTrail, Untold
  <2>3. row'[r].at \in {"done", "calling"}
    <3>1. CASE aborted
      BY <1>1, <1>6, <3>1, WakeMoves DEF Types, Moves, StopsAs, Coroutines
    <3>2. CASE ~aborted
      BY <1>1, <1>6, <3>2, WakeMoves DEF Types, Moves, TriesAgainAs, Coroutines
    <3>3. QED
      BY <3>1, <3>2
  <2>4. QED
    BY <2>2, <2>3 DEF RowTrail
<1>7. CASE Evaluate(r)
  <2>1. PICK outcome \in Outcome :
          /\ Moves(r, EvaluatesAs(r, outcome))
          /\ Finishes(r, outcome) => stored' = stored \cup {Evaluated(r, outcome)}
          /\ ~Finishes(r, outcome) => UNCHANGED stored
          /\ events' = IF Shorts(r, outcome)
                         THEN events \cup {Event(r, "row.short_circuited")} ELSE events
          /\ Scores(r, outcome) \in SUBSET Layer
          /\ Fails(r, outcome) \in SUBSET Scores(r, outcome)
          /\ Shorts(r, outcome) => Fails(r, outcome) # {}
          /\ Shorts(r, outcome) => Finishes(r, outcome)
    BY <1>7, EvaluateMoves DEF Types, Evaluated
  <2>2. Executing /\ UNCHANGED trial /\ row[r].at = "evaluating"
    BY <1>7 DEF Evaluate
  <2>3. row'[r].at = IF Finishes(r, outcome) THEN "done" ELSE "evaluating"
    BY <1>1, <2>1 DEF Moves, EvaluatesAs, Coroutines
  <2>4. /\ Said(trial, r, "provider.called")
        /\ ~Said(trial, r, "provider.failed")
        /\ ~Said(trial, r, "row.short_circuited")
    BY <2>2 DEF RowTrail
  <2>5. /\ Said(trial, r, "provider.called")'
        /\ ~Said(trial, r, "provider.failed")'
        /\ Said(trial, r, "row.short_circuited")' => Shorts(r, outcome)
    <3>1. CASE Shorts(r, outcome)
      BY <2>1, <2>2, <2>4, <3>1, SaysMore
    <3>2. CASE ~Shorts(r, outcome)
      BY <2>1, <2>2, <2>4, <3>2, SaysNoMore
    <3>3. QED
      BY <3>1, <3>2
  <2>6. CASE Finishes(r, outcome)
    <3> DEFINE s == Evaluated(r, outcome)
    <3>1. s.trial = trial /\ s.row = r /\ s.called /\ s.failed = Fails(r, outcome)
      BY <2>1, <2>2, EvaluatedIs
    <3>2. s \in stored'
      BY <2>1, <2>6
    <3> HIDE DEF s
    <3>3. Told(trial, r)'
      BY <2>1, <2>2, <2>5, <3>1, <3>2 DEF Told
    <3>4. QED
      BY <2>3, <2>6, <3>3 DEF RowTrail
  <2>7. CASE ~Finishes(r, outcome)
    BY <2>1, <2>3, <2>5, <2>7 DEF RowTrail
  <2>8. QED
    BY <2>6, <2>7
<1>8. QED
  BY <1>2, <1>3, <1>4, <1>5, <1>6, <1>7 DEF CallStep

LEMMA TrailStep ==
  ASSUME Types, Records, Summaries, Trail, [Next]_vars
  PROVE  Trail'
<1>1. trial \in Int /\ \A e \in events : e \in RowEvents /\ e.trial \in Int
  BY Numbers DEF Types, Turns, Ledger, RowEvents, Trial
<1>2. CASE BeginTrial
  <2>1. /\ UNCHANGED <<events, stored, summary>> /\ phase = "trials"
        /\ \/ UNCHANGED trial /\ phase' = "rows" /\ row' = [r \in Row |-> Fresh]
           \/ trial' = trial + 1 /\ UNCHANGED phase
    BY <1>2 DEF BeginTrial
  <2>2. \A e \in events : e.trial < trial
    BY <2>1 DEF Trail
  <2>3. \A e \in events' : e.trial < trial'
    BY <1>1, <2>1, <2>2
  <2>4. ASSUME phase' = "rows", NEW r \in Row PROVE RowTrail(r)'
    <3>1. trial' = trial /\ row'[r].at = "waiting"
      BY <2>1, <2>4, FreshSound
    <3>2. \A kind : ~Said(trial, r, kind)'
      <4>1. ASSUME NEW kind PROVE [trial |-> trial, row |-> r, kind |-> kind] \notin events
        BY <1>1, <2>2
      <4>2. QED
        BY <2>1, <3>1, <4>1 DEF Said
    <3>3. ~ \E s \in stored : s.trial = trial /\ s.row = r
      BY <1>1, <2>1 DEF Records
    <3>4. QED
      BY <2>1, <3>1, <3>2, <3>3 DEF RowTrail, Untold
  <2>5. \A t \in DOMAIN summary', r \in Row : (Untold(t, r) \/ Told(t, r))'
    <3>1. \A t, r : (Untold(t, r)' <=> Untold(t, r)) /\ (Told(t, r)' <=> Told(t, r))
      BY <2>1 DEF Untold, Told, Said
    <3>2. QED
      BY <2>1, <3>1 DEF Trail
  <2>6. QED
    BY <2>3, <2>4, <2>5 DEF Trail
<1>3. CASE EndTrial
  <2>1. /\ UNCHANGED <<events, stored>> /\ phase = "rows" /\ trial' = trial + 1
        /\ phase' = "trials" /\ \A r \in Row : row[r].at = "done"
        /\ DOMAIN summary' = DOMAIN summary \cup {trial}
    BY <1>3, EndTrialRecords DEF EndTrial, Types
  <2>2. \A e \in events' : e.trial < trial'
    <3>1. ASSUME NEW e \in events PROVE e.trial < trial + 1
      BY <1>1 DEF Trail
    <3>2. QED
      BY <2>1, <3>1
  <2>3. \A t, r : (Untold(t, r)' <=> Untold(t, r)) /\ (Told(t, r)' <=> Told(t, r))
    BY <2>1 DEF Untold, Told, Said
  <2>4. \A r \in Row : Untold(trial, r) \/ Told(trial, r)
    BY <2>1 DEF Trail, RowTrail
  <2>5. \A t \in DOMAIN summary', r \in Row : (Untold(t, r) \/ Told(t, r))'
    BY <2>1, <2>3, <2>4 DEF Trail
  <2>6. QED
    BY <2>1, <2>2, <2>5 DEF Trail
<1>4. CASE Unwind \/ Judge \/ Ended \/ UNCHANGED vars
  <2>1. /\ UNCHANGED <<events, stored, summary, trial>>
        /\ (phase' \notin {"trials", "rows"}) \/ (UNCHANGED <<phase, row>>)
    BY <1>4 DEF Unwind, Judge, Ended, vars
  <2>2. \A e \in events' : e.trial < trial' \/ (e.trial = trial' /\ phase' # "trials")
    BY <2>1 DEF Trail
  <2>3. phase' = "rows" => \A r \in Row : RowTrail(r)'
    BY <2>1 DEF Trail, RowTrail, Untold, Told, Said
  <2>4. \A t \in DOMAIN summary', r \in Row : (Untold(t, r) \/ Told(t, r))'
    <3>1. \A t, r : (Untold(t, r)' <=> Untold(t, r)) /\ (Told(t, r)' <=> Told(t, r))
      BY <2>1 DEF Untold, Told, Said
    <3>2. QED
      BY <2>1, <3>1 DEF Trail
  <2>5. QED
    BY <2>2, <2>3, <2>4 DEF Trail
<1>5. ASSUME NEW r \in Row, CallStep(r) \/ Evaluate(r) \/ Raise(r)
      PROVE  Trail'
  <2>1. /\ Executing /\ UNCHANGED <<summary, trial>>
        /\ phase' \in {"rows", "unwinding"}
        /\ phase' = "rows" => phase = "rows" /\ (CallStep(r) \/ Evaluate(r))
    BY <1>5 DEF CallStep, Begin, Answer, Retry, GiveUp, Wake, Evaluate, Raise, Executing
  <2>2. OnlyOf(r)
    BY <1>5, StepsAreOnlyOf
  <2>3. \A e \in events' : e.trial < trial' \/ (e.trial = trial' /\ phase' # "trials")
    <3>1. \A e \in events : e.trial < trial \/ e.trial = trial
      BY DEF Trail
    <3>2. QED
      BY <2>1, <2>2, <3>1 DEF OnlyOf
  <2>4. ASSUME phase' = "rows", NEW q \in Row PROVE RowTrail(q)'
    <3>1. CASE q = r
      <4>1. RowTrail(r) /\ phase = "rows"
        BY <2>1, <2>4 DEF Trail
      <4>2. QED
        BY <2>1, <2>4, <3>1, <4>1, RowTrailStep
    <3>2. CASE q # r
      <4>1. RowTrail(q)
        BY <2>1, <2>4 DEF Trail
      <4>2. row'[q] = row[q]
        BY <1>5, <3>2, BeginMoves, AnswerMoves, RetryMoves, GiveUpMoves, WakeMoves,
           EvaluateMoves, RaiseMoves DEF CallStep, Moves, Types, Turns
      <4>3. /\ \A kind : Said(trial, q, kind)' <=> Said(trial, q, kind)
            /\ Untold(trial, q)' <=> Untold(trial, q)
            /\ Told(trial, q)' <=> Told(trial, q)
        <5>1. ASSUME NEW t, t = trial
              PROVE  /\ \A kind : Said(t, q, kind)' <=> Said(t, q, kind)
                     /\ Untold(t, q)' <=> Untold(t, q)
                     /\ Told(t, q)' <=> Told(t, q)
          BY <2>2, <3>2, OthersTold
        <5>2. QED
          BY <2>1, <5>1 DEF Said, Untold, Told
      <4>4. QED
        BY <4>1, <4>2, <4>3 DEF RowTrail
    <3>3. QED
      BY <3>1, <3>2
  <2>5. ASSUME NEW t \in DOMAIN summary, NEW q \in Row
        PROVE  (Untold(t, q) \/ Told(t, q))'
    <3>1. t # trial /\ (Untold(t, q) \/ Told(t, q))
      <4>1. t < trial
        BY DEF Summaries
      <4>2. t \in Int
        BY DEF Types, Verdict, Trial
      <4>3. QED
        BY <1>1, <4>1, <4>2 DEF Trail
    <3>2. QED
      BY <2>2, <3>1, OthersTold
  <2>6. QED
    BY <2>1, <2>3, <2>4, <2>5 DEF Trail
<1>6. QED
  BY <1>2, <1>3, <1>4, <1>5 DEF Next

-----------------------------------------------------------------------------
(* One story *)

\* Records that each have a row of their own are as many as those rows.
LEMMA OneEach ==
  ASSUME NEW S, IsFiniteSet(S), \A s \in S : s.row \in Row,
         \A s, u \in S : s.row = u.row => s = u
  PROVE  Cardinality({r \in Row : \E s \in S : s.row = r}) = Cardinality(S)
<1> DEFINE T == {r \in Row : \E s \in S : s.row = r}
           f == [s \in S |-> s.row]
<1>1. f \in [S -> T]
  OBVIOUS
<1>2. \A r \in T : \E s \in S : f[s] = r
  OBVIOUS
<1>3. \A s, u \in S : f[s] = f[u] => s = u
  OBVIOUS
<1> HIDE DEF f, T
<1>4. f \in Surjection(S, T) /\ f \in Injection(S, T)
  <2>1. f \in Surjection(S, T)
    BY <1>1, <1>2 DEF Surjection
  <2>2. f \in Injection(S, T)
    BY <1>1, <1>3 DEF Injection, IsInjective
  <2>3. QED
    BY <2>1, <2>2
<1>5. Cardinality(T) = Cardinality(S)
  BY <1>4, FS_Surjection
<1>6. QED
  BY <1>5 DEF T

LEMMA TwoParts ==
  ASSUME NEW S, IsFiniteSet(S), NEW A, NEW B, S = A \cup B, A \cap B = {}
  PROVE  /\ IsFiniteSet(A) /\ IsFiniteSet(B)
         /\ Cardinality(S) = Cardinality(A) + Cardinality(B)
<1>1. A \in SUBSET S /\ B \in SUBSET S
  OBVIOUS
<1>2. IsFiniteSet(A) /\ IsFiniteSet(B)
  BY <1>1, FS_Subset
<1>3. Cardinality(A \cup B) = Cardinality(A) + Cardinality(B) - Cardinality(A \cap B)
  BY <1>2, FS_Union
<1>4. Cardinality(A) \in Nat /\ Cardinality(B) \in Nat /\ Cardinality(A \cap B) = 0
  BY <1>2, FS_CardinalityType, FS_EmptySet
<1>5. QED
  BY <1>2, <1>3, <1>4

RowsOf(t) == {s \in stored : s.trial = t}
Passing(t) == {s \in stored : s.trial = t /\ Passes(s)}
Failing(t) == {s \in stored : s.trial = t /\ ~Passes(s)}

LEMMA CountedByRecord ==
  ASSUME Types, Records, NEW t
  PROVE  /\ IsFiniteSet(RowsOf(t)) /\ IsFiniteSet(Passing(t))
         /\ Cardinality(PassedRows(t)) = Cardinality(Passing(t))
         /\ Cardinality(FailedRows(t)) = Cardinality(Failing(t))
         /\ Cardinality(RowsOf(t)) = Cardinality(Passing(t)) + Cardinality(Failing(t))
<1>1. IsFiniteSet(RowsOf(t))
  <2>1. RowsOf(t) \in SUBSET stored
    BY DEF RowsOf
  <2>2. QED
    BY <2>1, FS_Subset DEF Types, Ledger
<1>2. RowsOf(t) = Passing(t) \cup Failing(t) /\ Passing(t) \cap Failing(t) = {}
  BY DEF RowsOf, Passing, Failing
<1>3. /\ IsFiniteSet(Passing(t)) /\ IsFiniteSet(Failing(t))
      /\ Cardinality(RowsOf(t)) = Cardinality(Passing(t)) + Cardinality(Failing(t))
  BY <1>1, <1>2, TwoParts
<1>4. /\ \A s \in Passing(t) : s.row \in Row
      /\ \A s, u \in Passing(t) : s.row = u.row => s = u
      /\ \A s \in Failing(t) : s.row \in Row
      /\ \A s, u \in Failing(t) : s.row = u.row => s = u
  BY DEF Passing, Failing, Types, Ledger, StoredRows, Records
<1>5. /\ PassedRows(t) = {r \in Row : \E s \in Passing(t) : s.row = r}
      /\ FailedRows(t) = {r \in Row : \E s \in Failing(t) : s.row = r}
  BY DEF PassedRows, FailedRows, Passing, Failing
<1>6. Cardinality({r \in Row : \E s \in Passing(t) : s.row = r}) = Cardinality(Passing(t))
  BY <1>3, <1>4, OneEach
<1>7. Cardinality({r \in Row : \E s \in Failing(t) : s.row = r}) = Cardinality(Failing(t))
  BY <1>3, <1>4, OneEach
<1>8. QED
  BY <1>1, <1>3, <1>5, <1>6, <1>7

\* The ids with a score, and with one that failed.
IdsScored(rows) == {s.id : s \in {q \in rows : q.scored # {}}}
IdsFailed(rows) == {s.id : s \in {q \in rows : q.failed # {}}}

\* The keyed join, said of the ids.
LEMMA PassesById ==
  ASSUME NEW rows, NEW s \in rows
  PROVE  RowPasses(s, rows) <=> s.id \in IdsScored(rows) /\ s.id \notin IdsFailed(rows)
BY DEF RowPasses, Unblamed, Namesakes, IdsScored, IdsFailed

LEMMA RatesAgree ==
  ASSUME Types, Records, Summaries
  PROVE  PassRateAgrees
<1> SUFFICES ASSUME NEW t \in DOMAIN summary
    PROVE  LET rows == {s \in stored : s.trial = t}
               answered == {s \in rows : s.called /\ s.failed = {}}
               scored == {s.id : s \in {q \in rows : q.scored # {}}}
               failed == {s.id : s \in {q \in rows : q.failed # {}}}
               silent == {s \in answered : s.id \notin scored}
               blamed == {s \in answered : s.id \in failed}
               borrowing == {s \in rows : ~s.called /\ s.id \in scored \ failed}
           IN  summary[t].pass + Cardinality(borrowing) =
                 Cardinality({s \in rows : RowPasses(s, rows)})
                   + Cardinality(silent) + Cardinality(blamed)
  BY DEF PassRateAgrees
<1> DEFINE rows == {s \in stored : s.trial = t}
           scored == IdsScored(rows)
           failed == IdsFailed(rows)
           passing == {s \in rows : RowPasses(s, rows)}
           agreed == {s \in Passing(t) : RowPasses(s, rows)}
           silent == {s \in Passing(t) : s.id \notin scored}
           blamed == {s \in Passing(t) : s.id \in failed}
           borrowing == {s \in rows : ~s.called /\ s.id \in scored \ failed}
<1>1. \A s \in rows : s.failed \subseteq s.scored
  BY DEF Records
<1>2. failed \subseteq scored
  BY <1>1 DEF IdsScored, IdsFailed
<1>3. Passing(t) = {s \in rows : s.called /\ s.failed = {}}
  BY DEF Passing, Passes
<1>4. \A s \in rows : /\ RowPasses(s, rows) <=> s.id \in scored /\ s.id \notin failed
                      /\ s.failed # {} => s.id \in failed
  BY PassesById DEF IdsFailed
<1>5. Passing(t) = agreed \cup (silent \cup blamed) /\ agreed \cap (silent \cup blamed) = {}
  BY <1>3, <1>4
<1>6. silent \cap blamed = {}
  BY <1>2
<1>7. passing = agreed \cup borrowing /\ agreed \cap borrowing = {}
  BY <1>3, <1>4
<1>8. summary[t].pass = Cardinality(Passing(t)) /\ IsFiniteSet(Passing(t))
  BY CountedByRecord DEF Summaries
<1>9. IsFiniteSet(passing)
  <2>1. passing \in SUBSET stored
    OBVIOUS
  <2>2. QED
    BY <2>1, FS_Subset DEF Types, Ledger
<1>10. {s \in {u \in rows : u.called /\ u.failed = {}} : s.id \notin scored} = silent
  BY <1>3
<1>11. {s \in {u \in rows : u.called /\ u.failed = {}} : s.id \in failed} = blamed
  BY <1>3
<1> HIDE DEF agreed, silent, blamed, borrowing, passing
<1>12. /\ Cardinality(Passing(t)) = Cardinality(agreed) + Cardinality(silent \cup blamed)
       /\ IsFiniteSet(agreed) /\ IsFiniteSet(silent \cup blamed)
  BY <1>5, <1>8, TwoParts
<1>13. /\ Cardinality(silent \cup blamed) = Cardinality(silent) + Cardinality(blamed)
       /\ IsFiniteSet(silent) /\ IsFiniteSet(blamed)
  BY <1>6, <1>12, TwoParts
<1>14. Cardinality(passing) = Cardinality(agreed) + Cardinality(borrowing) /\ IsFiniteSet(borrowing)
  BY <1>7, <1>9, TwoParts
<1>15. /\ Cardinality(agreed) \in Nat /\ Cardinality(silent) \in Nat
       /\ Cardinality(blamed) \in Nat /\ Cardinality(borrowing) \in Nat
  BY <1>12, <1>13, <1>14, FS_CardinalityType
<1>16. summary[t].pass + Cardinality(borrowing) =
         Cardinality(passing) + Cardinality(silent) + Cardinality(blamed)
  BY <1>8, <1>12, <1>13, <1>14, <1>15
<1>17. QED
  BY <1>10, <1>11, <1>16 DEF passing, borrowing, IdsScored, IdsFailed

LEMMA TrialTold ==
  ASSUME Types, Records, Summaries, Trail, NEW t \in DOMAIN summary, NEW r \in Row
  PROVE  LET kinds == {e.kind : e \in {e \in events : e.trial = t /\ e.row = r}}
             rows  == {s \in stored : s.trial = t /\ s.row = r}
         IN  /\ Cardinality(rows) = Cardinality(kinds \cap {"provider.called", "provider.failed"})
             /\ \A s \in rows : s.called <=> "provider.called" \in kinds
             /\ "row.short_circuited" \in kinds => \E s \in rows : s.failed # {}
<1> DEFINE kinds == {e.kind : e \in {e \in events : e.trial = t /\ e.row = r}}
           rows  == {s \in stored : s.trial = t /\ s.row = r}
           calls == kinds \cap {"provider.called", "provider.failed"}
<1>1. ASSUME NEW kind PROVE kind \in kinds <=> Said(t, r, kind)
  <2>1. ASSUME Said(t, r, kind) PROVE kind \in kinds
    BY <2>1 DEF Said
  <2>2. ASSUME kind \in kinds PROVE Said(t, r, kind)
    <3>1. PICK e \in events : e.trial = t /\ e.row = r /\ e.kind = kind
      BY <2>2
    <3>2. e = [trial |-> t, row |-> r, kind |-> kind]
      BY <3>1 DEF Types, Ledger, RowEvents
    <3>3. QED
      BY <3>1, <3>2 DEF Said
  <2>3. QED
    BY <2>1, <2>2
<1>2. Untold(t, r) \/ Told(t, r)
  BY DEF Trail
<1> HIDE DEF kinds
<1>3. CASE Untold(t, r)
  <2>1. rows = {} /\ calls = {} /\ "row.short_circuited" \notin kinds
    BY <1>1, <1>3 DEF Untold
  <2>2. QED
    BY <2>1 DEF kinds
<1>4. CASE Told(t, r)
  <2>1. PICK s \in stored :
          /\ s.trial = t /\ s.row = r
          /\ s.called <=> Said(t, r, "provider.called")
          /\ ~s.called <=> Said(t, r, "provider.failed")
          /\ Said(t, r, "row.short_circuited") => s.failed # {}
    BY <1>4 DEF Told
  <2>2. rows = {s}
    BY <2>1 DEF Records
  <2>3. calls = IF s.called THEN {"provider.called"} ELSE {"provider.failed"}
    BY <1>1, <2>1
  <2>4. Cardinality(rows) = 1 /\ Cardinality(calls) = 1
    BY <2>2, <2>3, FS_Singleton
  <2>5. /\ \A u \in rows : u.called <=> "provider.called" \in kinds
        /\ "row.short_circuited" \in kinds => \E u \in rows : u.failed # {}
    BY <1>1, <2>1, <2>2
  <2>6. QED
    BY <2>4, <2>5 DEF kinds
<1>5. QED
  BY <1>2, <1>3, <1>4

LEMMA StoryHolds ==
  ASSUME Types, Records, Summaries, Trail, Announces
  PROVE  TrailTellsRows
<1>1. CapAnnounced
  BY DEF Announces, CapAnnounced
<1>2. ASSUME NEW t \in DOMAIN summary
      PROVE  summary[t].pass + summary[t].fail = Cardinality({s \in stored : s.trial = t})
  <2>1. summary[t].pass = Cardinality(PassedRows(t)) /\ summary[t].fail = Cardinality(FailedRows(t))
    BY DEF Summaries
  <2>2. /\ Cardinality(PassedRows(t)) = Cardinality(Passing(t))
        /\ Cardinality(FailedRows(t)) = Cardinality(Failing(t))
        /\ Cardinality(RowsOf(t)) = Cardinality(Passing(t)) + Cardinality(Failing(t))
    BY CountedByRecord
  <2>3. QED
    BY <2>1, <2>2 DEF RowsOf
<1>3. QED
  BY <1>1, <1>2, TrialTold DEF TrailTellsRows

\* All that is known of a run's records.
RunInv == Types /\ Records /\ Summaries /\ Trail /\ Announces

LEMMA RunInvHolds == Spec => []RunInv
<1>1. Init => RunInv
  <2> SUFFICES ASSUME Init PROVE RunInv
    OBVIOUS
  <2>1. Types /\ Records
    BY TypesInit, RecordsInit
  <2>2. DOMAIN summary = {} /\ trial = 1 /\ 1..trial - 1 = {}
    BY DEF Init
  <2>3. Summaries /\ Trail
    BY <2>2 DEF Init, Summaries, Trail
  <2>4. Announces
    <3>1. \A r \in Row : Pending[r] = 0
      BY FreshSound DEF Init, Pending, Due
    <3>2. SumOf(Row, Pending) = 0
      BY <3>1, SumOfZeros
    <3>3. Earned = 0
      BY SumOfNone DEF Init, Earned
    <3>4. AnswersCost = 0
      BY <3>2, <3>3, AnswersCostIs
    <3>5. QED
      BY <3>4, Numbers DEF Init, Announces, AtCap
  <2>5. QED
    BY <2>1, <2>3, <2>4 DEF RunInv
<1>2. RunInv /\ [Next]_vars => RunInv'
  BY TypesStep, RecordsStep, SummariesStep, TrailStep, AnnouncesStep DEF RunInv
<1>3. QED
  BY <1>1, <1>2, PTL DEF Spec

\* The executor's count of passing rows and the store's under pass_rate differ
\* by the rows that lack scores or share an id, as PassRateAgrees counts them.
THEOREM PassRatesAgree == Spec => []PassRateAgrees
<1>1. RunInv => PassRateAgrees
  BY RatesAgree DEF RunInv
<1>2. QED
  BY <1>1, RunInvHolds, PTL

\* After a trial the audit log and the recorded rows tell one story of every
\* row, and one of the cap.
THEOREM TrailTells == Spec => []TrailTellsRows
<1>1. RunInv => TrailTellsRows
  BY StoryHolds DEF RunInv
<1>2. QED
  BY <1>1, RunInvHolds, PTL

-----------------------------------------------------------------------------
(* The verdict *)

\* What a blocking gate that passes says of the scores.
GateKept(gate, rows) ==
  LET scores == Cardinality(Scored(rows, gate.layer))
      failures == Cardinality(Failures(rows, gate.layer))
  IN  /\ gate.aggregation = "pass_rate" /\ gate.min # <<>> /\ gate.min[1] > 0 =>
           /\ scores > 0
           /\ failures * gate.min[2] <= scores * (gate.min[2] - gate.min[1])
      /\ gate.aggregation = "count_failures" /\ gate.max # <<>> =>
           /\ failures * gate.max[2] <= gate.max[1]
           /\ gate.evaluator => scores > 0

LEMMA LayerCounts ==
  ASSUME NEW rows, IsFiniteSet(rows), \A s \in rows : s.failed \subseteq s.scored, NEW layer
  PROVE  LET scored == Scored(rows, layer)
             failed == Failures(rows, layer)
         IN  /\ Cardinality(scored) \in Nat /\ Cardinality(failed) \in Nat
             /\ Cardinality(scored \ failed) = Cardinality(scored) - Cardinality(failed)
             /\ scored = {} => Cardinality(scored) = 0 /\ Cardinality(failed) = 0
             /\ scored # {} => Cardinality(scored) > 0
<1> DEFINE scored == Scored(rows, layer)
           failed == Failures(rows, layer)
<1>1. scored \in SUBSET rows /\ failed \in SUBSET scored
  BY DEF Scored, Failures
<1> HIDE DEF scored, failed
<1>2. IsFiniteSet(scored) /\ IsFiniteSet(failed)
  BY <1>1, FS_Subset
<1>3. Cardinality(scored) \in Nat /\ Cardinality(failed) \in Nat
  BY <1>2, FS_CardinalityType
<1>4. Cardinality(scored \ failed) = Cardinality(scored) - Cardinality(scored \cap failed)
  BY <1>2, FS_Difference
<1>5. scored \cap failed = failed
  BY <1>1
<1>6. scored = {} => failed = {}
  BY <1>1
<1>7. (scored = {} <=> Cardinality(scored) = 0) /\ (failed = {} => Cardinality(failed) = 0)
  BY <1>2, FS_EmptySet
<1>8. Cardinality(scored \ failed) = Cardinality(scored) - Cardinality(failed)
  BY <1>4, <1>5
<1>9. scored # {} => Cardinality(scored) > 0
  BY <1>3, <1>7
<1>10. scored = {} => Cardinality(scored) = 0 /\ Cardinality(failed) = 0
  BY <1>6, <1>7
<1>11. QED
  BY <1>3, <1>8, <1>9, <1>10 DEF scored, failed

\* A share that is at least a minimum leaves few failures.
LEMMA FewFailures ==
  ASSUME NEW n \in Nat, NEW f \in Nat, NEW a \in Int, NEW b \in Int,
         (n - f) * b >= a * n
  PROVE  f * b <= n * (b - a)
<1>1. (n - f) * b = n * b - f * b
  OBVIOUS
<1>2. n * (b - a) = n * b - a * n
  OBVIOUS
<1>3. n * b \in Int /\ f * b \in Int /\ a * n \in Int
  OBVIOUS
<1>4. QED
  BY <1>1, <1>2, <1>3

LEMMA PassingGateIsKept ==
  ASSUME NEW rows, IsFiniteSet(rows), \A s \in rows : s.failed \subseteq s.scored,
         NEW gates \in GateConfig, NEW gate \in gates, NEW baseline, NEW worse,
         GatePasses(gate, rows, baseline, worse)
  PROVE  GateKept(gate, rows)
<1> DEFINE scored == Scored(rows, gate.layer)
           failed == Failures(rows, gate.layer)
           n == Cardinality(scored)
           f == Cardinality(failed)
           actual == Aggregation(gate, rows)
<1>1. /\ n \in Nat /\ f \in Nat /\ Cardinality(scored \ failed) = n - f
      /\ scored = {} => n = 0 /\ f = 0
      /\ scored # {} => n > 0
  BY LayerCounts
<1>2. /\ gate.evaluator \in BOOLEAN
      /\ gate.min # <<>> => gate.min[1] \in Int /\ gate.min[2] \in Int
      /\ gate.max # <<>> => gate.max[1] \in Int /\ gate.max[2] \in Int
  BY RunAssumption
<1>3. /\ gate.min # <<>> => actual # <<>> /\ AtLeast(actual, gate.min)
      /\ gate.max # <<>> => actual # <<>> /\ AtLeast(gate.max, actual)
  BY DEF GatePasses
<1>4. LayerRate(rows, gate.layer) = IF scored = {} THEN <<0, 1>> ELSE <<n - f, n>>
  BY <1>1 DEF LayerRate, Rate
<1>5. ASSUME gate.aggregation = "pass_rate", gate.min # <<>>, gate.min[1] > 0
      PROVE  n > 0 /\ f * gate.min[2] <= n * (gate.min[2] - gate.min[1])
  <2>1. AtLeast(LayerRate(rows, gate.layer), gate.min)
    BY <1>2, <1>3, <1>5 DEF Aggregation, OfEvaluator, OfLayer
  <2> HIDE DEF scored, failed, n, f, actual
  <2>2. scored # {}
    <3>1. ASSUME scored = {} PROVE FALSE
      <4>1. AtLeast(<<0, 1>>, gate.min)
        BY <1>4, <2>1, <3>1
      <4>2. 0 * gate.min[2] >= gate.min[1] * 1
        BY <4>1 DEF AtLeast
      <4>3. QED
        BY <1>2, <1>5, <4>2
    <3>2. QED
      BY <3>1
  <2>3. AtLeast(<<n - f, n>>, gate.min)
    BY <1>4, <2>1, <2>2
  <2>4. (n - f) * gate.min[2] >= gate.min[1] * n
    BY <2>3 DEF AtLeast
  <2>5. QED
    BY <1>1, <1>2, <1>5, <2>2, <2>4, FewFailures
<1>6. ASSUME gate.aggregation = "count_failures", gate.max # <<>>
      PROVE  f * gate.max[2] <= gate.max[1] /\ (gate.evaluator => n > 0)
  <2>1. actual = <<f, 1>> /\ (gate.evaluator => scored # {})
    BY <1>2, <1>3, <1>6 DEF Aggregation, OfEvaluator, OfLayer
  <2> HIDE DEF scored, failed, n, f, actual
  <2>2. AtLeast(gate.max, <<f, 1>>)
    BY <1>3, <1>6, <2>1
  <2>3. gate.max[1] * 1 >= f * gate.max[2]
    BY <2>2 DEF AtLeast
  <2>4. QED
    BY <1>1, <1>2, <1>6, <2>1, <2>3
<1>7. QED
  BY <1>5, <1>6 DEF GateKept

\* A run that passes has been judged, on what it has recorded.
Judged ==
  exit = "pass" =>
    /\ trial = NTrials + 1
    /\ judged.gates \in GateConfig
    /\ \E worse \in SUBSET DOMAIN summary :
         ExitCode(judged.strategy, Blocked(judged.gates, judged.baseline, worse)) = "pass"

LEMMA JudgedStep ==
  ASSUME Types, Judged, [Next]_vars
  PROVE  Judged'
<1>1. CASE exit = "pass"
  <2>1. phase = "ended"
    BY <1>1 DEF Types, Turns
  <2>2. UNCHANGED vars
    BY <2>1 DEF Next, BeginTrial, EndTrial, Unwind, Judge, Ended, CallStep, Begin, Answer,
       Retry, GiveUp, Wake, Evaluate, Raise, Executing
  <2>3. UNCHANGED <<exit, trial, judged, summary, stored, capped>>
    BY <2>2 DEF vars
  <2>4. QED
    BY <2>3 DEF Judged, ExitCode, Blocked, BlockingFailed, RunStatus
<1>2. CASE exit # "pass" /\ exit' = "pass"
  <2>1. Judge
    <3>1. ASSUME NEW r \in Row, CallStep(r) \/ Evaluate(r) \/ Raise(r) PROVE exit' = exit
      BY <3>1 DEF CallStep, Begin, Answer, Retry, GiveUp, Wake, Evaluate, Raise
    <3>2. BeginTrial \/ EndTrial \/ Ended \/ UNCHANGED vars => exit' = exit
      BY DEF BeginTrial, EndTrial, Ended, vars
    <3>3. Unwind => exit' # "pass" \/ exit' = exit
      BY DEF Unwind
    <3>4. QED
      BY <1>2, <3>1, <3>2, <3>3 DEF Next
  <2>2. PICK strategy \in Strategy, gates \in GateConfig, baseline \in Baseline,
             worse \in SUBSET DOMAIN summary :
          /\ judged' = [strategy |-> strategy, gates |-> gates, baseline |-> baseline]
          /\ exit' = ExitCode(strategy, Blocked(gates, baseline, worse))
    BY <1>2, <2>1 DEF Judge
  <2>3. trial' = NTrials + 1 /\ UNCHANGED <<summary, stored, capped>>
    BY <2>1, Numbers DEF Judge, Types, Turns
  <2>4. /\ judged'.gates = gates /\ judged'.strategy = strategy
        /\ judged'.baseline = baseline
        /\ ExitCode(strategy, Blocked(gates, baseline, worse))' =
             ExitCode(strategy, Blocked(gates, baseline, worse))
    BY <2>2, <2>3 DEF ExitCode, Blocked, BlockingFailed, RunStatus
  <2>5. QED
    BY <1>2, <2>2, <2>3, <2>4 DEF Judged, ExitCode, Blocked, BlockingFailed, RunStatus
<1>3. QED
  BY <1>1, <1>2 DEF Judged

\* A trial that no blocking gate fails keeps them all.
LEMMA UnblockedHolds ==
  ASSUME Types, Records, judged.gates \in GateConfig, NEW worse, NEW t \in DOMAIN summary,
         t \notin Blocked(judged.gates, judged.baseline, worse)
  PROVE  GatesHold(t)
<1> DEFINE rows == {s \in stored : s.trial = t}
<1>1. IsFiniteSet(rows) /\ \A s \in rows : s.failed \subseteq s.scored
  <2>1. rows \in SUBSET stored
    OBVIOUS
  <2>2. QED
    BY <2>1, FS_Subset DEF Types, Ledger, Records
<1>2. ASSUME NEW gate \in judged.gates, gate.severity = "block"
      PROVE  GateKept(gate, rows)
  <2>1. GatePasses(gate, rows, judged.baseline, t \in worse)
    BY <1>2 DEF Blocked, BlockingGateFails
  <2> HIDE DEF rows
  <2>2. QED
    BY <1>1, <2>1, PassingGateIsKept
<1>3. QED
  BY <1>2 DEF GatesHold, GateKept, Scored, Failures

\* A trial that passed has every row recorded, and passing.
LEMMA PassedIsWhole ==
  ASSUME Types, Records, Summaries, NEW t \in DOMAIN summary, summary[t].status = "passed"
  PROVE  \A r \in Row : \E s \in stored : s.trial = t /\ s.row = r /\ s.called /\ s.failed = {}
<1>1. Cardinality(PassedRows(t)) = NRows
  BY DEF Summaries
<1>2. PassedRows(t) \in SUBSET Row
  BY DEF PassedRows
<1>3. PassedRows(t) = Row
  BY <1>1, <1>2, RowsFinite, FS_Subset
<1>4. QED
  BY <1>3 DEF PassedRows, Passes

LEMMA VerdictIsClosed ==
  ASSUME Types, Records, Summaries, Judged
  PROVE  FailsClosed
<1>1. SUFFICES ASSUME exit = "pass" PROVE FailsClosed
  BY DEF FailsClosed
<1>2. PICK worse \in SUBSET DOMAIN summary :
        ExitCode(judged.strategy, Blocked(judged.gates, judged.baseline, worse)) = "pass"
  BY <1>1 DEF Judged
<1> DEFINE blocked == Blocked(judged.gates, judged.baseline, worse)
<1>3. /\ ~BlockingFailed(judged.strategy, blocked)
      /\ RunStatus # "cost_capped"
      /\ ~(RunStatus = "failed" /\ judged.strategy = "all")
  BY <1>2 DEF ExitCode
<1>4. ~capped
  BY <1>3 DEF RunStatus
<1>5. DOMAIN summary = Trial
  <2>1. trial = NTrials + 1
    BY <1>1 DEF Judged
  <2>2. trial - 1 = NTrials
    BY <2>1, Numbers
  <2>3. QED
    BY <1>4, <2>2 DEF Summaries, Trial
<1>6. ASSUME NEW t \in Trial, t \notin blocked PROVE GatesHold(t)
  BY <1>1, <1>5, <1>6, UnblockedHolds DEF Judged
<1>7. ASSUME judged.strategy = "all"
      PROVE  /\ \A t \in Trial, r \in Row :
                  \E s \in stored : s.trial = t /\ s.row = r /\ s.called /\ s.failed = {}
             /\ \A t \in Trial : GatesHold(t)
  <2>1. blocked = {}
    BY <1>3, <1>7 DEF BlockingFailed
  <2>2. \A t \in DOMAIN summary : summary[t].status = "passed"
    BY <1>3, <1>4, <1>7 DEF RunStatus
  <2>3. QED
    BY <1>5, <1>6, <2>1, <2>2, PassedIsWhole
<1>8. ASSUME judged.strategy = "any"
      PROVE  \E t \in Trial : GatesHold(t)
  <2>1. 1 \in Trial
    BY Numbers DEF Trial
  <2>2. summary # <<>>
    <3>1. DOMAIN <<>> = {}
      OBVIOUS
    <3>2. QED
      BY <1>5, <2>1, <3>1
  <2>3. blocked # Trial /\ blocked \subseteq Trial
    BY <1>3, <1>5, <1>8, <2>2 DEF BlockingFailed, Blocked
  <2>4. PICK t \in Trial : t \notin blocked
    BY <2>3
  <2>5. QED
    BY <1>6, <2>4
<1>9. QED
  BY <1>7, <1>8 DEF FailsClosed

\* Exit code 0 under `all' means that every row of every provider was tried,
\* answered and failed no evaluator, and that every blocking gate holds; under
\* `any', that the blocking gates hold for a provider.
THEOREM ClosedOnFailure == Spec => []FailsClosed
<1>1. Init => Judged
  BY DEF Init, Judged
<1>2. RunInv /\ Judged /\ [Next]_vars => Judged'
  BY JudgedStep DEF RunInv
<1>3. RunInv /\ Judged => FailsClosed
  BY VerdictIsClosed DEF RunInv
<1>4. QED
  BY <1>1, <1>2, <1>3, RunInvHolds, PTL DEF Spec
=============================================================================
