-------------------------------- MODULE Gates --------------------------------
(***************************************************************************)
(* The metrics of a run and the gates on them: compute_metrics of          *)
(* sqlite_store.py and evaluate_gates of gate.py.                          *)
(*                                                                         *)
(* Metrics are those of the recorded rows of a trial, each with its row    *)
(* id, the layers that scored it and those that failed it.  A layer has    *)
(* one evaluator, whose scores are 1 or 0, so that their mean is their     *)
(* pass rate.  Scores name the row by its id, which rows may share: what   *)
(* asks for the scores of a row gets those of all its namesakes.  A number *)
(* is a fraction, <<>> stands for no number.                               *)
(***************************************************************************)
EXTENDS Integers, FiniteSetsExt

CONSTANT Tagged   \* the rows of the dataset that have the tag

Rate(part, whole) ==
  IF whole = {} THEN <<0, 1>> ELSE <<Cardinality(part), Cardinality(whole)>>

AtLeast(x, y) == x[1] * y[2] >= y[1] * x[2]
DeltaAtLeast(x, y, d) == (x[1] * y[2] - y[1] * x[2]) * d[2] >= d[1] * x[2] * y[2]

\* What the join of the rows with the scores finds for a row.
Namesakes(s, rows) == {q \in rows : q.id = s.id}

\* No score under the row's id failed.
Unblamed(s, rows) == \A q \in Namesakes(s, rows) : q.failed = {}

\* Mutant: a row without scores passes.
RowPassesUnscored(s, rows) == Unblamed(s, rows)

\* A row passes in the metrics if its id has a score and none of them failed.
RowPasses(s, rows) ==
  (\E q \in Namesakes(s, rows) : q.scored # {}) /\ Unblamed(s, rows)

PassRate(rows) == Rate({s \in rows : RowPasses(s, rows)}, rows)

Scored(rows, layer) == {s \in rows : layer \in s.scored}
Failures(rows, layer) == {s \in rows : layer \in s.failed}

LayerRate(rows, layer) ==
  Rate(Scored(rows, layer) \ Failures(rows, layer), Scored(rows, layer))

\* row_pass_rate of a layer, which counts ids.
RowRate(rows, layer) ==
  LET ids == {s.id : s \in Scored(rows, layer)}
  IN  Rate(ids \ {s.id : s \in Failures(rows, layer)}, ids)

\* by_tag, which asks only whether a score failed.
TagRate(rows) ==
  LET tagged == {s \in rows : s.row \in Tagged}
  IN  Rate({s \in tagged : Unblamed(s, rows)}, tagged)

\* _resolve_aggregation within an evaluator, which is not in the metrics
\* before it has a score...
OfEvaluator(gate, rows) ==
  IF Scored(rows, gate.layer) = {} THEN <<>>
  ELSE CASE gate.aggregation \in {"pass_rate", "mean"} -> LayerRate(rows, gate.layer)
         [] gate.aggregation = "count_failures" -> <<Cardinality(Failures(rows, gate.layer)), 1>>
         [] OTHER -> <<>>

\* Mutant: a layer without scores has all of them passed.
OfLayerPassing(gate, rows) ==
  IF Scored(rows, gate.layer) = {} THEN <<1, 1>> ELSE LayerRate(rows, gate.layer)

\* ...and over a layer, whose numbers are 0 before it has scores.
OfLayer(gate, rows) ==
  CASE gate.aggregation \in {"pass_rate", "mean"} -> LayerRate(rows, gate.layer)
    [] gate.aggregation = "row_pass_rate" -> RowRate(rows, gate.layer)
    [] gate.aggregation = "count_failures" -> <<Cardinality(Failures(rows, gate.layer)), 1>>
    [] gate.aggregation = "pass_rate_by_tag" ->
         IF \E s \in rows : s.row \in Tagged THEN TagRate(rows) ELSE <<>>
    [] OTHER -> <<>>

Aggregation(gate, rows) ==
  IF gate.evaluator THEN OfEvaluator(gate, rows) ELSE OfLayer(gate, rows)

\* A gate: its rules on the flat metric pass_rate, threshold.min and max, per
\* tag minimum, Welch's test, the delta against a baseline, its custom check.
\* What the test says of two samples that are large enough is left open.
GatePasses(gate, rows, baseline, worse) ==
  LET actual == Aggregation(gate, rows)
      base == Aggregation(gate, baseline.rows)
      samples == Cardinality(Scored(rows, gate.layer))
      base_samples == Cardinality(Scored(baseline.rows, gate.layer))
  IN  /\ gate.rule # <<>> => AtLeast(PassRate(rows), gate.rule)
      /\ gate.min # <<>> => actual # <<>> /\ AtLeast(actual, gate.min)
      /\ gate.max # <<>> => actual # <<>> /\ AtLeast(gate.max, actual)
      /\ gate.tag_min # <<>> => AtLeast(TagRate(rows), gate.tag_min)
      /\ gate.min_n > 0 =>
           /\ gate.evaluator
           /\ samples > 0
           /\ samples >= gate.min_n /\ base_samples >= gate.min_n => ~worse
      /\ gate.delta # <<>> /\ baseline.there /\ actual # <<>> /\ base # <<>> =>
           DeltaAtLeast(actual, base, gate.delta)
      /\ gate.custom_check \in {"none", "passes"}

\* A trial has a blocking gate that fails.
BlockingGateFails(gates, rows, baseline, worse) ==
  \E gate \in gates : gate.severity = "block" /\ ~GatePasses(gate, rows, baseline, worse)
=============================================================================
