----------------------------- MODULE MCLocalRun -----------------------------
(***************************************************************************)
(* Instances of LocalRun: the first row overrides its provider, so that    *)
(* its cache key is the same under every trial.  All rows have one id.     *)
(***************************************************************************)
EXTENDS LocalRun

MCKey == {<<0, 1>>} \cup (Trial \X Row)
MCKeyOf == [x \in Trial \X Row |-> IF x[2] = 1 THEN <<0, 1>> ELSE x]

MCIdOf == [r \in Row |-> 1]

NoGate == [severity |-> "block", layer |-> 1, evaluator |-> FALSE, aggregation |-> "pass_rate",
           rule |-> <<>>, min |-> <<>>, max |-> <<>>, tag_min |-> <<>>, min_n |-> 0,
           delta |-> <<>>, custom_check |-> "none"]

\* Layer 1 has a blocking gate: on the layer, on its evaluator, or a broken one.
OnLayer == [NoGate EXCEPT !.rule = <<1, 2>>, !.min = <<1, 2>>, !.tag_min = <<1, 2>>, !.delta = <<-1, 2>>]
OnEvaluator ==
  [NoGate EXCEPT !.evaluator = TRUE, !.aggregation = "count_failures", !.max = <<0, 1>>,
                 !.min_n = 2, !.custom_check = "passes"]
Broken == [NoGate EXCEPT !.aggregation = "p50", !.custom_check = "raises"]
Warning == [NoGate EXCEPT !.severity = "warn", !.layer = 2, !.min = <<1, 1>>]

MCGateConfig == {{OnLayer, Warning}, {OnEvaluator}, {Broken}}

\* A gate that allows one failure.
MCLenient == {{[OnEvaluator EXCEPT !.max = <<1, 1>>]}}

\* A perfect run, and none.
MCBaseline ==
  {[there |-> FALSE, rows |-> {}],
   [there |-> TRUE, rows |-> {[row |-> r, id |-> IdOf[r], scored |-> Layer, failed |-> {}] : r \in Row}]}
=============================================================================
