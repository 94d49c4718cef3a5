--------------------------- MODULE MCLiveGateway ---------------------------
(***************************************************************************)
(* Instances of LiveGateway: every request on a worker of its own, or the  *)
(* first two on one.                                                       *)
(***************************************************************************)
EXTENDS LiveGateway, TLC

CONSTANTS r1, r2, r3, w1, w2

OneEach == [r \in Request |-> IF r = r1 THEN w1 ELSE w2]
TwoShare == [r \in Request |-> IF r = r3 THEN w2 ELSE w1]

\* Sound for invariants: nothing tells r1 from r2 under TwoShare.
SwapSharers == Permutations({r1, r2})

\* SumOf is the sum: the fold of the community modules agrees.
ASSUME SumIsSum ==
  \A S \in SUBSET (1..3), w \in [1..3 -> 0..2] :
    SumOf(S, w) = MapThenSumSet(LAMBDA x : w[x], S)
=============================================================================
