-------------------------------- MODULE Sums --------------------------------
(***************************************************************************)
(* The sum of the numbers w[x] of the x in S, as the number of their       *)
(* units: x has the units <<x, 1>>, ..., <<x, w[x]>>.  The ledgers' costs  *)
(* are summed this way because a cardinality, unlike a fold, can be        *)
(* reasoned about (SumsProofs).                                            *)
(***************************************************************************)
EXTENDS Integers, FiniteSets

Units(S, w) == UNION {{x} \X (1..w[x]) : x \in S}

SumOf(S, w) == Cardinality(Units(S, w))
=============================================================================
