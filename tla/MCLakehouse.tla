---------------------------- MODULE MCLakehouse ----------------------------
(***************************************************************************)
(* A small instance of the lakehouse: two concurrent calls, scores on both *)
(* sides of the first threshold and above the second one.                  *)
(***************************************************************************)
EXTENDS Lakehouse, TLC

CONSTANTS c1, c2

AroundThresholds == {69, 70, 90}
ThreeOfEach == [op \in {"ensure", "promote"} |-> 3]
Symmetric == Permutations(Calls)
=============================================================================
