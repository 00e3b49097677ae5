----------------------------- MODULE Medallion -----------------------------
(***************************************************************************)
(* The medallion layers and the rules of promotion between them.  A score  *)
(* or a threshold is a percentage.                                         *)
(***************************************************************************)
EXTENDS Naturals

_LAYER_ORDER == <<"bronze", "silver", "gold", "platinum">>
Layers == {"bronze", "silver", "gold", "platinum"}

\* _validate_transition: exactly one layer up.
ValidTransition(source, target) ==
  \E i \in 1 .. 3 : source = _LAYER_ORDER[i] /\ target = _LAYER_ORDER[i + 1]

_DQ_THRESHOLDS == [source \in {"bronze", "silver", "gold"} |->
  CASE source = "bronze" -> 70 [] source = "silver" -> 85 [] source = "gold" -> 95]

_STRATEGIES == [source \in {"bronze", "silver", "gold"} |->
  IF source = "bronze" THEN "auto" ELSE "governance"]
=============================================================================
