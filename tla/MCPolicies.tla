----------------------------- MODULE MCPolicies -----------------------------
(***************************************************************************)
(* A small instance of the rule libraries: a capability of each risk       *)
(* level, two columns of two types, and results that lie below, on and     *)
(* above the thresholds of the layers.                                     *)
(***************************************************************************)
EXTENDS Policies

ResultsAroundThresholds ==
  {[passed |-> 0, total |-> 0], [passed |-> 6, total |-> 10], [passed |-> 7, total |-> 10],
   [passed |-> 17, total |-> 20], [passed |-> 19, total |-> 20]}

OneOfEachRisk == {"law_enforcement", "chatbot", "translation"}
=============================================================================
