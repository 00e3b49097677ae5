-------------------------- MODULE DecisionLifecycle -------------------------
(***************************************************************************)
(* What the engine promises of a decision, as the class comment of         *)
(* DecisionService states it:                                              *)
(*   PENDING -> AWAITING_APPROVAL -> APPROVED/REJECTED/VETOED/ESCALATED.   *)
(***************************************************************************)
EXTENDS GovernanceTypes

CONSTANT Decisions

VARIABLE status

Init == status = [d \in Decisions |-> "absent"]

Move(d, from, to) == status[d] = from /\ status' = [status EXCEPT ![d] = to]

Create(d) == Move(d, "absent", "pending")

Submit(d) == Move(d, "pending", "awaiting_approval")

Finalize(d) == \E s \in FinalStatus : Move(d, "awaiting_approval", s)

Next == \E d \in Decisions : Create(d) \/ Submit(d) \/ Finalize(d)

Spec == Init /\ [][Next]_status
=============================================================================
