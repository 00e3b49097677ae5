-------------------------- MODULE GovernanceTypes ---------------------------
(***************************************************************************)
(* The enumerations and the role tables of the governance domain: the      *)
(* StrEnum classes of odg_core.enums, the role sets and the hierarchy of   *)
(* the approval and veto services, and the event each status change is     *)
(* recorded under.                                                         *)
(***************************************************************************)
EXTENDS Integers

RACIRole == {"responsible", "accountable", "consulted", "informed"}

VoteValue == {"approve", "reject", "abstain"}

FinalStatus == {"approved", "rejected", "vetoed", "escalated"}

DecisionStatus == {"pending", "awaiting_approval"} \cup FinalStatus

VetoStatus == {"active", "expired", "overridden"}

EventType ==
  {"decision_created", "decision_submitted", "approval_cast",
   "decision_approved", "decision_rejected", "decision_escalated",
   "veto_exercised", "veto_overridden", "role_assigned", "role_revoked"}

(* Whose approval a decision needs. *)
REQUIRED_APPROVAL_ROLES == {"responsible", "accountable"}

(* Who may veto. *)
VETO_ELIGIBLE_ROLES == {"accountable", "responsible"}

(* Authority of a role when it overrides a veto. *)
ROLE_HIERARCHY ==
  [r \in RACIRole |-> CASE r = "accountable" -> 3
                        [] r = "responsible" -> 2
                        [] r = "consulted"   -> 1
                        [] r = "informed"    -> 0]

(* The audit event written in the transaction that gives a decision the   *)
(* status s: create_decision, submit_for_approval, and the event_map of    *)
(* finalize.                                                               *)
EventOf(s) ==
  CASE s = "pending"           -> "decision_created"
    [] s = "awaiting_approval" -> "decision_submitted"
    [] s = "approved"          -> "decision_approved"
    [] s = "rejected"          -> "decision_rejected"
    [] s = "escalated"         -> "decision_escalated"
    [] s = "vetoed"            -> "veto_exercised"
=============================================================================
