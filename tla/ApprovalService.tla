--------------------------- MODULE ApprovalService --------------------------
(***************************************************************************)
(* cast_vote: any user with a role in the decision's domain votes once; a  *)
(* REJECT finalizes the decision as REJECTED, an APPROVE finalizes it as   *)
(* APPROVED when every RESPONSIBLE and ACCOUNTABLE user has approved.      *)
(***************************************************************************)
EXTENDS DecisionService

BeginVote(w) ==
  \E d \in Decisions, u \in Users, vote \in VoteValue :
    Begin(w, [NoRequest EXCEPT !.id = nextId, !.op = "vote", !.dec = d,
                               !.user = u, !.arg = vote],
          "vote_select_decision")

VoteSelectDecision(w) ==
  /\ pc[w] = "vote_select_decision"
  /\ \/ /\ decision[req[w].dec] = "awaiting_approval"
        /\ ReadThen(w, "vote_select_assignment", read[w])
     \/ /\ decision[req[w].dec] # "awaiting_approval"
        /\ Rollback(w)

(* Mutant: a user without a role votes. *)
VoteSelectAssignmentAny(w) ==
  /\ pc[w] = "vote_select_assignment"
  /\ ReadThen(w, "vote_select_vote", read[w])

VoteSelectAssignment(w) ==
  LET rows == GetAssignment(req[w].user, DomainOf[req[w].dec]) IN
  /\ pc[w] = "vote_select_assignment"
  /\ \/ \E a \in rows :
          ReadThen(w, "vote_select_vote", [read[w] EXCEPT !.role = a.role])
     \/ rows = {} /\ Rollback(w)

(* Mutant: no look for an earlier vote of the user. *)
VoteSelectVoteAny(w) ==
  /\ pc[w] = "vote_select_vote"
  /\ ReadThen(w, "insert_vote", read[w])

(* get_vote: one row is a duplicate vote, several make                     *)
(* scalar_one_or_none raise; both end the request.                         *)
VoteSelectVote(w) ==
  LET existing == {v \in VisibleVotes(w) :
                     v.dec = req[w].dec /\ v.voter = req[w].user}
  IN
  /\ pc[w] = "vote_select_vote"
  /\ \/ existing = {} /\ ReadThen(w, "insert_vote", read[w])
     \/ existing # {} /\ Rollback(w)

(* Mutant: a REJECT waits for the other votes. *)
AfterVotePatient(vote) == IF vote = "approve" THEN "list_required" ELSE "commit"

(* Mutant: an APPROVE is never looked at. *)
AfterVoteForgetful(vote) == IF vote = "reject" THEN "finalize_select" ELSE "commit"

(* What follows the APPROVAL_CAST event. *)
AfterVote(vote) ==
  CASE vote = "reject"  -> "finalize_select"
    [] vote = "approve" -> "list_required"
    [] OTHER            -> "commit"

InsertVote(w) ==
  LET row == [id |-> req[w].id, dec |-> req[w].dec, voter |-> req[w].user,
              role |-> read[w].role, vote |-> req[w].arg]
      l == [read[w] EXCEPT !.target =
              IF req[w].arg = "reject" THEN "rejected" ELSE @]
  IN
  /\ pc[w] = "insert_vote"
  /\ Statement(w, "last_hash",
               Recording(l, "approval_cast", req[w].dec, 1, AfterVote(req[w].arg)),
               [staged[w] EXCEPT !.votes = {row}])

(* required_voters of a domain. *)
RequiredVoters(m) ==
  {a.user : a \in {b \in raci : b.domain = m /\ b.role \in REQUIRED_APPROVAL_ROLES}}

(* Mutant: only ACCOUNTABLE users are required. *)
ListRequiredAccountable(w) ==
  LET required == {a.user : a \in {b \in raci : /\ b.domain = DomainOf[req[w].dec]
                                               /\ b.role = "accountable"}}
  IN
  /\ pc[w] = "list_required"
  /\ ReadThen(w, IF required = {} THEN "commit" ELSE "list_approvals",
              [read[w] EXCEPT !.required = required])

ListRequired(w) ==
  LET required == RequiredVoters(DomainOf[req[w].dec]) IN
  /\ pc[w] = "list_required"
  /\ ReadThen(w, IF required = {} THEN "commit" ELSE "list_approvals",
              [read[w] EXCEPT !.required = required])

(* approved_voters of a decision, in a set of vote rows. *)
Approvers(rows, d) == {v.voter : v \in {x \in rows : x.dec = d /\ x.vote = "approve"}}

(* Mutant: one required approval is enough. *)
ListApprovalsAny(w) ==
  /\ pc[w] = "list_approvals"
  /\ \/ /\ read[w].required \cap Approvers(VisibleVotes(w), req[w].dec) # {}
        /\ ReadThen(w, "finalize_select", [read[w] EXCEPT !.target = "approved"])
     \/ /\ read[w].required \cap Approvers(VisibleVotes(w), req[w].dec) = {}
        /\ ReadThen(w, "commit", read[w])

ListApprovals(w) ==
  /\ pc[w] = "list_approvals"
  /\ \/ /\ read[w].required \subseteq Approvers(VisibleVotes(w), req[w].dec)
        /\ ReadThen(w, "finalize_select", [read[w] EXCEPT !.target = "approved"])
     \/ /\ ~(read[w].required \subseteq Approvers(VisibleVotes(w), req[w].dec))
        /\ ReadThen(w, "commit", read[w])

ApprovalStep(w) ==
  \/ VoteSelectDecision(w)
  \/ VoteSelectAssignment(w)
  \/ VoteSelectVote(w)
  \/ InsertVote(w)
  \/ ListRequired(w)
  \/ ListApprovals(w)
=============================================================================
