-------------------------- MODULE GovernanceEngine --------------------------
(***************************************************************************)
(* The governance engine: the four services over one database, any number  *)
(* of requests open at once.                                               *)
(***************************************************************************)
EXTENDS ApprovalService, VetoService, RoleService

(* The Seed assignments were made one after the other, each with its       *)
(* ROLE_ASSIGNED event.                                                    *)
SeedRows ==
  {[id |-> i, user |-> Seed[i].user, domain |-> Seed[i].domain,
    role |-> Seed[i].role] : i \in 1..Len(Seed)}

SeedEvents ==
  {[type |-> "role_assigned", entity |-> i, actor |-> "client", at |-> i,
    prev |-> i - 1] : i \in 1..Len(Seed)}

Init ==
  /\ decision = [d \in Decisions |-> "absent"]
  /\ votes = {}
  /\ vetoes = {}
  /\ raci = SeedRows
  /\ audit = SeedEvents
  /\ clock = Len(Seed)
  /\ nextId = Len(Seed) + 1
  /\ begun = [op \in Ops |-> 0]
  /\ pc = [w \in Workers |-> "idle"]
  /\ req = [w \in Workers |-> NoRequest]
  /\ read = [w \in Workers |-> NothingRead]
  /\ staged = [w \in Workers |-> NothingStaged]

Arrive(w) ==
  \/ BeginCreate(w)
  \/ BeginSubmit(w)
  \/ BeginVote(w)
  \/ BeginVeto(w)
  \/ BeginOverride(w)
  \/ BeginAssign(w)
  \/ BeginRevoke(w)

(* The steps a worker takes by itself once it has a request. *)
Advance(w) ==
  \/ DecisionStep(w)
  \/ ApprovalStep(w)
  \/ VetoStep(w)
  \/ RoleStep(w)
  \/ ReadLastHash(w)
  \/ InsertEvent(w)
  \/ Commit(w)

(* The clients have made all the requests of one of the mixes. *)
Drained ==
  /\ \A w \in Workers : pc[w] = "idle"
  /\ begun \in Limits
  /\ UNCHANGED vars

Next ==
  \/ \E w \in Workers : Arrive(w) \/ Advance(w) \/ Fail(w)
  \/ Drained

Spec == Init /\ [][Next]_vars

(* The event loop runs every open request on. *)
FairSpec == Spec /\ \A w \in Workers : WF_vars(Advance(w))
-----------------------------------------------------------------------------
(***************************************************************************)
(* What holds however many requests are open.                              *)
(***************************************************************************)

Recorded(type, row, who) ==
  \E e \in audit : e.type = type /\ e.entity = row /\ e.actor = who

(* A status a decision shows is backed by the event written with it: no    *)
(* transaction commits the status without the audit row.                   *)
StatusAudited ==
  \A d \in Decisions :
    decision[d] # "absent" =>
      \E e \in audit : e.type = EventOf(decision[d]) /\ e.entity = d

(* A REJECT vote, and a veto, reach the tables only together with the      *)
(* finalization they caused, even when that finalization was overwritten   *)
(* later: a transaction that loses the race in finalize leaves no vote and *)
(* no veto behind.                                                         *)
DecisiveRowsAudited ==
  /\ \A v \in votes : v.vote = "reject" => Recorded("decision_rejected", v.dec, v.voter)
  /\ \A v \in vetoes : Recorded("veto_exercised", v.dec, v.by)

(* The converse: what the trail says was done is in the tables.            *)
EventsBacked ==
  \A e \in audit :
    /\ e.type = "approval_cast" =>
         \E v \in votes : v.dec = e.entity /\ v.voter = e.actor
    /\ e.type = "decision_rejected" =>
         \E v \in votes : v.dec = e.entity /\ v.voter = e.actor /\ v.vote = "reject"
    /\ e.type = "veto_exercised" =>
         \E v \in vetoes : v.dec = e.entity /\ v.by = e.actor
    /\ e.type = "veto_overridden" =>
         \E v \in vetoes : v.dec = e.entity /\ v.status = "overridden"

(* A decision that was ever finalized as APPROVED has the approval of      *)
(* every RESPONSIBLE and ACCOUNTABLE user of its domain (ApprovalService)  *)
(* who has held that role all along, whatever roles come and go and        *)
(* whatever else is voted meanwhile.                                       *)
ApprovedUnanimously ==
  \A e \in audit : e.type = "decision_approved" =>
    \A a \in raci \cap SeedRows :
      a.domain = DomainOf[e.entity] /\ a.role \in REQUIRED_APPROVAL_ROLES =>
        a.user \in Approvers(votes, e.entity)

(* Whoever overrode a veto outranks the role it was exercised in           *)
(* (VetoService): only a RESPONSIBLE user's veto falls, and never to       *)
(* someone whose standing role is not ACCOUNTABLE.                         *)
OverriddenByAuthority ==
  \A v \in vetoes : v.status = "overridden" =>
    /\ v.role = "responsible"
    /\ \A a \in raci \cap SeedRows :
         a.user = v.over /\ a.domain = DomainOf[v.dec] => a.role = "accountable"

(* The role table and the trail agree: a user has one role in a domain,    *)
(* every assignment in force has its ROLE_ASSIGNED event and no            *)
(* ROLE_REVOKED one, and every assignment not in force was revoked.        *)
RolesMatchTrail ==
  /\ \A a, b \in raci : a.user = b.user /\ a.domain = b.domain => a = b
  /\ \A a \in raci :
       /\ \E e \in audit : e.type = "role_assigned" /\ e.entity = a.id
       /\ ~\E e \in audit : e.type = "role_revoked" /\ e.entity = a.id
  /\ \A e \in audit : e.type = "role_assigned" =>
       \/ \E a \in raci : a.id = e.entity
       \/ \E f \in audit : f.type = "role_revoked" /\ f.entity = e.entity
-----------------------------------------------------------------------------
(***************************************************************************)
(* What holds when requests are served one after the other.                *)
(***************************************************************************)

(* The life cycle of DecisionService's class comment. *)
Lifecycle == INSTANCE DecisionLifecycle WITH status <- decision

LifecycleSpec == Lifecycle!Spec

(* verify_integrity answers True. *)
ChainVerifies == VerifyIntegrity(audit, ChainLimit)

(* A user votes on a decision once. *)
OneVotePerUser ==
  \A v1, v2 \in votes : v1.dec = v2.dec /\ v1.voter = v2.voter => v1 = v2

(* One reject is enough, and no approval or veto stands beside it; and as  *)
(* long as a veto is ACTIVE its decision is VETOED, whoever votes          *)
(* afterwards.  Of a veto that was overridden nothing is claimed: by       *)
(* VetoService's docstring and ADR-014 a veto is time-bound and falls to   *)
(* a higher role, but the code changes the status of the veto alone and    *)
(* leaves the decision VETOED.                                             *)
DecisiveRowsStand ==
  /\ \A v \in votes : v.vote = "reject" => decision[v.dec] = "rejected"
  /\ \A v \in vetoes : v.status = "active" => decision[v.dec] = "vetoed"

(* No decision waits for an approval it already has: one with the approval *)
(* of all its required voters has been finalized.  Revoking a role may     *)
(* make it so without a vote, and nothing looks at the decision then.      *)
NoApprovedDecisionWaits ==
  (\A e \in audit : e.type # "role_revoked") =>
    \A d \in Decisions :
      LET required == RequiredVoters(DomainOf[d]) IN
      decision[d] = "awaiting_approval" /\ required # {} =>
        ~(required \subseteq Approvers(votes, d))

(* The step that shows a decision as APPROVED finds the approval of all    *)
(* who are required at that moment, not at an earlier one.                 *)
ApprovalIsCurrent ==
  [][\A d \in Decisions :
       decision'[d] = "approved" /\ decision[d] # "approved" =>
         /\ RequiredVoters(DomainOf[d]) # {}
         /\ RequiredVoters(DomainOf[d]) \subseteq Approvers(votes', d)]_vars
-----------------------------------------------------------------------------
(* A request that has arrived is answered: it commits or rolls back, and   *)
(* the row locks never leave two requests waiting for each other.          *)
EveryRequestEnds == \A w \in Workers : pc[w] # "idle" ~> pc[w] = "idle"
=============================================================================
