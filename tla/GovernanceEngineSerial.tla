----------------------- MODULE GovernanceEngineSerial -----------------------
(***************************************************************************)
(* What the engine guarantees only when it serves one request at a time,   *)
(* that is with one worker.  With two it does not (runs lifecycle_race,    *)
(* approval_race and chain_race).                                          *)
(*                                                                         *)
(* First, what becomes of decisions and votes: each decision follows the   *)
(* life cycle the DecisionService documents, a user votes once, one REJECT *)
(* or veto decides, an approval is unanimous when it is shown, and none    *)
(* that could be shown is left waiting.  The invariant says that what the  *)
(* one session has read is still so, and that what it has staged decides,  *)
(* or will, what it has to.                                                *)
(*                                                                         *)
(* Then the audit trail, which verifies at any moment: what the one        *)
(* transaction sees, committed events and its own, is itself a chain, and  *)
(* so is what is committed.  A rollback leaves the one, a commit the       *)
(* other.  Between the two statements of record_event the last hash that   *)
(* was read is still the last one.                                         *)
(***************************************************************************)
EXTENDS GovernanceEngineAuthority, FiniteSetTheorems

(* A move of the documented life cycle. *)
Legal(from, to) ==
  \/ from = "absent" /\ to = "pending"
  \/ from = "pending" /\ to = "awaiting_approval"
  \/ from = "awaiting_approval" /\ to \in FinalStatus

Required(d) == RequiredVoters(DomainOf[d])

Unanimous(d, rows) == Required(d) # {} /\ Required(d) \subseteq Approvers(rows, d)

(* What a session that nobody interferes with still knows of the status it *)
(* has checked.                                                            *)
Checked(p, r, l, x) ==
  /\ p = "insert_decision" => decision[r.dec] = "absent"
  /\ p \in {"reselect_decision", "update_decision"} => Legal(decision[r.dec], l.target)
  /\ p = "update_decision" => l.seen = decision[r.dec]
  /\ x.status # None =>
       /\ Legal(decision[r.dec], x.status)
       /\ p = "commit" \/ (p \in RecordingSteps /\ l.then = "commit")
  /\ (\/ p \in {"vote_select_assignment", "vote_select_vote", "insert_vote",
                "veto_select_assignment", "insert_veto"}
      \/ x.votes \cup x.vetoes # {}) =>
       decision[r.dec] = "awaiting_approval"

(* Its vote is the only one of its user, who has a role in the domain. *)
Counted(p, r, l, x) ==
  /\ p \in {"vote_select_vote", "insert_vote"} \/ x.votes # {} =>
       GetAssignment(r.user, DomainOf[r.dec]) # {}
  /\ p = "insert_vote" \/ x.votes # {} =>
       \A v \in votes : ~(v.dec = r.dec /\ v.voter = r.user)
  /\ \A v \in x.votes : v.dec = r.dec /\ v.voter = r.user /\ x.votes = {v}
  /\ x.votes # {} => r.op = "vote"
  /\ x.assigned # {} => r.op = "assign"

(* What its vote or veto decides, it is on the way to set. *)
Decides(p, r, l, x) ==
  /\ p \in RecordingSteps /\ l.then = "finalize_select" => l.target = "rejected"
  /\ \A v \in x.votes : v.vote = "reject" =>
       \/ x.status = "rejected"
       \/ p \in RecordingSteps /\ l.then = "finalize_select"
       \/ p \in FinalizingSteps /\ l.target = "rejected"
  /\ \A v \in x.vetoes :
       x.status = "vetoed" \/ (p \in FinalizingSteps /\ l.target = "vetoed")
  /\ \A v \in x.votes : v.vote = "approve" =>
       \/ x.status # None
       \/ p \in RecordingSteps /\ l.then = "list_required"
       \/ p \in {"list_required", "list_approvals"} \cup FinalizingSteps
       \/ ~Unanimous(r.dec, votes \cup x.votes)
  /\ p = "list_approvals" => l.required = Required(r.dec) /\ Required(r.dec) # {}
  /\ x.status = "approved" \/ (p \in FinalizingSteps /\ l.target = "approved") =>
       Unanimous(r.dec, votes \cup x.votes)

Alone(p, r, l, x) ==
  Checked(p, r, l, x) /\ Counted(p, r, l, x) /\ Decides(p, r, l, x)

Revoked == \E e \in audit : e.type = "role_revoked"

(* Votes are cast on submitted decisions, by users with a role. *)
VotesAdmitted ==
  /\ \A v \in votes : decision[v.dec] \notin {"absent", "pending"}
  /\ ~Revoked => \A v \in votes : GetAssignment(v.voter, DomainOf[v.dec]) # {}

(* What the code does goes further than DecisiveRowsStand: a vetoed        *)
(* decision stays VETOED whatever becomes of its veto, overrides included. *)
DecisiveRowsDecide ==
  /\ \A v \in votes : v.vote = "reject" => decision[v.dec] = "rejected"
  /\ \A v \in vetoes : decision[v.dec] = "vetoed"

SerialInv ==
  /\ \A w \in Workers : Alone(pc[w], req[w], read[w], staged[w])
  /\ OneVotePerUser
  /\ DecisiveRowsDecide
  /\ VotesAdmitted
  /\ NoApprovedDecisionWaits
-----------------------------------------------------------------------------
LEMMA StatementAlone ==
  ASSUME TypeInv, SerialInv, NEW w \in Workers, Workers = {w}, NEW s, NEW l, NEW x,
         /\ pc' = [pc EXCEPT ![w] = s]
         /\ read' = [read EXCEPT ![w] = l]
         /\ staged' = [staged EXCEPT ![w] = x]
         /\ UNCHANGED <<tables, req>>,
         Alone(s, req[w], l, x)
  PROVE  SerialInv'
<1>1. UNCHANGED <<decision, votes, vetoes, raci, audit, req>>
  BY DEF tables
<1>2. pc'[w] = s /\ read'[w] = l /\ staged'[w] = x
  BY DEF TypeInv, TypeOK
<1>3. Alone(pc[w], req[w], read[w], staged[w])'
  <2>1. Checked(pc[w], req[w], read[w], staged[w])'
    BY <1>1, <1>2 DEF Alone, Checked, Legal
  <2>2. Counted(pc[w], req[w], read[w], staged[w])'
    BY <1>1, <1>2 DEF Alone, Counted, GetAssignment
  <2>3. Decides(pc[w], req[w], read[w], staged[w])'
    BY <1>1, <1>2 DEF Alone, Decides, Unanimous, Required, RequiredVoters, Approvers
  <2> QED BY <2>1, <2>2, <2>3 DEF Alone
<1>4. OneVotePerUser' /\ DecisiveRowsDecide' /\ VotesAdmitted' /\ NoApprovedDecisionWaits'
  BY <1>1 DEF SerialInv, OneVotePerUser, DecisiveRowsDecide, VotesAdmitted, Revoked,
              GetAssignment, NoApprovedDecisionWaits, RequiredVoters
<1> QED BY <1>1, <1>3, <1>4 DEF SerialInv

LEMMA EndAlone ==
  ASSUME TypeInv, NEW w \in Workers, Workers = {w}, EndSession(w),
         OneVotePerUser', DecisiveRowsDecide', VotesAdmitted', NoApprovedDecisionWaits'
  PROVE  SerialInv'
<1>1. /\ pc'[w] = "idle" /\ staged'[w] = NothingStaged /\ UNCHANGED Workers
  BY DEF TypeInv, TypeOK, EndSession
<1>2. Alone(pc[w], req[w], read[w], staged[w])'
  BY <1>1, NoneAssumption DEF Alone, Checked, Counted, Decides, NothingStaged, RecordingSteps,
                              FinalizingSteps, DecisionStatus, FinalStatus
<1> QED BY <1>2 DEF SerialInv

LEMMA RollbackAlone ==
  ASSUME TypeInv, SerialInv, NEW w \in Workers, Workers = {w}, Rollback(w)
  PROVE  SerialInv'
<1>1. UNCHANGED <<decision, votes, vetoes, raci, audit>>
  BY DEF Rollback, tables
<1>2. OneVotePerUser' /\ DecisiveRowsDecide' /\ VotesAdmitted' /\ NoApprovedDecisionWaits'
  BY <1>1 DEF SerialInv, OneVotePerUser, DecisiveRowsDecide, VotesAdmitted, Revoked,
              GetAssignment, NoApprovedDecisionWaits, RequiredVoters
<1> QED BY <1>2, EndAlone DEF Rollback
-----------------------------------------------------------------------------
(* What a session that has come to its commit has written: nothing, or one *)
(* thing that is complete.                                                 *)
Complies(r, x) ==
  /\ x.status # None => Legal(decision[r.dec], x.status)
  /\ x.votes \cup x.vetoes # {} => decision[r.dec] = "awaiting_approval"
  /\ \A v \in x.votes :
       /\ v.dec = r.dec /\ v.voter = r.user /\ x.votes = {v} /\ x.assigned = {}
       /\ v.vote = "reject" => x.status = "rejected"
       /\ v.vote = "approve" => x.status # None \/ ~Unanimous(r.dec, votes \cup x.votes)
       /\ \A u \in votes : ~(u.dec = r.dec /\ u.voter = r.user)
       /\ GetAssignment(r.user, DomainOf[r.dec]) # {}
  /\ \A v \in x.vetoes : v.dec = r.dec /\ x.status = "vetoed"
  /\ x.status = "approved" => Unanimous(r.dec, votes \cup x.votes)
  /\ \A a \in x.assigned, b \in raci : ~SameEntry(a, b)
  /\ x.revoked # {} => \E e \in x.events : e.type = "role_revoked"

LEMMA CommitComplies ==
  ASSUME TypeInv, AuditInv, RoleInv, SerialInv, NEW w \in Workers, Commit(w)
  PROVE  Complies(req[w], staged[w])
<1> USE DEF Recorders, RecordingSteps, FinalizingSteps
<1>1. /\ Alone("commit", req[w], read[w], staged[w])
      /\ Debts("commit", req[w], read[w], staged[w])
      /\ Roles("commit", req[w], read[w], staged[w])
  BY DEF AuditInv, RoleInv, SerialInv, Commit
<1>2. /\ staged[w].votes # {} => req[w].op = "vote"
      /\ staged[w].assigned # {} => req[w].op = "assign"
  BY <1>1 DEF Alone, Counted
<1>3. /\ \A a \in staged[w].assigned, b \in raci : ~SameEntry(a, b)
      /\ staged[w].revoked # {} => \E e \in staged[w].events : e.type = "role_revoked"
  BY <1>1 DEF Roles, RoleRecorded
<1>4. \A v \in staged[w].vetoes : v.dec = req[w].dec
  BY <1>1 DEF Debts
<1> QED BY <1>1, <1>2, <1>3, <1>4 DEF Alone, Checked, Counted, Decides, Complies

(* The status of the one decision that a commit may change moves on in its *)
(* life cycle.                                                             *)
LEMMA CommitDecides ==
  ASSUME TypeInv, NEW w \in Workers, Commit(w), Complies(req[w], staged[w]),
         NEW d \in Decisions
  PROVE  IF d = req[w].dec /\ staged[w].status # None
           THEN decision'[d] = staged[w].status /\ Legal(decision[d], decision'[d])
           ELSE decision'[d] = decision[d]
BY DEF TypeInv, TypeOK, Commit, Complies

LEMMA CommitAlone ==
  ASSUME TypeInv, AuditInv, RoleInv, SerialInv, NEW w \in Workers, Workers = {w}, Commit(w)
  PROVE  SerialInv'
<1> USE DEF Legal, FinalStatus
<1> DEFINE r == req[w]
           x == staged[w]
<1>1. Complies(r, x)
  BY CommitComplies
<1>2. /\ votes' = votes \cup x.votes /\ audit' = audit \cup x.events
      /\ raci' = (raci \ x.revoked) \cup x.assigned
      /\ votes \subseteq Vote /\ vetoes \subseteq Veto /\ x.votes \subseteq Vote
      /\ x.vetoes \subseteq Veto
  BY DEF Commit, TypeInv, TypeOK, Staged
<1>3. ASSUME NEW d \in Decisions
      PROVE  /\ d = r.dec /\ x.status # None =>
                  decision'[d] = x.status /\ Legal(decision[d], decision'[d])
             /\ ~(d = r.dec /\ x.status # None) => decision'[d] = decision[d]
  BY <1>1, CommitDecides
<1>4. OneVotePerUser'
  BY <1>1, <1>2 DEF Complies, SerialInv, OneVotePerUser
<1>5. DecisiveRowsDecide'
  <2>1. ASSUME NEW v \in votes', v.vote = "reject" PROVE decision'[v.dec] = "rejected"
    <3>1. CASE v \in votes
      BY <1>2, <1>3, <2>1, <3>1 DEF SerialInv, DecisiveRowsDecide, Vote
    <3>2. CASE v \in x.votes
      BY <1>1, <1>2, <1>3, <2>1, <3>2, NoneAssumption DEF Complies, Vote, DecisionStatus
    <3> QED BY <1>2, <3>1, <3>2
  <2>2. ASSUME NEW v \in vetoes' PROVE decision'[v.dec] = "vetoed"
    <3>1. CASE v \in x.vetoes
      BY <1>1, <1>2, <1>3, <3>1, NoneAssumption DEF Complies, Veto, DecisionStatus
    <3>2. CASE v \notin x.vetoes
      <4>1. PICK u \in vetoes : v = Overridden(w, u)
        BY <3>2 DEF Commit
      <4>2. v.dec = u.dec /\ u.dec \in Decisions
        BY <1>2, <4>1 DEF Overridden, Veto
      <4> QED BY <1>3, <4>2 DEF SerialInv, DecisiveRowsDecide
    <3> QED BY <3>1, <3>2
  <2> QED BY <2>1, <2>2 DEF DecisiveRowsDecide
<1>6. ~Revoked' => ~Revoked /\ raci' = raci \cup x.assigned
  BY <1>1, <1>2 DEF Revoked, Complies
<1>7. VotesAdmitted'
  <2>1. ASSUME NEW v \in votes' PROVE decision'[v.dec] \notin {"absent", "pending"}
    <3>1. CASE v \in votes
      BY <1>2, <1>3, <3>1 DEF SerialInv, VotesAdmitted, Vote
    <3>2. CASE v \in x.votes
      BY <1>1, <1>2, <1>3, <3>2 DEF Complies, Vote
    <3> QED BY <1>2, <3>1, <3>2
  <2>2. ASSUME ~Revoked', NEW v \in votes'
        PROVE  GetAssignment(v.voter, DomainOf[v.dec]) # {}
    BY <1>1, <1>2, <1>6, <2>2 DEF Complies, SerialInv, VotesAdmitted
  <2>3. ASSUME ~Revoked', NEW v \in votes'
        PROVE  \E a \in raci' : a.user = v.voter /\ a.domain = DomainOf[v.dec]
    BY <1>6, <2>2, <2>3 DEF GetAssignment
  <2> QED BY <2>1, <2>3 DEF VotesAdmitted, GetAssignment
<1>8. ASSUME ~Revoked', NEW d \in Decisions, decision'[d] = "awaiting_approval",
             Required(d)' # {}, Required(d)' \subseteq Approvers(votes, d)'
      PROVE  FALSE
  <2>1. /\ Required(d) \subseteq Required(d)'
        /\ \A u \in Required(d)' : u \in Required(d) \/
             \E a \in x.assigned : a.user = u /\ a.domain = DomainOf[d]
        /\ x.assigned = {} => Required(d)' = Required(d)
    BY <1>6, <1>8 DEF Required, RequiredVoters
  <2>2. ASSUME NEW u \in Approvers(votes, d)'
        PROVE  \E v \in votes \cup x.votes : v.dec = d /\ v.vote = "approve" /\ v.voter = u
    BY <1>2 DEF Approvers
  <2>3. decision[d] = "awaiting_approval" /\ (d = r.dec => x.status = None)
    <3>1. CASE decision[d] # "awaiting_approval"
      <4>1. d = r.dec /\ decision[d] = "pending"
        BY <1>3, <1>8, <3>1
      <4>2. \A v \in votes \cup x.votes : v.dec # d
        BY <1>1, <4>1 DEF Complies, SerialInv, VotesAdmitted
      <4> QED BY <1>8, <2>2, <4>2
    <3> QED BY <1>3, <1>8, <3>1
  <2>4. ~Unanimous(d, votes)
    BY <1>6, <1>8, <2>3 DEF SerialInv, NoApprovedDecisionWaits, Unanimous, Required, Revoked
  <2>5. CASE \E v \in x.votes : v.dec = d /\ v.vote = "approve"
    BY <1>1, <1>2, <1>8, <2>1, <2>3, <2>5 DEF Complies, Unanimous
  <2>6. CASE ~\E v \in x.votes : v.dec = d /\ v.vote = "approve"
    <3>1. Required(d)' \subseteq Approvers(votes, d)
      BY <1>8, <2>2, <2>6 DEF Approvers
    <3>2. Required(d) = {}
      BY <2>1, <2>4, <3>1 DEF Unanimous
    <3>3. PICK u \in Required(d)', a \in x.assigned : a.user = u /\ a.domain = DomainOf[d]
      BY <1>8, <2>1, <3>2
    <3>4. PICK v \in votes : v.dec = d /\ v.voter = u
      BY <3>1, <3>3 DEF Approvers
    <3>5. GetAssignment(u, DomainOf[d]) # {}
      BY <1>6, <1>8, <3>4 DEF SerialInv, VotesAdmitted
    <3> QED BY <1>1, <3>3, <3>5 DEF Complies, GetAssignment, SameEntry
  <2> QED BY <2>5, <2>6
<1>9. NoApprovedDecisionWaits'
  BY <1>8 DEF NoApprovedDecisionWaits, Revoked, Required
<1> QED BY <1>4, <1>5, <1>7, <1>9, EndAlone DEF Commit

(* No statement but the commit changes what a session has found.           *)
LEMMA AdvanceAlone ==
  ASSUME TypeInv, AuditInv, RoleInv, SerialInv,
         NEW w \in Workers, Workers = {w}, Advance(w)
  PROVE  SerialInv'
<1> USE DEF Notes, AgreeBut, RecordingSteps, FinalizingSteps, Recorders, Unwritten, FirstSteps,
           Statement
<1>0. /\ Alone(pc[w], req[w], read[w], staged[w])
      /\ pc[w] \in Unwritten => staged[w] = NothingStaged
  BY DEF SerialInv, AuditInv, Debts
<1>1. CASE InsertDecision(w)
  <2>1. PICK l, x : /\ Statement(w, "last_hash", l, x) /\ pc[w] = "insert_decision"
                    /\ Notes(l, "decision_created", req[w].dec, "commit")
                    /\ x.status = "pending" /\ AgreeBut("status", x, staged[w])
    BY <1>1, InsertDecisionDoes
  <2>2. /\ staged[w] = NothingStaged /\ decision[req[w].dec] = "absent"
        /\ x.votes = {} /\ x.vetoes = {}
        /\ x.assigned = {}
    BY <1>0, <2>1 DEF Alone, Checked, NothingStaged
  <2>3. Alone("last_hash", req[w], l, x)
    BY <1>0, <2>1, <2>2 DEF Alone, Checked, Counted, Decides, Legal
  <2> QED BY <2>1, <2>3, StatementAlone
<1>2. CASE UpdateDecision(w)
  <2>1. PICK l, x : /\ Statement(w, "last_hash", l, x) /\ pc[w] = "update_decision"
                    /\ Notes(l, EventOf(read[w].target), req[w].dec, "commit")
                    /\ read[w].target \in FinalStatus \cup {"awaiting_approval"}
                    /\ x.status = IF read[w].seen = read[w].target THEN None
                                  ELSE read[w].target
                    /\ AgreeBut("status", x, staged[w])
    BY <1>2, UpdateDecisionDoes
  <2>2. /\ Legal(decision[req[w].dec], read[w].target) /\ read[w].seen = decision[req[w].dec]
        /\ x.status = read[w].target /\ x.status # None /\ staged[w].status = None
    BY <1>0, <2>1, NoneAssumption DEF Alone, Checked, Legal, FinalStatus, DecisionStatus
  <2>3. Checked("last_hash", req[w], l, x)
    BY <1>0, <2>1, <2>2 DEF Alone, Checked
  <2>4. Counted("last_hash", req[w], l, x)
    BY <1>0, <2>1 DEF Alone, Counted
  <2>5. Decides("last_hash", req[w], l, x)
    BY <1>0, <2>1, <2>2, NoneAssumption DEF Alone, Decides, DecisionStatus, FinalStatus
  <2>6. Alone("last_hash", req[w], l, x)
    BY <1>0, <2>1, <2>2, <2>3, <2>4, <2>5 DEF Alone
  <2> QED BY <2>1, <2>6, StatementAlone
<1>3. CASE InsertVote(w)
  <2>1. PICK l, x : /\ Statement(w, "last_hash", l, x) /\ pc[w] = "insert_vote"
                    /\ req[w].op = "vote" /\ req[w].arg \in VoteValue
                    /\ Notes(l, "approval_cast", req[w].dec, AfterVote(req[w].arg))
                    /\ l.target = IF req[w].arg = "reject" THEN "rejected"
                                  ELSE read[w].target
                    /\ x.votes = {[id |-> req[w].id, dec |-> req[w].dec,
                                   voter |-> req[w].user, role |-> read[w].role,
                                   vote |-> req[w].arg]}
                    /\ AgreeBut("votes", x, staged[w])
    BY <1>3, InsertVoteDoes
  <2>2. /\ staged[w] = NothingStaged /\ x.vetoes = {} /\ x.assigned = {} /\ x.status = None
        /\ l.then = AfterVote(req[w].arg)
    BY <1>0, <2>1 DEF NothingStaged
  <2>3. Checked("last_hash", req[w], l, x) /\ Counted("last_hash", req[w], l, x)
    BY <1>0, <2>1, <2>2 DEF Alone, Checked, Counted
  <2>4. Decides("last_hash", req[w], l, x)
    BY <2>1, <2>2, NoneAssumption DEF Decides, AfterVote, VoteValue, DecisionStatus, FinalStatus
  <2>5. Alone("last_hash", req[w], l, x)
    BY <1>0, <2>1, <2>2, <2>3, <2>4 DEF Alone
  <2> QED BY <2>1, <2>5, StatementAlone
<1>4. CASE InsertVeto(w)
  <2>1. PICK l, x : /\ Statement(w, "finalize_select", l, x) /\ pc[w] = "insert_veto"
                    /\ req[w].op = "veto" /\ l.target = "vetoed"
                    /\ x.vetoes = {[id |-> req[w].id, dec |-> req[w].dec,
                                    by |-> req[w].user, role |-> read[w].role,
                                    status |-> "active", over |-> None]}
                    /\ AgreeBut("vetoes", x, staged[w])
    BY <1>4, InsertVetoDoes
  <2>2. Alone("finalize_select", req[w], l, x)
    BY <1>0, <2>1 DEF Alone, Checked, Counted, Decides
  <2> QED BY <2>1, <2>2, StatementAlone
<1>5. CASE ReselectVeto(w)
  <2>1. PICK v, s, l : /\ ReadThen(w, s, l) /\ pc[w] = "reselect_veto"
                       /\ s \in {"last_hash", "update_veto"}
                       /\ v \in vetoes /\ v.id = req[w].ref
                       /\ Notes(l, "veto_overridden", v.dec, "commit")
    BY <1>5, ReselectVetoDoes
  <2>2. Alone(s, req[w], l, staged[w])
    BY <1>0, <2>1 DEF Alone, Checked, Counted, Decides
  <2> QED BY <2>1, <2>2, StatementAlone DEF ReadThen
<1>6. CASE UpdateVeto(w)
  <2>1. PICK x : /\ Statement(w, "last_hash", read[w], x) /\ pc[w] = "update_veto"
                 /\ req[w].user \in Users /\ x.override = req[w].user
                 /\ AgreeBut("override", x, staged[w])
    BY <1>6, UpdateVetoDoes
  <2>2. /\ staged[w] = NothingStaged /\ x.votes = {} /\ x.vetoes = {}
        /\ x.assigned = {} /\ x.status = None
    BY <1>0, <2>1 DEF NothingStaged
  <2>3. read[w].then = "commit"
    BY <2>1, SessionTyped DEF Shape, Serving, Fetched
  <2>4. Alone("last_hash", req[w], read[w], x)
    BY <1>0, <2>1, <2>2, <2>3, NoneAssumption
    DEF Alone, Checked, Counted, Decides, DecisionStatus, FinalStatus
  <2> QED BY <2>1, <2>4, StatementAlone
<1>7. CASE InsertAssignment(w)
  <2>1. CASE Rollback(w)
    BY <2>1, RollbackAlone
  <2>2. CASE ~Rollback(w)
    <3>1. PICK l, x : /\ Statement(w, "last_hash", l, x) /\ pc[w] = "insert_assignment"
                      /\ req[w].op = "assign"
                      /\ EntryFree(w, req[w].user, req[w].domain)
                      /\ GetAssignment(req[w].user, req[w].domain) = {}
                      /\ Notes(l, "role_assigned", req[w].id, "commit")
                      /\ x.assigned = {[id |-> req[w].id, user |-> req[w].user,
                                        domain |-> req[w].domain, role |-> req[w].arg]}
                      /\ AgreeBut("assigned", x, staged[w])
      BY <1>7, <2>2, InsertAssignmentDoes
    <3>2. Alone("last_hash", req[w], l, x)
      BY <1>0, <3>1 DEF Alone, Checked, Counted, Decides
    <3> QED BY <3>1, <3>2, StatementAlone
  <2> QED BY <2>1, <2>2
<1>8. CASE ReselectAssignment(w)
  <2>1. PICK s, l : /\ ReadThen(w, s, l) /\ pc[w] = "reselect_assignment"
                    /\ s \in {"last_hash", "delete_assignment"}
                    /\ Notes(l, "role_revoked", req[w].ref, "commit")
                    /\ s = "last_hash" => AssignmentById(req[w].ref) = {}
    BY <1>8, ReselectAssignmentDoes
  <2>2. Alone(s, req[w], l, staged[w])
    BY <1>0, <2>1 DEF Alone, Checked, Counted, Decides
  <2> QED BY <2>1, <2>2, StatementAlone DEF ReadThen
<1>9. CASE DeleteAssignment(w)
  <2>1. PICK x : /\ Statement(w, "last_hash", read[w], x) /\ pc[w] = "delete_assignment"
                 /\ x.revoked = AssignmentById(req[w].ref)
                 /\ AgreeBut("revoked", x, staged[w])
    BY <1>9, DeleteAssignmentDoes
  <2>2. /\ staged[w] = NothingStaged /\ x.votes = {} /\ x.vetoes = {}
        /\ x.assigned = {} /\ x.status = None
    BY <1>0, <2>1 DEF NothingStaged
  <2>3. read[w].then = "commit"
    BY <2>1, SessionTyped DEF Shape, Serving, Fetched
  <2>4. Alone("last_hash", req[w], read[w], x)
    BY <1>0, <2>1, <2>2, <2>3, NoneAssumption
    DEF Alone, Checked, Counted, Decides, DecisionStatus, FinalStatus
  <2> QED BY <2>1, <2>4, StatementAlone
<1>10. CASE ReadLastHash(w)
  <2>1. PICK l : /\ ReadThen(w, "insert_event", l) /\ pc[w] = "last_hash"
                 /\ Notes(l, read[w].event, read[w].entity, read[w].then)
                 /\ l.target = read[w].target
    BY <1>10, ReadLastHashDoes
  <2>2. Alone("insert_event", req[w], l, staged[w])
    BY <1>0, <2>1 DEF Alone, Checked, Counted, Decides
  <2> QED BY <2>1, <2>2, StatementAlone DEF ReadThen
<1>11. CASE InsertEvent(w)
  <2>1. PICK s, l, x, e : /\ s \in {"last_hash", read[w].then}
                          /\ Inserts(w, s, l, x) /\ pc[w] = "insert_event"
                          /\ read[w].then \in {"commit", "finalize_select", "list_required"}
                          /\ Notes(l, read[w].event, read[w].entity, read[w].then)
                          /\ l.target = read[w].target
                          /\ x.events = staged[w].events \cup {e}
                          /\ AgreeBut("events", x, staged[w])
                          /\ e.type = read[w].event /\ e.entity = read[w].entity
    BY <1>11, InsertEventDoes
  <2>2. /\ x.votes = staged[w].votes /\ x.vetoes = staged[w].vetoes
        /\ x.assigned = staged[w].assigned
        /\ x.status = staged[w].status /\ l.then = read[w].then
    BY <2>1
  <2>3. Checked(s, req[w], l, x)
    BY <1>0, <2>1, <2>2 DEF Alone, Checked
  <2>4. Counted(s, req[w], l, x)
    BY <1>0, <2>1, <2>2 DEF Alone, Counted
  <2>5. Decides(s, req[w], l, x)
    BY <1>0, <2>1, <2>2, NoneAssumption DEF Alone, Decides, DecisionStatus, FinalStatus
  <2>6. Alone(s, req[w], l, x)
    BY <1>0, <2>1, <2>2, <2>3, <2>4, <2>5 DEF Alone
  <2> QED BY <2>1, <2>6, StatementAlone DEF Inserts
<1>12. CASE Commit(w)
  BY <1>12, CommitAlone
<1>13. CASE \E s, l : Reads(w, s, l)
  <2>1. PICK s, l : Reads(w, s, l)
    BY <1>13
  <2>2. ASSUME pc[w] \in Unwritten PROVE Alone(s, req[w], l, staged[w])
    <3>1. staged[w] = NothingStaged
      BY <1>0, <2>2
    <3>2. Checked(s, req[w], l, staged[w])
      BY <1>0, <2>1, <2>2, <3>1, NoneAssumption
         DEF Alone, Checked, Reads, Finds, NothingStaged, Legal, DecisionStatus, FinalStatus
    <3>3. Counted(s, req[w], l, staged[w])
      BY <1>0, <2>1, <3>1 DEF Alone, Counted, Reads, Finds, NothingStaged, VisibleVotes
    <3>4. Decides(s, req[w], l, staged[w])
      BY <1>0, <2>1, <2>2, <3>1, NoneAssumption
         DEF Decides, Reads, Finds, NothingStaged, DecisionStatus, FinalStatus
    <3> QED BY <3>2, <3>3, <3>4 DEF Alone
  <2>3. ASSUME pc[w] \notin Unwritten PROVE Alone(s, req[w], l, staged[w])
    <3>1. s \notin Unwritten
      BY <2>1, <2>3 DEF Reads
    <3>2. Checked(s, req[w], l, staged[w])
      BY <1>0, <2>1, <3>1, SessionTyped DEF Alone, Checked, Reads, Finds, Legal, Shape, Fetched
    <3>3. Counted(s, req[w], l, staged[w])
      BY <1>0, <2>1, <3>1 DEF Alone, Counted, Reads, Finds
    <3>4. Decides(s, req[w], l, staged[w])
      BY <1>0, <2>1, <3>1 DEF Alone, Decides, Reads, Finds, Unanimous, Required, VisibleVotes
    <3> QED BY <3>2, <3>3, <3>4 DEF Alone
  <2>4. Alone(s, req[w], l, staged[w])
    BY <2>2, <2>3
  <2> QED BY <2>1, <2>4, StatementAlone DEF Reads, ReadThen
<1> QED BY <1>1, <1>2, <1>3, <1>4, <1>5, <1>6, <1>7, <1>8, <1>9, <1>10, <1>11, <1>12, <1>13,
           RollbackAlone, OthersRead
        DEF Advance, DecisionStep, ApprovalStep, VetoStep, RoleStep

LEMMA ArriveAlone ==
  ASSUME TypeInv, AuditInv, SerialInv, NEW w \in Workers, Workers = {w}, Arrive(w)
  PROVE  SerialInv'
<1>1. PICK r, s : /\ s \in FirstSteps /\ Begin(w, r, s)
                  /\ s = "insert_decision" => decision[r.dec] = "absent"
  BY ArriveDoes
<1>2. staged[w] = NothingStaged
  BY <1>1 DEF Begin, AuditInv, Debts, Unwritten
<1>3. /\ UNCHANGED <<decision, votes, vetoes, raci, audit>>
      /\ pc'[w] = s /\ req'[w] = r /\ read'[w] = read[w] /\ staged'[w] = NothingStaged
  BY <1>1, <1>2 DEF Begin, TypeInv, TypeOK, tables
<1>4. Alone(pc[w], req[w], read[w], staged[w])'
  BY <1>1, <1>3, NoneAssumption DEF Alone, Checked, Counted, Decides, NothingStaged, FirstSteps,
                       RecordingSteps, FinalizingSteps, DecisionStatus, FinalStatus
<1>5. OneVotePerUser' /\ DecisiveRowsDecide' /\ VotesAdmitted' /\ NoApprovedDecisionWaits'
  BY <1>3 DEF SerialInv, OneVotePerUser, DecisiveRowsDecide, VotesAdmitted, Revoked,
              GetAssignment, NoApprovedDecisionWaits, RequiredVoters
<1> QED BY <1>4, <1>5 DEF SerialInv

LEMMA InitAlone == Init => SerialInv
<1> SUFFICES ASSUME Init PROVE SerialInv
  OBVIOUS
<1>1. ASSUME NEW w \in Workers PROVE Alone(pc[w], req[w], read[w], staged[w])
  BY NoneAssumption DEF Init, Alone, Checked, Counted, Decides, NothingStaged, RecordingSteps,
                        FinalizingSteps, DecisionStatus, FinalStatus
<1>2. OneVotePerUser /\ DecisiveRowsDecide /\ VotesAdmitted /\ NoApprovedDecisionWaits
  BY DEF Init, OneVotePerUser, DecisiveRowsDecide, VotesAdmitted, NoApprovedDecisionWaits
<1> QED BY <1>1, <1>2 DEF SerialInv

LEMMA NextAlone ==
  ASSUME NEW w \in Workers, Workers = {w}
  PROVE  TypeInv /\ AuditInv /\ RoleInv /\ SerialInv /\ [Next]_vars => SerialInv'
<1> SUFFICES ASSUME TypeInv, AuditInv, RoleInv, SerialInv, [Next]_vars PROVE SerialInv'
  OBVIOUS
<1>1. CASE Arrive(w)
  BY <1>1, ArriveAlone
<1>2. CASE Advance(w)
  BY <1>2, AdvanceAlone
<1>3. CASE Fail(w)
  BY <1>3, RollbackAlone DEF Fail
<1>4. CASE UNCHANGED vars
  <2>1. UNCHANGED <<decision, votes, vetoes, raci, audit, pc, req, read, staged>>
    BY <1>4 DEF vars, tables, session
  <2>2. Alone(pc[w], req[w], read[w], staged[w])'
    BY <2>1 DEF SerialInv, Alone, Checked, Counted, Decides, Legal, GetAssignment, Unanimous,
                Required, RequiredVoters, Approvers
  <2>3. OneVotePerUser' /\ DecisiveRowsDecide' /\ VotesAdmitted' /\ NoApprovedDecisionWaits'
    BY <2>1 DEF SerialInv, OneVotePerUser, DecisiveRowsDecide, VotesAdmitted, Revoked,
                GetAssignment, NoApprovedDecisionWaits, RequiredVoters
  <2> QED BY <2>2, <2>3 DEF SerialInv
<1> QED BY <1>1, <1>2, <1>3, <1>4 DEF Next, Drained

(* What the one session knows is so in every state. *)
THEOREM Serially ==
  ASSUME NEW w \in Workers, Workers = {w}
  PROVE  Spec => []SerialInv
<1>1. TypeInv /\ AuditInv /\ RoleInv /\ SerialInv /\ [Next]_vars => SerialInv'
  BY NextAlone
<1> QED BY <1>1, InitAlone, Typing, Auditing, Roling, PTL DEF Spec

(* A user votes on a decision once: get_vote saw all the votes there are. *)
THEOREM UsersVoteOnce ==
  ASSUME NEW w \in Workers, Workers = {w}
  PROVE  Spec => []OneVotePerUser
<1>1. SerialInv => OneVotePerUser
  BY DEF SerialInv
<1>2. Spec => []SerialInv
  BY Serially
<1> QED BY <1>1, <1>2, PTL

(* One REJECT decides, and an active veto: no later finalization replaces  *)
(* what they decided (ApprovalService, VetoService, finalize).             *)
THEOREM DecisionsStand ==
  ASSUME NEW w \in Workers, Workers = {w}
  PROVE  Spec => []DecisiveRowsStand
<1>1. SerialInv => DecisiveRowsStand
  BY DEF SerialInv, DecisiveRowsDecide, DecisiveRowsStand
<1>2. Spec => []SerialInv
  BY Serially
<1> QED BY <1>1, <1>2, PTL

(* The vote that completes the approval of a decision finalizes it. *)
THEOREM ApprovalIsPrompt ==
  ASSUME NEW w \in Workers, Workers = {w}
  PROVE  Spec => []NoApprovedDecisionWaits
<1>1. SerialInv => NoApprovedDecisionWaits
  BY DEF SerialInv
<1>2. Spec => []SerialInv
  BY Serially
<1> QED BY <1>1, <1>2, PTL
-----------------------------------------------------------------------------
(* The step of ApprovalIsCurrent. *)
ApprovesTheApproved ==
  \A d \in Decisions :
    decision'[d] = "approved" /\ decision[d] # "approved" =>
      /\ RequiredVoters(DomainOf[d]) # {}
      /\ RequiredVoters(DomainOf[d]) \subseteq Approvers(votes', d)

LEMMA CommitMoves ==
  ASSUME TypeInv, AuditInv, RoleInv, SerialInv, NEW w \in Workers, Commit(w)
  PROVE  [Lifecycle!Next]_decision /\ ApprovesTheApproved
<1> DEFINE d == req[w].dec
           s == staged[w].status
<1>1. Complies(req[w], staged[w])
  BY CommitComplies
<1>2. [Lifecycle!Next]_decision
  <2>1. CASE s = None
    BY <2>1 DEF Commit
  <2>2. CASE s # None
    <3>1. d \in Decisions
      BY <2>2, SessionTyped DEF Shape, Complete, Writes
    <3>2. Legal(decision[d], s) /\ decision' = [decision EXCEPT ![d] = s]
      BY <1>1, <2>2 DEF Commit, Complies
    <3>3. Lifecycle!Create(d) \/ Lifecycle!Submit(d) \/ Lifecycle!Finalize(d)
      BY <3>2 DEF Legal, FinalStatus, Lifecycle!FinalStatus, Lifecycle!Create,
                  Lifecycle!Submit, Lifecycle!Finalize, Lifecycle!Move
    <3> QED BY <3>1, <3>3 DEF Lifecycle!Next
  <2> QED BY <2>1, <2>2
<1>3. ASSUME NEW e \in Decisions, decision'[e] = "approved", decision[e] # "approved"
      PROVE  /\ RequiredVoters(DomainOf[e]) # {}
             /\ RequiredVoters(DomainOf[e]) \subseteq Approvers(votes', e)
  <2>1. e = d /\ s = "approved"
    BY <1>1, <1>3, CommitDecides
  <2>2. votes' = votes \cup staged[w].votes
    BY DEF Commit
  <2> QED BY <1>1, <2>1, <2>2 DEF Complies, Unanimous, Required
<1> QED BY <1>2, <1>3 DEF ApprovesTheApproved

(* Only a commit writes the tables. *)
LEMMA CommitsWrite ==
  ASSUME TypeInv, NEW w \in Workers, Advance(w), ~Commit(w)
  PROVE  UNCHANGED tables
<1> USE DEF Statement
<1>1. CASE DecisionStep(w)
  BY <1>1 DEF DecisionStep, InsertDecision, SubmitSelect, FinalizeSelect, ReselectDecision,
              UpdateDecision, ReadThen, Rollback
<1>2. CASE ApprovalStep(w)
  BY <1>2 DEF ApprovalStep, VoteSelectDecision, VoteSelectAssignment, VoteSelectVote,
              InsertVote, ListRequired, ListApprovals, ReadThen, Rollback
<1>3. CASE VetoStep(w)
  BY <1>3 DEF VetoStep, VetoSelectDecision, VetoSelectAssignment, InsertVeto,
              OverrideSelectVeto, OverrideSelectAssignment, ReselectVeto, UpdateVeto,
              ReadThen, Rollback
<1>4. CASE RoleStep(w)
  BY <1>4 DEF RoleStep, AssignSelect, InsertAssignment, RevokeSelect, ReselectAssignment,
              DeleteAssignment, ReadThen, Rollback
<1>5. CASE ReadLastHash(w) \/ InsertEvent(w)
  BY <1>5 DEF ReadLastHash, InsertEvent, ReadThen
<1> QED BY <1>1, <1>2, <1>3, <1>4, <1>5 DEF Advance

LEMMA NextMoves ==
  TypeInv /\ AuditInv /\ RoleInv /\ SerialInv /\ [Next]_vars =>
    [Lifecycle!Next]_decision /\ ApprovesTheApproved
<1> SUFFICES ASSUME TypeInv, AuditInv, RoleInv, SerialInv, [Next]_vars
             PROVE  [Lifecycle!Next]_decision /\ ApprovesTheApproved
  OBVIOUS
<1>1. CASE \E w \in Workers : Commit(w)
  BY <1>1, CommitMoves
<1>2. CASE ~\E w \in Workers : Commit(w)
  <2>1. UNCHANGED tables
    <3>1. ASSUME NEW w \in Workers, Arrive(w) PROVE UNCHANGED tables
      BY <3>1, ArriveDoes DEF Begin
    <3>2. ASSUME NEW w \in Workers, Advance(w) PROVE UNCHANGED tables
      BY <1>2, <3>2, CommitsWrite
    <3>3. ASSUME NEW w \in Workers, Fail(w) PROVE UNCHANGED tables
      BY <3>3 DEF Fail, Rollback
    <3> QED BY <3>1, <3>2, <3>3 DEF Next, Drained, vars
  <2> QED BY <2>1 DEF tables, ApprovesTheApproved
<1> QED BY <1>1, <1>2

(* Served one after the other, requests take every decision through the    *)
(* life cycle DecisionService documents: the engine implements             *)
(* DecisionLifecycle.                                                      *)
THEOREM LifecycleImplemented ==
  ASSUME NEW w \in Workers, Workers = {w}
  PROVE  Spec => LifecycleSpec
<1>1. Init => Lifecycle!Init
  BY DEF Init, Lifecycle!Init
<1>2. TypeInv /\ AuditInv /\ RoleInv /\ SerialInv /\ [Next]_vars => [Lifecycle!Next]_decision
  BY NextMoves
<1>3. Spec => []SerialInv
  BY Serially
<1> QED BY <1>1, <1>2, <1>3, Typing, Auditing, Roling, PTL
    DEF Spec, LifecycleSpec, Lifecycle!Spec

(* A decision is shown as APPROVED by a step that finds everyone's         *)
(* approval who is required at that moment.                                *)
THEOREM ApprovalStaysCurrent ==
  ASSUME NEW w \in Workers, Workers = {w}
  PROVE  Spec => ApprovalIsCurrent
<1>1. TypeInv /\ AuditInv /\ RoleInv /\ SerialInv /\ [Next]_vars => [ApprovesTheApproved]_vars
  BY NextMoves
<1>2. Spec => []SerialInv
  BY Serially
<1>3. Spec => [][ApprovesTheApproved]_vars
  BY <1>1, <1>2, Typing, Auditing, Roling, PTL DEF Spec
<1> QED BY <1>3 DEF ApprovalIsCurrent, ApprovesTheApproved
-----------------------------------------------------------------------------
(* What the transaction of w sees: its events and the committed ones. *)
Linked(w) ==
  /\ VerifyChain(audit)
  /\ VerifyChain(VisibleEvents(w))
  /\ \A e \in VisibleEvents(w) : e.at =< clock
  /\ pc[w] = "insert_event" => read[w].last = LastHash(VisibleEvents(w))
  /\ IsFiniteSet(VisibleEvents(w))

ChainInv == \A w \in Workers : Linked(w)
-----------------------------------------------------------------------------
(* verify_chain looks only backwards in time: a newer event that names the *)
(* last one extends a chain.                                               *)
LEMMA ChainExtends ==
  ASSUME NEW rows, NEW e, VerifyChain(rows), \A f \in rows : f.at \in Nat /\ f.at < e.at,
         e.at \in Nat, e.prev = LastHash(rows)
  PROVE  VerifyChain(rows \cup {e})
<1> DEFINE all == rows \cup {e}
<1>1. {f \in all : f.at < e.at} = rows
  OBVIOUS
<1>2. ASSUME NEW f \in rows
      PROVE  {g \in all : g.at < f.at} = {g \in rows : g.at < f.at}
  OBVIOUS
<1> QED BY <1>1, <1>2 DEF VerifyChain

(* The oldest events of a chain, however many get_chain reads, are a chain. *)
LEMMA ChainPrefix ==
  ASSUME NEW rows, IsFiniteSet(rows), \A e \in rows : e.at \in Nat,
         VerifyChain(rows), NEW limit \in Nat
  PROVE  VerifyIntegrity(rows, limit)
<1> DEFINE Older(e) == {f \in rows : f.at < e.at}
           first == GetChain(rows, limit)
<1>1. first = {e \in rows : Cardinality(Older(e)) < limit}
  BY DEF GetChain
<1>2. ASSUME NEW e \in first, NEW f \in Older(e) PROVE f \in first
  <2>1. Older(f) \subseteq Older(e)
    BY <1>1
  <2>2. IsFiniteSet(Older(e))
    BY FS_Subset
  <2>3. Cardinality(Older(f)) =< Cardinality(Older(e))
    BY <2>1, <2>2, FS_Subset
  <2>4. Cardinality(Older(f)) \in Nat /\ Cardinality(Older(e)) \in Nat
    BY <2>1, <2>2, FS_Subset, FS_CardinalityType
  <2> QED BY <1>1, <2>3, <2>4
<1>3. ASSUME NEW e \in first PROVE e.prev = LastHash({f \in first : f.at < e.at})
  <2>1. e \in rows /\ first \subseteq rows
    BY <1>1
  <2>2. {f \in first : f.at < e.at} = Older(e)
    BY <1>2, <2>1
  <2> QED BY <2>1, <2>2 DEF VerifyChain
<1> QED BY <1>3 DEF VerifyIntegrity, VerifyChain
-----------------------------------------------------------------------------
(* A statement that records nothing keeps the chain, unless it goes to     *)
(* insert an event.                                                        *)
LEMMA StatementLinked ==
  ASSUME TypeInv, ChainInv, NEW w, Workers = {w}, NEW s, NEW l, NEW x,
         Statement(w, s, l, x), x.events = staged[w].events,
         s = "insert_event" => l.last = LastHash(VisibleEvents(w))
  PROVE  ChainInv'
<1>0. w \in Workers
  OBVIOUS
<1>1. /\ audit' = audit /\ clock' = clock
      /\ pc'[w] = s /\ read'[w] = l /\ staged'[w] = x
  BY <1>0 DEF Statement, TypeInv, TypeOK, tables, counters
<1>2. VisibleEvents(w)' = VisibleEvents(w)
  BY <1>1 DEF VisibleEvents
<1>3. Linked(w)
  BY DEF ChainInv
<1>4. Linked(w)'
  BY <1>1, <1>2, <1>3 DEF Linked
<1> QED BY <1>4 DEF ChainInv, Statement

(* A session that ends leaves the committed events, or all it saw. *)
LEMMA EndLinked ==
  ASSUME TypeInv, NEW w, Workers = {w}, EndSession(w),
         VerifyChain(audit'), \A e \in audit' : e.at =< clock, IsFiniteSet(audit')
  PROVE  ChainInv'
<1>0. w \in Workers
  OBVIOUS
<1>1. staged'[w].events = {} /\ pc'[w] = "idle" /\ clock' = clock
  BY <1>0 DEF EndSession, TypeInv, TypeOK, NothingStaged, counters
<1>2. VisibleEvents(w)' = audit'
  BY <1>1 DEF VisibleEvents
<1>3. Linked(w)'
  BY <1>1, <1>2 DEF Linked
<1> QED BY <1>3 DEF ChainInv

LEMMA RollbackLinked ==
  ASSUME TypeInv, ChainInv, NEW w, Workers = {w}, Rollback(w)
  PROVE  ChainInv'
<1>1. Linked(w) /\ audit \subseteq VisibleEvents(w)
  BY DEF ChainInv, VisibleEvents
<1>2. audit' = audit
  BY DEF Rollback, tables
<1>3. IsFiniteSet(audit)
  BY <1>1, FS_Subset DEF Linked
<1>4. VerifyChain(audit') /\ (\A e \in audit' : e.at =< clock) /\ IsFiniteSet(audit')
  BY <1>1, <1>2, <1>3 DEF Linked
<1> QED BY <1>4, EndLinked DEF Rollback

LEMMA CommitLinked ==
  ASSUME TypeInv, ChainInv, NEW w, Workers = {w}, Commit(w)
  PROVE  ChainInv'
<1>1. Linked(w) /\ audit' = VisibleEvents(w)
  BY DEF ChainInv, Commit, VisibleEvents
<1>2. VerifyChain(audit') /\ (\A e \in audit' : e.at =< clock) /\ IsFiniteSet(audit')
  BY <1>1 DEF Linked
<1> QED BY <1>2, EndLinked DEF Commit
-----------------------------------------------------------------------------
(* The two statements of record_event. *)
LEMMA ReadLastHashLinked ==
  ASSUME TypeInv, ChainInv, NEW w, Workers = {w}, ReadLastHash(w)
  PROVE  ChainInv'
<1> DEFINE l == [read[w] EXCEPT !.last = LastHash(VisibleEvents(w))]
<1>1. l.last = LastHash(VisibleEvents(w))
  BY DEF TypeInv, TypeOK, Local
<1>2. Statement(w, "insert_event", l, staged[w])
  BY DEF ReadLastHash, ReadThen
<1> HIDE DEF l
<1> QED BY <1>1, <1>2, StatementLinked

LEMMA InsertEventLinked ==
  ASSUME TypeInv, ChainInv, NEW w, Workers = {w}, InsertEvent(w)
  PROVE  ChainInv'
<1>0. w \in Workers /\ Linked(w) /\ pc[w] = "insert_event" /\ staged[w] \in Staged
  BY DEF ChainInv, InsertEvent, TypeInv, TypeOK
<1> DEFINE e == [type |-> read[w].event, entity |-> read[w].entity,
                 actor |-> EventActor(w), at |-> clock + 1, prev |-> read[w].last]
           rows == VisibleEvents(w)
<1>1. e.at = clock + 1 /\ e.prev = LastHash(rows) /\ clock \in Nat
  BY <1>0 DEF Linked, TypeInv, TypeOK
<1>2. staged'[w].events = staged[w].events \cup {e}
  <2>1. staged'[w] = [staged[w] EXCEPT !.events = @ \cup {e}]
    BY <1>0 DEF InsertEvent, TypeInv, TypeOK
  <2> HIDE DEF e
  <2> QED BY <1>0, <2>1 DEF Staged
<1>3. audit' = audit /\ clock' = clock + 1 /\ pc'[w] # "insert_event"
  <2>1. read[w].then \in {"commit", "finalize_select", "list_required"}
    BY <1>0 DEF TypeInv, Shape, Fetched
  <2> QED BY <1>0, <2>1 DEF InsertEvent, TypeInv, TypeOK, tables
<1>4. \A f \in rows : f.at \in Nat /\ f.at =< clock
  BY <1>0 DEF Linked, VisibleEvents, TypeInv, TypeOK, Staged, Event
<1> HIDE DEF e
<1>5. VisibleEvents(w)' = rows \cup {e}
  BY <1>2, <1>3 DEF VisibleEvents
<1> HIDE DEF rows
<1>6. VerifyChain(rows) /\ IsFiniteSet(rows) /\ VerifyChain(audit)
  BY <1>0 DEF Linked, rows
<1>7. VerifyChain(rows \cup {e})
  <2>1. \A f \in rows : f.at \in Nat /\ f.at < e.at
    BY <1>1, <1>4
  <2> QED BY <1>1, <1>6, <2>1, ChainExtends
<1>8. IsFiniteSet(rows \cup {e})
  BY <1>6, FS_AddElement
<1>9. \A f \in rows \cup {e} : f.at =< clock'
  BY <1>1, <1>3, <1>4
<1>10. Linked(w)'
  BY <1>3, <1>5, <1>6, <1>7, <1>8, <1>9 DEF Linked
<1> QED BY <1>10 DEF ChainInv, InsertEvent
-----------------------------------------------------------------------------
LEMMA AdvanceLinked ==
  ASSUME TypeInv, ChainInv, NEW w, Workers = {w}, Advance(w)
  PROVE  ChainInv'
<1>0. w \in Workers
  OBVIOUS
<1> DEFINE Quiet == \E s, l, x : /\ Statement(w, s, l, x) /\ s # "insert_event"
                                /\ x.events = staged[w].events
<1>1. Quiet => ChainInv'
  BY StatementLinked
<1>2. CASE InsertDecision(w)
  BY <1>0, <1>1, <1>2, InsertDecisionDoes DEF AgreeBut
<1>3. CASE UpdateDecision(w)
  BY <1>0, <1>1, <1>3, UpdateDecisionDoes DEF AgreeBut
<1>4. CASE InsertVote(w)
  BY <1>0, <1>1, <1>4, InsertVoteDoes DEF AgreeBut
<1>5. CASE InsertVeto(w)
  BY <1>0, <1>1, <1>5, InsertVetoDoes DEF AgreeBut
<1>6. CASE ReselectVeto(w)
  BY <1>0, <1>1, <1>6, ReselectVetoDoes DEF ReadThen
<1>7. CASE UpdateVeto(w)
  BY <1>0, <1>1, <1>7, UpdateVetoDoes DEF AgreeBut
<1>8. CASE InsertAssignment(w)
  BY <1>0, <1>1, <1>8, InsertAssignmentDoes, RollbackLinked DEF AgreeBut
<1>9. CASE ReselectAssignment(w)
  BY <1>0, <1>1, <1>9, ReselectAssignmentDoes DEF ReadThen
<1>10. CASE DeleteAssignment(w)
  BY <1>0, <1>1, <1>10, DeleteAssignmentDoes DEF AgreeBut
<1>11. CASE \E s, l : Reads(w, s, l)
  BY <1>1, <1>11 DEF Reads, ReadThen, Recorders, RecordingSteps
<1> QED BY <1>0, <1>2, <1>3, <1>4, <1>5, <1>6, <1>7, <1>8, <1>9, <1>10, <1>11, OthersRead,
           RollbackLinked, ReadLastHashLinked, InsertEventLinked, CommitLinked
        DEF Advance, DecisionStep, ApprovalStep, VetoStep, RoleStep

LEMMA ArriveLinked ==
  ASSUME TypeInv, ChainInv, NEW w, Workers = {w}, Arrive(w)
  PROVE  ChainInv'
<1>1. w \in Workers
  OBVIOUS
<1>2. PICK r, s : Begin(w, r, s) /\ s # "insert_event"
  BY <1>1, ArriveDoes DEF FirstSteps
<1>3. /\ pc'[w] = s
      /\ UNCHANGED <<audit, clock, staged, read>>
  BY <1>2, <1>1 DEF Begin, TypeInv, TypeOK, tables
<1>4. VisibleEvents(w)' = VisibleEvents(w)
  BY <1>3 DEF VisibleEvents
<1>5. Linked(w)'
  BY <1>2, <1>1, <1>3, <1>4 DEF ChainInv, Linked
<1> QED BY <1>2, <1>5 DEF ChainInv, Begin

(* The seeded roles' events are a chain: the i-th was recorded i-th. *)
LEMMA SeedLinked == VerifyChain(SeedEvents) /\ IsFiniteSet(SeedEvents)
<1> DEFINE n == Len(Seed)
           e(i) == [type |-> "role_assigned", entity |-> i, actor |-> "client",
                    at |-> i, prev |-> i - 1]
           f == [i \in 1..n |-> e(i)]
<1>1. n \in Nat
  BY SeedAssumption
<1>2. SeedEvents = {e(i) : i \in 1..n}
  BY DEF SeedEvents
<1>3. IsFiniteSet(SeedEvents)
  <2>1. f \in Surjection(1..n, SeedEvents)
    BY <1>2 DEF Surjection
  <2>2. IsFiniteSet(1..n)
    BY <1>1, FS_Interval
  <2> QED BY <2>1, <2>2, FS_Surjection DEF ExistsSurjection
<1>4. ASSUME NEW i \in 1..n
      PROVE  i - 1 = LastHash({g \in SeedEvents : g.at < i})
  <2> DEFINE older == {g \in SeedEvents : g.at < i}
  <2>1. \A g \in older : g.at \in 1..(i - 1)
    BY <1>1, <1>2
  <2>2. CASE i = 1
    <3>1. older = {}
      BY <2>1, <2>2
    <3> QED BY <2>2, <3>1 DEF LastHash, GENESIS_HASH
  <2>3. CASE i # 1
    <3>1. i - 1 \in 1..n /\ i - 1 < i
      BY <1>1, <2>3
    <3>2. e(i - 1) \in SeedEvents /\ e(i - 1).at = i - 1
      BY <1>2, <3>1
    <3>3. e(i - 1) \in older
      BY <3>1, <3>2
    <3> HIDE DEF older, e
    <3>4. \A g \in older : g.at =< i - 1
      BY <1>1, <2>1
    <3>5. \E g \in older : \A h \in older : h.at =< g.at
      BY <3>2, <3>3, <3>4
    <3>6. \A g \in older : (\A h \in older : h.at =< g.at) => g.at = i - 1
      BY <1>1, <2>1, <3>2, <3>3, <3>4
    <3>7. LastHash(older) = (CHOOSE g \in older : \A h \in older : h.at =< g.at).at
      BY <3>5 DEF LastHash
    <3>8. PICK g \in older : /\ \A h \in older : h.at =< g.at
                            /\ g = CHOOSE k \in older : \A h \in older : h.at =< k.at
      BY <3>5
    <3> QED BY <3>6, <3>7, <3>8 DEF older
  <2> QED BY <2>2, <2>3
<1>5. VerifyChain(SeedEvents)
  <2> SUFFICES ASSUME NEW g \in SeedEvents
               PROVE  g.prev = LastHash({h \in SeedEvents : h.at < g.at})
    BY DEF VerifyChain
  <2>1. PICK i \in 1..n : g.at = i /\ g.prev = i - 1
    BY <1>2
  <2> QED BY <1>4, <2>1
<1> QED BY <1>3, <1>5

LEMMA InitLinked == Init => ChainInv
<1> SUFFICES ASSUME Init, NEW w \in Workers PROVE Linked(w)
  BY DEF ChainInv
<1>1. VisibleEvents(w) = SeedEvents /\ audit = SeedEvents /\ pc[w] = "idle"
  BY DEF Init, VisibleEvents, NothingStaged
<1>2. \A e \in SeedEvents : e.at =< clock
  BY SeedAssumption DEF Init, SeedEvents
<1> QED BY <1>1, <1>2, SeedLinked DEF Linked

LEMMA NextLinked ==
  ASSUME NEW w, Workers = {w}
  PROVE  TypeInv /\ ChainInv /\ [Next]_vars => ChainInv'
<1> SUFFICES ASSUME TypeInv, ChainInv, [Next]_vars PROVE ChainInv'
  OBVIOUS
<1>1. CASE Arrive(w)
  BY <1>1, ArriveLinked
<1>2. CASE Advance(w)
  BY <1>2, AdvanceLinked
<1>3. CASE Fail(w)
  BY <1>3, RollbackLinked DEF Fail
<1>4. CASE UNCHANGED vars
  BY <1>4 DEF vars, tables, session, counters, ChainInv, Linked, VisibleEvents
<1> QED BY <1>1, <1>2, <1>3, <1>4 DEF Next, Drained

(* Served one after the other, requests leave a trail for which            *)
(* verify_integrity answers True at any moment, with any limit.            *)
THEOREM ChainAlwaysVerifies ==
  ASSUME NEW w, Workers = {w}
  PROVE  Spec => [](\A limit \in Nat : VerifyIntegrity(audit, limit))
<1> DEFINE Verifies == \A limit \in Nat : VerifyIntegrity(audit, limit)
<1>1. TypeInv /\ ChainInv => Verifies
  <2> SUFFICES ASSUME TypeInv, ChainInv PROVE Verifies
    OBVIOUS
  <2>1. w \in Workers /\ audit \subseteq VisibleEvents(w)
    BY DEF VisibleEvents
  <2>2. VerifyChain(audit) /\ IsFiniteSet(audit)
    BY <2>1, FS_Subset DEF ChainInv, Linked
  <2>3. \A e \in audit : e.at \in Nat
    BY DEF TypeInv, TypeOK, Event
  <2> QED BY <2>2, <2>3, ChainPrefix
<1>2. TypeInv /\ ChainInv /\ [Next]_vars => ChainInv'
  BY NextLinked
<1> HIDE DEF Verifies
<1>3. Spec => []Verifies
  BY <1>1, <1>2, InitLinked, Typing, PTL DEF Spec
<1> QED BY <1>3 DEF Verifies

(* The instance of it that the route asks for. *)
THEOREM ChainIsVerifiable ==
  ASSUME NEW w, Workers = {w}
  PROVE  Spec => []ChainVerifies
<1>1. (\A limit \in Nat : VerifyIntegrity(audit, limit)) => ChainVerifies
  BY DEF ChainVerifies, ChainLimit
<1> QED BY <1>1, ChainAlwaysVerifies, PTL
=============================================================================
