---------------------- MODULE GovernanceEngineAuthority ---------------------
(***************************************************************************)
(* Who may do what, however requests interleave: a decision is finalized   *)
(* as APPROVED only with the approval of everyone who has had to approve   *)
(* it all along, a role is held once and as the trail says, and a veto     *)
(* falls only to someone who outranks the role it was exercised in.        *)
(*                                                                         *)
(* The required voters and the votes are read by two statements, and the   *)
(* decision is approved by later ones; the overrider's role is read by one *)
(* statement and the veto overridden by a later one.  What makes this safe *)
(* are two monotonicities: committed votes never go away, and an           *)
(* assignment seeded before the behaviour, once revoked, never comes back  *)
(* (a new assignment is a new row).  So what was sufficient when it was    *)
(* read still is.                                                          *)
(***************************************************************************)
EXTENDS GovernanceEngineAudit

(* Seeded assignments only go. *)
LEMMA SeedRowsGo ==
  ASSUME TypeInv, IdInv, NEW w \in Workers, Commit(w)
  PROVE  raci' \cap SeedRows \subseteq raci
<1>1. Len(Seed) \in Nat
  BY SeedAssumption
<1>2. \A a \in SeedRows : a.id \in 1..Len(Seed)
  BY DEF SeedRows
<1>3. \A a \in staged[w].assigned : a.id > Len(Seed)
  BY DEF IdInv, Owns, Commit, TypeInv, TypeOK, Request
<1> QED BY <1>1, <1>2, <1>3 DEF Commit
-----------------------------------------------------------------------------
(***************************************************************************)
(* Approval.                                                               *)
(***************************************************************************)

(* Everyone who is required, and has been from the start, approves of d in *)
(* these votes.                                                            *)
Consent(d, rows) ==
  \A a \in raci \cap SeedRows :
    a.domain = DomainOf[d] /\ a.role \in REQUIRED_APPROVAL_ROLES =>
      a.user \in Approvers(rows, d)

(* What a session knows about consent. *)
Consents(p, r, l, x) ==
  /\ p = "list_approvals" =>
       \A a \in raci \cap SeedRows :
         a.domain = DomainOf[r.dec] /\ a.role \in REQUIRED_APPROVAL_ROLES =>
           a.user \in l.required
  /\ p \in FinalizingSteps /\ l.target = "approved" => Consent(r.dec, votes \cup x.votes)
  /\ p \in Recorders /\ l.event = "decision_approved" =>
       Consent(l.entity, votes \cup x.votes)
  /\ p \in Recorders /\ l.then = "finalize_select" => l.target # "approved"
  /\ \A e \in x.events :
       e.type = "decision_approved" => Consent(e.entity, votes \cup x.votes)

ConsentInv ==
  /\ \A w \in Workers : Consents(pc[w], req[w], read[w], staged[w])
  /\ ApprovedUnanimously
-----------------------------------------------------------------------------
LEMMA StatementConsented ==
  ASSUME TypeInv, ConsentInv, NEW w \in Workers, NEW s, NEW l, NEW x,
         /\ pc' = [pc EXCEPT ![w] = s]
         /\ read' = [read EXCEPT ![w] = l]
         /\ staged' = [staged EXCEPT ![w] = x]
         /\ UNCHANGED <<tables, req>>,
         Consents(s, req[w], l, x)
  PROVE  ConsentInv'
<1>1. ASSUME NEW v \in Workers PROVE Consents(pc[v], req[v], read[v], staged[v])'
  <2>1. CASE v = w
    BY <2>1 DEF TypeInv, TypeOK, tables, Consents, Consent
  <2>2. CASE v # w
    BY <2>2 DEF ConsentInv, TypeInv, TypeOK, tables, Consents, Consent
  <2> QED BY <2>1, <2>2
<1>2. ApprovedUnanimously'
  BY DEF ConsentInv, tables, ApprovedUnanimously
<1> QED BY <1>1, <1>2 DEF ConsentInv

(* Consent is never lost. *)
LEMMA ConsentStays ==
  ASSUME votes \subseteq votes', raci' \cap SeedRows \subseteq raci, NEW d, NEW rows,
         Consent(d, votes \cup rows)
  PROVE  Consent(d, votes \cup rows)'
BY DEF Consent, Approvers, SeedRows

LEMMA EndConsented ==
  ASSUME TypeInv, ConsentInv, NEW w \in Workers, EndSession(w),
         votes \subseteq votes', raci' \cap SeedRows \subseteq raci, ApprovedUnanimously'
  PROVE  ConsentInv'
<1>1. ASSUME NEW v \in Workers PROVE Consents(pc[v], req[v], read[v], staged[v])'
  <2>1. CASE v = w
    BY <2>1 DEF TypeInv, TypeOK, EndSession, Consents, NothingStaged, NothingRead,
                FinalizingSteps, RecordingSteps, Recorders
  <2>2. CASE v # w
    <3>1. /\ pc'[v] = pc[v] /\ req'[v] = req[v]
          /\ read'[v] = read[v] /\ staged'[v] = staged[v]
      BY <2>2 DEF EndSession, TypeInv, TypeOK
    <3>2. Consents(pc[v], req[v], read[v], staged[v])
      BY DEF ConsentInv
    <3>3. SeedRows' = SeedRows
      BY DEF SeedRows
    <3> QED BY <3>1, <3>2, <3>3, ConsentStays DEF Consents
  <2> QED BY <2>1, <2>2
<1> QED BY <1>1 DEF ConsentInv

LEMMA RollbackConsented ==
  ASSUME TypeInv, ConsentInv, NEW w \in Workers, Rollback(w)
  PROVE  ConsentInv'
<1>1. votes \subseteq votes' /\ raci' \cap SeedRows \subseteq raci /\ ApprovedUnanimously'
  BY DEF ConsentInv, Rollback, tables, ApprovedUnanimously
<1> QED BY <1>1, EndConsented DEF Rollback

LEMMA CommitConsented ==
  ASSUME TypeInv, IdInv, ConsentInv, NEW w \in Workers, Commit(w)
  PROVE  ConsentInv'
<1>1. Consents("commit", req[w], read[w], staged[w])
  BY DEF ConsentInv, Commit
<1>2. votes \subseteq votes' /\ votes' = votes \cup staged[w].votes
  BY DEF Commit
<1>3. raci' \cap SeedRows \subseteq raci
  BY SeedRowsGo
<1>4. ASSUME NEW e \in audit', e.type = "decision_approved" PROVE Consent(e.entity, votes)'
  <2>1. CASE e \in audit
    <3>1. Consent(e.entity, votes \cup {})
      BY <1>4, <2>1 DEF ConsentInv, ApprovedUnanimously, Consent
    <3>2. Consent(e.entity, votes \cup {})'
      BY <1>2, <1>3, <3>1, ConsentStays
    <3> QED BY <3>2 DEF Consent
  <2>2. CASE e \in staged[w].events
    <3>1. Consent(e.entity, votes \cup staged[w].votes)
      BY <1>1, <1>4, <2>2 DEF Consents
    <3> QED BY <1>2, <1>3, <3>1 DEF Consent, SeedRows
  <2> QED BY <2>1, <2>2 DEF Commit
<1>5. ApprovedUnanimously'
  BY <1>4 DEF ApprovedUnanimously, Consent
<1> QED BY <1>2, <1>3, <1>5, EndConsented DEF Commit

(* A statement that only reads learns of consent where it lists the        *)
(* required voters, and where it finds their approvals.                    *)
LEMMA ReadsConsented ==
  ASSUME TypeInv, ConsentInv, NEW w \in Workers, NEW s, NEW l, Reads(w, s, l)
  PROVE  ConsentInv'
<1> USE DEF FinalizingSteps, RecordingSteps, Recorders
<1>0. Consents(pc[w], req[w], read[w], staged[w])
  BY DEF ConsentInv
<1>1. CASE s = "list_approvals"
  <2>1. \A a \in raci : a.domain = DomainOf[req[w].dec] /\ a.role \in REQUIRED_APPROVAL_ROLES
                          => a.user \in l.required
    BY <1>1 DEF Reads, Finds, RequiredVoters
  <2>2. Consents(s, req[w], l, staged[w])
    BY <1>0, <1>1, <2>1 DEF Consents
  <2> QED BY <2>2, StatementConsented DEF Reads, ReadThen, Statement
<1>2. CASE pc[w] = "list_approvals"
  <2>1. s \in FinalizingSteps => Consent(req[w].dec, votes \cup staged[w].votes)
    BY <1>0, <1>2 DEF Reads, Finds, Consents, Consent, VisibleVotes
  <2>2. Consents(s, req[w], l, staged[w])
    BY <1>0, <1>2, <2>1 DEF Reads, Finds, Consents
  <2> QED BY <2>2, StatementConsented DEF Reads, ReadThen, Statement
<1>3. CASE s # "list_approvals" /\ pc[w] # "list_approvals"
  <2>1. Consents(s, req[w], l, staged[w])
    BY <1>0, <1>3 DEF Reads, Finds, Consents
  <2> QED BY <2>1, StatementConsented DEF Reads, ReadThen, Statement
<1> QED BY <1>1, <1>2, <1>3

(* Any other statement carries what is known of consent along.             *)
LEMMA AdvanceConsented ==
  ASSUME TypeInv, AuditInv, IdInv, ConsentInv, NEW w \in Workers, Advance(w)
  PROVE  ConsentInv'
<1> USE DEF Notes, AgreeBut, RecordingSteps, FinalizingSteps, Recorders, Unwritten, FirstSteps,
           Statement
<1>0. /\ Consents(pc[w], req[w], read[w], staged[w])
      /\ pc[w] \in Unwritten => staged[w] = NothingStaged
  BY DEF ConsentInv, AuditInv, Debts
<1>1. CASE InsertDecision(w)
  <2>1. PICK l, x : /\ Statement(w, "last_hash", l, x) /\ pc[w] = "insert_decision"
                    /\ Notes(l, "decision_created", req[w].dec, "commit")
                    /\ AgreeBut("status", x, staged[w])
    BY <1>1, InsertDecisionDoes
  <2>2. Consents("last_hash", req[w], l, x)
    BY <1>0, <2>1 DEF Consents, Consent
  <2> QED BY <2>1, <2>2, StatementConsented
<1>2. CASE UpdateDecision(w)
  <2>1. PICK l, x : /\ Statement(w, "last_hash", l, x) /\ pc[w] = "update_decision"
                    /\ Notes(l, EventOf(read[w].target), req[w].dec, "commit")
                    /\ read[w].target \in FinalStatus \cup {"awaiting_approval"}
                    /\ AgreeBut("status", x, staged[w])
    BY <1>2, UpdateDecisionDoes
  <2>2. Consents("last_hash", req[w], l, x)
    BY <1>0, <2>1 DEF Consents, Consent, EventOf, FinalStatus
  <2> QED BY <2>1, <2>2, StatementConsented
<1>3. CASE InsertVote(w)
  <2>1. PICK l, x : /\ Statement(w, "last_hash", l, x) /\ pc[w] = "insert_vote"
                    /\ req[w].op = "vote" /\ req[w].arg \in VoteValue
                    /\ Notes(l, "approval_cast", req[w].dec, AfterVote(req[w].arg))
                    /\ l.target = IF req[w].arg = "reject" THEN "rejected"
                                  ELSE read[w].target
                    /\ AgreeBut("votes", x, staged[w])
    BY <1>3, InsertVoteDoes
  <2>2. Consents("last_hash", req[w], l, x)
    BY <1>0, <2>1 DEF Consents, Consent, AfterVote, VoteValue, NothingStaged
  <2> QED BY <2>1, <2>2, StatementConsented
<1>4. CASE InsertVeto(w)
  <2>1. PICK l, x : /\ Statement(w, "finalize_select", l, x) /\ pc[w] = "insert_veto"
                    /\ req[w].op = "veto" /\ l.target = "vetoed"
                    /\ AgreeBut("vetoes", x, staged[w])
    BY <1>4, InsertVetoDoes
  <2>2. Consents("finalize_select", req[w], l, x)
    BY <1>0, <2>1 DEF Consents, Consent
  <2> QED BY <2>1, <2>2, StatementConsented
<1>5. CASE ReselectVeto(w)
  <2>1. PICK v, s, l : /\ ReadThen(w, s, l) /\ pc[w] = "reselect_veto"
                       /\ s \in {"last_hash", "update_veto"}
                       /\ Notes(l, "veto_overridden", v.dec, "commit")
    BY <1>5, ReselectVetoDoes
  <2>2. Consents(s, req[w], l, staged[w])
    BY <1>0, <2>1 DEF Consents, Consent
  <2> QED BY <2>1, <2>2, StatementConsented DEF ReadThen
<1>6. CASE UpdateVeto(w)
  <2>1. PICK x : /\ Statement(w, "last_hash", read[w], x) /\ pc[w] = "update_veto"
                 /\ AgreeBut("override", x, staged[w])
    BY <1>6, UpdateVetoDoes
  <2>2. Consents("last_hash", req[w], read[w], x)
    BY <1>0, <2>1 DEF Consents, Consent
  <2> QED BY <2>1, <2>2, StatementConsented
<1>7. CASE InsertAssignment(w)
  <2>1. CASE Rollback(w)
    BY <2>1, RollbackConsented
  <2>2. CASE ~Rollback(w)
    <3>1. PICK l, x : /\ Statement(w, "last_hash", l, x) /\ pc[w] = "insert_assignment"
                      /\ Notes(l, "role_assigned", req[w].id, "commit")
                      /\ AgreeBut("assigned", x, staged[w])
      BY <1>7, <2>2, InsertAssignmentDoes
    <3>2. Consents("last_hash", req[w], l, x)
      BY <1>0, <3>1 DEF Consents, Consent
    <3> QED BY <3>1, <3>2, StatementConsented
  <2> QED BY <2>1, <2>2
<1>8. CASE ReselectAssignment(w)
  <2>1. PICK s, l : /\ ReadThen(w, s, l) /\ pc[w] = "reselect_assignment"
                    /\ s \in {"last_hash", "delete_assignment"}
                    /\ Notes(l, "role_revoked", req[w].ref, "commit")
    BY <1>8, ReselectAssignmentDoes
  <2>2. Consents(s, req[w], l, staged[w])
    BY <1>0, <2>1 DEF Consents, Consent
  <2> QED BY <2>1, <2>2, StatementConsented DEF ReadThen
<1>9. CASE DeleteAssignment(w)
  <2>1. PICK x : /\ Statement(w, "last_hash", read[w], x) /\ pc[w] = "delete_assignment"
                 /\ AgreeBut("revoked", x, staged[w])
    BY <1>9, DeleteAssignmentDoes
  <2>2. Consents("last_hash", req[w], read[w], x)
    BY <1>0, <2>1 DEF Consents, Consent
  <2> QED BY <2>1, <2>2, StatementConsented
<1>10. CASE ReadLastHash(w)
  <2>1. PICK l : /\ ReadThen(w, "insert_event", l) /\ pc[w] = "last_hash"
                 /\ Notes(l, read[w].event, read[w].entity, read[w].then)
                 /\ l.target = read[w].target
    BY <1>10, ReadLastHashDoes
  <2>2. Consents("insert_event", req[w], l, staged[w])
    BY <1>0, <2>1 DEF Consents, Consent
  <2> QED BY <2>1, <2>2, StatementConsented DEF ReadThen
<1>11. CASE InsertEvent(w)
  <2>1. PICK s, l, x, e : /\ s \in {"last_hash", read[w].then}
                          /\ Inserts(w, s, l, x) /\ pc[w] = "insert_event"
                          /\ read[w].then \in {"commit", "finalize_select", "list_required"}
                          /\ Notes(l, read[w].event, read[w].entity, read[w].then)
                          /\ l.target = read[w].target
                          /\ x.events = staged[w].events \cup {e}
                          /\ AgreeBut("events", x, staged[w])
                          /\ e.type = read[w].event /\ e.entity = read[w].entity
    BY <1>11, InsertEventDoes
  <2>2. Consents(s, req[w], l, x)
    BY <1>0, <2>1 DEF Consents, Consent
  <2> QED BY <2>1, <2>2, StatementConsented DEF Inserts
<1>12. CASE Commit(w)
  BY <1>12, CommitConsented
<1>13. CASE \E s, l : Reads(w, s, l)
  BY <1>13, ReadsConsented
<1> QED BY <1>1, <1>2, <1>3, <1>4, <1>5, <1>6, <1>7, <1>8, <1>9, <1>10, <1>11, <1>12, <1>13,
           RollbackConsented, OthersRead
        DEF Advance, DecisionStep, ApprovalStep, VetoStep, RoleStep

LEMMA ArriveConsented ==
  ASSUME TypeInv, AuditInv, ConsentInv, NEW w \in Workers, Arrive(w)
  PROVE  ConsentInv'
<1>1. PICK r, s : s \in FirstSteps /\ Begin(w, r, s)
  BY ArriveDoes
<1>2. staged[w] = NothingStaged
  BY <1>1 DEF Begin, AuditInv, Debts, Unwritten
<1>3. UNCHANGED <<votes, raci, audit, read, staged>>
  BY <1>1 DEF Begin, tables
<1>4. ASSUME NEW v \in Workers PROVE Consents(pc[v], req[v], read[v], staged[v])'
  <2>1. CASE v = w
    BY <1>1, <1>2, <1>3, <2>1 DEF Begin, TypeInv, TypeOK, Consents, NothingStaged, FirstSteps,
                                  Recorders, RecordingSteps, FinalizingSteps
  <2>2. CASE v # w
    BY <1>1, <1>3, <2>2 DEF Begin, ConsentInv, TypeInv, TypeOK, Consents, Consent
  <2> QED BY <2>1, <2>2
<1>5. ApprovedUnanimously'
  BY <1>3 DEF ConsentInv, ApprovedUnanimously
<1> QED BY <1>4, <1>5 DEF ConsentInv

LEMMA InitConsented == Init => ConsentInv
<1> SUFFICES ASSUME Init PROVE ConsentInv
  OBVIOUS
<1>1. ApprovedUnanimously
  BY DEF Init, ApprovedUnanimously, SeedEvents
<1>2. \A w \in Workers : Consents(pc[w], req[w], read[w], staged[w])
  BY DEF Init, Consents, NothingStaged, FinalizingSteps, RecordingSteps, Recorders
<1> QED BY <1>1, <1>2 DEF ConsentInv

LEMMA NextConsented == TypeInv /\ AuditInv /\ IdInv /\ ConsentInv /\ [Next]_vars => ConsentInv'
<1> SUFFICES ASSUME TypeInv, AuditInv, IdInv, ConsentInv, [Next]_vars PROVE ConsentInv'
  OBVIOUS
<1>1. ASSUME NEW w \in Workers, Arrive(w) PROVE ConsentInv'
  BY <1>1, ArriveConsented
<1>2. ASSUME NEW w \in Workers, Advance(w) PROVE ConsentInv'
  BY <1>2, AdvanceConsented
<1>3. ASSUME NEW w \in Workers, Fail(w) PROVE ConsentInv'
  BY <1>3, RollbackConsented DEF Fail
<1>4. CASE UNCHANGED vars
  BY <1>4 DEF vars, tables, counters, session, ConsentInv, ApprovedUnanimously,
              Consents, Consent
<1> QED BY <1>1, <1>2, <1>3, <1>4 DEF Next, Drained

(* A decision that was finalized as APPROVED has the approval of every     *)
(* RESPONSIBLE and ACCOUNTABLE user who has held that role all along       *)
(* (ApprovalService._check_and_finalize), for any number of open requests. *)
THEOREM ApprovalIsUnanimous == Spec => []ApprovedUnanimously
<1>1. Init => ConsentInv
  BY InitConsented
<1>2. TypeInv /\ AuditInv /\ IdInv /\ ConsentInv /\ [Next]_vars => ConsentInv'
  BY NextConsented
<1>3. ConsentInv => ApprovedUnanimously
  BY DEF ConsentInv
<1> QED BY <1>1, <1>2, <1>3, Typing, Auditing, Numbering, PTL DEF Spec

-----------------------------------------------------------------------------
(***************************************************************************)
(* Roles.                                                                  *)
(***************************************************************************)
SameEntry(a, b) == a.user = b.user /\ a.domain = b.domain

(* The writes x hold an event of this type about this row, or the handler  *)
(* is about to record it.                                                  *)
RoleRecorded(p, l, x, type, row) ==
  \/ \E e \in x.events : e.type = type /\ e.entity = row
  \/ p \in Recorders /\ l.event = type /\ l.entity = row

(* The entry a session assigns is free, and will have its event; the row   *)
(* it revokes is the one its request names, and so will that.              *)
Roles(p, r, l, x) ==
  /\ \A a \in x.assigned :
       /\ \A b \in raci : ~SameEntry(a, b)
       /\ RoleRecorded(p, l, x, "role_assigned", a.id)
  /\ \A a, b \in x.assigned : a = b
  /\ \A a \in x.revoked : a.id = r.ref /\ RoleRecorded(p, l, x, "role_revoked", r.ref)
  /\ \A e \in x.events :
       /\ e.type = "role_assigned" => \E a \in x.assigned : a.id = e.entity
       /\ e.type = "role_revoked" => \A a \in raci : a.id = r.ref => a \in x.revoked
  /\ p \in Recorders /\ l.event = "role_assigned" =>
       \E a \in x.assigned : a.id = l.entity
  /\ p \in RecordingSteps /\ l.event = "role_revoked" =>
       \A a \in raci : a.id = r.ref => a \in x.revoked
  /\ p = "delete_assignment" => l.event = "role_revoked"
  /\ p = "update_veto" => l.event = "veto_overridden"

(* No two sessions assign the same entry: the unique index makes the       *)
(* second one wait.                                                        *)
EntriesApart ==
  \A w, v \in Workers : w # v =>
    \A a \in staged[w].assigned, b \in staged[v].assigned : ~SameEntry(a, b)

RoleInv ==
  /\ \A w \in Workers : Roles(pc[w], req[w], read[w], staged[w])
  /\ EntriesApart
  /\ RolesMatchTrail
-----------------------------------------------------------------------------
LEMMA SessionRoled ==
  ASSUME TypeInv, RoleInv, NEW w \in Workers, NEW s, NEW l, NEW x,
         /\ pc' = [pc EXCEPT ![w] = s]
         /\ read' = [read EXCEPT ![w] = l]
         /\ staged' = [staged EXCEPT ![w] = x]
         /\ UNCHANGED <<tables, req>>,
         Roles(s, req[w], l, x),
         \A a \in x.assigned : a \in staged[w].assigned \/
           \A v \in Workers \ {w} : \A b \in staged[v].assigned : ~SameEntry(a, b)
  PROVE  RoleInv'
<1>1. UNCHANGED <<raci, audit, req>>
  BY DEF tables
<1>2. /\ pc'[w] = s /\ read'[w] = l /\ staged'[w] = x
      /\ \A v \in Workers : v # w => /\ pc'[v] = pc[v] /\ read'[v] = read[v]
                                    /\ staged'[v] = staged[v]
  BY DEF TypeInv, TypeOK
<1>3. ASSUME NEW v \in Workers PROVE Roles(pc[v], req[v], read[v], staged[v])'
  BY <1>1, <1>2 DEF RoleInv, Roles, RoleRecorded
<1>4. EntriesApart'
  <2>1. ASSUME NEW v \in Workers, v # w, NEW a \in x.assigned, NEW b \in staged[v].assigned
        PROVE  ~SameEntry(a, b) /\ ~SameEntry(b, a)
    BY <2>1 DEF RoleInv, EntriesApart, SameEntry
  <2> QED BY <1>2, <2>1 DEF RoleInv, EntriesApart
<1>5. RolesMatchTrail'
  BY <1>1 DEF RoleInv, RolesMatchTrail
<1> QED BY <1>3, <1>4, <1>5 DEF RoleInv

LEMMA StatementRoled ==
  ASSUME TypeInv, RoleInv, NEW w \in Workers, NEW s, NEW l, NEW x,
         Statement(w, s, l, x), Roles(s, req[w], l, x), x.assigned = staged[w].assigned
  PROVE  RoleInv'
BY SessionRoled DEF Statement

LEMMA EndRoled ==
  ASSUME TypeInv, RoleInv, NEW w \in Workers, EndSession(w), RolesMatchTrail',
         \A v \in Workers : v # w => Roles(pc[v], req[v], read[v], staged[v])'
  PROVE  RoleInv'
<1>1. Roles(pc[w], req[w], read[w], staged[w])'
  BY DEF TypeInv, TypeOK, EndSession, Roles, NothingStaged, Recorders, RecordingSteps
<1>2. EntriesApart'
  BY DEF RoleInv, EntriesApart, EndSession, TypeInv, TypeOK, NothingStaged
<1> QED BY <1>1, <1>2 DEF RoleInv

LEMMA RollbackRoled ==
  ASSUME TypeInv, RoleInv, NEW w \in Workers, Rollback(w)
  PROVE  RoleInv'
<1>1. UNCHANGED <<raci, audit>>
  BY DEF Rollback, tables
<1>2. RolesMatchTrail'
  BY <1>1 DEF RoleInv, RolesMatchTrail
<1>3. ASSUME NEW v \in Workers, v # w PROVE Roles(pc[v], req[v], read[v], staged[v])'
  BY <1>1, <1>3 DEF RoleInv, Rollback, EndSession, TypeInv, TypeOK, Roles, RoleRecorded
<1> QED BY <1>2, <1>3, EndRoled DEF Rollback

(* A commit adds an entry that is free, or removes the row whose           *)
(* revocation it records.                                                  *)
LEMMA CommitRoled ==
  ASSUME TypeInv, AuditInv, IdInv, RoleInv, NEW w \in Workers, Commit(w)
  PROVE  RoleInv'
<1> USE DEF Recorders, RecordingSteps
<1>1. /\ Roles("commit", req[w], read[w], staged[w])
      /\ Owns("commit", req[w], read[w], staged[w])
      /\ pc[w] = "commit"
  BY DEF RoleInv, IdInv, Commit
<1>2. /\ raci' = (raci \ staged[w].revoked) \cup staged[w].assigned
      /\ audit' = audit \cup staged[w].events
  BY DEF Commit
<1>3. /\ req[w].id # req[w].ref
      /\ \A a \in raci : a.id # req[w].id
      /\ \A e \in audit : e.type = "role_revoked" => e.entity # req[w].id
      /\ \A v \in Workers : pc[v] # "idle" => req[v].ref # req[w].id
  BY <1>1 DEF IdInv, Named
<1>4. \A a, b \in raci' : SameEntry(a, b) => a = b
  BY <1>1, <1>2 DEF Roles, RoleInv, RolesMatchTrail, SameEntry
<1>5. ASSUME NEW a \in raci'
      PROVE  /\ \E e \in audit' : e.type = "role_assigned" /\ e.entity = a.id
             /\ \A e \in audit' : e.type = "role_revoked" => e.entity # a.id
  <2>1. CASE a \in staged[w].assigned
    <3>1. a.id = req[w].id
      BY <1>1, <2>1 DEF Owns
    <3>2. \E e \in audit' : e.type = "role_assigned" /\ e.entity = a.id
      BY <1>1, <1>2, <2>1 DEF Roles, RoleRecorded
    <3> QED BY <1>1, <1>2, <1>3, <3>1, <3>2 DEF Owns
  <2>2. CASE a \in raci /\ a \notin staged[w].revoked
    BY <1>1, <1>2, <2>2 DEF Roles, Owns, RoleInv, RolesMatchTrail
  <2> QED BY <1>2, <2>1, <2>2
<1>6. ASSUME NEW e \in audit', e.type = "role_assigned"
      PROVE  \/ \E a \in raci' : a.id = e.entity
             \/ \E f \in audit' : f.type = "role_revoked" /\ f.entity = e.entity
  <2>1. CASE e \in staged[w].events
    BY <1>1, <1>2, <1>6, <2>1 DEF Roles
  <2>2. CASE \E f \in audit : f.type = "role_revoked" /\ f.entity = e.entity
    BY <1>2, <2>2
  <2>3. CASE e \in audit /\ \E a \in raci : a.id = e.entity
    <3>1. PICK a \in raci : a.id = e.entity
      BY <2>3
    <3>2. CASE a \in staged[w].revoked
      BY <1>1, <1>2, <3>1, <3>2 DEF Roles, RoleRecorded
    <3> QED BY <1>2, <3>1, <3>2
  <2> QED BY <1>2, <1>6, <2>1, <2>2, <2>3 DEF RoleInv, RolesMatchTrail
<1>7. RolesMatchTrail'
  BY <1>4, <1>5, <1>6 DEF RolesMatchTrail, SameEntry
<1>8. ASSUME NEW v \in Workers, v # w PROVE Roles(pc[v], req[v], read[v], staged[v])'
  <2>1. /\ pc'[v] = pc[v] /\ req'[v] = req[v]
        /\ read'[v] = read[v] /\ staged'[v] = staged[v]
    BY <1>8 DEF Commit, EndSession, TypeInv, TypeOK
  <2>2. Roles(pc[v], req[v], read[v], staged[v])
    BY DEF RoleInv
  <2>3. CASE pc[v] = "idle"
    <3>1. staged[v] = NothingStaged
      BY <2>3 DEF AuditInv, Debts, Unwritten
    <3> QED BY <2>1, <2>3, <3>1 DEF Roles, NothingStaged
  <2>4. CASE pc[v] # "idle"
    <3>1. ASSUME NEW a \in staged[v].assigned, NEW b \in raci' PROVE ~SameEntry(a, b)
      BY <1>2, <1>8, <2>2 DEF Roles, RoleInv, EntriesApart
    <3>2. \A a \in raci' : a.id = req[v].ref => a \in raci
      BY <1>1, <1>2, <1>3, <2>4 DEF Owns
    <3> QED BY <2>1, <2>2, <3>1, <3>2 DEF Roles, RoleRecorded
  <2> QED BY <2>3, <2>4
<1> QED BY <1>7, <1>8, EndRoled DEF Commit

(* The entry that is inserted is free, and stays free while the session    *)
(* holds it in the index.                                                  *)
LEMMA AdvanceRoled ==
  ASSUME TypeInv, AuditInv, IdInv, RoleInv, NEW w \in Workers, Advance(w)
  PROVE  RoleInv'
<1> USE DEF Notes, AgreeBut, RecordingSteps, Recorders, Unwritten, FirstSteps
<1>0. /\ Roles(pc[w], req[w], read[w], staged[w])
      /\ Owns(pc[w], req[w], read[w], staged[w])
      /\ pc[w] \in Unwritten => staged[w] = NothingStaged
  BY DEF RoleInv, IdInv, AuditInv, Debts
<1>1. CASE InsertDecision(w)
  <2>1. PICK l, x : /\ Statement(w, "last_hash", l, x) /\ pc[w] = "insert_decision"
                    /\ Notes(l, "decision_created", req[w].dec, "commit")
                    /\ AgreeBut("status", x, staged[w])
    BY <1>1, InsertDecisionDoes
  <2>2. Roles("last_hash", req[w], l, x)
    BY <1>0, <2>1 DEF Roles, NothingStaged
  <2> QED BY <2>1, <2>2, StatementRoled
<1>2. CASE UpdateDecision(w)
  <2>1. PICK l, x : /\ Statement(w, "last_hash", l, x) /\ pc[w] = "update_decision"
                    /\ Notes(l, EventOf(read[w].target), req[w].dec, "commit")
                    /\ read[w].target \in FinalStatus \cup {"awaiting_approval"}
                    /\ AgreeBut("status", x, staged[w])
    BY <1>2, UpdateDecisionDoes
  <2>2. Roles("last_hash", req[w], l, x)
    BY <1>0, <2>1 DEF Roles, RoleRecorded, EventOf, FinalStatus
  <2> QED BY <2>1, <2>2, StatementRoled
<1>3. CASE InsertVote(w)
  <2>1. PICK l, x : /\ Statement(w, "last_hash", l, x) /\ pc[w] = "insert_vote"
                    /\ req[w].op = "vote" /\ req[w].arg \in VoteValue
                    /\ Notes(l, "approval_cast", req[w].dec, AfterVote(req[w].arg))
                    /\ AgreeBut("votes", x, staged[w])
    BY <1>3, InsertVoteDoes
  <2>2. Roles("last_hash", req[w], l, x)
    BY <1>0, <2>1 DEF Roles, NothingStaged
  <2> QED BY <2>1, <2>2, StatementRoled
<1>4. CASE InsertVeto(w)
  <2>1. PICK l, x : /\ Statement(w, "finalize_select", l, x) /\ pc[w] = "insert_veto"
                    /\ AgreeBut("vetoes", x, staged[w])
    BY <1>4, InsertVetoDoes
  <2>2. Roles("finalize_select", req[w], l, x)
    BY <1>0, <2>1 DEF Roles, NothingStaged
  <2> QED BY <2>1, <2>2, StatementRoled
<1>5. CASE ReselectVeto(w)
  <2>1. PICK v, s, l : /\ ReadThen(w, s, l) /\ pc[w] = "reselect_veto"
                       /\ s \in {"last_hash", "update_veto"}
                       /\ Notes(l, "veto_overridden", v.dec, "commit")
    BY <1>5, ReselectVetoDoes
  <2>2. Roles(s, req[w], l, staged[w])
    BY <1>0, <2>1 DEF Roles, NothingStaged
  <2> QED BY <2>1, <2>2, StatementRoled DEF ReadThen
<1>6. CASE UpdateVeto(w)
  <2>1. PICK x : /\ Statement(w, "last_hash", read[w], x) /\ pc[w] = "update_veto"
                 /\ AgreeBut("override", x, staged[w])
    BY <1>6, UpdateVetoDoes
  <2>2. Roles("last_hash", req[w], read[w], x)
    BY <1>0, <2>1 DEF Roles, NothingStaged
  <2> QED BY <2>1, <2>2, StatementRoled
<1>7. CASE InsertAssignment(w)
  <2>1. CASE Rollback(w)
    BY <2>1, RollbackRoled
  <2>2. CASE ~Rollback(w)
    <3>1. PICK l, x : /\ Statement(w, "last_hash", l, x) /\ pc[w] = "insert_assignment"
                      /\ EntryFree(w, req[w].user, req[w].domain)
                      /\ GetAssignment(req[w].user, req[w].domain) = {}
                      /\ Notes(l, "role_assigned", req[w].id, "commit")
                      /\ x.assigned = {[id |-> req[w].id, user |-> req[w].user,
                                        domain |-> req[w].domain, role |-> req[w].arg]}
                      /\ AgreeBut("assigned", x, staged[w])
      BY <1>7, <2>2, InsertAssignmentDoes
    <3>2. Roles("last_hash", req[w], l, x)
      BY <1>0, <3>1 DEF Roles, RoleRecorded, NothingStaged, GetAssignment, SameEntry
    <3>3. ASSUME NEW a \in x.assigned, NEW v \in Workers \ {w}, NEW b \in staged[v].assigned
          PROVE  ~SameEntry(a, b)
      BY <3>1 DEF EntryFree, SameEntry
    <3> QED BY <3>1, <3>2, <3>3, SessionRoled DEF Statement
  <2> QED BY <2>1, <2>2
<1>8. CASE ReselectAssignment(w)
  <2>1. PICK s, l : /\ ReadThen(w, s, l) /\ pc[w] = "reselect_assignment"
                    /\ s \in {"last_hash", "delete_assignment"}
                    /\ Notes(l, "role_revoked", req[w].ref, "commit")
                    /\ s = "last_hash" => AssignmentById(req[w].ref) = {}
    BY <1>8, ReselectAssignmentDoes
  <2>2. Roles(s, req[w], l, staged[w])
    BY <1>0, <2>1 DEF Roles, NothingStaged, AssignmentById
  <2> QED BY <2>1, <2>2, StatementRoled DEF ReadThen
<1>9. CASE DeleteAssignment(w)
  <2>1. PICK x : /\ Statement(w, "last_hash", read[w], x) /\ pc[w] = "delete_assignment"
                 /\ x.revoked = AssignmentById(req[w].ref)
                 /\ AgreeBut("revoked", x, staged[w])
    BY <1>9, DeleteAssignmentDoes
  <2>2. Roles("last_hash", req[w], read[w], x)
    BY <1>0, <2>1 DEF Roles, RoleRecorded, Owns, NothingStaged, AssignmentById
  <2> QED BY <2>1, <2>2, StatementRoled
<1>10. CASE ReadLastHash(w)
  <2>1. PICK l : /\ ReadThen(w, "insert_event", l) /\ pc[w] = "last_hash"
                 /\ Notes(l, read[w].event, read[w].entity, read[w].then)
    BY <1>10, ReadLastHashDoes
  <2>2. Roles("insert_event", req[w], l, staged[w])
    BY <1>0, <2>1 DEF Roles, RoleRecorded
  <2> QED BY <2>1, <2>2, StatementRoled DEF ReadThen
<1>11. CASE InsertEvent(w)
  <2>1. PICK s, l, x, e : /\ s \in {"last_hash", read[w].then}
                          /\ Inserts(w, s, l, x) /\ pc[w] = "insert_event"
                          /\ read[w].then \in {"commit", "finalize_select", "list_required"}
                          /\ Notes(l, read[w].event, read[w].entity, read[w].then)
                          /\ x.events = staged[w].events \cup {e}
                          /\ AgreeBut("events", x, staged[w])
                          /\ e.type = read[w].event /\ e.entity = read[w].entity
    BY <1>11, InsertEventDoes
  <2>2. Roles(s, req[w], l, x)
    BY <1>0, <2>1 DEF Roles, RoleRecorded
  <2> QED BY <2>1, <2>2, SessionRoled DEF Inserts
<1>12. CASE Commit(w)
  BY <1>12, CommitRoled
<1>13. CASE \E s, l : Reads(w, s, l)
  <2>1. PICK s, l : Reads(w, s, l)
    BY <1>13
  <2>2. Roles(s, req[w], l, staged[w])
    BY <1>0, <2>1 DEF Roles, RoleRecorded, Reads, Finds
  <2> QED BY <2>1, <2>2, StatementRoled DEF Reads, ReadThen
<1> QED BY <1>1, <1>2, <1>3, <1>4, <1>5, <1>6, <1>7, <1>8, <1>9, <1>10, <1>11, <1>12, <1>13,
           RollbackRoled, OthersRead
        DEF Advance, DecisionStep, ApprovalStep, VetoStep, RoleStep

LEMMA ArriveRoled ==
  ASSUME TypeInv, AuditInv, RoleInv, NEW w \in Workers, Arrive(w)
  PROVE  RoleInv'
<1>1. PICK r, s : s \in FirstSteps /\ Begin(w, r, s)
  BY ArriveDoes
<1>2. staged[w] = NothingStaged
  BY <1>1 DEF Begin, AuditInv, Debts, Unwritten
<1>3. UNCHANGED <<raci, audit, read, staged>>
  BY <1>1 DEF Begin, tables
<1>4. ASSUME NEW v \in Workers PROVE Roles(pc[v], req[v], read[v], staged[v])'
  <2>1. CASE v = w
    BY <1>1, <1>2, <1>3, <2>1 DEF Begin, TypeInv, TypeOK, Roles, NothingStaged, FirstSteps,
                                  Recorders, RecordingSteps
  <2>2. CASE v # w
    BY <1>1, <1>3, <2>2 DEF Begin, RoleInv, TypeInv, TypeOK, Roles, RoleRecorded
  <2> QED BY <2>1, <2>2
<1>5. RolesMatchTrail' /\ EntriesApart'
  BY <1>3 DEF RoleInv, RolesMatchTrail, EntriesApart
<1> QED BY <1>4, <1>5 DEF RoleInv

(* The i-th seeded role was recorded under its id, i.                      *)
LEMMA InitRoled == Init => RoleInv
<1> SUFFICES ASSUME Init PROVE RoleInv
  OBVIOUS
<1>1. \A w \in Workers : Roles(pc[w], req[w], read[w], staged[w])
  BY DEF Init, Roles, NothingStaged, RecordingSteps, Recorders
<1>2. EntriesApart
  BY DEF Init, EntriesApart, NothingStaged
<1>3. \A a, b \in raci : a.user = b.user /\ a.domain = b.domain => a = b
  <2>1. ASSUME NEW i \in 1..Len(Seed), NEW j \in 1..Len(Seed),
               Seed[i].user = Seed[j].user, Seed[i].domain = Seed[j].domain
        PROVE  i = j
    BY <2>1, SeedAssumption
  <2> QED BY <2>1 DEF Init, SeedRows
<1>4. /\ \A a \in raci : \E e \in audit : e.type = "role_assigned" /\ e.entity = a.id
      /\ \A e \in audit : e.type # "role_revoked" /\ \E a \in raci : a.id = e.entity
  <2> DEFINE row(i) == [id |-> i, user |-> Seed[i].user, domain |-> Seed[i].domain,
                        role |-> Seed[i].role]
             event(i) == [type |-> "role_assigned", entity |-> i, actor |-> "client",
                          at |-> i, prev |-> i - 1]
  <2>1. /\ raci = {row(i) : i \in 1..Len(Seed)}
        /\ audit = {event(i) : i \in 1..Len(Seed)}
    BY DEF Init, SeedRows, SeedEvents
  <2>2. \A i \in 1..Len(Seed) :
          row(i).id = i /\ event(i).type = "role_assigned" /\ event(i).entity = i
    OBVIOUS
  <2> HIDE DEF row, event
  <2> QED BY <2>1, <2>2
<1>5. RolesMatchTrail
  BY <1>3, <1>4 DEF RolesMatchTrail
<1> QED BY <1>1, <1>2, <1>5 DEF RoleInv

LEMMA NextRoled == TypeInv /\ AuditInv /\ IdInv /\ RoleInv /\ [Next]_vars => RoleInv'
<1> SUFFICES ASSUME TypeInv, AuditInv, IdInv, RoleInv, [Next]_vars PROVE RoleInv'
  OBVIOUS
<1>1. ASSUME NEW w \in Workers, Arrive(w) PROVE RoleInv'
  BY <1>1, ArriveRoled
<1>2. ASSUME NEW w \in Workers, Advance(w) PROVE RoleInv'
  BY <1>2, AdvanceRoled
<1>3. ASSUME NEW w \in Workers, Fail(w) PROVE RoleInv'
  BY <1>3, RollbackRoled DEF Fail
<1>4. CASE UNCHANGED vars
  BY <1>4 DEF vars, tables, counters, session, RoleInv, RolesMatchTrail,
              EntriesApart, Roles, RoleRecorded
<1> QED BY <1>1, <1>2, <1>3, <1>4 DEF Next, Drained

(* The entry a session stages is free, and goes to the trail with it.      *)
THEOREM Roling == Spec => []RoleInv
<1>1. Init => RoleInv
  BY InitRoled
<1>2. TypeInv /\ AuditInv /\ IdInv /\ RoleInv /\ [Next]_vars => RoleInv'
  BY NextRoled
<1> QED BY <1>1, <1>2, Typing, Auditing, Numbering, PTL DEF Spec

(* The role table and the trail agree, whatever is assigned and revoked at *)
(* once: one role per user and domain, every one with its ROLE_ASSIGNED    *)
(* event and without a ROLE_REVOKED one, and no assignment on record is    *)
(* missing that was not revoked (assign_role, revoke_role).                *)
THEOREM RolesAreOnRecord == Spec => []RolesMatchTrail
<1>1. RoleInv => RolesMatchTrail
  BY DEF RoleInv
<1> QED BY <1>1, Roling, PTL

-----------------------------------------------------------------------------
(***************************************************************************)
(* Overrides.                                                              *)
(***************************************************************************)

(* User u outranks the role in which v was exercised, with whatever        *)
(* seeded role u still has.                                                *)
Commands(u, v) ==
  /\ v.role = "responsible"
  /\ \A a \in raci \cap SeedRows :
       a.user = u /\ a.domain = DomainOf[v.dec] => a.role = "accountable"

(* What a session knows of the veto it exercises or overrides. *)
Authority(p, r, l, x) ==
  /\ p = "insert_veto" => l.role \in VETO_ELIGIBLE_ROLES
  /\ \A v \in x.vetoes : v.role \in VETO_ELIGIBLE_ROLES /\ v.status = "active"
  /\ p \in {"reselect_veto", "update_veto"} \/ x.override # None =>
       \A v \in vetoes : v.id = r.ref => Commands(r.user, v)
  /\ x.override \in {None, r.user}

AuthorityInv ==
  /\ \A w \in Workers : Authority(pc[w], req[w], read[w], staged[w])
  /\ \A v \in vetoes : v.role \in VETO_ELIGIBLE_ROLES
  /\ OverriddenByAuthority
-----------------------------------------------------------------------------
(* A role that outranks one which may veto is ACCOUNTABLE, and the other   *)
(* RESPONSIBLE.                                                            *)
LEMMA Outranks ==
  ASSUME NEW v \in VETO_ELIGIBLE_ROLES, NEW r \in RACIRole,
         ROLE_HIERARCHY[r] > ROLE_HIERARCHY[v]
  PROVE  r = "accountable" /\ v = "responsible"
BY DEF VETO_ELIGIBLE_ROLES, RACIRole, ROLE_HIERARCHY

(* An overrider holds one role in the domain: the one that was looked at.  *)
LEMMA OverriderCommands ==
  ASSUME TypeInv, RoleInv, NEW u, NEW v \in vetoes, v.role \in VETO_ELIGIBLE_ROLES,
         Overriders(u, v) # {}
  PROVE  Commands(u, v)
<1>1. PICK a \in raci : /\ a.user = u /\ a.domain = DomainOf[v.dec]
                        /\ ROLE_HIERARCHY[a.role] > ROLE_HIERARCHY[v.role]
  BY DEF Overriders, GetAssignment
<1>2. a.role \in RACIRole
  BY DEF TypeInv, TypeOK, Assignment
<1>3. a.role = "accountable" /\ v.role = "responsible"
  BY <1>1, <1>2, Outranks
<1>4. \A b \in raci : b.user = u /\ b.domain = DomainOf[v.dec] => b = a
  BY <1>1 DEF RoleInv, RolesMatchTrail
<1> QED BY <1>3, <1>4 DEF Commands

LEMMA StatementAuthorized ==
  ASSUME TypeInv, AuthorityInv, NEW w \in Workers, NEW s, NEW l, NEW x,
         /\ pc' = [pc EXCEPT ![w] = s]
         /\ read' = [read EXCEPT ![w] = l]
         /\ staged' = [staged EXCEPT ![w] = x]
         /\ UNCHANGED <<tables, req>>,
         Authority(s, req[w], l, x)
  PROVE  AuthorityInv'
<1>1. UNCHANGED <<raci, vetoes, req>>
  BY DEF tables
<1>2. ASSUME NEW v \in Workers PROVE Authority(pc[v], req[v], read[v], staged[v])'
  <2>1. CASE v = w
    BY <1>1, <2>1 DEF TypeInv, TypeOK, Authority, Commands
  <2>2. CASE v # w
    BY <1>1, <2>2 DEF AuthorityInv, TypeInv, TypeOK, Authority, Commands
  <2> QED BY <2>1, <2>2
<1>3. OverriddenByAuthority' /\ \A v \in vetoes' : v.role \in VETO_ELIGIBLE_ROLES
  BY <1>1 DEF AuthorityInv, OverriddenByAuthority
<1> QED BY <1>2, <1>3 DEF AuthorityInv

(* Authority, once had, is not lost: no seeded role comes back, and no     *)
(* veto is of another role or decision than before.                        *)
LEMMA CommandsStay ==
  ASSUME raci' \cap SeedRows \subseteq raci, NEW u, NEW v, NEW k, Commands(u, v),
         k.role = v.role, k.dec = v.dec
  PROVE  /\ k.role = "responsible"
         /\ \A a \in raci' \cap SeedRows :
              a.user = u /\ a.domain = DomainOf[k.dec] => a.role = "accountable"
BY DEF Commands

LEMMA EndAuthorized ==
  ASSUME TypeInv, AuditInv, AuthorityInv, NEW w \in Workers, EndSession(w),
         raci' \cap SeedRows \subseteq raci, OverriddenByAuthority',
         \A v \in vetoes' : v.role \in VETO_ELIGIBLE_ROLES,
         \A k \in vetoes' :
           \/ \E v \in vetoes : k.id = v.id /\ k.role = v.role /\ k.dec = v.dec
           \/ \A v \in Workers : v # w /\ pc[v] # "idle" => req[v].ref # k.id
  PROVE  AuthorityInv'
<1>1. ASSUME NEW v \in Workers PROVE Authority(pc[v], req[v], read[v], staged[v])'
  <2>1. CASE v = w
    BY <2>1 DEF TypeInv, TypeOK, EndSession, Authority, NothingStaged
  <2>2. CASE v # w
    <3>1. /\ pc'[v] = pc[v] /\ req'[v] = req[v]
          /\ read'[v] = read[v] /\ staged'[v] = staged[v]
      BY <2>2 DEF EndSession, TypeInv, TypeOK
    <3>2. Authority(pc[v], req[v], read[v], staged[v])
      BY DEF AuthorityInv
    <3>3. pc[v] = "idle" => staged[v].override = None
      BY DEF AuditInv, Debts, Unwritten, NothingStaged
    <3>4. SeedRows' = SeedRows
      BY DEF SeedRows
    <3>5. ASSUME pc[v] \in {"reselect_veto", "update_veto"} \/ staged[v].override # None,
                 NEW k \in vetoes', k.id = req[v].ref
          PROVE  /\ k.role = "responsible"
                 /\ \A a \in raci' \cap SeedRows :
                      a.user = req[v].user /\ a.domain = DomainOf[k.dec]
                        => a.role = "accountable"
      <4>1. PICK u \in vetoes : k.id = u.id /\ k.role = u.role /\ k.dec = u.dec
        BY <2>2, <3>3, <3>5
      <4>2. Commands(req[v].user, u)
        BY <3>2, <3>5, <4>1 DEF Authority
      <4> QED BY <4>1, <4>2, CommandsStay
    <3> QED BY <3>1, <3>2, <3>4, <3>5 DEF Authority, Commands
  <2> QED BY <2>1, <2>2
<1> QED BY <1>1 DEF AuthorityInv

LEMMA RollbackAuthorized ==
  ASSUME TypeInv, AuditInv, AuthorityInv, NEW w \in Workers, Rollback(w)
  PROVE  AuthorityInv'
<1>1. UNCHANGED <<raci, vetoes>>
  BY DEF Rollback, tables
<1>2. OverriddenByAuthority'
  BY <1>1 DEF AuthorityInv, OverriddenByAuthority
<1> QED BY <1>1, <1>2, EndAuthorized DEF Rollback, AuthorityInv

LEMMA CommitAuthorized ==
  ASSUME TypeInv, AuditInv, IdInv, AuthorityInv, NEW w \in Workers, Commit(w)
  PROVE  AuthorityInv'
<1>1. /\ Authority("commit", req[w], read[w], staged[w])
      /\ Owns("commit", req[w], read[w], staged[w])
      /\ pc[w] = "commit"
  BY DEF AuthorityInv, IdInv, Commit
<1>2. raci' \cap SeedRows \subseteq raci
  BY SeedRowsGo
<1>3. ASSUME NEW v \in vetoes
      PROVE  LET k == Overridden(w, v) IN
             /\ k.id = v.id /\ k.role = v.role /\ k.dec = v.dec
             /\ \/ k.status = v.status /\ k.over = v.over
                \/ /\ k.over = staged[w].override /\ staged[w].override # None
                   /\ v.id = req[w].ref
  BY DEF Overridden, TypeInv, TypeOK, Veto
<1>4. \A v \in Workers : pc[v] # "idle" => req[v].ref # req[w].id
  BY <1>1 DEF IdInv, Named
<1>5. ASSUME NEW k \in vetoes'
      PROVE  /\ k.role \in VETO_ELIGIBLE_ROLES
             /\ \/ \E v \in vetoes : k.id = v.id /\ k.role = v.role /\ k.dec = v.dec
                \/ \A v \in Workers : v # w /\ pc[v] # "idle" => req[v].ref # k.id
  <2>1. CASE k \in staged[w].vetoes
    BY <1>1, <1>4, <2>1 DEF Authority, Owns
  <2>2. CASE \E v \in vetoes : k = Overridden(w, v)
    BY <1>3, <2>2 DEF AuthorityInv
  <2> QED BY <2>1, <2>2 DEF Commit
<1>6. ASSUME NEW k \in vetoes', k.status = "overridden"
      PROVE  /\ k.role = "responsible"
             /\ \A a \in raci' \cap SeedRows :
                  a.user = k.over /\ a.domain = DomainOf[k.dec] => a.role = "accountable"
  <2>1. k \notin staged[w].vetoes
    BY <1>1, <1>6 DEF Authority
  <2>2. PICK v \in vetoes : k = Overridden(w, v)
    BY <2>1 DEF Commit
  <2>3. Commands(k.over, v)
    <3>1. CASE k.status = v.status /\ k.over = v.over
      BY <1>6, <3>1 DEF AuthorityInv, OverriddenByAuthority, Commands
    <3>2. CASE /\ k.over = staged[w].override /\ staged[w].override # None
               /\ v.id = req[w].ref
      BY <1>1, <3>2 DEF Authority
    <3> QED BY <1>3, <2>2, <3>1, <3>2
  <2>4. k.role = v.role /\ k.dec = v.dec
    BY <1>3, <2>2
  <2> QED BY <1>2, <2>3, <2>4, CommandsStay
<1>7. OverriddenByAuthority'
  BY <1>6 DEF OverriddenByAuthority, SeedRows
<1> QED BY <1>2, <1>5, <1>7, EndAuthorized DEF Commit

(* What the overrider's role is, is found where it is read. *)
LEMMA ReadsAuthorized ==
  ASSUME TypeInv, AuditInv, IdInv, RoleInv, AuthorityInv,
         NEW w \in Workers, NEW s, NEW l, Reads(w, s, l)
  PROVE  AuthorityInv'
<1>1. Authority(pc[w], req[w], read[w], staged[w])
  BY DEF AuthorityInv
<1>2. ASSUME s = "reselect_veto", NEW v \in vetoes, v.id = req[w].ref
      PROVE  Commands(req[w].user, v)
  <2>1. Overriders(req[w].user, v) # {}
    BY <1>2 DEF Reads, Finds, IdInv
  <2> QED BY <2>1, OverriderCommands DEF AuthorityInv
<1>3. Authority(s, req[w], l, staged[w])
  BY <1>1, <1>2 DEF Authority, Reads, Finds, Recorders
<1> QED BY <1>3, StatementAuthorized DEF Reads, ReadThen, Statement

(* Any other statement carries the authority along.                        *)
LEMMA AdvanceAuthorized ==
  ASSUME TypeInv, AuditInv, IdInv, RoleInv, AuthorityInv, NEW w \in Workers, Advance(w)
  PROVE  AuthorityInv'
<1> USE DEF Notes, AgreeBut, Recorders, RecordingSteps, Statement
<1>0. Authority(pc[w], req[w], read[w], staged[w])
  BY DEF AuthorityInv
<1>1. CASE InsertDecision(w)
  <2>1. PICK l, x : /\ Statement(w, "last_hash", l, x) /\ pc[w] = "insert_decision"
                    /\ AgreeBut("status", x, staged[w])
    BY <1>1, InsertDecisionDoes
  <2>2. Authority("last_hash", req[w], l, x)
    BY <1>0, <2>1 DEF Authority
  <2> QED BY <2>1, <2>2, StatementAuthorized
<1>2. CASE UpdateDecision(w)
  <2>1. PICK l, x : /\ Statement(w, "last_hash", l, x) /\ pc[w] = "update_decision"
                    /\ AgreeBut("status", x, staged[w])
    BY <1>2, UpdateDecisionDoes
  <2>2. Authority("last_hash", req[w], l, x)
    BY <1>0, <2>1 DEF Authority
  <2> QED BY <2>1, <2>2, StatementAuthorized
<1>3. CASE InsertVote(w)
  <2>1. PICK l, x : /\ Statement(w, "last_hash", l, x) /\ pc[w] = "insert_vote"
                    /\ AgreeBut("votes", x, staged[w])
    BY <1>3, InsertVoteDoes
  <2>2. Authority("last_hash", req[w], l, x)
    BY <1>0, <2>1 DEF Authority
  <2> QED BY <2>1, <2>2, StatementAuthorized
<1>4. CASE InsertVeto(w)
  <2>1. PICK l, x : /\ Statement(w, "finalize_select", l, x) /\ pc[w] = "insert_veto"
                    /\ x.vetoes = {[id |-> req[w].id, dec |-> req[w].dec,
                                    by |-> req[w].user, role |-> read[w].role,
                                    status |-> "active", over |-> None]}
                    /\ AgreeBut("vetoes", x, staged[w])
    BY <1>4, InsertVetoDoes
  <2>2. Authority("finalize_select", req[w], l, x)
    BY <1>0, <2>1 DEF Authority
  <2> QED BY <2>1, <2>2, StatementAuthorized
<1>5. CASE ReselectVeto(w)
  <2>1. PICK v, s, l : /\ ReadThen(w, s, l) /\ pc[w] = "reselect_veto"
                       /\ s \in {"last_hash", "update_veto"}
    BY <1>5, ReselectVetoDoes
  <2>2. Authority(s, req[w], l, staged[w])
    BY <1>0, <2>1 DEF Authority
  <2> QED BY <2>1, <2>2, StatementAuthorized DEF ReadThen
<1>6. CASE UpdateVeto(w)
  <2>1. PICK x : /\ Statement(w, "last_hash", read[w], x) /\ pc[w] = "update_veto"
                 /\ x.override = req[w].user
                 /\ AgreeBut("override", x, staged[w])
    BY <1>6, UpdateVetoDoes
  <2>2. Authority("last_hash", req[w], read[w], x)
    BY <1>0, <2>1 DEF Authority
  <2> QED BY <2>1, <2>2, StatementAuthorized
<1>7. CASE InsertAssignment(w)
  <2>1. CASE Rollback(w)
    BY <2>1, RollbackAuthorized
  <2>2. CASE ~Rollback(w)
    <3>1. PICK l, x : /\ Statement(w, "last_hash", l, x) /\ pc[w] = "insert_assignment"
                      /\ AgreeBut("assigned", x, staged[w])
      BY <1>7, <2>2, InsertAssignmentDoes
    <3>2. Authority("last_hash", req[w], l, x)
      BY <1>0, <3>1 DEF Authority
    <3> QED BY <3>1, <3>2, StatementAuthorized
  <2> QED BY <2>1, <2>2
<1>8. CASE ReselectAssignment(w)
  <2>1. PICK s, l : /\ ReadThen(w, s, l) /\ pc[w] = "reselect_assignment"
                    /\ s \in {"last_hash", "delete_assignment"}
    BY <1>8, ReselectAssignmentDoes
  <2>2. Authority(s, req[w], l, staged[w])
    BY <1>0, <2>1 DEF Authority
  <2> QED BY <2>1, <2>2, StatementAuthorized DEF ReadThen
<1>9. CASE DeleteAssignment(w)
  <2>1. PICK x : /\ Statement(w, "last_hash", read[w], x) /\ pc[w] = "delete_assignment"
                 /\ AgreeBut("revoked", x, staged[w])
    BY <1>9, DeleteAssignmentDoes
  <2>2. Authority("last_hash", req[w], read[w], x)
    BY <1>0, <2>1 DEF Authority
  <2> QED BY <2>1, <2>2, StatementAuthorized
<1>10. CASE ReadLastHash(w)
  <2>1. PICK l : /\ ReadThen(w, "insert_event", l) /\ pc[w] = "last_hash"
    BY <1>10, ReadLastHashDoes
  <2>2. Authority("insert_event", req[w], l, staged[w])
    BY <1>0, <2>1 DEF Authority
  <2> QED BY <2>1, <2>2, StatementAuthorized DEF ReadThen
<1>11. CASE InsertEvent(w)
  <2>1. PICK s, l, x, e : /\ s \in {"last_hash", read[w].then}
                          /\ Inserts(w, s, l, x) /\ pc[w] = "insert_event"
                          /\ read[w].then \in {"commit", "finalize_select", "list_required"}
                          /\ AgreeBut("events", x, staged[w])
    BY <1>11, InsertEventDoes
  <2>2. Authority(s, req[w], l, x)
    BY <1>0, <2>1 DEF Authority
  <2> QED BY <2>1, <2>2, StatementAuthorized DEF Inserts
<1>12. CASE Commit(w)
  BY <1>12, CommitAuthorized
<1>13. CASE \E s, l : Reads(w, s, l)
  BY <1>13, ReadsAuthorized
<1> QED BY <1>1, <1>2, <1>3, <1>4, <1>5, <1>6, <1>7, <1>8, <1>9, <1>10, <1>11, <1>12, <1>13,
           RollbackAuthorized, OthersRead
        DEF Advance, DecisionStep, ApprovalStep, VetoStep, RoleStep

LEMMA ArriveAuthorized ==
  ASSUME TypeInv, AuditInv, AuthorityInv, NEW w \in Workers, Arrive(w)
  PROVE  AuthorityInv'
<1>1. PICK r, s : s \in FirstSteps /\ Begin(w, r, s)
  BY ArriveDoes
<1>2. staged[w] = NothingStaged
  BY <1>1 DEF Begin, AuditInv, Debts, Unwritten
<1>3. UNCHANGED <<raci, vetoes, read, staged>>
  BY <1>1 DEF Begin, tables
<1>4. ASSUME NEW v \in Workers PROVE Authority(pc[v], req[v], read[v], staged[v])'
  <2>1. CASE v = w
    BY <1>1, <1>2, <1>3, <2>1 DEF Begin, TypeInv, TypeOK, Authority, NothingStaged, FirstSteps
  <2>2. CASE v # w
    BY <1>1, <1>3, <2>2 DEF Begin, AuthorityInv, TypeInv, TypeOK, Authority, Commands
  <2> QED BY <2>1, <2>2
<1>5. OverriddenByAuthority' /\ \A v \in vetoes' : v.role \in VETO_ELIGIBLE_ROLES
  BY <1>3 DEF AuthorityInv, OverriddenByAuthority
<1> QED BY <1>4, <1>5 DEF AuthorityInv

LEMMA InitAuthorized == Init => AuthorityInv
BY DEF Init, AuthorityInv, Authority, NothingStaged, OverriddenByAuthority

LEMMA NextAuthorized ==
  TypeInv /\ AuditInv /\ IdInv /\ RoleInv /\ AuthorityInv /\ [Next]_vars => AuthorityInv'
<1> SUFFICES ASSUME TypeInv, AuditInv, IdInv, RoleInv, AuthorityInv, [Next]_vars
             PROVE  AuthorityInv'
  OBVIOUS
<1>1. ASSUME NEW w \in Workers, Arrive(w) PROVE AuthorityInv'
  BY <1>1, ArriveAuthorized
<1>2. ASSUME NEW w \in Workers, Advance(w) PROVE AuthorityInv'
  BY <1>2, AdvanceAuthorized
<1>3. ASSUME NEW w \in Workers, Fail(w) PROVE AuthorityInv'
  BY <1>3, RollbackAuthorized DEF Fail
<1>4. CASE UNCHANGED vars
  BY <1>4 DEF vars, tables, counters, session, AuthorityInv, OverriddenByAuthority,
              Authority, Commands
<1> QED BY <1>1, <1>2, <1>3, <1>4 DEF Next, Drained

(* A veto is overridden only with authority: it was exercised as           *)
(* RESPONSIBLE, and no role that the overrider has had all along is other  *)
(* than ACCOUNTABLE (override_veto), however roles change between the      *)
(* check and the update.                                                   *)
THEOREM AuthorityOverrides == Spec => []OverriddenByAuthority
<1>1. Init => AuthorityInv
  BY InitAuthorized
<1>2. TypeInv /\ AuditInv /\ IdInv /\ RoleInv /\ AuthorityInv /\ [Next]_vars => AuthorityInv'
  BY NextAuthorized
<1>3. AuthorityInv => OverriddenByAuthority
  BY DEF AuthorityInv
<1> QED BY <1>1, <1>2, <1>3, Typing, Auditing, Numbering, Roling, PTL DEF Spec
=============================================================================
