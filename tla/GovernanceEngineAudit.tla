------------------------ MODULE GovernanceEngineAudit -----------------------
(***************************************************************************)
(* The tables and the audit trail agree, however requests interleave and   *)
(* wherever they fail: no status, REJECT vote or veto is committed without *)
(* the audit event that belongs to it, and no event without the row it     *)
(* reports.                                                                *)
(*                                                                         *)
(* The first invariant is a debt: a worker that has staged a row either    *)
(* has staged its event too, or is on the way to the statement that        *)
(* inserts the event.  The way never leads to the commit before the debt   *)
(* is paid.  The second says that ids are fresh, so that a row is told     *)
(* from another by its id.  The third is the converse of the debt: an      *)
(* event that is staged, or will be, is about a row that is staged.        *)
(***************************************************************************)
EXTENDS GovernanceEngineTyping

(* The writes x hold an event of this type about the decision of r, by the *)
(* user of r; or the handler is about to record it; or it is about to set  *)
(* the status the event belongs to.                                        *)
Paid(r, x, type) ==
  \E e \in x.events : e.type = type /\ e.entity = r.dec /\ e.actor = r.user

Owed(p, r, l, status) ==
  \/ p \in RecordingSteps /\ l.event = EventOf(status) /\ l.entity = r.dec
  \/ p \in RecordingSteps /\ l.then = "finalize_select" /\ l.target = status
  \/ p \in FinalizingSteps /\ l.target = status

Debts(p, r, l, x) ==
  /\ p \in Unwritten => x = NothingStaged
  /\ x.status # None =>
       \/ \E e \in x.events : e.type = EventOf(x.status) /\ e.entity = r.dec
       \/ p \in RecordingSteps /\ l.event = EventOf(x.status) /\ l.entity = r.dec
  /\ \A v \in x.votes : v.vote = "reject" =>
       /\ r.op = "vote" /\ v.dec = r.dec /\ v.voter = r.user
       /\ Paid(r, x, "decision_rejected") \/ Owed(p, r, l, "rejected")
  /\ \A v \in x.vetoes :
       /\ r.op = "veto" /\ v.dec = r.dec /\ v.by = r.user
       /\ Paid(r, x, "veto_exercised") \/ Owed(p, r, l, "vetoed")

AuditInv ==
  /\ \A w \in Workers : Debts(pc[w], req[w], read[w], staged[w])
  /\ StatusAudited
  /\ DecisiveRowsAudited
-----------------------------------------------------------------------------
LEMMA StatementAudited ==
  ASSUME TypeInv, AuditInv, NEW w \in Workers, NEW s, NEW l, NEW x,
         Statement(w, s, l, x), Debts(s, req[w], l, x)
  PROVE  AuditInv'
<1>1. ASSUME NEW v \in Workers PROVE Debts(pc[v], req[v], read[v], staged[v])'
  <2>1. CASE v = w
    BY <2>1 DEF TypeInv, TypeOK, Statement, Debts, Paid, Owed
  <2>2. CASE v # w
    BY <2>2 DEF AuditInv, TypeInv, TypeOK, Statement, Debts, Paid, Owed
  <2> QED BY <2>1, <2>2
<1>2. StatusAudited' /\ DecisiveRowsAudited'
  BY DEF AuditInv, Statement, tables, StatusAudited, DecisiveRowsAudited, Recorded
<1> QED BY <1>1, <1>2 DEF AuditInv

(* A handler that only reads keeps its debts: they are paid, or it is on   *)
(* the way of a finalization.                                              *)
LEMMA ReadsAudited ==
  ASSUME TypeInv, AuditInv, NEW w \in Workers, NEW s, NEW l, Reads(w, s, l)
  PROVE  AuditInv'
<1>1. Debts(s, req[w], l, staged[w])
  BY DEF AuditInv, Debts, Owed, Reads, Finds, Recorders, RecordingSteps, FinalizingSteps, Unwritten
<1> QED BY <1>1, StatementAudited DEF Reads, ReadThen

(* Ending a session clears its debts. *)
LEMMA EndAudited ==
  ASSUME TypeInv, AuditInv, NEW w \in Workers, EndSession(w),
         StatusAudited', DecisiveRowsAudited'
  PROVE  AuditInv'
<1>1. ASSUME NEW v \in Workers PROVE Debts(pc[v], req[v], read[v], staged[v])'
  <2>1. CASE v = w
    BY <2>1 DEF TypeInv, TypeOK, EndSession, Debts, NothingStaged
  <2>2. CASE v # w
    BY <2>2 DEF AuditInv, TypeInv, TypeOK, EndSession, Debts, Paid, Owed
  <2> QED BY <2>1, <2>2
<1> QED BY <1>1 DEF AuditInv

LEMMA RollbackAudited ==
  ASSUME TypeInv, AuditInv, NEW w \in Workers, Rollback(w)
  PROVE  AuditInv'
<1>1. StatusAudited' /\ DecisiveRowsAudited'
  BY DEF AuditInv, Rollback, tables, StatusAudited, DecisiveRowsAudited, Recorded
<1> QED BY <1>1, EndAudited DEF Rollback

(* What is committed is paid for, and the trail only grows. *)
LEMMA CommitAudited ==
  ASSUME TypeInv, AuditInv, NEW w \in Workers, Commit(w)
  PROVE  AuditInv'
<1> USE SessionTyped
<1>1. Debts("commit", req[w], read[w], staged[w])
  BY DEF AuditInv, Commit
<1>2. audit \subseteq audit' /\ staged[w].events \subseteq audit'
  BY DEF Commit
<1>3. StatusAudited'
  <2> SUFFICES ASSUME NEW d \in Decisions, decision'[d] # "absent"
               PROVE  \E e \in audit' : e.type = EventOf(decision'[d]) /\ e.entity = d
    BY DEF StatusAudited
  <2>1. CASE staged[w].status # None /\ d = req[w].dec
    <3>1. decision'[d] = staged[w].status
      BY <2>1 DEF Commit, TypeInv, TypeOK
    <3>2. \E e \in staged[w].events : e.type = EventOf(staged[w].status) /\ e.entity = d
      BY <1>1, <2>1 DEF Debts, RecordingSteps
    <3> QED BY <1>2, <3>1, <3>2
  <2>2. CASE ~(staged[w].status # None /\ d = req[w].dec)
    <3>1. decision'[d] = decision[d]
      BY <2>2 DEF Commit, TypeInv, TypeOK
    <3> QED BY <1>2, <3>1 DEF AuditInv, StatusAudited
  <2> QED BY <2>1, <2>2
<1>4. DecisiveRowsAudited'
  <2>1. ASSUME NEW v \in votes', v.vote = "reject"
        PROVE  \E e \in audit' : /\ e.type = "decision_rejected" /\ e.entity = v.dec
                                 /\ e.actor = v.voter
    <3>1. CASE v \in votes
      BY <1>2, <2>1, <3>1 DEF AuditInv, DecisiveRowsAudited, Recorded
    <3>2. CASE v \in staged[w].votes
      BY <1>1, <1>2, <2>1, <3>2 DEF Debts, Paid, Owed, RecordingSteps, FinalizingSteps
    <3> QED BY <2>1, <3>1, <3>2 DEF Commit
  <2>2. ASSUME NEW v \in vetoes'
        PROVE  \E e \in audit' : /\ e.type = "veto_exercised" /\ e.entity = v.dec
                                 /\ e.actor = v.by
    <3>1. ASSUME NEW u \in vetoes, v = Overridden(w, u) PROVE v.dec = u.dec /\ v.by = u.by
      BY <3>1 DEF Overridden, TypeInv, TypeOK, Veto
    <3>2. CASE \E u \in vetoes : v = Overridden(w, u)
      BY <1>2, <3>1, <3>2 DEF AuditInv, DecisiveRowsAudited, Recorded
    <3>3. CASE v \in staged[w].vetoes
      BY <1>1, <1>2, <3>3 DEF Debts, Paid, Owed, RecordingSteps, FinalizingSteps
    <3> QED BY <3>2, <3>3 DEF Commit
  <2> QED BY <2>1, <2>2 DEF DecisiveRowsAudited, Recorded
<1> QED BY <1>3, <1>4, EndAudited DEF Commit

(* Every statement of a handler leaves the debts that belong to the step   *)
(* it goes to.                                                             *)
LEMMA AdvanceAudited ==
  ASSUME TypeInv, AuditInv, NEW w \in Workers, Advance(w)
  PROVE  AuditInv'
<1> USE DEF Notes, AgreeBut, RecordingSteps, FinalizingSteps, Unwritten, FirstSteps
<1>0. Debts(pc[w], req[w], read[w], staged[w])
  BY DEF AuditInv
<1>1. CASE InsertDecision(w)
  <2>1. PICK l, x : /\ Statement(w, "last_hash", l, x) /\ pc[w] = "insert_decision"
                    /\ Notes(l, "decision_created", req[w].dec, "commit")
                    /\ x.status = "pending" /\ AgreeBut("status", x, staged[w])
    BY <1>1, InsertDecisionDoes
  <2>2. Debts("last_hash", req[w], l, x)
    BY <1>0, <2>1 DEF Debts, Paid, Owed, NothingStaged, EventOf
  <2> QED BY <2>1, <2>2, StatementAudited
<1>2. CASE UpdateDecision(w)
  <2>1. PICK l, x : /\ Statement(w, "last_hash", l, x) /\ pc[w] = "update_decision"
                    /\ Notes(l, EventOf(read[w].target), req[w].dec, "commit")
                    /\ x.status \in {None, read[w].target}
                    /\ AgreeBut("status", x, staged[w])
    BY <1>2, UpdateDecisionDoes
  <2>2. Debts("last_hash", req[w], l, x)
    BY <1>0, <2>1 DEF Debts, Paid, Owed
  <2> QED BY <2>1, <2>2, StatementAudited
<1>3. CASE InsertVote(w)
  <2>1. PICK l, x :
          /\ Statement(w, "last_hash", l, x) /\ pc[w] = "insert_vote" /\ req[w].op = "vote"
          /\ Notes(l, "approval_cast", req[w].dec, AfterVote(req[w].arg))
          /\ l.target = IF req[w].arg = "reject" THEN "rejected" ELSE read[w].target
          /\ x.votes = {[id |-> req[w].id, dec |-> req[w].dec, voter |-> req[w].user,
                         role |-> read[w].role, vote |-> req[w].arg]}
          /\ AgreeBut("votes", x, staged[w])
    BY <1>3, InsertVoteDoes
  <2>2. Debts("last_hash", req[w], l, x)
    BY <1>0, <2>1 DEF Debts, Paid, Owed, NothingStaged, AfterVote
  <2> QED BY <2>1, <2>2, StatementAudited
<1>4. CASE InsertVeto(w)
  <2>1. PICK l, x :
          /\ Statement(w, "finalize_select", l, x) /\ pc[w] = "insert_veto"
          /\ req[w].op = "veto" /\ l.target = "vetoed"
          /\ x.vetoes = {[id |-> req[w].id, dec |-> req[w].dec, by |-> req[w].user,
                          role |-> read[w].role, status |-> "active", over |-> None]}
          /\ AgreeBut("vetoes", x, staged[w])
    BY <1>4, InsertVetoDoes
  <2>2. Debts("finalize_select", req[w], l, x)
    BY <1>0, <2>1 DEF Debts, Paid, Owed, NothingStaged
  <2> QED BY <2>1, <2>2, StatementAudited
<1>5. CASE ReselectVeto(w)
  <2>1. PICK s, l : /\ ReadThen(w, s, l) /\ pc[w] = "reselect_veto"
                    /\ s \in {"last_hash", "update_veto"}
    BY <1>5, ReselectVetoDoes
  <2>2. Debts(s, req[w], l, staged[w])
    BY <1>0, <2>1 DEF Debts, NothingStaged
  <2> QED BY <2>1, <2>2, StatementAudited DEF ReadThen
<1>6. CASE UpdateVeto(w)
  <2>1. PICK x : /\ Statement(w, "last_hash", read[w], x) /\ pc[w] = "update_veto"
                 /\ AgreeBut("override", x, staged[w])
    BY <1>6, UpdateVetoDoes
  <2>2. Debts("last_hash", req[w], read[w], x)
    BY <1>0, <2>1 DEF Debts, NothingStaged
  <2> QED BY <2>1, <2>2, StatementAudited
<1>7. CASE InsertAssignment(w)
  <2>1. CASE Rollback(w)
    BY <2>1, RollbackAudited
  <2>2. CASE ~Rollback(w)
    <3>1. PICK l, x : /\ Statement(w, "last_hash", l, x) /\ pc[w] = "insert_assignment"
                      /\ AgreeBut("assigned", x, staged[w])
      BY <1>7, <2>2, InsertAssignmentDoes
    <3>2. Debts("last_hash", req[w], l, x)
      BY <1>0, <3>1 DEF Debts, NothingStaged
    <3> QED BY <3>1, <3>2, StatementAudited
  <2> QED BY <2>1, <2>2
<1>8. CASE ReselectAssignment(w)
  <2>1. PICK s, l : /\ ReadThen(w, s, l) /\ pc[w] = "reselect_assignment"
                    /\ s \in {"last_hash", "delete_assignment"}
    BY <1>8, ReselectAssignmentDoes
  <2>2. Debts(s, req[w], l, staged[w])
    BY <1>0, <2>1 DEF Debts, NothingStaged
  <2> QED BY <2>1, <2>2, StatementAudited DEF ReadThen
<1>9. CASE DeleteAssignment(w)
  <2>1. PICK x : /\ Statement(w, "last_hash", read[w], x) /\ pc[w] = "delete_assignment"
                 /\ AgreeBut("revoked", x, staged[w])
    BY <1>9, DeleteAssignmentDoes
  <2>2. Debts("last_hash", req[w], read[w], x)
    BY <1>0, <2>1 DEF Debts, NothingStaged
  <2> QED BY <2>1, <2>2, StatementAudited
<1>10. CASE ReadLastHash(w)
  <2>1. PICK l : /\ ReadThen(w, "insert_event", l) /\ pc[w] = "last_hash"
                 /\ Notes(l, read[w].event, read[w].entity, read[w].then)
                 /\ l.target = read[w].target
    BY <1>10, ReadLastHashDoes
  <2>2. Debts("insert_event", req[w], l, staged[w])
    BY <1>0, <2>1 DEF Debts, Paid, Owed
  <2> QED BY <2>1, <2>2, StatementAudited DEF ReadThen
<1>11. CASE InsertEvent(w)
  <2>1. PICK s, l, x, e :
           /\ s \in {"last_hash", read[w].then}
           /\ Inserts(w, s, l, x) /\ pc[w] = "insert_event"
           /\ read[w].then \in {"commit", "finalize_select", "list_required"}
           /\ Notes(l, read[w].event, read[w].entity, read[w].then)
           /\ l.target = read[w].target
           /\ x.events = staged[w].events \cup {e} /\ AgreeBut("events", x, staged[w])
           /\ e.type = read[w].event /\ e.entity = read[w].entity
           /\ req[w].op \in {"vote", "veto", "override"} /\ e.type # "decision_approved"
                => e.actor = req[w].user
    BY <1>11, InsertEventDoes
  <2>2. Debts(s, req[w], l, x)
    BY <1>0, <2>1 DEF Debts, Paid, Owed, EventOf
  <2>3. ASSUME NEW v \in Workers PROVE Debts(pc[v], req[v], read[v], staged[v])'
    BY <2>1, <2>2 DEF Inserts, AuditInv, TypeInv, TypeOK, Debts, Paid, Owed
  <2>4. StatusAudited' /\ DecisiveRowsAudited'
    BY <2>1 DEF Inserts, AuditInv, tables, StatusAudited, DecisiveRowsAudited, Recorded
  <2> QED BY <2>3, <2>4 DEF AuditInv
<1>12. CASE Commit(w)
  BY <1>12, CommitAudited
<1>13. CASE \E s, l : Reads(w, s, l)
  BY <1>13, ReadsAudited
<1> QED BY <1>1, <1>2, <1>3, <1>4, <1>5, <1>6, <1>7, <1>8, <1>9, <1>10, <1>11, <1>12, <1>13,
           RollbackAudited, OthersRead
        DEF Advance, DecisionStep, ApprovalStep, VetoStep, RoleStep

(* A request starts with nothing staged. *)
LEMMA ArriveAudited ==
  ASSUME TypeInv, AuditInv, NEW w \in Workers, Arrive(w)
  PROVE  AuditInv'
<1>1. PICK r, s : s \in FirstSteps /\ Begin(w, r, s)
  BY ArriveDoes
<1>2. staged[w] = NothingStaged
  BY <1>1 DEF Begin, AuditInv, Debts, Unwritten
<1>3. ASSUME NEW v \in Workers PROVE Debts(pc[v], req[v], read[v], staged[v])'
  <2>1. CASE v = w
    BY <1>1, <1>2, <2>1 DEF Begin, TypeInv, TypeOK, Debts, NothingStaged
  <2>2. CASE v # w
    BY <1>1, <2>2 DEF Begin, AuditInv, TypeInv, TypeOK, Debts, Paid, Owed
  <2> QED BY <2>1, <2>2
<1>4. StatusAudited' /\ DecisiveRowsAudited'
  BY <1>1 DEF Begin, AuditInv, tables, StatusAudited, DecisiveRowsAudited, Recorded
<1> QED BY <1>3, <1>4 DEF AuditInv

LEMMA InitAudited == Init => AuditInv
BY DEF Init, AuditInv, Debts, NothingStaged, StatusAudited, DecisiveRowsAudited

LEMMA NextAudited == TypeInv /\ AuditInv /\ [Next]_vars => AuditInv'
<1> SUFFICES ASSUME TypeInv, AuditInv, [Next]_vars PROVE AuditInv'
  OBVIOUS
<1>1. ASSUME NEW w \in Workers, Arrive(w) PROVE AuditInv'
  BY <1>1, ArriveAudited
<1>2. ASSUME NEW w \in Workers, Advance(w) PROVE AuditInv'
  BY <1>2, AdvanceAudited
<1>3. ASSUME NEW w \in Workers, Fail(w) PROVE AuditInv'
  BY <1>3, RollbackAudited DEF Fail
<1>4. CASE UNCHANGED vars
  BY <1>4 DEF vars, tables, counters, session, AuditInv, StatusAudited, DecisiveRowsAudited,
              Recorded, Debts, Paid, Owed
<1> QED BY <1>1, <1>2, <1>3, <1>4 DEF Next, Drained

(* Whatever a session owes the trail it is on the way to record.           *)
THEOREM Auditing == Spec => []AuditInv
<1>1. Init => AuditInv
  BY InitAudited
<1>2. TypeInv /\ AuditInv /\ [Next]_vars => AuditInv'
  BY NextAudited
<1> QED BY <1>1, <1>2, Typing, PTL DEF Spec

(* Whatever status a decision shows, the event that belongs to it is in    *)
(* the audit trail (create_decision, submit_for_approval, finalize).       *)
THEOREM StatusIsAudited == Spec => []StatusAudited
<1>1. AuditInv => StatusAudited
  BY DEF AuditInv
<1> QED BY <1>1, Auditing, PTL

(* No REJECT vote and no veto is in the tables without the finalization it *)
(* caused (cast_vote, exercise_veto).                                      *)
THEOREM DecisiveRowsAreAudited == Spec => []DecisiveRowsAudited
<1>1. AuditInv => DecisiveRowsAudited
  BY DEF AuditInv
<1> QED BY <1>1, Auditing, PTL

-----------------------------------------------------------------------------
(***************************************************************************)
(* Fresh ids: one per request, for the row it may insert.                  *)
(***************************************************************************)

(* The id of a role, of a veto, of a role that was revoked, or one that a  *)
(* request refers to.                                                      *)
Named(i) ==
  \/ \E a \in raci : a.id = i
  \/ \E v \in vetoes : v.id = i
  \/ \E e \in audit : e.type = "role_revoked" /\ e.entity = i
  \/ \E w \in Workers : pc[w] # "idle" /\ req[w].ref = i

(* A session inserts rows under the id of its request, and revokes the row *)
(* it refers to.                                                           *)
Owns(p, r, l, x) ==
  /\ \A a \in x.assigned : a.id = r.id
  /\ \A v \in x.vetoes : v.id = r.id
  /\ \A u, v \in x.vetoes : u = v
  /\ \A e \in x.events : e.type = "role_revoked" => e.entity = r.ref
  /\ p \in Recorders /\ l.event = "role_revoked" => l.entity = r.ref

IdInv ==
  /\ Len(Seed) < nextId
  /\ \A w \in Workers : pc[w] # "idle" =>
       /\ Len(Seed) < req[w].id /\ req[w].id < nextId
       /\ ~Named(req[w].id)
       /\ req[w].ref < nextId
  /\ \A w, v \in Workers : pc[w] # "idle" /\ pc[v] # "idle" /\ req[w].id = req[v].id => w = v
  /\ \A w \in Workers : Owns(pc[w], req[w], read[w], staged[w])
  /\ \A a \in raci : a.id < nextId
  /\ \A v \in vetoes : v.id < nextId
  /\ \A e \in audit : e.type = "role_revoked" => e.entity \in Nat /\ e.entity < nextId
  /\ \A u, v \in vetoes : u.id = v.id => u = v
-----------------------------------------------------------------------------
(* A session goes on, to a step that is not the end. *)
LEMMA SessionNumbered ==
  ASSUME TypeInv, IdInv, NEW w \in Workers, NEW s, NEW l, NEW x,
         /\ pc' = [pc EXCEPT ![w] = s]
         /\ read' = [read EXCEPT ![w] = l]
         /\ staged' = [staged EXCEPT ![w] = x]
         /\ UNCHANGED <<tables, nextId, req>>,
         pc[w] # "idle", s # "idle", Owns(s, req[w], l, x)
  PROVE  IdInv'
<1>1. /\ UNCHANGED <<req, raci, vetoes, audit, nextId>>
      /\ \A v \in Workers : pc'[v] # "idle" <=> pc[v] # "idle"
  BY DEF TypeInv, TypeOK, tables
<1>2. \A i : Named(i)' <=> Named(i)
  BY <1>1 DEF Named
<1>3. ASSUME NEW v \in Workers PROVE Owns(pc[v], req[v], read[v], staged[v])'
  BY <1>1 DEF IdInv, TypeInv, TypeOK, Owns
<1> QED BY <1>1, <1>2, <1>3 DEF IdInv

LEMMA StatementNumbered ==
  ASSUME TypeInv, IdInv, NEW w \in Workers, NEW s, NEW l, NEW x,
         Statement(w, s, l, x), pc[w] # "idle", s # "idle", Owns(s, req[w], l, x)
  PROVE  IdInv'
BY SessionNumbered DEF Statement, counters

(* A session ends, leaving rows under its own id. *)
LEMMA EndNumbered ==
  ASSUME TypeInv, IdInv, NEW w \in Workers, EndSession(w), pc[w] # "idle",
         \A a \in raci' : a \in raci \/ a.id = req[w].id,
         \A v \in vetoes' : (\E u \in vetoes : u.id = v.id) \/ v.id = req[w].id,
         \A e \in audit' : e.type = "role_revoked" => e \in audit \/ e.entity = req[w].ref,
         \A u, v \in vetoes' : u.id = v.id => u = v
  PROVE  IdInv'
<1> USE SessionTyped
<1>1. /\ nextId' = nextId /\ pc'[w] = "idle"
      /\ \A v \in Workers : v # w => /\ pc'[v] = pc[v] /\ req'[v] = req[v]
                                    /\ read'[v] = read[v] /\ staged'[v] = staged[v]
  BY DEF EndSession, counters, TypeInv, TypeOK
<1>2. ASSUME NEW v \in Workers, v # w, pc[v] # "idle" PROVE ~Named(req[v].id)'
  <2>1. req[v].id # req[w].id /\ ~Named(req[v].id)
    BY <1>2 DEF IdInv
  <2>2. req[v].id # req[w].ref
    BY <2>1 DEF Named
  <2> QED BY <1>1, <1>2, <2>1, <2>2 DEF Named
<1>3. ASSUME NEW v \in Workers PROVE Owns(pc[v], req[v], read[v], staged[v])'
  <2>1. CASE v = w
    BY <2>1 DEF EndSession, TypeInv, TypeOK, Owns, NothingStaged, Recorders, RecordingSteps
  <2>2. CASE v # w
    BY <1>1, <2>2 DEF IdInv, Owns
  <2> QED BY <2>1, <2>2
<1>4. /\ req[w].id < nextId /\ req[w].ref < nextId /\ req[w].ref \in Nat
  BY DEF IdInv, Request
<1>5. /\ \A a \in raci' : a.id < nextId
      /\ \A v \in vetoes' : v.id < nextId
      /\ \A e \in audit' : e.type = "role_revoked" => e.entity \in Nat /\ e.entity < nextId
  BY <1>4 DEF IdInv
<1>6. Len(Seed) < nextId
  BY DEF IdInv
<1>7. \A v \in Workers : pc'[v] # "idle" =>
        /\ Len(Seed) < req'[v].id /\ req'[v].id < nextId /\ req'[v].ref < nextId
        /\ ~Named(req[v].id)' /\ v # w
  BY <1>1, <1>2 DEF IdInv
<1>8. \A u, v \in Workers : pc'[u] # "idle" /\ pc'[v] # "idle" /\ req'[u].id = req'[v].id => u = v
  BY <1>1 DEF IdInv
<1> QED BY <1>1, <1>3, <1>5, <1>6, <1>7, <1>8 DEF IdInv

LEMMA RollbackNumbered ==
  ASSUME TypeInv, IdInv, NEW w \in Workers, Rollback(w), pc[w] # "idle"
  PROVE  IdInv'
<1>1. UNCHANGED <<raci, vetoes, audit>>
  BY DEF Rollback, tables
<1> QED BY <1>1, EndNumbered DEF Rollback, IdInv

LEMMA CommitNumbered ==
  ASSUME TypeInv, IdInv, NEW w \in Workers, Commit(w)
  PROVE  IdInv'
<1>1. Owns(pc[w], req[w], read[w], staged[w]) /\ pc[w] # "idle"
  BY DEF IdInv, Commit
<1>2. ASSUME NEW u \in vetoes PROVE Overridden(w, u).id = u.id
  BY DEF Overridden, TypeInv, TypeOK, Veto
<1>3. ASSUME NEW v \in vetoes'
      PROVE  (\E u \in vetoes : v = Overridden(w, u) /\ u.id = v.id)
             \/ (v \in staged[w].vetoes /\ v.id = req[w].id)
  BY <1>1, <1>2 DEF Commit, Owns
<1>4. \A u \in vetoes : u.id # req[w].id
  BY <1>1 DEF IdInv, Named
<1>5. ASSUME NEW u \in vetoes', NEW v \in vetoes', u.id = v.id PROVE u = v
  BY <1>1, <1>3, <1>4, <1>5 DEF IdInv, Owns
<1>6. /\ \A a \in raci' : a \in raci \/ a.id = req[w].id
      /\ \A e \in audit' : e.type = "role_revoked" => e \in audit \/ e.entity = req[w].ref
  BY <1>1 DEF Commit, Owns
<1> QED BY <1>1, <1>3, <1>5, <1>6, EndNumbered DEF Commit

LEMMA AdvanceNumbered ==
  ASSUME TypeInv, AuditInv, IdInv, NEW w \in Workers, Advance(w)
  PROVE  IdInv'
<1> USE DEF Notes, AgreeBut, Recorders, RecordingSteps
<1>0. Owns(pc[w], req[w], read[w], staged[w])
  BY DEF IdInv
<1>1. CASE InsertDecision(w)
  <2>1. PICK l, x : /\ Statement(w, "last_hash", l, x) /\ pc[w] = "insert_decision"
                    /\ Notes(l, "decision_created", req[w].dec, "commit")
                    /\ AgreeBut("status", x, staged[w])
    BY <1>1, InsertDecisionDoes
  <2>2. Owns("last_hash", req[w], l, x)
    BY <1>0, <2>1 DEF Owns
  <2> QED BY <2>1, <2>2, StatementNumbered
<1>2. CASE UpdateDecision(w)
  <2>1. PICK l, x : /\ Statement(w, "last_hash", l, x) /\ pc[w] = "update_decision"
                    /\ Notes(l, EventOf(read[w].target), req[w].dec, "commit")
                    /\ read[w].target \in FinalStatus \cup {"awaiting_approval"}
                    /\ AgreeBut("status", x, staged[w])
    BY <1>2, UpdateDecisionDoes
  <2>2. Owns("last_hash", req[w], l, x)
    BY <1>0, <2>1 DEF Owns, EventOf, FinalStatus
  <2> QED BY <2>1, <2>2, StatementNumbered
<1>3. CASE InsertVote(w)
  <2>1. PICK l, x :
          /\ Statement(w, "last_hash", l, x) /\ pc[w] = "insert_vote"
          /\ Notes(l, "approval_cast", req[w].dec, AfterVote(req[w].arg))
          /\ AgreeBut("votes", x, staged[w])
    BY <1>3, InsertVoteDoes
  <2>2. Owns("last_hash", req[w], l, x)
    BY <1>0, <2>1 DEF Owns
  <2> QED BY <2>1, <2>2, StatementNumbered
<1>4. CASE InsertVeto(w)
  <2>1. PICK l, x :
          /\ Statement(w, "finalize_select", l, x) /\ pc[w] = "insert_veto"
          /\ x.vetoes = {[id |-> req[w].id, dec |-> req[w].dec, by |-> req[w].user,
                          role |-> read[w].role, status |-> "active", over |-> None]}
          /\ AgreeBut("vetoes", x, staged[w])
    BY <1>4, InsertVetoDoes
  <2>2. Owns("finalize_select", req[w], l, x)
    BY <1>0, <2>1 DEF Owns
  <2> QED BY <2>1, <2>2, StatementNumbered
<1>5. CASE ReselectVeto(w)
  <2>1. PICK v, s, l : /\ ReadThen(w, s, l) /\ pc[w] = "reselect_veto"
                       /\ s \in {"last_hash", "update_veto"}
                       /\ Notes(l, "veto_overridden", v.dec, "commit")
    BY <1>5, ReselectVetoDoes
  <2>2. Owns(s, req[w], l, staged[w])
    BY <1>0, <2>1 DEF Owns
  <2> QED BY <2>1, <2>2, StatementNumbered DEF ReadThen
<1>6. CASE UpdateVeto(w)
  <2>1. PICK x : /\ Statement(w, "last_hash", read[w], x) /\ pc[w] = "update_veto"
                 /\ AgreeBut("override", x, staged[w])
    BY <1>6, UpdateVetoDoes
  <2>2. Owns("last_hash", req[w], read[w], x)
    BY <1>0, <2>1 DEF Owns
  <2> QED BY <2>1, <2>2, StatementNumbered
<1>7. CASE InsertAssignment(w)
  <2>1. CASE Rollback(w)
    BY <1>7, <2>1, RollbackNumbered DEF InsertAssignment
  <2>2. CASE ~Rollback(w)
    <3>1. PICK l, x : /\ Statement(w, "last_hash", l, x) /\ pc[w] = "insert_assignment"
                      /\ Notes(l, "role_assigned", req[w].id, "commit")
                      /\ x.assigned = {[id |-> req[w].id, user |-> req[w].user,
                                        domain |-> req[w].domain, role |-> req[w].arg]}
                      /\ AgreeBut("assigned", x, staged[w])
      BY <1>7, <2>2, InsertAssignmentDoes
    <3>2. Owns("last_hash", req[w], l, x)
      BY <1>0, <3>1 DEF Owns
    <3> QED BY <3>1, <3>2, StatementNumbered
  <2> QED BY <2>1, <2>2
<1>8. CASE ReselectAssignment(w)
  <2>1. PICK s, l : /\ ReadThen(w, s, l) /\ pc[w] = "reselect_assignment"
                    /\ s \in {"last_hash", "delete_assignment"}
                    /\ Notes(l, "role_revoked", req[w].ref, "commit")
    BY <1>8, ReselectAssignmentDoes
  <2>2. Owns(s, req[w], l, staged[w])
    BY <1>0, <2>1 DEF Owns
  <2> QED BY <2>1, <2>2, StatementNumbered DEF ReadThen
<1>9. CASE DeleteAssignment(w)
  <2>1. PICK x : /\ Statement(w, "last_hash", read[w], x) /\ pc[w] = "delete_assignment"
                 /\ AgreeBut("revoked", x, staged[w])
    BY <1>9, DeleteAssignmentDoes
  <2>2. Owns("last_hash", req[w], read[w], x)
    BY <1>0, <2>1 DEF Owns
  <2> QED BY <2>1, <2>2, StatementNumbered
<1>10. CASE ReadLastHash(w)
  <2>1. PICK l : /\ ReadThen(w, "insert_event", l) /\ pc[w] = "last_hash"
                 /\ Notes(l, read[w].event, read[w].entity, read[w].then)
    BY <1>10, ReadLastHashDoes
  <2>2. Owns("insert_event", req[w], l, staged[w])
    BY <1>0, <2>1 DEF Owns
  <2> QED BY <2>1, <2>2, StatementNumbered DEF ReadThen
<1>11. CASE InsertEvent(w)
  <2>1. PICK s, l, x, e :
           /\ s \in {"last_hash", read[w].then}
           /\ Inserts(w, s, l, x) /\ pc[w] = "insert_event"
           /\ read[w].then \in {"commit", "finalize_select", "list_required"}
           /\ Notes(l, read[w].event, read[w].entity, read[w].then)
           /\ x.events = staged[w].events \cup {e} /\ AgreeBut("events", x, staged[w])
           /\ e.type = read[w].event /\ e.entity = read[w].entity
    BY <1>11, InsertEventDoes
  <2>2. Owns(s, req[w], l, x)
    BY <1>0, <2>1 DEF Owns
  <2> QED BY <2>1, <2>2, SessionNumbered DEF Inserts
<1>12. CASE Commit(w)
  BY <1>12, CommitNumbered
<1>13. CASE \E s, l : Reads(w, s, l)
  <2>1. PICK s, l : Reads(w, s, l)
    BY <1>13
  <2>2. Owns(s, req[w], l, staged[w]) /\ pc[w] # "idle" /\ s # "idle"
    BY <1>0, <2>1 DEF Owns, Reads
  <2> QED BY <2>1, <2>2, StatementNumbered DEF Reads, ReadThen
<1>14. ASSUME Rollback(w), pc[w] # "idle" PROVE IdInv'
  BY <1>14, RollbackNumbered
<1>15. pc[w] # "idle"
  BY AdvanceOpen
<1> QED BY <1>1, <1>2, <1>3, <1>4, <1>5, <1>6, <1>7, <1>8, <1>9, <1>10, <1>11, <1>12, <1>13,
           <1>14, <1>15, OthersRead
        DEF Advance, DecisionStep, ApprovalStep, VetoStep, RoleStep

(* The next id is larger than any in use. *)
LEMMA ArriveNumbered ==
  ASSUME TypeInv, AuditInv, IdInv, NEW w \in Workers, Arrive(w)
  PROVE  IdInv'
<1> USE SessionTyped
<1>0. Len(Seed) \in Nat /\ nextId \in Nat /\ nextId > Len(Seed)
  BY SeedAssumption DEF TypeInv, TypeOK, IdInv
<1>1. PICK r, s : /\ s \in FirstSteps /\ Begin(w, r, s) /\ r.id = nextId
                  /\ r.ref = 0 \/ (\E v \in vetoes : v.id = r.ref) \/ (\E a \in raci : a.id = r.ref)
  BY ArriveDoes
<1>2. /\ pc[w] = "idle" /\ staged[w] = NothingStaged
      /\ s # "idle" /\ s \notin Recorders
  BY <1>1 DEF Begin, AuditInv, Debts, Unwritten, FirstSteps, Recorders, RecordingSteps
<1>3. /\ UNCHANGED <<raci, vetoes, audit, read, staged>> /\ nextId' = nextId + 1
      /\ pc'[w] = s /\ req'[w] = r
      /\ \A v \in Workers : v # w => pc'[v] = pc[v] /\ req'[v] = req[v]
  BY <1>1 DEF Begin, TypeInv, TypeOK, tables
<1>4. r.ref \in Nat /\ r.ref < nextId
  BY <1>0, <1>1 DEF IdInv, TypeInv, TypeOK, Veto, Assignment
<1>5. \A i : Named(i) => i < nextId
  BY DEF IdInv, Named
<1>6. \A i : Named(i)' => Named(i) \/ i = r.ref
  BY <1>3 DEF Named
<1>7. ASSUME NEW v \in Workers, v # w, pc[v] # "idle" PROVE req[v].id # r.ref
  <2>1. ~Named(req[v].id) /\ Len(Seed) < req[v].id
    BY <1>7 DEF IdInv
  <2> QED BY <1>0, <1>1, <2>1 DEF Named
<1>8. \A i : i = nextId => ~Named(i)'
  BY <1>0, <1>4, <1>5, <1>6
<1>9. ASSUME NEW v \in Workers, pc'[v] # "idle"
      PROVE  /\ Len(Seed) < req'[v].id /\ req'[v].id < nextId'
             /\ ~Named(req[v].id)' /\ req'[v].ref < nextId'
  <2>1. CASE v = w
    BY <1>0, <1>1, <1>3, <1>4, <1>8, <2>1
  <2>2. CASE v # w
    <3>1. /\ Len(Seed) < req[v].id /\ req[v].id < nextId /\ ~Named(req[v].id)
          /\ req[v].ref < nextId /\ req[v].id \in Nat /\ req[v].ref \in Nat
      BY <1>3, <1>9, <2>2 DEF IdInv, Request
    <3> QED BY <1>0, <1>3, <1>6, <1>7, <1>9, <2>2, <3>1
  <2> QED BY <2>1, <2>2
<1>10. ASSUME NEW u \in Workers, NEW v \in Workers, pc'[u] # "idle", pc'[v] # "idle",
              req'[u].id = req'[v].id
       PROVE  u = v
  <2>1. ASSUME NEW k \in Workers, k # w, pc[k] # "idle" PROVE req[k].id # nextId
    BY <1>0, <2>1 DEF IdInv, Request
  <2> QED BY <1>1, <1>3, <1>10, <2>1 DEF IdInv
<1>11. ASSUME NEW v \in Workers PROVE Owns(pc[v], req[v], read[v], staged[v])'
  <2>1. CASE v = w
    <3>1. Owns(s, r, read[w], NothingStaged)
      BY <1>2 DEF Owns, NothingStaged
    <3> QED BY <1>2, <1>3, <2>1, <3>1
  <2>2. CASE v # w
    BY <1>3, <2>2 DEF IdInv, Owns
  <2> QED BY <2>1, <2>2
<1>12. /\ \A a \in raci' : a.id < nextId'
       /\ \A v \in vetoes' : v.id < nextId'
       /\ \A e \in audit' : e.type = "role_revoked" => e.entity \in Nat /\ e.entity < nextId'
       /\ \A u, v \in vetoes' : u.id = v.id => u = v
  BY <1>0, <1>3 DEF IdInv, TypeInv, TypeOK, Assignment, Veto
<1>13. Len(Seed) < nextId'
  BY <1>0, <1>3
<1> QED BY <1>9, <1>10, <1>11, <1>12, <1>13 DEF IdInv

LEMMA InitNumbered == Init => IdInv
<1> SUFFICES ASSUME Init PROVE IdInv
  OBVIOUS
<1>1. Len(Seed) \in Nat
  BY SeedAssumption
<1>2. \A w \in Workers : Owns(pc[w], req[w], read[w], staged[w])
  BY DEF Init, Owns, NothingStaged, Recorders, RecordingSteps
<1>3. \A a \in raci : a.id < nextId
  BY <1>1 DEF Init, SeedRows
<1>4. \A e \in audit : e.type # "role_revoked"
  BY DEF Init, SeedEvents
<1> QED BY <1>1, <1>2, <1>3, <1>4 DEF Init, IdInv

LEMMA NextNumbered == TypeInv /\ AuditInv /\ IdInv /\ [Next]_vars => IdInv'
<1> SUFFICES ASSUME TypeInv, AuditInv, IdInv, [Next]_vars PROVE IdInv'
  OBVIOUS
<1>1. ASSUME NEW w \in Workers, Arrive(w) PROVE IdInv'
  BY <1>1, ArriveNumbered
<1>2. ASSUME NEW w \in Workers, Advance(w) PROVE IdInv'
  BY <1>2, AdvanceNumbered
<1>3. ASSUME NEW w \in Workers, Fail(w) PROVE IdInv'
  BY <1>3, RollbackNumbered DEF Fail
<1>4. CASE UNCHANGED vars
  BY <1>4 DEF vars, tables, counters, session, IdInv, Named, Owns
<1> QED BY <1>1, <1>2, <1>3, <1>4 DEF Next, Drained

(* The id of a request is its own, and names nothing that is committed.    *)
THEOREM Numbering == Spec => []IdInv
<1>1. Init => IdInv
  BY InitNumbered
<1>2. TypeInv /\ AuditInv /\ IdInv /\ [Next]_vars => IdInv'
  BY NextNumbered
<1> QED BY <1>1, <1>2, Typing, Auditing, PTL DEF Spec

-----------------------------------------------------------------------------
(***************************************************************************)
(* The converse of the debts: what is recorded, or will be, is staged.     *)
(***************************************************************************)

(* The writes x hold the vote, the REJECT vote, the veto of request r. *)
Casts(r, x) ==
  r.op = "vote" /\ \E v \in x.votes : v.dec = r.dec /\ v.voter = r.user

Rejects(r, x) ==
  r.op = "vote" /\ \E v \in x.votes : v.dec = r.dec /\ v.voter = r.user /\ v.vote = "reject"

Vetoes(r, x) ==
  r.op = "veto" /\ \E v \in x.vetoes : v.dec = r.dec /\ v.by = r.user

(* A veto of decision d is overridden, or is the one that r overrides. *)
Falls(d, r, now) ==
  \E v \in vetoes : v.dec = d /\ (v.status = "overridden" \/ (now /\ v.id = r.ref))

Backs(p, r, l, x) ==
  /\ p \in Recorders =>
       /\ l.event = "approval_cast" => Casts(r, x) /\ l.entity = r.dec
       /\ l.event = "decision_rejected" => Rejects(r, x) /\ l.entity = r.dec
       /\ l.event = "veto_exercised" => Vetoes(r, x) /\ l.entity = r.dec
       /\ l.event = "veto_overridden" =>
            Falls(l.entity, r, p = "update_veto" \/ x.override # None)
       /\ l.then = "finalize_select" => l.target = "rejected" /\ Rejects(r, x)
  /\ p = "update_veto" => l.event = "veto_overridden"
  /\ p \in FinalizingSteps =>
       /\ l.target = "rejected" => Rejects(r, x)
       /\ l.target = "vetoed" => Vetoes(r, x)
  /\ \A v \in x.vetoes : v.over = None
  /\ \A e \in x.events :
       /\ e.type = "approval_cast" =>
            \E v \in x.votes : v.dec = e.entity /\ v.voter = e.actor
       /\ e.type = "decision_rejected" =>
            \E v \in x.votes : v.dec = e.entity /\ v.voter = e.actor /\ v.vote = "reject"
       /\ e.type = "veto_exercised" =>
            \E v \in x.vetoes : v.dec = e.entity /\ v.by = e.actor
       /\ e.type = "veto_overridden" => Falls(e.entity, r, x.override # None)

BackedInv ==
  /\ \A w \in Workers : Backs(pc[w], req[w], read[w], staged[w])
  /\ \A v \in vetoes : v.over # None => v.status = "overridden"
  /\ EventsBacked
-----------------------------------------------------------------------------
LEMMA StatementBacked ==
  ASSUME TypeInv, BackedInv, NEW w \in Workers, NEW s, NEW l, NEW x,
         /\ pc' = [pc EXCEPT ![w] = s]
         /\ read' = [read EXCEPT ![w] = l]
         /\ staged' = [staged EXCEPT ![w] = x]
         /\ UNCHANGED <<tables, req>>,
         Backs(s, req[w], l, x)
  PROVE  BackedInv'
<1>1. UNCHANGED <<votes, vetoes, audit, req>>
  BY DEF tables
<1>2. ASSUME NEW v \in Workers PROVE Backs(pc[v], req[v], read[v], staged[v])'
  <2>1. CASE v = w
    BY <1>1, <2>1 DEF TypeInv, TypeOK, Backs, Casts, Rejects, Vetoes, Falls
  <2>2. CASE v # w
    BY <1>1, <2>2 DEF BackedInv, TypeInv, TypeOK, Backs, Casts, Rejects, Vetoes, Falls
  <2> QED BY <2>1, <2>2
<1>3. EventsBacked' /\ (\A v \in vetoes : v.over # None => v.status = "overridden")'
  BY <1>1 DEF BackedInv, EventsBacked
<1> QED BY <1>2, <1>3 DEF BackedInv

(* A veto that falls has fallen for good: a commit keeps the rows. *)
LEMMA FallsStays ==
  ASSUME \A v \in vetoes : \E u \in vetoes' :
           /\ u.id = v.id /\ u.dec = v.dec
           /\ v.status = "overridden" => u.status = "overridden",
         NEW d, NEW r, NEW now, Falls(d, r, now)
  PROVE  Falls(d, r, now)'
BY DEF Falls

LEMMA EndBacked ==
  ASSUME TypeInv, BackedInv, NEW w \in Workers, EndSession(w), EventsBacked',
         \A v \in vetoes : \E u \in vetoes' :
           /\ u.id = v.id /\ u.dec = v.dec
           /\ v.status = "overridden" => u.status = "overridden",
         \A v \in vetoes' : v.over # None => v.status = "overridden"
  PROVE  BackedInv'
<1>1. ASSUME NEW v \in Workers PROVE Backs(pc[v], req[v], read[v], staged[v])'
  <2>1. CASE v = w
    BY <2>1 DEF TypeInv, TypeOK, EndSession, Backs, NothingStaged, Recorders,
                RecordingSteps, FinalizingSteps
  <2>2. CASE v # w
    <3>1. /\ pc'[v] = pc[v] /\ req'[v] = req[v]
          /\ read'[v] = read[v] /\ staged'[v] = staged[v]
      BY <2>2 DEF EndSession, TypeInv, TypeOK
    <3>2. Backs(pc[v], req[v], read[v], staged[v])
      BY DEF BackedInv
    <3> QED BY <3>1, <3>2, FallsStays DEF Backs, Casts, Rejects, Vetoes
  <2> QED BY <2>1, <2>2
<1> QED BY <1>1 DEF BackedInv

LEMMA RollbackBacked ==
  ASSUME TypeInv, BackedInv, NEW w \in Workers, Rollback(w)
  PROVE  BackedInv'
<1>1. UNCHANGED <<votes, vetoes, audit>>
  BY DEF Rollback, tables
<1>2. EventsBacked'
  BY <1>1 DEF BackedInv, EventsBacked
<1> QED BY <1>1, <1>2, EndBacked DEF Rollback, BackedInv

LEMMA CommitBacked ==
  ASSUME TypeInv, BackedInv, NEW w \in Workers, Commit(w)
  PROVE  BackedInv'
<1>1. Backs(pc[w], req[w], read[w], staged[w])
  BY DEF BackedInv
<1>2. ASSUME NEW v \in vetoes
      PROVE  /\ Overridden(w, v) \in vetoes'
             /\ Overridden(w, v).id = v.id /\ Overridden(w, v).dec = v.dec
             /\ Overridden(w, v).by = v.by
             /\ v.status = "overridden" => Overridden(w, v).status = "overridden"
             /\ staged[w].override # None /\ v.id = req[w].ref
                  => Overridden(w, v).status = "overridden"
             /\ Overridden(w, v).over # None => Overridden(w, v).status = "overridden"
  BY DEF Commit, Overridden, BackedInv, TypeInv, TypeOK, Veto
<1>3. /\ \A v \in votes : v \in votes'
      /\ \A v \in staged[w].votes : v \in votes'
      /\ \A v \in staged[w].vetoes : v \in vetoes'
  BY DEF Commit
<1>4. \A v \in vetoes' : v.over # None => v.status = "overridden"
  BY <1>1, <1>2 DEF Commit, Backs
<1>5. ASSUME NEW e \in audit'
      PROVE  /\ e.type = "approval_cast" =>
                  \E v \in votes' : v.dec = e.entity /\ v.voter = e.actor
             /\ e.type = "decision_rejected" =>
                  \E v \in votes' : v.dec = e.entity /\ v.voter = e.actor /\ v.vote = "reject"
             /\ e.type = "veto_exercised" =>
                  \E v \in vetoes' : v.dec = e.entity /\ v.by = e.actor
             /\ e.type = "veto_overridden" =>
                  \E v \in vetoes' : v.dec = e.entity /\ v.status = "overridden"
  <2>1. CASE e \in audit
    BY <1>2, <1>3, <2>1 DEF BackedInv, EventsBacked
  <2>2. CASE e \in staged[w].events
    BY <1>1, <1>2, <1>3, <2>2 DEF Backs, Falls
  <2> QED BY <2>1, <2>2 DEF Commit
<1>6. EventsBacked'
  BY <1>5 DEF EventsBacked
<1> QED BY <1>2, <1>4, <1>6, EndBacked DEF Commit

(* Every statement of a handler stages what the event to come reports.     *)
LEMMA AdvanceBacked ==
  ASSUME TypeInv, AuditInv, IdInv, BackedInv, NEW w \in Workers, Advance(w)
  PROVE  BackedInv'
<1> USE DEF Notes, AgreeBut, RecordingSteps, FinalizingSteps, Recorders, Statement
<1>0. /\ Backs(pc[w], req[w], read[w], staged[w])
      /\ pc[w] \in {"insert_vote", "insert_veto"} => staged[w] = NothingStaged
  BY DEF BackedInv, AuditInv, Debts, Unwritten
<1>1. CASE InsertDecision(w)
  <2>1. PICK l, x : /\ Statement(w, "last_hash", l, x) /\ pc[w] = "insert_decision"
                    /\ Notes(l, "decision_created", req[w].dec, "commit")
                    /\ AgreeBut("status", x, staged[w])
    BY <1>1, InsertDecisionDoes
  <2>2. Backs("last_hash", req[w], l, x)
    BY <1>0, <2>1 DEF Backs, Casts, Rejects, Vetoes, Falls
  <2> QED BY <2>1, <2>2, StatementBacked
<1>2. CASE UpdateDecision(w)
  <2>1. PICK l, x : /\ Statement(w, "last_hash", l, x) /\ pc[w] = "update_decision"
                    /\ Notes(l, EventOf(read[w].target), req[w].dec, "commit")
                    /\ read[w].target \in FinalStatus \cup {"awaiting_approval"}
                    /\ AgreeBut("status", x, staged[w])
    BY <1>2, UpdateDecisionDoes
  <2>2. /\ l.event = "decision_rejected" => read[w].target = "rejected"
        /\ l.event = "veto_exercised" => read[w].target = "vetoed"
        /\ l.event \notin {"approval_cast", "veto_overridden"}
    BY <2>1 DEF EventOf, FinalStatus
  <2>3. Backs("last_hash", req[w], l, x)
    BY <1>0, <2>1, <2>2 DEF Backs, Casts, Rejects, Vetoes, Falls
  <2> QED BY <2>1, <2>3, StatementBacked
<1>3. CASE InsertVote(w)
  <2>1. PICK l, x :
          /\ Statement(w, "last_hash", l, x) /\ pc[w] = "insert_vote" /\ req[w].op = "vote"
          /\ req[w].arg \in VoteValue
          /\ Notes(l, "approval_cast", req[w].dec, AfterVote(req[w].arg))
          /\ l.target = IF req[w].arg = "reject" THEN "rejected" ELSE read[w].target
          /\ x.votes = {[id |-> req[w].id, dec |-> req[w].dec, voter |-> req[w].user,
                         role |-> read[w].role, vote |-> req[w].arg]}
          /\ AgreeBut("votes", x, staged[w])
    BY <1>3, InsertVoteDoes
  <2>2. AfterVote(req[w].arg) = "finalize_select" => req[w].arg = "reject"
    BY <2>1 DEF AfterVote, VoteValue
  <2>3. Casts(req[w], x) /\ (req[w].arg = "reject" => Rejects(req[w], x))
    BY <2>1 DEF Casts, Rejects
  <2>4. Backs("last_hash", req[w], l, x)
    BY <1>0, <2>1, <2>2, <2>3 DEF Backs, NothingStaged
  <2> QED BY <2>1, <2>4, StatementBacked
<1>4. CASE InsertVeto(w)
  <2>1. PICK l, x :
          /\ Statement(w, "finalize_select", l, x) /\ pc[w] = "insert_veto"
          /\ req[w].op = "veto" /\ l.target = "vetoed"
          /\ x.vetoes = {[id |-> req[w].id, dec |-> req[w].dec, by |-> req[w].user,
                          role |-> read[w].role, status |-> "active", over |-> None]}
          /\ AgreeBut("vetoes", x, staged[w])
    BY <1>4, InsertVetoDoes
  <2>2. Vetoes(req[w], x) /\ \A v \in x.vetoes : v.over = None
    BY <2>1 DEF Vetoes
  <2>3. Backs("finalize_select", req[w], l, x)
    BY <1>0, <2>1, <2>2 DEF Backs, NothingStaged
  <2> QED BY <2>1, <2>3, StatementBacked
<1>5. CASE ReselectVeto(w)
  <2>1. PICK v \in vetoes, s \in {"last_hash", "update_veto"} : \E l :
          /\ ReadThen(w, s, l) /\ pc[w] = "reselect_veto" /\ v.id = req[w].ref
          /\ Notes(l, "veto_overridden", v.dec, "commit")
          /\ s = "last_hash" => \E u \in vetoes : u.id = req[w].ref /\ u.over = req[w].user
    BY <1>5, ReselectVetoDoes
  <2>2. PICK l : /\ ReadThen(w, s, l) /\ pc[w] = "reselect_veto" /\ v.id = req[w].ref
                 /\ Notes(l, "veto_overridden", v.dec, "commit")
                 /\ s = "last_hash" =>
                      \E u \in vetoes : u.id = req[w].ref /\ u.over = req[w].user
    BY <2>1
  <2>3. req[w].user # None
    BY <2>2, SessionTyped, NoneAssumption DEF Shape, Serving, Complete
  <2>4. Falls(v.dec, req[w], s = "update_veto" \/ staged[w].override # None)
    BY <2>2, <2>3 DEF Falls, IdInv, BackedInv
  <2>5. Backs(s, req[w], l, staged[w])
    BY <1>0, <2>2, <2>4 DEF Backs
  <2> QED BY <2>2, <2>5, StatementBacked DEF ReadThen
<1>6. CASE UpdateVeto(w)
  <2>1. PICK x : /\ Statement(w, "last_hash", read[w], x) /\ pc[w] = "update_veto"
                 /\ req[w].user \in Users
                 /\ x.override = req[w].user /\ AgreeBut("override", x, staged[w])
    BY <1>6, UpdateVetoDoes
  <2>2. x.override # None
    BY <2>1, NoneAssumption
  <2>3. Backs("last_hash", req[w], read[w], x)
    BY <1>0, <2>1, <2>2 DEF Backs, Casts, Rejects, Vetoes, Falls
  <2> QED BY <2>1, <2>3, StatementBacked
<1>7. CASE InsertAssignment(w)
  <2>1. CASE Rollback(w)
    BY <2>1, RollbackBacked
  <2>2. CASE ~Rollback(w)
    <3>1. PICK l, x : /\ Statement(w, "last_hash", l, x) /\ pc[w] = "insert_assignment"
                      /\ Notes(l, "role_assigned", req[w].id, "commit")
                      /\ AgreeBut("assigned", x, staged[w])
      BY <1>7, <2>2, InsertAssignmentDoes
    <3>2. Backs("last_hash", req[w], l, x)
      BY <1>0, <3>1 DEF Backs, Casts, Rejects, Vetoes, Falls
    <3> QED BY <3>1, <3>2, StatementBacked
  <2> QED BY <2>1, <2>2
<1>8. CASE ReselectAssignment(w)
  <2>1. PICK s, l : /\ ReadThen(w, s, l) /\ pc[w] = "reselect_assignment"
                    /\ s \in {"last_hash", "delete_assignment"}
                    /\ Notes(l, "role_revoked", req[w].ref, "commit")
    BY <1>8, ReselectAssignmentDoes
  <2>2. Backs(s, req[w], l, staged[w])
    BY <1>0, <2>1 DEF Backs
  <2> QED BY <2>1, <2>2, StatementBacked DEF ReadThen
<1>9. CASE DeleteAssignment(w)
  <2>1. PICK x : /\ Statement(w, "last_hash", read[w], x) /\ pc[w] = "delete_assignment"
                 /\ AgreeBut("revoked", x, staged[w])
    BY <1>9, DeleteAssignmentDoes
  <2>2. Backs("last_hash", req[w], read[w], x)
    BY <1>0, <2>1 DEF Backs, Casts, Rejects, Vetoes, Falls
  <2> QED BY <2>1, <2>2, StatementBacked
<1>10. CASE ReadLastHash(w)
  <2>1. PICK l : /\ ReadThen(w, "insert_event", l) /\ pc[w] = "last_hash"
                 /\ Notes(l, read[w].event, read[w].entity, read[w].then)
                 /\ l.target = read[w].target
    BY <1>10, ReadLastHashDoes
  <2>2. Backs("insert_event", req[w], l, staged[w])
    BY <1>0, <2>1 DEF Backs
  <2> QED BY <2>1, <2>2, StatementBacked DEF ReadThen
<1>11. CASE InsertEvent(w)
  <2>1. PICK s, l, x, e :
           /\ s \in {"last_hash", read[w].then}
           /\ Inserts(w, s, l, x) /\ pc[w] = "insert_event"
           /\ read[w].then \in {"commit", "finalize_select", "list_required"}
           /\ Notes(l, read[w].event, read[w].entity, read[w].then)
           /\ l.target = read[w].target
           /\ x.events = staged[w].events \cup {e} /\ AgreeBut("events", x, staged[w])
           /\ e.type = read[w].event /\ e.entity = read[w].entity
           /\ req[w].op \in {"vote", "veto", "override"} /\ e.type # "decision_approved"
                => e.actor = req[w].user
    BY <1>11, InsertEventDoes
  <2>2. /\ e.type = "approval_cast" =>
             \E v \in x.votes : v.dec = e.entity /\ v.voter = e.actor
        /\ e.type = "decision_rejected" =>
             \E v \in x.votes : v.dec = e.entity /\ v.voter = e.actor /\ v.vote = "reject"
        /\ e.type = "veto_exercised" =>
             \E v \in x.vetoes : v.dec = e.entity /\ v.by = e.actor
        /\ e.type = "veto_overridden" => Falls(e.entity, req[w], x.override # None)
    BY <1>0, <2>1 DEF Backs, Casts, Rejects, Vetoes
  <2>3. Backs(s, req[w], l, x)
    BY <1>0, <2>1, <2>2 DEF Backs, Casts, Rejects, Vetoes
  <2> QED BY <2>1, <2>3, StatementBacked DEF Inserts
<1>12. CASE Commit(w)
  BY <1>12, CommitBacked
<1>13. CASE \E s, l : Reads(w, s, l)
  <2>1. PICK s, l : Reads(w, s, l)
    BY <1>13
  <2>2. Backs(s, req[w], l, staged[w])
    BY <1>0, <2>1 DEF Backs, Reads, Finds
  <2> QED BY <2>1, <2>2, StatementBacked DEF Reads, ReadThen
<1> QED BY <1>1, <1>2, <1>3, <1>4, <1>5, <1>6, <1>7, <1>8, <1>9, <1>10, <1>11, <1>12, <1>13,
           RollbackBacked, OthersRead
        DEF Advance, DecisionStep, ApprovalStep, VetoStep, RoleStep

LEMMA ArriveBacked ==
  ASSUME TypeInv, AuditInv, BackedInv, NEW w \in Workers, Arrive(w)
  PROVE  BackedInv'
<1>1. PICK r, s : s \in FirstSteps /\ Begin(w, r, s)
  BY ArriveDoes
<1>2. staged[w] = NothingStaged
  BY <1>1 DEF Begin, AuditInv, Debts, Unwritten
<1>3. UNCHANGED <<votes, vetoes, audit, read, staged>>
  BY <1>1 DEF Begin, tables
<1>4. ASSUME NEW v \in Workers PROVE Backs(pc[v], req[v], read[v], staged[v])'
  <2>1. CASE v = w
    BY <1>1, <1>2, <1>3, <2>1 DEF Begin, TypeInv, TypeOK, Backs, NothingStaged, FirstSteps,
                                  Recorders, RecordingSteps, FinalizingSteps
  <2>2. CASE v # w
    BY <1>1, <1>3, <2>2 DEF Begin, BackedInv, TypeInv, TypeOK, Backs, Casts, Rejects, Vetoes,
                            Falls
  <2> QED BY <2>1, <2>2
<1>5. EventsBacked'
  BY <1>3 DEF BackedInv, EventsBacked
<1> QED BY <1>3, <1>4, <1>5 DEF BackedInv

LEMMA InitBacked == Init => BackedInv
<1> SUFFICES ASSUME Init PROVE BackedInv
  OBVIOUS
<1>1. ASSUME NEW w \in Workers PROVE Backs(pc[w], req[w], read[w], staged[w])
  BY DEF Init, Backs, NothingStaged, Recorders, RecordingSteps, FinalizingSteps
<1>2. EventsBacked
  BY DEF Init, SeedEvents, EventsBacked
<1> QED BY <1>1, <1>2 DEF Init, BackedInv

LEMMA NextBacked == TypeInv /\ AuditInv /\ IdInv /\ BackedInv /\ [Next]_vars => BackedInv'
<1> SUFFICES ASSUME TypeInv, AuditInv, IdInv, BackedInv, [Next]_vars PROVE BackedInv'
  OBVIOUS
<1>1. ASSUME NEW w \in Workers, Arrive(w) PROVE BackedInv'
  BY <1>1, ArriveBacked
<1>2. ASSUME NEW w \in Workers, Advance(w) PROVE BackedInv'
  BY <1>2, AdvanceBacked
<1>3. ASSUME NEW w \in Workers, Fail(w) PROVE BackedInv'
  BY <1>3, RollbackBacked DEF Fail
<1>4. CASE UNCHANGED vars
  BY <1>4 DEF vars, tables, counters, session, BackedInv, EventsBacked, Backs, Casts, Rejects,
              Vetoes, Falls
<1> QED BY <1>1, <1>2, <1>3, <1>4 DEF Next, Drained

(* What the trail says was done is in the tables: for every vote, reject,  *)
(* veto and override on record there is the row it was recorded with       *)
(* (cast_vote, exercise_veto, override_veto).                              *)
THEOREM TrailIsBacked == Spec => []EventsBacked
<1>1. Init => BackedInv
  BY InitBacked
<1>2. TypeInv /\ AuditInv /\ IdInv /\ BackedInv /\ [Next]_vars => BackedInv'
  BY NextBacked
<1>3. BackedInv => EventsBacked
  BY DEF BackedInv
<1> QED BY <1>1, <1>2, <1>3, Typing, Auditing, Numbering, PTL DEF Spec
=============================================================================
