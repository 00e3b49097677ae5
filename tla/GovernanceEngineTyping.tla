----------------------- MODULE GovernanceEngineTyping -----------------------
(***************************************************************************)
(* The engine's state is well typed, for any number of workers, users,     *)
(* domains, decisions, seeded roles and requests.                          *)
(*                                                                         *)
(* TypeOK is not inductive: that the row a statement inserts is a row      *)
(* depends on the request being of the kind that has this statement, and   *)
(* on what the handler read before.  Shape says so, for one worker's step, *)
(* request, locals and writes; nothing of it relates two workers.          *)
(***************************************************************************)
EXTENDS GovernanceEngine, TLAPS

(* Which request a worker at step p can be serving. *)
Serving(p, r) ==
  /\ p = "idle" <=> r.op = "none"
  /\ p = "insert_decision" => r.op = "create"
  /\ p = "submit_select" => r.op = "submit"
  /\ p = "finalize_select" => r.op \in {"vote", "veto"}
  /\ p \in {"reselect_decision", "update_decision"} => r.op \in {"submit", "vote", "veto"}
  /\ p \in {"vote_select_decision", "vote_select_assignment", "vote_select_vote",
            "insert_vote", "list_required", "list_approvals"} => r.op = "vote"
  /\ p \in {"veto_select_decision", "veto_select_assignment", "insert_veto"}
       => r.op = "veto"
  /\ p \in {"override_select_veto", "override_select_assignment",
            "reselect_veto", "update_veto"} => r.op = "override"
  /\ p \in {"assign_select", "insert_assignment"} => r.op = "assign"
  /\ p \in {"revoke_select", "reselect_assignment", "delete_assignment"}
       => r.op = "revoke"

(* The arguments each kind of request has. *)
Complete(r) ==
  /\ r.op \in {"create", "submit", "vote", "veto"} => r.dec \in Decisions
  /\ r.op \in {"vote", "veto", "override", "assign"} => r.user \in Users
  /\ r.op = "vote" => r.arg \in VoteValue
  /\ r.op = "assign" => r.domain \in Domains /\ r.arg \in RACIRole

(* What the handler has read by step p. *)
Fetched(p, r, l) ==
  /\ p \in {"vote_select_vote", "insert_vote", "insert_veto"} => l.role \in RACIRole
  /\ p = "finalize_select" => l.target \in FinalStatus
  /\ p \in {"reselect_decision", "update_decision"} =>
       l.target \in FinalStatus \cup {"awaiting_approval"}
  /\ p \in {"update_veto", "delete_assignment", "last_hash", "insert_event"} =>
       /\ l.event \in EventType
       /\ l.due \in 1..2
       /\ l.then \in {"commit", "finalize_select", "list_required"}
       /\ l.then # "commit" => r.op = "vote"
       /\ l.then = "finalize_select" => l.target \in FinalStatus

(* Only these requests write a decision. *)
Writes(r, x) == x.status # None => r.op \in {"create", "submit", "vote", "veto"}

Shape(p, r, l, x) ==
  /\ Serving(p, r)
  /\ Complete(r)
  /\ Fetched(p, r, l)
  /\ Writes(r, x)

TypeInv ==
  /\ TypeOK
  /\ \A w \in Workers : Shape(pc[w], req[w], read[w], staged[w])
-----------------------------------------------------------------------------
(* The hash get_last_hash returns is a hash: that of a row, or genesis. *)
LEMMA LastHashType ==
  ASSUME NEW rows, \A e \in rows : e.at \in Nat
  PROVE  LastHash(rows) \in Nat
BY DEF LastHash, GENESIS_HASH

(* A session that ended, and one that has not begun, are well typed. *)
LEMMA EmptySession ==
  /\ NoRequest \in Request
  /\ NothingRead \in Local
  /\ NothingStaged \in Staged
  /\ Shape("idle", NoRequest, NothingRead, NothingStaged)
BY NoneAssumption
   DEF NoRequest, NothingRead, NothingStaged, Request, Local, Staged, Shape,
       Serving, Complete, Fetched, Writes, Ops, Step

(* One statement of a handler keeps the types when the locals and the      *)
(* writes it leaves behind fit the step it goes to.                        *)
LEMMA StatementTyped ==
  ASSUME TypeInv, NEW w \in Workers, NEW s \in Step, NEW l \in Local, NEW x \in Staged,
         Statement(w, s, l, x), Shape(s, req[w], l, x)
  PROVE  TypeInv'
<1>1. TypeOK'
  BY DEF TypeInv, TypeOK, Statement, tables, counters
<1>2. ASSUME NEW v \in Workers PROVE Shape(pc[v], req[v], read[v], staged[v])'
  BY <1>2 DEF TypeInv, TypeOK, Statement, Shape, Serving, Complete, Fetched, Writes
<1> QED BY <1>1, <1>2 DEF TypeInv

LEMMA ReadThenTyped ==
  ASSUME TypeInv, NEW w \in Workers, NEW s \in Step, NEW l \in Local,
         ReadThen(w, s, l), Shape(s, req[w], l, staged[w])
  PROVE  TypeInv'
BY StatementTyped DEF ReadThen, TypeInv, TypeOK

(* A handler that ends leaves an empty session. *)
LEMMA EndTyped ==
  ASSUME TypeInv, NEW w \in Workers, EndSession(w),
         (/\ decision \in [Decisions -> DecisionStatus \cup {"absent"}]
          /\ votes \subseteq Vote
          /\ vetoes \subseteq Veto
          /\ raci \subseteq Assignment
          /\ audit \subseteq Event)'
  PROVE  TypeInv'
<1>1. TypeOK'
  BY EmptySession DEF TypeInv, TypeOK, EndSession, counters, Step
<1>2. ASSUME NEW v \in Workers PROVE Shape(pc[v], req[v], read[v], staged[v])'
  <2>1. CASE v = w
    BY <2>1, EmptySession
       DEF TypeInv, TypeOK, EndSession, Shape, Serving, Complete, Fetched, Writes
  <2>2. CASE v # w
    BY <2>2 DEF TypeInv, TypeOK, EndSession, Shape, Serving, Complete, Fetched, Writes
  <2> QED BY <2>1, <2>2
<1> QED BY <1>1, <1>2 DEF TypeInv

LEMMA RollbackTyped ==
  ASSUME TypeInv, NEW w \in Workers, Rollback(w)
  PROVE  TypeInv'
<1> QED BY EndTyped DEF Rollback, tables, TypeInv, TypeOK

(* A session in the middle of a request is typed. *)
LEMMA SessionTyped ==
  ASSUME TypeInv, NEW w \in Workers
  PROVE  /\ pc[w] \in Step /\ req[w] \in Request
         /\ read[w] \in Local /\ staged[w] \in Staged
         /\ Shape(pc[w], req[w], read[w], staged[w])
BY DEF TypeInv, TypeOK

(* The locals with which a handler calls record_event. *)
LEMMA RecordingTyped ==
  ASSUME NEW l \in Local, NEW type \in EventType, NEW row \in Decisions \cup Nat,
         NEW n \in 1..2, NEW s \in Step
  PROVE  /\ Recording(l, type, row, n, s) \in Local
         /\ Recording(l, type, row, n, s).event = type
         /\ Recording(l, type, row, n, s).entity = row
         /\ Recording(l, type, row, n, s).due = n
         /\ Recording(l, type, row, n, s).then = s
         /\ Recording(l, type, row, n, s).role = l.role
         /\ Recording(l, type, row, n, s).target = l.target
         /\ Recording(l, type, row, n, s).required = l.required
<1>1. n \in 0..2
  OBVIOUS
<1> QED BY <1>1 DEF Recording, Local

LEMMA EventOfTyped ==
  ASSUME NEW s \in DecisionStatus
  PROVE  EventOf(s) \in EventType
BY DEF EventOf, EventType, DecisionStatus, FinalStatus

LEMMA DecisionStepTyped ==
  ASSUME TypeInv, NEW w \in Workers, DecisionStep(w)
  PROVE  TypeInv'
<1> USE SessionTyped
<1>1. CASE InsertDecision(w)
  <2> DEFINE l == Recording(read[w], "decision_created", req[w].dec, 1, "commit")
             x == [staged[w] EXCEPT !.status = "pending"]
  <2>1. req[w].op = "create" /\ req[w].dec \in Decisions
    BY <1>1 DEF InsertDecision, Shape, Serving, Complete
  <2>2. l \in Local /\ l.event \in EventType /\ l.due = 1 /\ l.then = "commit"
    <3>1. "decision_created" \in EventType /\ 1 \in 1..2 /\ "commit" \in Step
      BY DEF EventType, Step
    <3>2. req[w].dec \in Decisions \cup Nat
      BY <2>1
    <3> QED BY <3>1, <3>2, RecordingTyped
  <2>3. x \in Staged
    BY DEF Staged, DecisionStatus
  <2>4. Shape("last_hash", req[w], l, x)
    BY <2>1, <2>2 DEF Shape, Serving, Complete, Fetched, Writes
  <2> HIDE DEF l, x
  <2> QED BY <1>1, <2>2, <2>3, <2>4, StatementTyped DEF InsertDecision, l, x, Step
<1>2. CASE SubmitSelect(w)
  <2>1. CASE Rollback(w)
    BY <2>1, RollbackTyped
  <2>2. CASE ReadThen(w, "reselect_decision", [read[w] EXCEPT !.target = "awaiting_approval"])
    <3> DEFINE l == [read[w] EXCEPT !.target = "awaiting_approval"]
    <3>1. l \in Local /\ l.target = "awaiting_approval"
      BY DEF Local, DecisionStatus
    <3>2. Shape("reselect_decision", req[w], l, staged[w])
      BY <1>2, <3>1 DEF SubmitSelect, Shape, Serving, Complete, Fetched, Writes
    <3> HIDE DEF l
    <3> QED BY <2>2, <3>1, <3>2, StatementTyped DEF ReadThen, Step, l
  <2> QED BY <1>2, <2>1, <2>2 DEF SubmitSelect
<1>3. CASE FinalizeSelect(w)
  <2>1. CASE Rollback(w)
    BY <2>1, RollbackTyped
  <2>2. CASE ReadThen(w, "reselect_decision", read[w])
    <3>1. Shape("reselect_decision", req[w], read[w], staged[w])
      BY <1>3 DEF FinalizeSelect, Shape, Serving, Complete, Fetched, Writes
    <3> QED BY <2>2, <3>1, StatementTyped DEF ReadThen, Step
  <2> QED BY <1>3, <2>1, <2>2 DEF FinalizeSelect
<1>4. CASE ReselectDecision(w)
  <2> DEFINE l == [read[w] EXCEPT !.seen = decision[req[w].dec]]
  <2>1. req[w].dec \in Decisions
    BY <1>4 DEF ReselectDecision, Shape, Serving, Complete
  <2>2. l \in Local /\ l.target = read[w].target
    BY <2>1 DEF Local, TypeInv, TypeOK
  <2>3. Shape("update_decision", req[w], l, staged[w])
    BY <1>4, <2>2 DEF ReselectDecision, Shape, Serving, Complete, Fetched, Writes
  <2> HIDE DEF l
  <2> QED BY <1>4, <2>2, <2>3, StatementTyped DEF ReselectDecision, ReadThen, Step, l
<1>5. CASE UpdateDecision(w)
  <2> DEFINE n == IF req[w].op = "veto" THEN 2 ELSE 1
             l == Recording(read[w], EventOf(read[w].target), req[w].dec, n, "commit")
             x == [staged[w] EXCEPT !.locked = TRUE,
                     !.status = IF read[w].seen = read[w].target THEN None ELSE read[w].target]
  <2>1. /\ req[w].op \in {"submit", "vote", "veto"} /\ req[w].dec \in Decisions
        /\ read[w].target \in DecisionStatus
    BY <1>5 DEF UpdateDecision, Shape, Serving, Complete, Fetched, DecisionStatus
  <2>2. l \in Local /\ l.event \in EventType /\ l.due \in 1..2 /\ l.then = "commit"
    <3>1. EventOf(read[w].target) \in EventType /\ n \in 1..2 /\ "commit" \in Step
      BY <2>1, EventOfTyped DEF Step
    <3>2. req[w].dec \in Decisions \cup Nat
      BY <2>1
    <3> HIDE DEF n
    <3> QED BY <3>1, <3>2, RecordingTyped
  <2>3. x \in Staged
    BY <2>1 DEF Staged
  <2>4. Shape("last_hash", req[w], l, x)
    BY <1>5, <2>1, <2>2 DEF UpdateDecision, Shape, Serving, Complete, Fetched, Writes
  <2>5. Statement(w, "last_hash", l, x)
    BY <1>5 DEF UpdateDecision
  <2> HIDE DEF l, x
  <2> QED BY <2>2, <2>3, <2>4, <2>5, StatementTyped DEF Step
<1> QED BY <1>1, <1>2, <1>3, <1>4, <1>5 DEF DecisionStep

LEMMA ApprovalStepTyped ==
  ASSUME TypeInv, NEW w \in Workers, ApprovalStep(w)
  PROVE  TypeInv'
<1> USE SessionTyped
<1>1. CASE VoteSelectDecision(w)
  <2>1. Shape("vote_select_assignment", req[w], read[w], staged[w])
    BY <1>1 DEF VoteSelectDecision, Shape, Serving, Complete, Fetched, Writes
  <2> QED BY <1>1, <2>1, RollbackTyped, ReadThenTyped DEF VoteSelectDecision, Step
<1>2. CASE VoteSelectAssignment(w)
  <2>1. CASE Rollback(w)
    BY <2>1, RollbackTyped
  <2>2. ASSUME NEW a \in raci, ReadThen(w, "vote_select_vote", [read[w] EXCEPT !.role = a.role])
        PROVE  TypeInv'
    <3> DEFINE l == [read[w] EXCEPT !.role = a.role]
    <3>1. a.role \in RACIRole
      BY DEF TypeInv, TypeOK, Assignment
    <3>2. l \in Local /\ l.role \in RACIRole
      BY <3>1 DEF Local
    <3>3. Shape("vote_select_vote", req[w], l, staged[w])
      BY <1>2, <3>2 DEF VoteSelectAssignment, Shape, Serving, Complete, Fetched, Writes
    <3> HIDE DEF l
    <3> QED BY <2>2, <3>2, <3>3, ReadThenTyped DEF Step, l
  <2> QED BY <1>2, <2>1, <2>2 DEF VoteSelectAssignment, GetAssignment
<1>3. CASE VoteSelectVote(w)
  <2>1. Shape("insert_vote", req[w], read[w], staged[w])
    BY <1>3 DEF VoteSelectVote, Shape, Serving, Complete, Fetched, Writes
  <2> QED BY <1>3, <2>1, RollbackTyped, ReadThenTyped DEF VoteSelectVote, Step
<1>4. CASE InsertVote(w)
  <2> DEFINE k == [read[w] EXCEPT !.target =
                     IF req[w].arg = "reject" THEN "rejected" ELSE @]
             l == Recording(k, "approval_cast", req[w].dec, 1, AfterVote(req[w].arg))
             row == [id |-> req[w].id, dec |-> req[w].dec, voter |-> req[w].user,
                     role |-> read[w].role, vote |-> req[w].arg]
             x == [staged[w] EXCEPT !.votes = {row}]
  <2>1. /\ req[w].op = "vote" /\ req[w].dec \in Decisions /\ req[w].user \in Users
        /\ req[w].arg \in VoteValue /\ read[w].role \in RACIRole /\ req[w].id \in Nat
    BY <1>4 DEF InsertVote, Shape, Serving, Complete, Fetched, Request
  <2>2. k \in Local /\ (req[w].arg = "reject" => k.target = "rejected")
    BY DEF Local, DecisionStatus, FinalStatus
  <2>3. /\ AfterVote(req[w].arg) \in {"commit", "finalize_select", "list_required"}
        /\ AfterVote(req[w].arg) = "finalize_select" => req[w].arg = "reject"
    BY <2>1 DEF AfterVote, VoteValue
  <2>4. /\ l \in Local /\ l.event \in EventType /\ l.due = 1
        /\ l.then = AfterVote(req[w].arg) /\ l.target = k.target
    <3>1. "approval_cast" \in EventType /\ 1 \in 1..2 /\ AfterVote(req[w].arg) \in Step
      BY <2>3 DEF EventType, Step
    <3>2. req[w].dec \in Decisions \cup Nat
      BY <2>1
    <3> HIDE DEF k
    <3> QED BY <2>2, <3>1, <3>2, RecordingTyped
  <2>5. x \in Staged
    <3>1. row \in Vote
      BY <2>1 DEF Vote
    <3> QED BY <3>1 DEF Staged
  <2>6. Shape("last_hash", req[w], l, x)
    <3> HIDE DEF k, l
    <3> QED BY <2>1, <2>2, <2>3, <2>4 DEF Shape, Serving, Complete, Fetched, Writes, FinalStatus
  <2>7. Statement(w, "last_hash", l, x)
    BY <1>4 DEF InsertVote
  <2> HIDE DEF l, x
  <2> QED BY <2>4, <2>5, <2>6, <2>7, StatementTyped DEF Step
<1>5. CASE ListRequired(w)
  <2> DEFINE l == [read[w] EXCEPT !.required = RequiredVoters(DomainOf[req[w].dec])]
  <2>1. RequiredVoters(DomainOf[req[w].dec]) \subseteq Users
    BY DEF RequiredVoters, TypeInv, TypeOK, Assignment
  <2>2. l \in Local
    BY <2>1 DEF Local
  <2>3. ASSUME NEW s \in {"commit", "list_approvals"}
        PROVE  Shape(s, req[w], l, staged[w])
    BY <1>5 DEF ListRequired, Shape, Serving, Complete, Fetched, Writes
  <2>4. \E s \in {"commit", "list_approvals"} : ReadThen(w, s, l)
    BY <1>5 DEF ListRequired
  <2> HIDE DEF l
  <2> QED BY <2>2, <2>3, <2>4, ReadThenTyped DEF Step
<1>6. CASE ListApprovals(w)
  <2>1. CASE ReadThen(w, "commit", read[w])
    <3>1. Shape("commit", req[w], read[w], staged[w])
      BY <1>6 DEF ListApprovals, Shape, Serving, Complete, Fetched, Writes
    <3> QED BY <2>1, <3>1, ReadThenTyped DEF Step
  <2>2. CASE ReadThen(w, "finalize_select", [read[w] EXCEPT !.target = "approved"])
    <3> DEFINE l == [read[w] EXCEPT !.target = "approved"]
    <3>1. l \in Local /\ l.target = "approved"
      BY DEF Local, DecisionStatus, FinalStatus
    <3>2. Shape("finalize_select", req[w], l, staged[w])
      BY <1>6, <3>1 DEF ListApprovals, Shape, Serving, Complete, Fetched, Writes, FinalStatus
    <3> HIDE DEF l
    <3> QED BY <2>2, <3>1, <3>2, ReadThenTyped DEF Step, l
  <2> QED BY <1>6, <2>1, <2>2 DEF ListApprovals
<1> QED BY <1>1, <1>2, <1>3, <1>4, <1>5, <1>6 DEF ApprovalStep

LEMMA VetoStepTyped ==
  ASSUME TypeInv, NEW w \in Workers, VetoStep(w)
  PROVE  TypeInv'
<1> USE SessionTyped
<1>1. CASE VetoSelectDecision(w)
  <2>1. Shape("veto_select_assignment", req[w], read[w], staged[w])
    BY <1>1 DEF VetoSelectDecision, Shape, Serving, Complete, Fetched, Writes
  <2> QED BY <1>1, <2>1, RollbackTyped, ReadThenTyped DEF VetoSelectDecision, Step
<1>2. CASE VetoSelectAssignment(w)
  <2>1. CASE Rollback(w)
    BY <2>1, RollbackTyped
  <2>2. ASSUME NEW a \in raci, ReadThen(w, "insert_veto", [read[w] EXCEPT !.role = a.role])
        PROVE  TypeInv'
    <3> DEFINE l == [read[w] EXCEPT !.role = a.role]
    <3>1. a.role \in RACIRole
      BY DEF TypeInv, TypeOK, Assignment
    <3>2. l \in Local /\ l.role \in RACIRole
      BY <3>1 DEF Local
    <3>3. Shape("insert_veto", req[w], l, staged[w])
      BY <1>2, <3>2 DEF VetoSelectAssignment, Shape, Serving, Complete, Fetched, Writes
    <3> HIDE DEF l
    <3> QED BY <2>2, <3>2, <3>3, ReadThenTyped DEF Step, l
  <2> QED BY <1>2, <2>1, <2>2 DEF VetoSelectAssignment, GetAssignment
<1>3. CASE InsertVeto(w)
  <2> DEFINE l == [read[w] EXCEPT !.target = "vetoed"]
             row == [id |-> req[w].id, dec |-> req[w].dec, by |-> req[w].user,
                     role |-> read[w].role, status |-> "active", over |-> None]
             x == [staged[w] EXCEPT !.vetoes = {row}]
  <2>1. /\ req[w].op = "veto" /\ req[w].dec \in Decisions /\ req[w].user \in Users
        /\ read[w].role \in RACIRole /\ req[w].id \in Nat
    BY <1>3 DEF InsertVeto, Shape, Serving, Complete, Fetched, Request
  <2>2. l \in Local /\ l.target = "vetoed"
    BY DEF Local, DecisionStatus, FinalStatus
  <2>3. x \in Staged
    <3>1. row \in Veto
      BY <2>1 DEF Veto, VetoStatus
    <3> QED BY <3>1 DEF Staged
  <2>4. Shape("finalize_select", req[w], l, x)
    BY <2>1, <2>2 DEF Shape, Serving, Complete, Fetched, Writes, FinalStatus
  <2>5. Statement(w, "finalize_select", l, x)
    BY <1>3 DEF InsertVeto
  <2> HIDE DEF l, x
  <2> QED BY <2>2, <2>3, <2>4, <2>5, StatementTyped DEF Step
<1>4. CASE OverrideSelectVeto(w)
  <2>1. Shape("override_select_assignment", req[w], read[w], staged[w])
    BY <1>4 DEF OverrideSelectVeto, Shape, Serving, Complete, Fetched, Writes
  <2> QED BY <1>4, <2>1, RollbackTyped, ReadThenTyped DEF OverrideSelectVeto, Step
<1>5. CASE OverrideSelectAssignment(w)
  <2>1. Shape("reselect_veto", req[w], read[w], staged[w])
    BY <1>5 DEF OverrideSelectAssignment, Shape, Serving, Complete, Fetched, Writes
  <2> QED BY <1>5, <2>1, RollbackTyped, ReadThenTyped DEF OverrideSelectAssignment, Step
<1>6. CASE ReselectVeto(w)
  <2>1. PICK v \in vetoes, s \in {"last_hash", "update_veto"} :
          ReadThen(w, s, Recording(read[w], "veto_overridden", v.dec, 1, "commit"))
    BY <1>6 DEF ReselectVeto
  <2> DEFINE l == Recording(read[w], "veto_overridden", v.dec, 1, "commit")
  <2>2. l \in Local /\ l.event \in EventType /\ l.due = 1 /\ l.then = "commit"
    <3>1. "veto_overridden" \in EventType /\ 1 \in 1..2 /\ "commit" \in Step
      BY DEF EventType, Step
    <3>2. v.dec \in Decisions \cup Nat
      BY DEF TypeInv, TypeOK, Veto
    <3> QED BY <3>1, <3>2, RecordingTyped
  <2>3. Shape(s, req[w], l, staged[w])
    <3> HIDE DEF l
    <3> QED BY <1>6, <2>2 DEF ReselectVeto, Shape, Serving, Complete, Fetched, Writes
  <2> HIDE DEF l
  <2> QED BY <2>1, <2>2, <2>3, ReadThenTyped DEF Step, l
<1>7. CASE UpdateVeto(w)
  <2> DEFINE x == [staged[w] EXCEPT !.override = req[w].user]
  <2>1. req[w].op = "override" /\ req[w].user \in Users
    BY <1>7 DEF UpdateVeto, Shape, Serving, Complete
  <2>2. x \in Staged /\ x.status = staged[w].status
    BY <2>1 DEF Staged
  <2>3. Shape("last_hash", req[w], read[w], x)
    <3> HIDE DEF x
    <3> QED BY <1>7, <2>1, <2>2 DEF UpdateVeto, Shape, Serving, Complete, Fetched, Writes
  <2> HIDE DEF x
  <2> QED BY <1>7, <2>2, <2>3, StatementTyped DEF UpdateVeto, Step, x
<1> QED BY <1>1, <1>2, <1>3, <1>4, <1>5, <1>6, <1>7 DEF VetoStep

LEMMA RoleStepTyped ==
  ASSUME TypeInv, NEW w \in Workers, RoleStep(w)
  PROVE  TypeInv'
<1> USE SessionTyped
<1>1. CASE AssignSelect(w)
  <2>1. Shape("insert_assignment", req[w], read[w], staged[w])
    BY <1>1 DEF AssignSelect, Shape, Serving, Complete, Fetched, Writes
  <2> QED BY <1>1, <2>1, RollbackTyped, ReadThenTyped DEF AssignSelect, Step
<1>2. CASE InsertAssignment(w)
  <2> DEFINE l == Recording(read[w], "role_assigned", req[w].id, 1, "commit")
             row == [id |-> req[w].id, user |-> req[w].user,
                     domain |-> req[w].domain, role |-> req[w].arg]
             x == [staged[w] EXCEPT !.assigned = {row}]
  <2>1. CASE Rollback(w)
    BY <2>1, RollbackTyped
  <2>2. CASE Statement(w, "last_hash", l, x)
    <3>1. /\ req[w].op = "assign" /\ req[w].user \in Users /\ req[w].domain \in Domains
          /\ req[w].arg \in RACIRole /\ req[w].id \in Nat
      BY <1>2 DEF InsertAssignment, Shape, Serving, Complete, Request
    <3>2. l \in Local /\ l.event \in EventType /\ l.due = 1 /\ l.then = "commit"
      <4>1. "role_assigned" \in EventType /\ 1 \in 1..2 /\ "commit" \in Step
        BY DEF EventType, Step
      <4>2. req[w].id \in Decisions \cup Nat
        BY <3>1
      <4> QED BY <4>1, <4>2, RecordingTyped
    <3>3. x \in Staged /\ x.status = staged[w].status
      <4>1. row \in Assignment
        BY <3>1 DEF Assignment
      <4> QED BY <4>1 DEF Staged
    <3>4. Shape("last_hash", req[w], l, x)
      <4> HIDE DEF l, x
      <4> QED BY <3>1, <3>2, <3>3 DEF Shape, Serving, Complete, Fetched, Writes
    <3> HIDE DEF l, x
    <3> QED BY <2>2, <3>2, <3>3, <3>4, StatementTyped DEF Step
  <2> QED BY <1>2, <2>1, <2>2 DEF InsertAssignment
<1>3. CASE RevokeSelect(w)
  <2>1. Shape("reselect_assignment", req[w], read[w], staged[w])
    BY <1>3 DEF RevokeSelect, Shape, Serving, Complete, Fetched, Writes
  <2> QED BY <1>3, <2>1, RollbackTyped, ReadThenTyped DEF RevokeSelect, Step
<1>4. CASE ReselectAssignment(w)
  <2> DEFINE l == Recording(read[w], "role_revoked", req[w].ref, 1, "commit")
  <2>1. PICK s \in {"last_hash", "delete_assignment"} : ReadThen(w, s, l)
    BY <1>4 DEF ReselectAssignment
  <2>2. l \in Local /\ l.event \in EventType /\ l.due = 1 /\ l.then = "commit"
    <3>1. "role_revoked" \in EventType /\ 1 \in 1..2 /\ "commit" \in Step
      BY DEF EventType, Step
    <3>2. req[w].ref \in Decisions \cup Nat
      BY DEF Request
    <3> QED BY <3>1, <3>2, RecordingTyped
  <2>3. Shape(s, req[w], l, staged[w])
    <3> HIDE DEF l
    <3> QED BY <1>4, <2>2 DEF ReselectAssignment, Shape, Serving, Complete, Fetched, Writes
  <2> HIDE DEF l
  <2> QED BY <2>1, <2>2, <2>3, ReadThenTyped DEF Step
<1>5. CASE DeleteAssignment(w)
  <2> DEFINE x == [staged[w] EXCEPT !.revoked = AssignmentById(req[w].ref)]
  <2>1. x \in Staged /\ x.status = staged[w].status
    <3>1. AssignmentById(req[w].ref) \subseteq Assignment
      BY DEF AssignmentById, TypeInv, TypeOK
    <3> QED BY <3>1 DEF Staged
  <2>2. Shape("last_hash", req[w], read[w], x)
    <3> HIDE DEF x
    <3> QED BY <1>5, <2>1 DEF DeleteAssignment, Shape, Serving, Complete, Fetched, Writes
  <2> HIDE DEF x
  <2> QED BY <1>5, <2>1, <2>2, StatementTyped DEF DeleteAssignment, Step, x
<1> QED BY <1>1, <1>2, <1>3, <1>4, <1>5 DEF RoleStep

(* record_event and the end of a transaction. *)
LEMMA ReadLastHashTyped ==
  ASSUME TypeInv, NEW w \in Workers, ReadLastHash(w)
  PROVE  TypeInv'
<1> USE SessionTyped
<1> DEFINE l == [read[w] EXCEPT !.last = LastHash(VisibleEvents(w))]
<1>1. LastHash(VisibleEvents(w)) \in Nat
  <2>1. \A e \in VisibleEvents(w) : e.at \in Nat
    BY DEF VisibleEvents, TypeInv, TypeOK, Staged, Event
  <2> QED BY <2>1, LastHashType
<1>2. /\ l \in Local /\ l.event = read[w].event /\ l.due = read[w].due
      /\ l.then = read[w].then /\ l.target = read[w].target
  BY <1>1 DEF Local
<1>3. Shape("insert_event", req[w], l, staged[w])
  <2> HIDE DEF l
  <2> QED BY <1>2 DEF ReadLastHash, Shape, Serving, Complete, Fetched, Writes
<1> HIDE DEF l
<1> QED BY <1>2, <1>3, ReadThenTyped DEF ReadLastHash, Step, l

LEMMA InsertEventTyped ==
  ASSUME TypeInv, NEW w \in Workers, InsertEvent(w)
  PROVE  TypeInv'
<1> USE SessionTyped
<1> DEFINE e == [type |-> read[w].event, entity |-> read[w].entity,
                 actor |-> EventActor(w), at |-> clock + 1, prev |-> read[w].last]
           s == IF read[w].due = 1 THEN read[w].then ELSE "last_hash"
           l == [read[w] EXCEPT !.due = @ - 1]
           x == [staged[w] EXCEPT !.events = @ \cup {e}]
<1>1. /\ read[w].event \in EventType /\ read[w].due \in 1..2
      /\ read[w].then \in {"commit", "finalize_select", "list_required"}
      /\ req[w].op \in {"vote", "veto", "override"} => req[w].user \in Users
  BY DEF InsertEvent, Shape, Complete, Fetched
<1>2. EventActor(w) \in Users \cup {"system", "client"}
  BY <1>1 DEF EventActor
<1>3. x \in Staged /\ x.status = staged[w].status
  <2>1. e \in Event
    BY <1>1, <1>2 DEF Event, Local, TypeInv, TypeOK
  <2> HIDE DEF e
  <2> QED BY <2>1 DEF Staged
<1>4. /\ l \in Local /\ l.event = read[w].event /\ l.due = read[w].due - 1
      /\ l.then = read[w].then /\ l.target = read[w].target
  <2>1. read[w].due - 1 \in 0..2
    BY <1>1
  <2> QED BY <2>1 DEF Local
<1>5. s \in Step
  BY <1>1 DEF Step
<1>6. Shape(s, req[w], l, x)
  <2> HIDE DEF l, x
  <2> QED BY <1>1, <1>3, <1>4 DEF InsertEvent, Shape, Serving, Complete, Fetched, Writes
<1>7. /\ pc' = [pc EXCEPT ![w] = s]
      /\ read' = [read EXCEPT ![w] = l]
      /\ staged' = [staged EXCEPT ![w] = x]
      /\ clock' = clock + 1
      /\ UNCHANGED <<tables, nextId, begun, req>>
  BY DEF InsertEvent, TypeInv, TypeOK
<1> HIDE DEF e, s, l, x
<1>8. TypeOK'
  BY <1>3, <1>4, <1>5, <1>7 DEF TypeInv, TypeOK, tables
<1>9. ASSUME NEW v \in Workers PROVE Shape(pc[v], req[v], read[v], staged[v])'
  BY <1>6, <1>7 DEF TypeInv, TypeOK, Shape, Serving, Complete, Fetched, Writes
<1> QED BY <1>8, <1>9 DEF TypeInv

LEMMA CommitTyped ==
  ASSUME TypeInv, NEW w \in Workers, Commit(w)
  PROVE  TypeInv'
<1> USE SessionTyped
<1>1. decision' \in [Decisions -> DecisionStatus \cup {"absent"}]
  BY DEF Commit, TypeInv, TypeOK, Staged
<1>2. vetoes' \subseteq Veto
  <2>1. ASSUME NEW v \in vetoes PROVE Overridden(w, v) \in Veto
    BY DEF Overridden, TypeInv, TypeOK, Veto, VetoStatus, Staged
  <2> QED BY <2>1 DEF Commit, Staged, TypeInv, TypeOK
<1>3. votes' \subseteq Vote /\ raci' \subseteq Assignment /\ audit' \subseteq Event
  BY DEF Commit, TypeInv, TypeOK, Staged
<1> QED BY <1>1, <1>2, <1>3, EndTyped DEF Commit

LEMMA BeginTyped ==
  ASSUME TypeInv, NEW w \in Workers, NEW r \in Request, NEW s \in Step, Begin(w, r, s),
         r.op \in Ops, Serving(s, r), Complete(r), s \notin {"idle", "finalize_select",
           "vote_select_vote", "insert_vote", "insert_veto", "reselect_decision",
           "update_decision", "update_veto", "delete_assignment", "last_hash",
           "insert_event"}
  PROVE  TypeInv'
<1>1. TypeOK'
  BY DEF Begin, TypeInv, TypeOK, tables
<1>2. ASSUME NEW v \in Workers PROVE Shape(pc[v], req[v], read[v], staged[v])'
  <2>1. CASE v = w
    BY <2>1 DEF Begin, TypeInv, TypeOK, Shape, Serving, Complete, Fetched, Writes
  <2>2. CASE v # w
    BY <2>2 DEF Begin, TypeInv, TypeOK, Shape, Serving, Complete, Fetched, Writes
  <2> QED BY <2>1, <2>2
<1> QED BY <1>1, <1>2 DEF TypeInv

(* Every request that arrives has the arguments its handler uses. *)
LEMMA ArriveTyped ==
  ASSUME TypeInv, NEW w \in Workers, Arrive(w)
  PROVE  TypeInv'
<1> USE DEF NoRequest, Request, Ops, Step, Serving, Complete
<1>1. nextId \in Nat /\ NoRequest \in Request
  BY EmptySession DEF TypeInv, TypeOK
<1>2. CASE BeginCreate(w)
  <2>1. PICK d \in Decisions :
          Begin(w, [NoRequest EXCEPT !.id = nextId, !.op = "create", !.dec = d],
                "insert_decision")
    BY <1>2 DEF BeginCreate
  <2> QED BY <1>1, <2>1, BeginTyped
<1>3. CASE BeginSubmit(w)
  <2>1. PICK d \in Decisions :
          Begin(w, [NoRequest EXCEPT !.id = nextId, !.op = "submit", !.dec = d],
                "submit_select")
    BY <1>3 DEF BeginSubmit
  <2> QED BY <1>1, <2>1, BeginTyped
<1>4. CASE BeginVote(w)
  <2>1. PICK d \in Decisions, u \in Users, vote \in VoteValue :
          Begin(w, [NoRequest EXCEPT !.id = nextId, !.op = "vote", !.dec = d,
                                     !.user = u, !.arg = vote],
                "vote_select_decision")
    BY <1>4 DEF BeginVote
  <2> QED BY <1>1, <2>1, BeginTyped
<1>5. CASE BeginVeto(w)
  <2>1. PICK d \in Decisions, u \in Users :
          Begin(w, [NoRequest EXCEPT !.id = nextId, !.op = "veto", !.dec = d, !.user = u],
                "veto_select_decision")
    BY <1>5 DEF BeginVeto
  <2> QED BY <1>1, <2>1, BeginTyped
<1>6. CASE BeginOverride(w)
  <2>1. PICK ref \in {v.id : v \in vetoes} \cup {0}, u \in Users :
          Begin(w, [NoRequest EXCEPT !.id = nextId, !.op = "override", !.user = u,
                                     !.ref = ref],
                "override_select_veto")
    BY <1>6 DEF BeginOverride
  <2>2. ref \in Nat
    BY DEF TypeInv, TypeOK, Veto
  <2> QED BY <1>1, <2>1, <2>2, BeginTyped
<1>7. CASE BeginAssign(w)
  <2>1. PICK u \in Users, m \in Domains, r \in RACIRole :
          Begin(w, [NoRequest EXCEPT !.id = nextId, !.op = "assign", !.user = u,
                                     !.domain = m, !.arg = r],
                "assign_select")
    BY <1>7 DEF BeginAssign
  <2> QED BY <1>1, <2>1, BeginTyped
<1>8. CASE BeginRevoke(w)
  <2>1. PICK ref \in {a.id : a \in raci} \cup {0} :
          Begin(w, [NoRequest EXCEPT !.id = nextId, !.op = "revoke", !.ref = ref],
                "revoke_select")
    BY <1>8 DEF BeginRevoke
  <2>2. ref \in Nat
    BY DEF TypeInv, TypeOK, Assignment
  <2> QED BY <1>1, <2>1, <2>2, BeginTyped
<1> QED BY <1>2, <1>3, <1>4, <1>5, <1>6, <1>7, <1>8 DEF Arrive

LEMMA InitTyped == Init => TypeInv
<1> SUFFICES ASSUME Init PROVE TypeInv
  OBVIOUS
<1>1. Len(Seed) \in Nat
  BY SeedAssumption
<1>2. \A i \in 1..Len(Seed) :
        /\ Seed[i].user \in Users /\ Seed[i].domain \in Domains /\ Seed[i].role \in RACIRole
        /\ i \in Nat /\ i - 1 \in Nat
  <2> SUFFICES ASSUME NEW i \in 1..Len(Seed)
               PROVE  /\ Seed[i].user \in Users /\ Seed[i].domain \in Domains
                      /\ Seed[i].role \in RACIRole /\ i \in Nat /\ i - 1 \in Nat
    OBVIOUS
  <2>1. Seed[i] \in [user : Users, domain : Domains, role : RACIRole]
    <3> DEFINE S == [user : Users, domain : Domains, role : RACIRole]
    <3>1. Seed \in Seq(S)
      BY SeedAssumption
    <3> HIDE DEF S
    <3>2. Seed[i] \in S
      BY <3>1
    <3> QED BY <3>2 DEF S
  <2> QED BY <1>1, <2>1
<1>3. SeedRows \subseteq Assignment
  BY <1>2 DEF SeedRows, Assignment
<1>4. SeedEvents \subseteq Event
  BY <1>2 DEF SeedEvents, Event, EventType
<1>5. TypeOK
  BY <1>1, <1>3, <1>4, EmptySession DEF Init, TypeOK, Step
<1>6. \A w \in Workers : Shape(pc[w], req[w], read[w], staged[w])
  BY EmptySession DEF Init
<1> QED BY <1>5, <1>6 DEF TypeInv

LEMMA NextTyped == TypeInv /\ [Next]_vars => TypeInv'
<1> SUFFICES ASSUME TypeInv, [Next]_vars PROVE TypeInv'
  OBVIOUS
<1>1. ASSUME NEW w \in Workers, Arrive(w) PROVE TypeInv'
  BY <1>1, ArriveTyped
<1>2. ASSUME NEW w \in Workers, Advance(w) PROVE TypeInv'
  BY <1>2, DecisionStepTyped, ApprovalStepTyped, VetoStepTyped, RoleStepTyped,
     ReadLastHashTyped, InsertEventTyped, CommitTyped DEF Advance
<1>3. ASSUME NEW w \in Workers, Fail(w) PROVE TypeInv'
  BY <1>3, RollbackTyped DEF Fail
<1>4. CASE UNCHANGED vars
  BY <1>4 DEF vars, tables, counters, session, TypeInv, TypeOK, Shape, Serving, Complete,
              Fetched, Writes
<1> QED BY <1>1, <1>2, <1>3, <1>4 DEF Next, Drained

(* The state has the types of the schema and of the services, whatever     *)
(* requests interleave.                                                    *)
THEOREM Typing == Spec => []TypeInv
<1>1. Init => TypeInv
  BY InitTyped
<1>2. TypeInv /\ [Next]_vars => TypeInv'
  BY NextTyped
<1> QED BY <1>1, <1>2, PTL DEF Spec

(* Tables, sessions and staged writes keep their types, whatever the       *)
(* constants and the interleaving.                                         *)
THEOREM TypeCorrect == Spec => []TypeOK
<1>1. TypeInv => TypeOK
  BY DEF TypeInv
<1> QED BY <1>1, Typing, PTL
-----------------------------------------------------------------------------
(***************************************************************************)
(* The steps of a worker, field by field: what a proof about any invariant *)
(* of the engine needs to know of them.                                    *)
(***************************************************************************)
RecordingSteps == {"last_hash", "insert_event"}

FinalizingSteps == {"finalize_select", "reselect_decision", "update_decision"}

(* Steps at which the locals say what event comes next. *)
Recorders == RecordingSteps \cup {"update_veto", "delete_assignment"}

FirstSteps ==
  {"insert_decision", "submit_select", "vote_select_decision", "veto_select_decision",
   "override_select_veto", "assign_select", "revoke_select"}

(* Steps at which a request has written nothing yet. *)
Unwritten ==
  FirstSteps \cup
  {"idle", "vote_select_assignment", "vote_select_vote", "insert_vote",
   "veto_select_assignment", "insert_veto", "override_select_assignment",
   "reselect_veto", "update_veto", "insert_assignment", "reselect_assignment",
   "delete_assignment"}

(* The writes x and y differ in field f at most, row lock aside. *)
AgreeBut(f, x, y) ==
  /\ f # "status" => x.status = y.status
  /\ f # "votes" => x.votes = y.votes
  /\ f # "vetoes" => x.vetoes = y.vetoes
  /\ f # "override" => x.override = y.override
  /\ f # "assigned" => x.assigned = y.assigned
  /\ f # "revoked" => x.revoked = y.revoked
  /\ f # "events" => x.events = y.events

(* Locals from which record_event is called. *)
Notes(l, type, row, s) == l.event = type /\ l.entity = row /\ l.then = s

(* What a statement that only reads must have found to go on to step s. *)
Finds(w, s, l) ==
  /\ s \in FinalizingSteps => l.target = read[w].target \/ pc[w] \notin FinalizingSteps
  /\ s \in FinalizingSteps /\ pc[w] \notin FinalizingSteps =>
       \/ /\ pc[w] = "submit_select" /\ s = "reselect_decision"
          /\ l.target = "awaiting_approval" /\ decision[req[w].dec] = "pending"
       \/ /\ pc[w] = "list_approvals" /\ s = "finalize_select"
          /\ l.target = "approved"
  /\ pc[w] \in FinalizingSteps => s \in FinalizingSteps
  /\ pc[w] = "finalize_select" => decision[req[w].dec] = "awaiting_approval"
  /\ s = "update_decision" => l.seen = decision[req[w].dec] /\ pc[w] = "reselect_decision"
  /\ s \in {"vote_select_assignment", "veto_select_assignment"} =>
       decision[req[w].dec] = "awaiting_approval"
  /\ s = "vote_select_vote" =>
       /\ pc[w] = "vote_select_assignment"
       /\ GetAssignment(req[w].user, DomainOf[req[w].dec]) # {}
  /\ s = "insert_vote" =>
       /\ pc[w] = "vote_select_vote"
       /\ \A v \in VisibleVotes(w) : ~(v.dec = req[w].dec /\ v.voter = req[w].user)
  /\ s = "insert_veto" =>
       pc[w] = "veto_select_assignment" /\ l.role \in VETO_ELIGIBLE_ROLES
  /\ s = "reselect_veto" =>
       \E v \in vetoes : v.id = req[w].ref /\ Overriders(req[w].user, v) # {}
  /\ s = "list_approvals" =>
       /\ pc[w] = "list_required"
       /\ l.required = RequiredVoters(DomainOf[req[w].dec]) /\ l.required # {}
  /\ pc[w] = "list_required" /\ s # "list_approvals" =>
       RequiredVoters(DomainOf[req[w].dec]) = {}
  /\ pc[w] = "list_approvals" =>
       (s \in FinalizingSteps <=>
          read[w].required \subseteq Approvers(VisibleVotes(w), req[w].dec))

(* A statement that only reads, and says nothing of an event. *)
Reads(w, s, l) ==
  /\ ReadThen(w, s, l)
  /\ pc[w] \notin Recorders \cup {"idle", "commit"}
  /\ s \notin Recorders \cup {"idle", "insert_decision"}
  /\ s \in Unwritten => pc[w] \in Unwritten
  /\ Finds(w, s, l)

LEMMA InsertDecisionDoes ==
  ASSUME TypeInv, NEW w \in Workers, InsertDecision(w)
  PROVE  \E l, x : /\ Statement(w, "last_hash", l, x) /\ pc[w] = "insert_decision"
                   /\ Notes(l, "decision_created", req[w].dec, "commit")
                   /\ x.status = "pending" /\ AgreeBut("status", x, staged[w])
<1> USE SessionTyped
<1> DEFINE l == Recording(read[w], "decision_created", req[w].dec, 1, "commit")
           x == [staged[w] EXCEPT !.status = "pending"]
<1>1. Notes(l, "decision_created", req[w].dec, "commit")
  BY DEF Recording, Local, Notes
<1>2. x.status = "pending" /\ AgreeBut("status", x, staged[w])
  BY DEF Staged, AgreeBut
<1>3. Statement(w, "last_hash", l, x) /\ pc[w] = "insert_decision"
  BY DEF InsertDecision
<1> HIDE DEF l, x
<1> QED BY <1>1, <1>2, <1>3

LEMMA UpdateDecisionDoes ==
  ASSUME TypeInv, NEW w \in Workers, UpdateDecision(w)
  PROVE  \E l, x : /\ Statement(w, "last_hash", l, x) /\ pc[w] = "update_decision"
                   /\ Notes(l, EventOf(read[w].target), req[w].dec, "commit")
                   /\ read[w].target \in FinalStatus \cup {"awaiting_approval"}
                   /\ x.status = IF read[w].seen = read[w].target THEN None ELSE read[w].target
                   /\ AgreeBut("status", x, staged[w])
<1> USE SessionTyped
<1> DEFINE n == IF req[w].op = "veto" THEN 2 ELSE 1
           l == Recording(read[w], EventOf(read[w].target), req[w].dec, n, "commit")
           s == IF read[w].seen = read[w].target THEN None ELSE read[w].target
           x == [staged[w] EXCEPT !.locked = TRUE, !.status = s]
<1>1. Notes(l, EventOf(read[w].target), req[w].dec, "commit")
  BY DEF Recording, Local, Notes
<1>2. x.status = s /\ AgreeBut("status", x, staged[w])
  <2> HIDE DEF s
  <2> QED BY DEF Staged, AgreeBut
<1>3. Statement(w, "last_hash", l, x) /\ pc[w] = "update_decision"
  BY DEF UpdateDecision
<1>4. read[w].target \in FinalStatus \cup {"awaiting_approval"}
  BY <1>3 DEF Shape, Fetched
<1> HIDE DEF l, x
<1> QED BY <1>1, <1>2, <1>3, <1>4

LEMMA InsertVoteDoes ==
  ASSUME TypeInv, NEW w \in Workers, InsertVote(w)
  PROVE  \E l, x : /\ Statement(w, "last_hash", l, x) /\ pc[w] = "insert_vote"
                   /\ req[w].op = "vote" /\ req[w].arg \in VoteValue
                   /\ Notes(l, "approval_cast", req[w].dec, AfterVote(req[w].arg))
                   /\ l.target = IF req[w].arg = "reject" THEN "rejected" ELSE read[w].target
                   /\ x.votes = {[id |-> req[w].id, dec |-> req[w].dec, voter |-> req[w].user,
                                  role |-> read[w].role, vote |-> req[w].arg]}
                   /\ AgreeBut("votes", x, staged[w])
<1> USE SessionTyped
<1> DEFINE t == IF req[w].arg = "reject" THEN "rejected" ELSE read[w].target
           k == [read[w] EXCEPT !.target = t]
           l == Recording(k, "approval_cast", req[w].dec, 1, AfterVote(req[w].arg))
           row == [id |-> req[w].id, dec |-> req[w].dec, voter |-> req[w].user,
                   role |-> read[w].role, vote |-> req[w].arg]
           x == [staged[w] EXCEPT !.votes = {row}]
<1>1. Notes(l, "approval_cast", req[w].dec, AfterVote(req[w].arg)) /\ l.target = t
  <2> HIDE DEF t
  <2> QED BY DEF Recording, Local, Notes
<1>2. x.votes = {row} /\ AgreeBut("votes", x, staged[w])
  <2> HIDE DEF row
  <2> QED BY DEF Staged, AgreeBut
<1>3. Statement(w, "last_hash", l, x) /\ pc[w] = "insert_vote"
  BY DEF InsertVote
<1>4. req[w].op = "vote" /\ req[w].arg \in VoteValue
  BY <1>3 DEF Shape, Serving, Complete
<1> HIDE DEF k, l, x
<1> QED BY <1>1, <1>2, <1>3, <1>4

LEMMA InsertVetoDoes ==
  ASSUME TypeInv, NEW w \in Workers, InsertVeto(w)
  PROVE  \E l, x : /\ Statement(w, "finalize_select", l, x) /\ pc[w] = "insert_veto"
                   /\ req[w].op = "veto" /\ l.target = "vetoed"
                   /\ x.vetoes = {[id |-> req[w].id, dec |-> req[w].dec, by |-> req[w].user,
                                   role |-> read[w].role, status |-> "active", over |-> None]}
                   /\ AgreeBut("vetoes", x, staged[w])
<1> USE SessionTyped
<1> DEFINE l == [read[w] EXCEPT !.target = "vetoed"]
           row == [id |-> req[w].id, dec |-> req[w].dec, by |-> req[w].user,
                   role |-> read[w].role, status |-> "active", over |-> None]
           x == [staged[w] EXCEPT !.vetoes = {row}]
<1>1. l.target = "vetoed"
  BY DEF Local
<1>2. x.vetoes = {row} /\ AgreeBut("vetoes", x, staged[w])
  <2> HIDE DEF row
  <2> QED BY DEF Staged, AgreeBut
<1>3. Statement(w, "finalize_select", l, x) /\ pc[w] = "insert_veto"
  BY DEF InsertVeto
<1>4. req[w].op = "veto"
  BY <1>3 DEF Shape, Serving
<1> HIDE DEF l, x
<1> QED BY <1>1, <1>2, <1>3, <1>4

LEMMA ReselectVetoDoes ==
  ASSUME TypeInv, NEW w \in Workers, ReselectVeto(w)
  PROVE  \E v \in vetoes, s \in {"last_hash", "update_veto"} : \E l :
           /\ ReadThen(w, s, l) /\ pc[w] = "reselect_veto" /\ v.id = req[w].ref
           /\ Notes(l, "veto_overridden", v.dec, "commit")
           /\ s = "last_hash" => \E u \in vetoes : u.id = req[w].ref /\ u.over = req[w].user
<1> USE SessionTyped
<1>1. PICK v \in vetoes, s \in {"last_hash", "update_veto"} :
        /\ v.id = req[w].ref
        /\ ReadThen(w, s, Recording(read[w], "veto_overridden", v.dec, 1, "commit"))
        /\ s = "last_hash" => \E u \in vetoes : u.id = req[w].ref /\ u.over = req[w].user
  BY DEF ReselectVeto
<1> DEFINE l == Recording(read[w], "veto_overridden", v.dec, 1, "commit")
<1>2. Notes(l, "veto_overridden", v.dec, "commit")
  BY DEF Recording, Local, Notes
<1>3. ReadThen(w, s, l) /\ pc[w] = "reselect_veto"
  BY <1>1 DEF ReselectVeto
<1> HIDE DEF l
<1> QED BY <1>1, <1>2, <1>3

LEMMA UpdateVetoDoes ==
  ASSUME TypeInv, NEW w \in Workers, UpdateVeto(w)
  PROVE  \E x : /\ Statement(w, "last_hash", read[w], x) /\ pc[w] = "update_veto"
                /\ req[w].op = "override" /\ req[w].user \in Users
                /\ x.override = req[w].user /\ AgreeBut("override", x, staged[w])
<1> USE SessionTyped
<1> DEFINE x == [staged[w] EXCEPT !.override = req[w].user]
<1>1. x.override = req[w].user /\ AgreeBut("override", x, staged[w])
  BY DEF Staged, AgreeBut
<1>2. Statement(w, "last_hash", read[w], x) /\ pc[w] = "update_veto"
  BY DEF UpdateVeto
<1>3. req[w].op = "override" /\ req[w].user \in Users
  BY <1>2 DEF Shape, Serving, Complete
<1> HIDE DEF x
<1> QED BY <1>1, <1>2, <1>3

LEMMA InsertAssignmentDoes ==
  ASSUME TypeInv, NEW w \in Workers, InsertAssignment(w)
  PROVE  \/ Rollback(w)
         \/ \E l, x : /\ Statement(w, "last_hash", l, x) /\ pc[w] = "insert_assignment"
                      /\ req[w].op = "assign"
                      /\ EntryFree(w, req[w].user, req[w].domain)
                      /\ GetAssignment(req[w].user, req[w].domain) = {}
                      /\ Notes(l, "role_assigned", req[w].id, "commit")
                      /\ x.assigned = {[id |-> req[w].id, user |-> req[w].user,
                                        domain |-> req[w].domain, role |-> req[w].arg]}
                      /\ AgreeBut("assigned", x, staged[w])
<1> USE SessionTyped
<1> SUFFICES ASSUME ~Rollback(w)
             PROVE  \E l, x : /\ Statement(w, "last_hash", l, x) /\ pc[w] = "insert_assignment"
                      /\ req[w].op = "assign"
                      /\ EntryFree(w, req[w].user, req[w].domain)
                      /\ GetAssignment(req[w].user, req[w].domain) = {}
                      /\ Notes(l, "role_assigned", req[w].id, "commit")
                      /\ x.assigned = {[id |-> req[w].id, user |-> req[w].user,
                                        domain |-> req[w].domain, role |-> req[w].arg]}
                      /\ AgreeBut("assigned", x, staged[w])
  OBVIOUS
<1> DEFINE l == Recording(read[w], "role_assigned", req[w].id, 1, "commit")
           row == [id |-> req[w].id, user |-> req[w].user,
                   domain |-> req[w].domain, role |-> req[w].arg]
           x == [staged[w] EXCEPT !.assigned = {row}]
<1>1. Notes(l, "role_assigned", req[w].id, "commit")
  BY DEF Recording, Local, Notes
<1>2. x.assigned = {row} /\ AgreeBut("assigned", x, staged[w])
  <2> HIDE DEF row
  <2> QED BY DEF Staged, AgreeBut
<1>3. /\ Statement(w, "last_hash", l, x) /\ pc[w] = "insert_assignment"
      /\ EntryFree(w, req[w].user, req[w].domain)
      /\ GetAssignment(req[w].user, req[w].domain) = {}
  BY DEF InsertAssignment
<1>4. req[w].op = "assign"
  BY <1>3 DEF Shape, Serving
<1> HIDE DEF l, x
<1> QED BY <1>1, <1>2, <1>3, <1>4

LEMMA ReselectAssignmentDoes ==
  ASSUME TypeInv, NEW w \in Workers, ReselectAssignment(w)
  PROVE  \E s \in {"last_hash", "delete_assignment"} : \E l :
           /\ ReadThen(w, s, l) /\ pc[w] = "reselect_assignment"
           /\ Notes(l, "role_revoked", req[w].ref, "commit")
           /\ s = "last_hash" => AssignmentById(req[w].ref) = {}
<1> USE SessionTyped
<1> DEFINE l == Recording(read[w], "role_revoked", req[w].ref, 1, "commit")
<1>1. PICK s \in {"last_hash", "delete_assignment"} :
        ReadThen(w, s, l) /\ (s = "last_hash" => AssignmentById(req[w].ref) = {})
  BY DEF ReselectAssignment
<1>2. Notes(l, "role_revoked", req[w].ref, "commit")
  BY DEF Recording, Local, Notes
<1> HIDE DEF l
<1> QED BY <1>1, <1>2 DEF ReselectAssignment

LEMMA DeleteAssignmentDoes ==
  ASSUME TypeInv, NEW w \in Workers, DeleteAssignment(w)
  PROVE  \E x : /\ Statement(w, "last_hash", read[w], x) /\ pc[w] = "delete_assignment"
                /\ x.revoked = AssignmentById(req[w].ref)
                /\ AgreeBut("revoked", x, staged[w])
<1> USE SessionTyped
<1> DEFINE x == [staged[w] EXCEPT !.revoked = AssignmentById(req[w].ref)]
<1>1. x.revoked = AssignmentById(req[w].ref) /\ AgreeBut("revoked", x, staged[w])
  BY DEF Staged, AgreeBut
<1>2. Statement(w, "last_hash", read[w], x) /\ pc[w] = "delete_assignment"
  BY DEF DeleteAssignment
<1> HIDE DEF x
<1> QED BY <1>1, <1>2

LEMMA ReadLastHashDoes ==
  ASSUME TypeInv, NEW w \in Workers, ReadLastHash(w)
  PROVE  \E l : /\ ReadThen(w, "insert_event", l) /\ pc[w] = "last_hash"
                /\ Notes(l, read[w].event, read[w].entity, read[w].then)
                /\ l.target = read[w].target
<1> USE SessionTyped
<1> DEFINE l == [read[w] EXCEPT !.last = LastHash(VisibleEvents(w))]
<1>1. Notes(l, read[w].event, read[w].entity, read[w].then) /\ l.target = read[w].target
  BY DEF Local, Notes
<1>2. ReadThen(w, "insert_event", l) /\ pc[w] = "last_hash"
  BY DEF ReadLastHash
<1> HIDE DEF l
<1> QED BY <1>1, <1>2

(* The step that inserts an event is the one statement at which the clock  *)
(* moves on.                                                               *)
Inserts(w, s, l, x) ==
  /\ pc' = [pc EXCEPT ![w] = s]
  /\ read' = [read EXCEPT ![w] = l]
  /\ staged' = [staged EXCEPT ![w] = x]
  /\ UNCHANGED <<tables, nextId, begun, req>>

LEMMA InsertEventDoes ==
  ASSUME TypeInv, NEW w \in Workers, InsertEvent(w)
  PROVE  \E s, l, x, e :
           /\ s \in {"last_hash", read[w].then}
           /\ Inserts(w, s, l, x) /\ pc[w] = "insert_event"
           /\ read[w].then \in {"commit", "finalize_select", "list_required"}
           /\ Notes(l, read[w].event, read[w].entity, read[w].then)
           /\ l.target = read[w].target
           /\ x.events = staged[w].events \cup {e} /\ AgreeBut("events", x, staged[w])
           /\ e.type = read[w].event /\ e.entity = read[w].entity
           /\ req[w].op \in {"vote", "veto", "override"} /\ e.type # "decision_approved"
                => e.actor = req[w].user
<1> USE SessionTyped
<1> DEFINE e == [type |-> read[w].event, entity |-> read[w].entity,
                 actor |-> EventActor(w), at |-> clock + 1, prev |-> read[w].last]
           s == IF read[w].due = 1 THEN read[w].then ELSE "last_hash"
           l == [read[w] EXCEPT !.due = @ - 1]
           x == [staged[w] EXCEPT !.events = @ \cup {e}]
<1>1. x.events = staged[w].events \cup {e} /\ AgreeBut("events", x, staged[w])
  <2> HIDE DEF e
  <2> QED BY DEF Staged, AgreeBut
<1>2. Notes(l, read[w].event, read[w].entity, read[w].then) /\ l.target = read[w].target
  BY DEF Local, Notes
<1>3. Inserts(w, s, l, x) /\ pc[w] = "insert_event"
  BY DEF InsertEvent, Inserts, TypeInv, TypeOK
<1>4. /\ e.type = read[w].event /\ e.entity = read[w].entity
      /\ req[w].op \in {"vote", "veto", "override"} /\ e.type # "decision_approved"
           => e.actor = req[w].user
  BY DEF EventActor
<1>5. read[w].then \in {"commit", "finalize_select", "list_required"}
  BY <1>3 DEF Shape, Fetched
<1>6. s \in {"last_hash", read[w].then}
  OBVIOUS
<1> HIDE DEF e, s, l, x
<1> QED BY <1>1, <1>2, <1>3, <1>4, <1>5, <1>6

(* Only a request that is open goes on. *)
LEMMA AdvanceOpen ==
  ASSUME NEW w \in Workers, Advance(w)
  PROVE  pc[w] # "idle"
BY DEF Advance, DecisionStep, ApprovalStep, VetoStep, RoleStep, InsertDecision,
       SubmitSelect, FinalizeSelect, ReselectDecision, UpdateDecision,
       VoteSelectDecision, VoteSelectAssignment, VoteSelectVote, InsertVote,
       ListRequired, ListApprovals, VetoSelectDecision, VetoSelectAssignment,
       InsertVeto, OverrideSelectVeto, OverrideSelectAssignment, ReselectVeto,
       UpdateVeto, AssignSelect, InsertAssignment, RevokeSelect, ReselectAssignment,
       DeleteAssignment, ReadLastHash, InsertEvent, Commit

(* All other statements read, or end the request. *)
LEMMA OthersRead ==
  ASSUME TypeInv, NEW w \in Workers,
         \/ SubmitSelect(w) \/ FinalizeSelect(w) \/ ReselectDecision(w)
         \/ VoteSelectDecision(w) \/ VoteSelectAssignment(w) \/ VoteSelectVote(w)
         \/ ListRequired(w) \/ ListApprovals(w)
         \/ VetoSelectDecision(w) \/ VetoSelectAssignment(w)
         \/ OverrideSelectVeto(w) \/ OverrideSelectAssignment(w)
         \/ AssignSelect(w) \/ RevokeSelect(w)
  PROVE  Rollback(w) \/ \E s, l : Reads(w, s, l)
<1> USE SessionTyped DEF Reads, Finds, Recorders, RecordingSteps, FinalizingSteps,
                              Unwritten, FirstSteps
<1>1. CASE SubmitSelect(w)
  <2> DEFINE l == [read[w] EXCEPT !.target = "awaiting_approval"]
  <2>1. l.target = "awaiting_approval"
    BY DEF Local
  <2>2. \/ Rollback(w)
        \/ /\ ReadThen(w, "reselect_decision", l) /\ pc[w] = "submit_select"
           /\ decision[req[w].dec] = "pending"
    BY <1>1 DEF SubmitSelect
  <2> HIDE DEF l
  <2> QED BY <2>1, <2>2
<1>2. CASE FinalizeSelect(w)
  BY <1>2 DEF FinalizeSelect
<1>3. CASE ReselectDecision(w)
  <2> DEFINE l == [read[w] EXCEPT !.seen = decision[req[w].dec]]
  <2>1. l.target = read[w].target /\ l.seen = decision[req[w].dec]
    BY DEF Local
  <2>2. pc[w] = "reselect_decision" /\ ReadThen(w, "update_decision", l)
    BY <1>3 DEF ReselectDecision
  <2> HIDE DEF l
  <2> QED BY <2>1, <2>2
<1>4. CASE VoteSelectDecision(w)
  BY <1>4 DEF VoteSelectDecision
<1>5. CASE VoteSelectAssignment(w)
  <2>1. \/ Rollback(w)
        \/ /\ \E l : ReadThen(w, "vote_select_vote", l)
           /\ pc[w] = "vote_select_assignment"
           /\ GetAssignment(req[w].user, DomainOf[req[w].dec]) # {}
    BY <1>5 DEF VoteSelectAssignment
  <2> QED BY <2>1
<1>6. CASE VoteSelectVote(w)
  BY <1>6 DEF VoteSelectVote
<1>7. CASE ListRequired(w)
  <2> DEFINE required == RequiredVoters(DomainOf[req[w].dec])
             l == [read[w] EXCEPT !.required = required]
  <2>1. l.required = required
    BY DEF Local
  <2>2. /\ ReadThen(w, IF required = {} THEN "commit" ELSE "list_approvals", l)
        /\ pc[w] = "list_required"
    BY <1>7 DEF ListRequired
  <2> HIDE DEF l
  <2> QED BY <2>1, <2>2
<1>8. CASE ListApprovals(w)
  <2> DEFINE l == [read[w] EXCEPT !.target = "approved"]
             enough == read[w].required \subseteq Approvers(VisibleVotes(w), req[w].dec)
  <2>1. l.target = "approved"
    BY DEF Local
  <2>2. /\ \/ ReadThen(w, "commit", read[w]) /\ ~enough
           \/ ReadThen(w, "finalize_select", l) /\ enough
        /\ pc[w] = "list_approvals"
    BY <1>8 DEF ListApprovals
  <2> HIDE DEF l
  <2> QED BY <2>1, <2>2
<1>9. CASE VetoSelectDecision(w)
  BY <1>9 DEF VetoSelectDecision
<1>10. CASE VetoSelectAssignment(w)
  <2>1. ASSUME NEW a, a.role \in VETO_ELIGIBLE_ROLES,
               ReadThen(w, "insert_veto", [read[w] EXCEPT !.role = a.role])
        PROVE  \E s, l : Reads(w, s, l)
    <3> DEFINE l == [read[w] EXCEPT !.role = a.role]
    <3>1. l.role \in VETO_ELIGIBLE_ROLES
      BY <2>1 DEF Local
    <3>2. ReadThen(w, "insert_veto", l)
      BY <2>1
    <3> HIDE DEF l
    <3> QED BY <1>10, <3>1, <3>2 DEF VetoSelectAssignment
  <2> QED BY <1>10, <2>1 DEF VetoSelectAssignment
<1>11. CASE OverrideSelectVeto(w)
  BY <1>11 DEF OverrideSelectVeto
<1>12. CASE OverrideSelectAssignment(w)
  BY <1>12 DEF OverrideSelectAssignment
<1>13. CASE AssignSelect(w)
  BY <1>13 DEF AssignSelect
<1>14. CASE RevokeSelect(w)
  BY <1>14 DEF RevokeSelect
<1> QED BY <1>1, <1>2, <1>3, <1>4, <1>5, <1>6, <1>7, <1>8, <1>9, <1>10, <1>11, <1>12,
           <1>13, <1>14

(* A request gets the next id, and refers to a row there is. *)
LEMMA ArriveDoes ==
  ASSUME TypeInv, NEW w \in Workers, Arrive(w)
  PROVE  \E r : \E s \in FirstSteps :
           /\ Begin(w, r, s) /\ r.id = nextId
           /\ r.ref = 0 \/ (\E v \in vetoes : v.id = r.ref) \/ (\E a \in raci : a.id = r.ref)
           /\ s = "insert_decision" => decision[r.dec] = "absent"
<1> USE DEF NoRequest, FirstSteps
<1>1. CASE BeginCreate(w)
  <2>1. PICK d \in Decisions :
          /\ decision[d] = "absent"
          /\ Begin(w, [NoRequest EXCEPT !.id = nextId, !.op = "create", !.dec = d],
                   "insert_decision")
    BY <1>1 DEF BeginCreate
  <2> DEFINE r == [NoRequest EXCEPT !.id = nextId, !.op = "create", !.dec = d]
  <2>2. r.dec = d /\ r.id = nextId /\ r.ref = 0
    OBVIOUS
  <2>3. Begin(w, r, "insert_decision")
    BY <2>1
  <2> HIDE DEF r
  <2> QED BY <2>1, <2>2, <2>3
<1>2. CASE BeginSubmit(w)
  BY <1>2 DEF BeginSubmit
<1>3. CASE BeginVote(w)
  BY <1>3 DEF BeginVote
<1>4. CASE BeginVeto(w)
  BY <1>4 DEF BeginVeto
<1>5. CASE BeginOverride(w)
  <2>1. PICK ref \in {v.id : v \in vetoes} \cup {0}, u \in Users :
          Begin(w, [NoRequest EXCEPT !.id = nextId, !.op = "override", !.user = u, !.ref = ref],
                "override_select_veto")
    BY <1>5 DEF BeginOverride
  <2> DEFINE r == [NoRequest EXCEPT !.id = nextId, !.op = "override", !.user = u, !.ref = ref]
  <2>2. r.id = nextId /\ r.ref = ref
    OBVIOUS
  <2>3. Begin(w, r, "override_select_veto")
    BY <2>1
  <2> HIDE DEF r
  <2> QED BY <2>1, <2>2, <2>3
<1>6. CASE BeginAssign(w)
  <2>1. PICK u \in Users, m \in Domains, k \in RACIRole :
          Begin(w, [NoRequest EXCEPT !.id = nextId, !.op = "assign", !.user = u,
                                     !.domain = m, !.arg = k],
                "assign_select")
    BY <1>6 DEF BeginAssign
  <2> DEFINE r == [NoRequest EXCEPT !.id = nextId, !.op = "assign", !.user = u,
                                     !.domain = m, !.arg = k]
  <2>2. r.id = nextId /\ r.ref = 0
    OBVIOUS
  <2>3. Begin(w, r, "assign_select")
    BY <2>1
  <2> HIDE DEF r
  <2> QED BY <2>1, <2>2, <2>3
<1>7. CASE BeginRevoke(w)
  <2>1. PICK ref \in {a.id : a \in raci} \cup {0} :
          Begin(w, [NoRequest EXCEPT !.id = nextId, !.op = "revoke", !.ref = ref],
                "revoke_select")
    BY <1>7 DEF BeginRevoke
  <2> DEFINE r == [NoRequest EXCEPT !.id = nextId, !.op = "revoke", !.ref = ref]
  <2>2. r.id = nextId /\ r.ref = ref
    OBVIOUS
  <2>3. Begin(w, r, "revoke_select")
    BY <2>1
  <2> HIDE DEF r
  <2> QED BY <2>1, <2>2, <2>3
<1> QED BY <1>1, <1>2, <1>3, <1>4, <1>5, <1>6, <1>7 DEF Arrive

=============================================================================
