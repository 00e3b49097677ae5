------------------------- MODULE RequestTransaction -------------------------
(***************************************************************************)
(* The database session every request of the governance engine runs in.    *)
(*                                                                         *)
(* get_session opens one session and one transaction for a request; every  *)
(* service of that request shares it.  The transaction commits when the    *)
(* handler returns and rolls back when anything raises.  PostgreSQL runs   *)
(* it at READ COMMITTED: a statement sees what is committed when it runs   *)
(* and what its own transaction has written, and an UPDATE, a DELETE or an *)
(* INSERT under a unique index waits for a transaction that holds the row. *)
(*                                                                         *)
(* The tables hold committed rows only.  What an open transaction has      *)
(* written is in staged[w], what its handler has read and still uses is in *)
(* read[w], and pc[w] names the SQL statement it executes next.  One step  *)
(* of a worker is one statement, with the Python code that runs between    *)
(* the answer of that statement and the next one.                          *)
(***************************************************************************)
EXTENDS GovernanceTypes, AuditChain, Sequences

CONSTANTS
  Workers,    \* requests that can be open at the same time
  Users,      \* user ids
  Domains,    \* data domains
  Decisions,  \* decision ids
  DomainOf,   \* the domain_id of each decision
  Seed,       \* the role assignments made before the behaviour starts
  Limits,     \* the mixes of requests, by kind, the clients may make
  None        \* Python's None

Ops == {"create", "submit", "vote", "veto", "override", "assign", "revoke"}

(* Bound on the audit ids compared: the default limit of verify_integrity. *)
ChainLimit == 1000

ASSUME DomainsAssumption == DomainOf \in [Decisions -> Domains]

ASSUME NoneAssumption ==
  None \notin Users \cup Decisions \cup DecisionStatus \cup RACIRole \cup VoteValue

(* Seed lists assign_role calls; the unique index admits one role per user *)
(* and domain.                                                             *)
ASSUME SeedAssumption ==
  /\ Seed \in Seq([user : Users, domain : Domains, role : RACIRole])
  /\ \A i, j \in 1..Len(Seed) :
       /\ Seed[i].user = Seed[j].user
       /\ Seed[i].domain = Seed[j].domain
       => i = j

ASSUME LimitsAssumption == Limits \subseteq [Ops -> Nat]

VARIABLES
  decision,  \* governance_decisions: the status of each decision, or "absent"
  votes,     \* approval_records
  vetoes,    \* veto_records
  raci,      \* raci_assignments
  audit,     \* audit_events
  clock,     \* the wall clock, in ticks
  nextId,    \* source of fresh row ids: one per request
  begun,     \* how many requests of each kind have begun
  pc,        \* the statement each worker executes next
  req,       \* the request each worker serves
  read,      \* what its handler has read
  staged     \* what its transaction has written

tables == <<decision, votes, vetoes, raci, audit>>
counters == <<clock, nextId, begun>>
session == <<pc, req, read, staged>>
vars == <<tables, counters, session>>

(***************************************************************************)
(* The shape of the state.                                                 *)
(***************************************************************************)
Vote ==
  [id : Nat, dec : Decisions, voter : Users, role : RACIRole, vote : VoteValue]

Veto ==
  [id : Nat, dec : Decisions, by : Users, role : RACIRole,
   status : VetoStatus, over : Users \cup {None}]

Assignment ==
  [id : Nat, user : Users, domain : Domains, role : RACIRole]

Event ==
  [type : EventType, entity : Decisions \cup Nat, actor : Users \cup {"system", "client"},
   at : Nat, prev : Nat]

Step ==
  {"idle", "insert_decision", "submit_select", "finalize_select",
   "reselect_decision", "update_decision", "vote_select_decision",
   "vote_select_assignment", "vote_select_vote", "insert_vote",
   "list_required", "list_approvals", "veto_select_decision",
   "veto_select_assignment", "insert_veto", "override_select_veto",
   "override_select_assignment", "reselect_veto", "update_veto",
   "assign_select", "insert_assignment", "revoke_select",
   "reselect_assignment", "delete_assignment",
   "last_hash", "insert_event", "commit"}

Request ==
  [id : Nat, op : Ops \cup {"none"}, dec : Decisions \cup {None},
   user : Users \cup {None}, domain : Domains \cup {None},
   arg : VoteValue \cup RACIRole \cup {None}, ref : Nat]

Local ==
  [role : RACIRole \cup {None},           \* the role of the caller
   required : SUBSET Users,               \* required_voters
   target : DecisionStatus \cup {None},   \* the status to set
   seen : DecisionStatus \cup {"absent", None}, \* the status as re-read
   event : EventType \cup {None},         \* the audit event being recorded
   entity : Decisions \cup Nat,            \* the row it is about
   due : 0..2,                            \* how many times it is recorded
   last : Nat,                            \* last_hash
   then : Step]                           \* where record_event returns to

Staged ==
  [locked : BOOLEAN,                      \* holds the row lock of its decision
   status : DecisionStatus \cup {None},
   votes : SUBSET Vote, vetoes : SUBSET Veto, override : Users \cup {None},
   assigned : SUBSET Assignment, revoked : SUBSET Assignment,
   events : SUBSET Event]

NoRequest ==
  [id |-> 0, op |-> "none", dec |-> None, user |-> None, domain |-> None,
   arg |-> None, ref |-> 0]

NothingRead ==
  [role |-> None, required |-> {}, target |-> None, seen |-> None,
   event |-> None, entity |-> 0, due |-> 0, last |-> 0, then |-> "commit"]

NothingStaged ==
  [locked |-> FALSE, status |-> None, votes |-> {}, vetoes |-> {},
   override |-> None, assigned |-> {}, revoked |-> {}, events |-> {}]

TypeOK ==
  /\ decision \in [Decisions -> DecisionStatus \cup {"absent"}]
  /\ votes \subseteq Vote
  /\ vetoes \subseteq Veto
  /\ raci \subseteq Assignment
  /\ audit \subseteq Event
  /\ clock \in Nat
  /\ nextId \in Nat
  /\ begun \in [Ops -> Nat]
  /\ pc \in [Workers -> Step]
  /\ req \in [Workers -> Request]
  /\ read \in [Workers -> Local]
  /\ staged \in [Workers -> Staged]
-----------------------------------------------------------------------------
(***************************************************************************)
(* What a statement of worker w sees, and what it waits for.               *)
(***************************************************************************)
VisibleVotes(w) == votes \cup staged[w].votes

(* Mutant: a transaction does not see its own events. *)
CommittedEvents(w) == audit

VisibleEvents(w) == audit \cup staged[w].events

(* PgRACIRepository.get_assignment; no handler reads one after writing one *)
GetAssignment(u, m) == {a \in raci : a.user = u /\ a.domain = m}

(* Row locks of other transactions: on a decision, on a veto, and on an    *)
(* entry of the unique index over (user, domain).                          *)
DecisionFree(w, d) ==
  \A v \in Workers \ {w} : ~(staged[v].locked /\ req[v].dec = d)

VetoFree(w, i) ==
  \A v \in Workers \ {w} : ~(staged[v].override # None /\ req[v].ref = i)

EntryFree(w, u, m) ==
  \A v \in Workers \ {w} : \A a \in staged[v].assigned \cup staged[v].revoked :
    ~(a.user = u /\ a.domain = m)
-----------------------------------------------------------------------------
(***************************************************************************)
(* The ways a worker moves.                                                *)
(***************************************************************************)

(* One statement: w goes on to step s with locals l and writes x. *)
Statement(w, s, l, x) ==
  /\ pc' = [pc EXCEPT ![w] = s]
  /\ read' = [read EXCEPT ![w] = l]
  /\ staged' = [staged EXCEPT ![w] = x]
  /\ UNCHANGED <<tables, counters, req>>

(* A statement that only reads. *)
ReadThen(w, s, l) == Statement(w, s, l, staged[w])

(* A request r arrives; its handler starts at step s. *)
Begin(w, r, s) ==
  /\ pc[w] = "idle"
  /\ begun' = [begun EXCEPT ![r.op] = @ + 1]
  /\ \E limit \in Limits : \A op \in Ops : begun'[op] <= limit[op]
  /\ nextId' = nextId + 1
  /\ pc' = [pc EXCEPT ![w] = s]
  /\ req' = [req EXCEPT ![w] = r]
  /\ UNCHANGED <<tables, clock, read, staged>>

(* The transaction ends: its writes and locks are gone from the session. *)
EndSession(w) ==
  /\ pc' = [pc EXCEPT ![w] = "idle"]
  /\ req' = [req EXCEPT ![w] = NoRequest]
  /\ read' = [read EXCEPT ![w] = NothingRead]
  /\ staged' = [staged EXCEPT ![w] = NothingStaged]
  /\ UNCHANGED counters

(* A ValueError, turned into a 4xx by the route, leaves the session block  *)
(* through the exception: nothing of the request stays.                    *)
Rollback(w) == EndSession(w) /\ UNCHANGED tables

(* The update of a veto row that w has staged, applied to row v. *)
Overridden(w, v) ==
  IF staged[w].override # None /\ v.id = req[w].ref
    THEN [v EXCEPT !.status = "overridden", !.over = staged[w].override]
    ELSE v

(* The handler returned: session.begin() commits all of its writes. *)
Commit(w) ==
  /\ pc[w] = "commit"
  /\ decision' = IF staged[w].status = None THEN decision
                 ELSE [decision EXCEPT ![req[w].dec] = staged[w].status]
  /\ votes' = votes \cup staged[w].votes
  /\ vetoes' = {Overridden(w, v) : v \in vetoes} \cup staged[w].vetoes
  /\ raci' = (raci \ staged[w].revoked) \cup staged[w].assigned
  /\ audit' = audit \cup staged[w].events
  /\ EndSession(w)

(* The client disconnects, the database errs or the process dies while the *)
(* transaction is open.                                                    *)
Fail(w) == pc[w] # "idle" /\ Rollback(w)
-----------------------------------------------------------------------------
(***************************************************************************)
(* AuditService.record_event, as a subroutine of two statements.           *)
(***************************************************************************)

(* Locals with which a handler records an event about a row, n times, and  *)
(* goes on at step s.                                                      *)
Recording(l, type, row, n, s) ==
  [l EXCEPT !.event = type, !.entity = row, !.due = n, !.then = s]

ReadLastHash(w) ==
  /\ pc[w] = "last_hash"
  /\ ReadThen(w, "insert_event",
              [read[w] EXCEPT !.last = LastHash(VisibleEvents(w))])

(* actor_id.  Voters, vetoers and overriders are told apart; who created,  *)
(* submitted, assigned or revoked only labels the event: "client".         *)
EventActor(w) ==
  CASE read[w].event = "decision_approved"          -> "system"
    [] /\ read[w].event # "decision_approved"
       /\ req[w].op \in {"vote", "veto", "override"} -> req[w].user
    [] OTHER                                         -> "client"

(* Mutant: the event is committed by itself. *)
InsertEventAtOnce(w) ==
  LET e == [type |-> read[w].event, entity |-> read[w].entity,
            actor |-> EventActor(w), at |-> clock + 1, prev |-> read[w].last]
  IN
  /\ pc[w] = "insert_event"
  /\ clock' = clock + 1
  /\ pc' = [pc EXCEPT ![w] = IF read[w].due = 1 THEN read[w].then ELSE "last_hash"]
  /\ read' = [read EXCEPT ![w].due = @ - 1]
  /\ audit' = audit \cup {e}
  /\ UNCHANGED <<decision, votes, vetoes, raci, nextId, begun, req, staged>>

(* The event is built, sealed and inserted: occurred_at is the clock now.  *)
InsertEvent(w) ==
  LET e == [type |-> read[w].event, entity |-> read[w].entity,
            actor |-> EventActor(w), at |-> clock + 1, prev |-> read[w].last]
  IN
  /\ pc[w] = "insert_event"
  /\ clock' = clock + 1
  /\ pc' = [pc EXCEPT ![w] = IF read[w].due = 1 THEN read[w].then ELSE "last_hash"]
  /\ read' = [read EXCEPT ![w].due = @ - 1]
  /\ staged' = [staged EXCEPT ![w].events = @ \cup {e}]
  /\ UNCHANGED <<tables, nextId, begun, req>>
=============================================================================
