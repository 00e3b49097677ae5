---------------------------- MODULE VetoService -----------------------------
(***************************************************************************)
(* exercise_veto and override_veto.  Nothing in the engine expires a veto: *)
(* expires_at is stored and returned, never read.                          *)
(***************************************************************************)
EXTENDS DecisionService

BeginVeto(w) ==
  \E d \in Decisions, u \in Users :
    Begin(w, [NoRequest EXCEPT !.id = nextId, !.op = "veto", !.dec = d,
                               !.user = u],
          "veto_select_decision")

(* Mutant: a veto of a decision that is not awaiting approval waits. *)
VetoSelectDecisionPolling(w) ==
  /\ pc[w] = "veto_select_decision"
  /\ ReadThen(w, IF decision[req[w].dec] = "awaiting_approval"
                   THEN "veto_select_assignment" ELSE "veto_select_decision",
              read[w])

VetoSelectDecision(w) ==
  /\ pc[w] = "veto_select_decision"
  /\ \/ /\ decision[req[w].dec] = "awaiting_approval"
        /\ ReadThen(w, "veto_select_assignment", read[w])
     \/ /\ decision[req[w].dec] # "awaiting_approval"
        /\ Rollback(w)

VetoSelectAssignment(w) ==
  LET eligible == {a \in GetAssignment(req[w].user, DomainOf[req[w].dec]) :
                     a.role \in VETO_ELIGIBLE_ROLES}
  IN
  /\ pc[w] = "veto_select_assignment"
  /\ \/ \E a \in eligible :
          ReadThen(w, "insert_veto", [read[w] EXCEPT !.role = a.role])
     \/ eligible = {} /\ Rollback(w)

InsertVeto(w) ==
  LET row == [id |-> req[w].id, dec |-> req[w].dec, by |-> req[w].user,
              role |-> read[w].role, status |-> "active", over |-> None]
  IN
  /\ pc[w] = "insert_veto"
  /\ Statement(w, "finalize_select", [read[w] EXCEPT !.target = "vetoed"],
               [staged[w] EXCEPT !.vetoes = {row}])

(* The client names a veto row, or an id that names none. *)
BeginOverride(w) ==
  \E ref \in {v.id : v \in vetoes} \cup {0}, u \in Users :
    Begin(w, [NoRequest EXCEPT !.id = nextId, !.op = "override", !.user = u,
                               !.ref = ref],
          "override_select_veto")

(* get_by_id of the veto, then of its decision, which exists and whose     *)
(* domain never changes: the second SELECT decides nothing.                *)
OverrideSelectVeto(w) ==
  LET active == {v \in vetoes : v.id = req[w].ref /\ v.status = "active"} IN
  /\ pc[w] = "override_select_veto"
  /\ \/ /\ active # {}
        /\ ReadThen(w, "override_select_assignment", read[w])
     \/ active = {} /\ Rollback(w)

(* Mutant: an equal overrides. *)
OverridersEqual(u, v) ==
  {a \in GetAssignment(u, DomainOf[v.dec]) :
     ROLE_HIERARCHY[a.role] >= ROLE_HIERARCHY[v.role]}

(* Rows of user u that have the authority to override veto v. *)
Overriders(u, v) ==
  {a \in GetAssignment(u, DomainOf[v.dec]) :
     ROLE_HIERARCHY[a.role] > ROLE_HIERARCHY[v.role]}

(* vetoed_by_role never changes, so the row read before still says it. *)
OverrideSelectAssignment(w) ==
  LET mine(v) == v.id = req[w].ref IN
  /\ pc[w] = "override_select_assignment"
  /\ \/ /\ \E v \in vetoes : mine(v) /\ Overriders(req[w].user, v) # {}
        /\ ReadThen(w, "reselect_veto", read[w])
     \/ /\ \A v \in vetoes : mine(v) => Overriders(req[w].user, v) = {}
        /\ Rollback(w)

(* PgVetoRepository.update reads the row again.  Where it already says     *)
(* what is to be written nothing is flushed, else the status is not asked  *)
(* about again.                                                            *)
ReselectVeto(w) ==
  LET same == \E v \in vetoes : v.id = req[w].ref /\ v.over = req[w].user
  IN
  /\ pc[w] = "reselect_veto"
  /\ \E v \in vetoes :
       /\ v.id = req[w].ref
       /\ ReadThen(w, IF same THEN "last_hash" ELSE "update_veto",
                   Recording(read[w], "veto_overridden", v.dec, 1, "commit"))

UpdateVeto(w) ==
  /\ pc[w] = "update_veto"
  /\ VetoFree(w, req[w].ref)
  /\ Statement(w, "last_hash", read[w],
               [staged[w] EXCEPT !.override = req[w].user])

VetoStep(w) ==
  \/ VetoSelectDecision(w)
  \/ VetoSelectAssignment(w)
  \/ InsertVeto(w)
  \/ OverrideSelectVeto(w)
  \/ OverrideSelectAssignment(w)
  \/ ReselectVeto(w)
  \/ UpdateVeto(w)
=============================================================================
