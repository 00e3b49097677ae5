---------------------------- MODULE RoleService -----------------------------
(***************************************************************************)
(* assign_role and revoke_role.  ix_raci_user_domain is unique: an INSERT  *)
(* for a (user, domain) that another open transaction inserts or deletes   *)
(* waits for it, and fails if the entry is there afterwards.               *)
(***************************************************************************)
EXTENDS RequestTransaction

BeginAssign(w) ==
  \E u \in Users, m \in Domains, r \in RACIRole :
    Begin(w, [NoRequest EXCEPT !.id = nextId, !.op = "assign", !.user = u,
                               !.domain = m, !.arg = r],
          "assign_select")

AssignSelect(w) ==
  LET existing == GetAssignment(req[w].user, req[w].domain) IN
  /\ pc[w] = "assign_select"
  /\ \/ existing = {} /\ ReadThen(w, "insert_assignment", read[w])
     \/ existing # {} /\ Rollback(w)

(* Mutant: no unique index. *)
InsertAssignmentUnindexed(w) ==
  LET row == [id |-> req[w].id, user |-> req[w].user,
              domain |-> req[w].domain, role |-> req[w].arg]
  IN
  /\ pc[w] = "insert_assignment"
  /\ Statement(w, "last_hash",
               Recording(read[w], "role_assigned", req[w].id, 1, "commit"),
               [staged[w] EXCEPT !.assigned = {row}])

InsertAssignment(w) ==
  LET row == [id |-> req[w].id, user |-> req[w].user,
              domain |-> req[w].domain, role |-> req[w].arg]
      existing == GetAssignment(req[w].user, req[w].domain)
  IN
  /\ pc[w] = "insert_assignment"
  /\ EntryFree(w, req[w].user, req[w].domain)
  /\ \/ /\ existing = {}
        /\ Statement(w, "last_hash",
                     Recording(read[w], "role_assigned", req[w].id, 1, "commit"),
                     [staged[w] EXCEPT !.assigned = {row}])
     \/ existing # {} /\ Rollback(w)              \* IntegrityError

BeginRevoke(w) ==
  \E ref \in {a.id : a \in raci} \cup {0} :
    Begin(w, [NoRequest EXCEPT !.id = nextId, !.op = "revoke", !.ref = ref],
          "revoke_select")

AssignmentById(i) == {a \in raci : a.id = i}

RevokeSelect(w) ==
  LET rows == AssignmentById(req[w].ref) IN
  /\ pc[w] = "revoke_select"
  /\ \/ rows # {} /\ ReadThen(w, "reselect_assignment", read[w])
     \/ rows = {} /\ Rollback(w)

(* PgRACIRepository.delete reads the row again and deletes nothing when it *)
(* is gone; the revocation is recorded either way.                         *)
ReselectAssignment(w) ==
  LET rows == AssignmentById(req[w].ref) IN
  /\ pc[w] = "reselect_assignment"
  /\ ReadThen(w, IF rows = {} THEN "last_hash" ELSE "delete_assignment",
              Recording(read[w], "role_revoked", req[w].ref, 1, "commit"))

(* The DELETE waits for a transaction that deletes the same row; a row     *)
(* that is gone then matches nothing, which is a warning, not an error.    *)
DeleteAssignment(w) ==
  LET rows == AssignmentById(req[w].ref) IN
  /\ pc[w] = "delete_assignment"
  /\ \A a \in rows : EntryFree(w, a.user, a.domain)
  /\ Statement(w, "last_hash", read[w], [staged[w] EXCEPT !.revoked = rows])

RoleStep(w) ==
  \/ AssignSelect(w)
  \/ InsertAssignment(w)
  \/ RevokeSelect(w)
  \/ ReselectAssignment(w)
  \/ DeleteAssignment(w)
=============================================================================
