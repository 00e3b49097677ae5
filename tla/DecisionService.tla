--------------------------- MODULE DecisionService --------------------------
(***************************************************************************)
(* The decision lifecycle: create_decision, submit_for_approval, and the   *)
(* finalize subroutine that the approval and veto services call inside     *)
(* their own transaction.                                                  *)
(*                                                                         *)
(* submit_for_approval and finalize read the decision, check its status,   *)
(* and hand it to PgDecisionRepository.update, which reads the row again   *)
(* (the session keeps no strong reference to it) and writes it WHERE id =  *)
(* the decision's: the status that was checked is not checked again.       *)
(***************************************************************************)
EXTENDS RequestTransaction

BeginCreate(w) ==
  \E d \in Decisions :
    /\ decision[d] = "absent"                    \* a fresh uuid4
    /\ \A v \in Workers : ~(req[v].op = "create" /\ req[v].dec = d)
    /\ Begin(w, [NoRequest EXCEPT !.id = nextId, !.op = "create", !.dec = d],
             "insert_decision")

InsertDecision(w) ==
  /\ pc[w] = "insert_decision"
  /\ Statement(w, "last_hash",
               Recording(read[w], "decision_created", req[w].dec, 1, "commit"),
               [staged[w] EXCEPT !.status = "pending"])

BeginSubmit(w) ==
  \E d \in Decisions :
    Begin(w, [NoRequest EXCEPT !.id = nextId, !.op = "submit", !.dec = d],
          "submit_select")

(* Mutant: a decision of any status is submitted. *)
SubmitSelectAny(w) ==
  /\ pc[w] = "submit_select"
  /\ \/ /\ decision[req[w].dec] # "absent"
        /\ ReadThen(w, "reselect_decision",
                    [read[w] EXCEPT !.target = "awaiting_approval"])
     \/ /\ decision[req[w].dec] = "absent"
        /\ Rollback(w)

SubmitSelect(w) ==
  /\ pc[w] = "submit_select"
  /\ \/ /\ decision[req[w].dec] = "pending"
        /\ ReadThen(w, "reselect_decision",
                    [read[w] EXCEPT !.target = "awaiting_approval"])
     \/ /\ decision[req[w].dec] # "pending"
        /\ Rollback(w)

(* Mutant: a finalization that comes too late goes unnoticed. *)
FinalizeSelectSilent(w) ==
  /\ pc[w] = "finalize_select"
  /\ \/ /\ decision[req[w].dec] = "awaiting_approval"
        /\ ReadThen(w, "reselect_decision", read[w])
     \/ /\ decision[req[w].dec] # "awaiting_approval"
        /\ ReadThen(w, "commit", read[w])

FinalizeSelect(w) ==
  /\ pc[w] = "finalize_select"
  /\ \/ /\ decision[req[w].dec] = "awaiting_approval"
        /\ ReadThen(w, "reselect_decision", read[w])
     \/ /\ decision[req[w].dec] # "awaiting_approval"
        /\ Rollback(w)

ReselectDecision(w) ==
  /\ pc[w] = "reselect_decision"
  /\ ReadThen(w, "update_decision",
              [read[w] EXCEPT !.seen = decision[req[w].dec]])

(* Mutant: the status changes without its audit event. *)
UpdateDecisionUnrecorded(w) ==
  /\ pc[w] = "update_decision"
  /\ DecisionFree(w, req[w].dec)
  /\ Statement(w, "commit", read[w],
               [staged[w] EXCEPT !.locked = TRUE, !.status = read[w].target])

(* The UPDATE waits for the row, then sets the columns the session saw     *)
(* change: status only if the row re-read had another one.  A veto records *)
(* VETO_EXERCISED in finalize and once more in exercise_veto.              *)
UpdateDecision(w) ==
  LET target == read[w].target
      copies == IF req[w].op = "veto" THEN 2 ELSE 1
  IN
  /\ pc[w] = "update_decision"
  /\ DecisionFree(w, req[w].dec)
  /\ Statement(w, "last_hash",
               Recording(read[w], EventOf(target), req[w].dec, copies, "commit"),
               [staged[w] EXCEPT
                  !.locked = TRUE,
                  !.status = IF read[w].seen = target THEN None ELSE target])

DecisionStep(w) ==
  \/ InsertDecision(w)
  \/ SubmitSelect(w)
  \/ FinalizeSelect(w)
  \/ ReselectDecision(w)
  \/ UpdateDecision(w)
=============================================================================
