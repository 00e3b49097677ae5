---------------------------- MODULE AuditChain -----------------------------
(***************************************************************************)
(* The hash-chained audit trail: odg_core.audit and the queries of         *)
(* PgAuditRepository, over a set of event rows.                            *)
(*                                                                         *)
(* Data abstraction.  A row is a record with at least the fields           *)
(*   at   : occurred_at, a tick of the clock no two events share,          *)
(*   prev : previous_hash.                                                 *)
(* SHA-256 over a payload that contains occurred_at is taken as injective, *)
(* so an event's hash is represented by its "at" and GENESIS_HASH by 0,    *)
(* which no event has.                                                     *)
(***************************************************************************)
EXTENDS Integers, FiniteSets

GENESIS_HASH == 0

(* get_last_hash: ORDER BY occurred_at DESC LIMIT 1, or genesis on an      *)
(* empty table.                                                            *)
LastHash(rows) ==
  IF \E e \in rows : \A f \in rows : f.at =< e.at
    THEN (CHOOSE e \in rows : \A f \in rows : f.at =< e.at).at
    ELSE GENESIS_HASH

(* get_chain: ORDER BY occurred_at LIMIT limit. *)
GetChain(rows, limit) ==
  {e \in rows : Cardinality({f \in rows : f.at < e.at}) < limit}

(* verify_chain: the first event starts at genesis and every other one     *)
(* names the hash of the event before it in time order.                    *)
VerifyChain(rows) ==
  \A e \in rows : e.prev = LastHash({f \in rows : f.at < e.at})

(* AuditService.verify_integrity. *)
VerifyIntegrity(rows, limit) == VerifyChain(GetChain(rows, limit))
=============================================================================
