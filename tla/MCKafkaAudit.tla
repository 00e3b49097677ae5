---------------------------- MODULE MCKafkaAudit ---------------------------
(***************************************************************************)
(* A small instance of the Kafka audit trail for TLC.                      *)
(***************************************************************************)
EXTENDS KafkaAudit

OneOfEach == [m \in Mishap |-> 1]
OneRestart == [m \in Mishap |-> IF m = "crash" THEN 1 ELSE 0]
=============================================================================
