---------------------------- MODULE KafkaAudit -----------------------------
(***************************************************************************)
(* The audit trail through Kafka: KafkaAuditProducer publishes events to a *)
(* topic, KafkaAuditConsumer reads them and hands each one, with a hash    *)
(* that chains it to the event before, to a function that persists it.     *)
(*                                                                         *)
(* The chain lives in the consumer object (_last_hash), what was read in   *)
(* the offset its group commits to the broker, and the rows in PostgreSQL; *)
(* the properties are about what the three keep of each other when a loop  *)
(* raises, a consumer stops or its process dies.                           *)
(*                                                                         *)
(* The broker, aiokafka and persist_fn are external.  The topic has one    *)
(* partition and one consumer in its group; offsets count from 1.  The     *)
(* caller does not start a second loop, or connect again, while one runs.  *)
(***************************************************************************)
EXTENDS Integers, Sequences, FiniteSets

CONSTANTS
  MaxEvents,  \* bound on the calls of publish_audit_event
  MaxMishaps  \* bounds on the crashes, exceptions and disconnections

Mishap == {"crash", "raise", "stop"}

ASSUME KafkaAssumption ==
  /\ MaxEvents \in Nat
  /\ MaxMishaps \in [Mishap -> Nat]

VARIABLES
  producer,   \* _producer: None, a started or a stopped AIOKafkaProducer
  asked,      \* calls of publish_audit_event so far; they name the events
  log,        \* the topic: the event at each offset
  committed,  \* the offset up to which the group has committed
  consumer,   \* _consumer: None, started, in stop() or stopped
  position,   \* the offset up to which it has returned messages
  running,    \* _running
  lastHash,   \* _last_hash
  loop,       \* where consume() is
  rows,       \* what persist_fn has inserted, in order
  mishaps     \* how often each mishap has happened

kafka == <<producer, asked, log>>
object == <<consumer, running, lastHash, loop>>
vars == <<kafka, committed, position, object, rows, mishaps>>

(* SHA-256 over "previous:event" is taken as injective: a hash stands for  *)
(* the events it was computed from, and "genesis" for none.                *)
Genesis == <<>>

ComputeHashChain(event, previous) == Append(previous, event)

Published == 1..MaxEvents

TypeOK ==
  /\ producer \in {"none", "started", "stopped"}
  /\ asked \in 0..MaxEvents
  /\ log \in Seq(Published)
  /\ position \in 0..Len(log)
  /\ committed \in 0..position
  /\ consumer \in {"none", "started", "stopping", "stopped"}
  /\ running \in BOOLEAN
  /\ lastHash \in Seq(Published)
  /\ loop \in {"idle", "waiting", "persisting", "persisted"}
  /\ rows \in Seq([offset : 1..Len(log), hash : Seq(Published)])
  /\ mishaps \in [Mishap -> Nat]

Init ==
  /\ producer = "none"
  /\ asked = 0
  /\ log = <<>>
  /\ committed = 0
  /\ consumer = "none"
  /\ position = 0
  /\ running = FALSE
  /\ lastHash = Genesis
  /\ loop = "idle"
  /\ rows = <<>>
  /\ mishaps = [m \in Mishap |-> 0]

Happens(m) ==
  /\ mishaps[m] < MaxMishaps[m]
  /\ mishaps' = [mishaps EXCEPT ![m] = @ + 1]
-----------------------------------------------------------------------------
(***************************************************************************)
(* KafkaAuditProducer.                                                     *)
(***************************************************************************)

(* start() succeeds, or raises and leaves None. *)
ConnectProducer ==
  /\ producer # "started"
  /\ producer' \in {"started", "none"}
  /\ UNCHANGED <<asked, log, committed, position, object, rows, mishaps>>

(* The stopped producer is kept. *)
DisconnectProducer ==
  /\ producer = "started"
  /\ producer' = "stopped"
  /\ UNCHANGED <<asked, log, committed, position, object, rows, mishaps>>

(* The event is skipped without a producer and dropped by a stopped one.   *)
(* A started one appends it; without idempotence a retry may append it     *)
(* twice, and a send may fail.  The caller is told nothing.                *)
Publish ==
  LET event == asked + 1
  IN
  /\ asked < MaxEvents
  /\ asked' = event
  /\ IF producer = "started"
       THEN log' \in {log, Append(log, event), log \o <<event, event>>}
       ELSE UNCHANGED log
  /\ UNCHANGED <<producer, committed, position, object, rows, mishaps>>
-----------------------------------------------------------------------------
(***************************************************************************)
(* KafkaAuditConsumer.                                                     *)
(***************************************************************************)

(* Mutant: auto_offset_reset = "latest". *)
ConnectLatest ==
  /\ consumer \in {"none", "stopped"}
  /\ loop = "idle"
  /\ \/ /\ consumer' = "started"
        /\ position' = IF committed = 0 THEN Len(log) ELSE committed
     \/ consumer' = "none" /\ UNCHANGED position
  /\ UNCHANGED <<kafka, committed, running, lastHash, loop, rows, mishaps>>

(* start() joins the group and resumes at the committed offset, or at the  *)
(* earliest one; or it raises and leaves None.                             *)
Connect ==
  /\ consumer \in {"none", "stopped"}
  /\ loop = "idle"
  /\ \/ consumer' = "started" /\ position' = committed
     \/ consumer' = "none" /\ UNCHANGED position
  /\ UNCHANGED <<kafka, committed, running, lastHash, loop, rows, mishaps>>

(* Mutant: the loop never says that it runs. *)
ConsumeNotRunning ==
  /\ loop = "idle"
  /\ consumer # "none"
  /\ loop' = IF consumer = "started" THEN "waiting" ELSE "idle"
  /\ UNCHANGED <<kafka, committed, position, consumer, running, lastHash, rows, mishaps>>

(* consume() enters its loop; a closed consumer has no more messages. *)
Consume ==
  /\ loop = "idle"
  /\ consumer # "none"
  /\ running' = TRUE
  /\ loop' = IF consumer = "started" THEN "waiting" ELSE "idle"
  /\ UNCHANGED <<kafka, committed, position, consumer, lastHash, rows, mishaps>>

(* The consumer returns the next message, which it then counts as read.    *)
(* A loop told to stop breaks and drops it.                                *)
Take ==
  /\ loop = "waiting"
  /\ position < Len(log)
  /\ position' = position + 1
  /\ loop' = IF running THEN "persisting" ELSE "idle"
  /\ UNCHANGED <<kafka, committed, consumer, running, lastHash, rows, mishaps>>

(* persist_fn inserts its row... *)
InsertRow ==
  /\ loop = "persisting"
  /\ rows' = Append(rows, [offset |-> position,
                           hash |-> ComputeHashChain(log[position], lastHash)])
  /\ loop' = "persisted"
  /\ UNCHANGED <<kafka, committed, position, consumer, running, lastHash, mishaps>>

(* Mutant: the loop forgets the hash it persisted. *)
PersistReturnsOnly ==
  /\ loop = "persisted"
  /\ loop' = IF consumer = "started" THEN "waiting" ELSE "idle"
  /\ UNCHANGED <<kafka, committed, position, consumer, running, lastHash, rows, mishaps>>

(* ... and returns: the loop asks for the next message. *)
PersistReturns ==
  /\ loop = "persisted"
  /\ lastHash' = ComputeHashChain(log[position], lastHash)
  /\ loop' = IF consumer = "started" THEN "waiting" ELSE "idle"
  /\ UNCHANGED <<kafka, committed, position, consumer, running, rows, mishaps>>

(* Mutant: the messages not yet committed are read again. *)
LoopRaisesRewinding ==
  /\ loop # "idle"
  /\ Happens("raise")
  /\ loop' = "idle"
  /\ position' = committed
  /\ UNCHANGED <<kafka, committed, consumer, running, lastHash, rows>>

(* The iterator raises, or persist_fn before or after its insertion takes  *)
(* effect, or their await is cancelled: consume() ends.  The consumer      *)
(* stays started.                                                          *)
LoopRaises ==
  /\ loop # "idle"
  /\ Happens("raise")
  /\ loop' = "idle"
  /\ UNCHANGED <<kafka, committed, position, consumer, running, lastHash, rows>>

(* Mutant: the offset of the message after the next one. *)
AutoCommitNext ==
  /\ consumer = "started"
  /\ committed' = position + 1
  /\ UNCHANGED <<kafka, position, object, rows, mishaps>>

(* enable_auto_commit: whatever was returned counts as consumed, whether   *)
(* or not it is persisted.                                                 *)
AutoCommit ==
  /\ consumer = "started"
  /\ committed' = position
  /\ UNCHANGED <<kafka, position, object, rows, mishaps>>

(* disconnect() up to the await of stop().  Without a started consumer it  *)
(* changes nothing a loop would see.                                       *)
Disconnect ==
  /\ consumer = "started"
  /\ Happens("stop")
  /\ running' = FALSE
  /\ consumer' = "stopping"
  /\ UNCHANGED <<kafka, committed, position, lastHash, loop, rows>>

(* stop() commits the position a last time, unless the broker fails it or  *)
(* did so before a last message was returned, and ends the iterator.       *)
Stopped ==
  /\ consumer = "stopping"
  /\ consumer' = "stopped"
  /\ committed' \in {committed, position}
  /\ loop' = IF loop = "waiting" THEN "idle" ELSE loop
  /\ UNCHANGED <<kafka, position, running, lastHash, rows, mishaps>>

(* The process dies; a new one starts from a new object. *)
Crash ==
  /\ Happens("crash")
  /\ consumer' = "none"
  /\ running' = FALSE
  /\ lastHash' = Genesis
  /\ loop' = "idle"
  /\ position' = committed
  /\ UNCHANGED <<kafka, committed, rows>>
-----------------------------------------------------------------------------
Next ==
  \/ ConnectProducer \/ DisconnectProducer \/ Publish
  \/ Connect \/ Consume \/ Take \/ InsertRow \/ PersistReturns \/ LoopRaises
  \/ AutoCommit \/ Disconnect \/ Stopped \/ Crash

Spec == Init /\ [][Next]_vars

(* The event loop resumes a coroutine whose await has been answered, and   *)
(* persist_fn ends.  Nothing obliges the service to start a loop again.    *)
FairSpec == Spec /\ WF_vars(Take \/ InsertRow \/ PersistReturns)
-----------------------------------------------------------------------------
(***************************************************************************)
(* Properties.                                                             *)
(***************************************************************************)
Persisted(o) == \E i \in 1..Len(rows) : rows[i].offset = o

(* Offsets that no consumer will read again: those before the position it  *)
(* holds, or, when it is gone, before the one it left.                     *)
Passed ==
  1..(IF consumer \in {"started", "stopping"} THEN position ELSE committed)

InFlight == IF loop = "persisting" THEN {position} ELSE {}

Lost == {o \in Passed \ InFlight : ~Persisted(o)}

Mishaps == mishaps["crash"] + mishaps["raise"] + mishaps["stop"]

(* A mishap costs at most one event.  The offset is committed ahead of the *)
(* row (auto commit, kafka_consumer.py:53 and :91), so an exception, a     *)
(* stop or a crash between the two loses the message in hand, and never    *)
(* one before or after it.                                                 *)
LossBounded ==
  Cardinality(Lost) =< Mishaps

PreviousHash(i) == IF i = 1 THEN Genesis ELSE rows[i - 1].hash

Breaks ==
  {i \in 1..Len(rows) :
     rows[i].hash # ComputeHashChain(log[rows[i].offset], PreviousHash(i))}

(* A restart or an exception breaks the chain of rows at most once, and a  *)
(* disconnection never: _last_hash survives it, with a loop that is still  *)
(* persisting when stop() returns.                                         *)
BreaksBounded == Cardinality(Breaks) =< mishaps["crash"] + mishaps["raise"]

(* An event is persisted again at most once per restart of the consumer:   *)
(* a loop that raised and is started again goes on behind the message it   *)
(* failed on.                                                              *)
RedeliveryBounded ==
  \A o \in 1..Len(log) :
    Cardinality({i \in 1..Len(rows) : rows[i].offset = o})
      =< 1 + mishaps["crash"] + mishaps["stop"]

(* docs/ARCHITECTURE.md:424: the persisted hash chain can be verified,     *)
(* that is, every row's hash is computed from the row before.              *)
ChainVerifiable == Breaks = {}

(* A loop persists every event that is before it in the topic unless it is *)
(* interrupted meanwhile.  Checked of the first loop and of the one that   *)
(* follows a first mishap.                                                 *)
LoopPersists ==
  \A o \in 1..(2 * MaxEvents), n \in 0..1 :
    (/\ loop # "idle" /\ consumer = "started"
     /\ position < o /\ o =< Len(log) /\ Mishaps = n)
      ~> (Persisted(o) \/ Mishaps > n)
=============================================================================
