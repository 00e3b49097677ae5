-------------------------- MODULE KafkaAuditProofs -------------------------
(***************************************************************************)
(* What a mishap can cost the audit trail, for every number of events and  *)
(* mishaps.                                                                *)
(***************************************************************************)
EXTENDS KafkaAudit, SequenceTheorems, FiniteSetTheorems, TLAPS

(* The topic only grows. *)
LEMMA PublishAppends ==
  ASSUME TypeOK, Publish
  PROVE  /\ log' \in Seq(Published)
         /\ Len(log') >= Len(log)
         /\ \A o \in 1..Len(log) : log'[o] = log[o]
  <1> DEFINE event == asked + 1
  <1>1. event \in Published /\ log \in Seq(Published) /\ Len(log) \in Nat
    BY KafkaAssumption, LenProperties DEF TypeOK, Publish, Published
  <1> HIDE DEF event
  <1>2. log' \in {log, Append(log, event), log \o <<event, event>>}
    BY DEF Publish, event
  <1>3. CASE log' = log
    BY <1>1, <1>3
  <1>4. CASE log' = Append(log, event)
    BY <1>1, <1>4, AppendProperties
  <1>5. CASE log' = log \o <<event, event>>
    <2>1. <<event, event>> \in Seq(Published) /\ Len(<<event, event>>) = 2
      BY <1>1
    <2> QED
      BY <1>1, <1>5, <2>1, ConcatProperties
  <1> QED
    BY <1>2, <1>3, <1>4, <1>5

LEMMA HappensCounts ==
  ASSUME TypeOK, NEW m \in Mishap, Happens(m)
  PROVE  /\ mishaps' \in [Mishap -> Nat]
         /\ mishaps'[m] = mishaps[m] + 1
         /\ \A n \in Mishap \ {m} : mishaps'[n] = mishaps[n]
  BY DEF TypeOK, Happens

(* Their sum, as the properties bound it. *)
LEMMA MishapsCount ==
  ASSUME TypeOK
  PROVE  /\ \A m \in Mishap : Happens(m) => Mishaps' = Mishaps + 1
         /\ mishaps["crash"] \in Nat /\ mishaps["raise"] \in Nat
         /\ mishaps["stop"] \in Nat /\ Mishaps \in Nat
  <1>1. mishaps["crash"] \in Nat /\ mishaps["raise"] \in Nat /\ mishaps["stop"] \in Nat
    BY DEF TypeOK, Mishap
  <1>2. ASSUME NEW m \in Mishap, Happens(m)
        PROVE  Mishaps' = Mishaps + 1
    BY <1>1, <1>2, HappensCounts DEF Mishap, Mishaps
  <1> QED
    BY <1>1, <1>2 DEF Mishaps
-----------------------------------------------------------------------------
(***************************************************************************)
(* Types, and the control state a mishap finds the loop in.                *)
(***************************************************************************)
LoopInv ==
  /\ loop \in {"persisting", "persisted"} => position # 0
  /\ loop = "waiting" => consumer \in {"started", "stopping"}
  /\ loop # "idle" => (running <=> consumer = "started")

TypeInv == TypeOK /\ LoopInv

LEMMA TypeInvInit == Init => TypeInv
  <1> SUFFICES ASSUME Init
               PROVE  TypeInv
    OBVIOUS
  <1>1. /\ log \in Seq(Published) /\ Len(log) = 0
        /\ lastHash \in Seq(Published)
        /\ rows \in Seq([offset : 1..Len(log), hash : Seq(Published)])
    BY EmptySeq DEF Init, Genesis
  <1>2. mishaps \in [Mishap -> Nat]
    BY DEF Init
  <1>3. /\ producer = "none" /\ asked = 0 /\ committed = 0 /\ position = 0
        /\ consumer = "none" /\ running = FALSE /\ loop = "idle"
    BY DEF Init
  <1>4. asked \in 0..MaxEvents /\ position \in 0..Len(log) /\ committed \in 0..position
    BY <1>1, <1>3, KafkaAssumption
  <1>5. LoopInv
    BY <1>3 DEF LoopInv
  <1> QED
    BY <1>1, <1>2, <1>3, <1>4, <1>5 DEF TypeInv, TypeOK

LEMMA TypeInvNext == TypeInv /\ [Next]_vars => TypeInv'
  <1> SUFFICES ASSUME TypeInv, [Next]_vars
               PROVE  TypeInv'
    OBVIOUS
  <1> USE KafkaAssumption DEF TypeInv, TypeOK, LoopInv
  <1>1. CASE UNCHANGED vars
    BY <1>1 DEF vars, kafka, object
  <1>2. CASE ConnectProducer
    BY <1>2 DEF ConnectProducer, object
  <1>3. CASE DisconnectProducer
    BY <1>3 DEF DisconnectProducer, object
  <1>4. CASE Publish
    <2>1. /\ log' \in Seq(Published)
          /\ Len(log) \in Nat /\ Len(log') \in Nat /\ Len(log') >= Len(log)
      BY <1>4, PublishAppends, LenProperties
    <2>2. [offset : 1..Len(log), hash : Seq(Published)]
            \subseteq [offset : 1..Len(log'), hash : Seq(Published)]
      BY <2>1
    <2>3. rows \in Seq([offset : 1..Len(log'), hash : Seq(Published)])
      BY <2>2, SeqMonotonic
    <2> QED
      BY <1>4, <2>1, <2>3 DEF Publish, object
  <1>5. CASE Connect
    BY <1>5 DEF Connect, kafka
  <1>6. CASE Consume
    BY <1>6 DEF Consume, kafka
  <1>7. CASE Take
    BY <1>7, LenProperties DEF Take, kafka
  <1>8. CASE InsertRow
    <2>1. position \in 1..Len(log)
      BY <1>8, LenProperties DEF InsertRow
    <2>2. Append(lastHash, log[position]) \in Seq(Published)
      BY <2>1, AppendProperties, ElementOfSeq
    <2>3. rows' \in Seq([offset : 1..Len(log), hash : Seq(Published)])
      BY <1>8, <2>1, <2>2, AppendProperties DEF InsertRow, ComputeHashChain
    <2> QED
      BY <1>8, <2>1, <2>3 DEF InsertRow, kafka
  <1>9. CASE PersistReturns
    <2>1. position \in 1..Len(log)
      BY <1>9, LenProperties DEF PersistReturns
    <2>2. Append(lastHash, log[position]) \in Seq(Published)
      BY <2>1, AppendProperties, ElementOfSeq
    <2> QED
      BY <1>9, <2>2 DEF PersistReturns, ComputeHashChain, kafka
  <1>10. CASE LoopRaises
    <2>1. mishaps' \in [Mishap -> Nat]
      BY <1>10, HappensCounts DEF LoopRaises, Mishap
    <2> QED
      BY <1>10, <2>1 DEF LoopRaises, kafka
  <1>11. CASE AutoCommit
    BY <1>11 DEF AutoCommit, kafka, object
  <1>12. CASE Disconnect
    <2>1. mishaps' \in [Mishap -> Nat]
      BY <1>12, HappensCounts DEF Disconnect, Mishap
    <2> QED
      BY <1>12, <2>1 DEF Disconnect, kafka
  <1>13. CASE Stopped
    BY <1>13 DEF Stopped, kafka
  <1>14. CASE Crash
    <2>1. mishaps' \in [Mishap -> Nat]
      BY <1>14, HappensCounts DEF Crash, Mishap
    <2>2. lastHash' \in Seq(Published)
      BY <1>14, EmptySeq DEF Crash, Genesis
    <2>3. position' \in 0..Len(log)
      BY <1>14, LenProperties DEF Crash
    <2>4. /\ consumer' = "none" /\ running' = FALSE /\ loop' = "idle"
          /\ committed' \in 0..position'
      BY <1>14 DEF Crash
    <2>5. UNCHANGED <<producer, asked, log, rows>>
      BY <1>14 DEF Crash, kafka
    <2> QED
      BY <2>1, <2>2, <2>3, <2>4, <2>5
  <1> QED
    BY <1>1, <1>2, <1>3, <1>4, <1>5, <1>6, <1>7, <1>8, <1>9, <1>10, <1>11,
       <1>12, <1>13, <1>14 DEF Next

(* Every state of the Kafka trail is well typed: the group never commits   *)
(* an offset it has not read, and no row is about an offset that does not  *)
(* exist.                                                                  *)
THEOREM KafkaTypeCorrect == Spec => []TypeOK
  <1>1. Spec => []TypeInv
    BY TypeInvInit, TypeInvNext, PTL DEF Spec
  <1> QED
    BY <1>1, PTL DEF TypeInv
-----------------------------------------------------------------------------
(***************************************************************************)
(* Counting.                                                               *)
(***************************************************************************)
LEMMA FewerElements ==
  ASSUME NEW S, IsFiniteSet(S), NEW T, T \subseteq S
  PROVE  /\ IsFiniteSet(T)
         /\ Cardinality(S) \in Nat /\ Cardinality(T) \in Nat
         /\ Cardinality(T) =< Cardinality(S)
  BY FS_Subset, FS_CardinalityType

LEMMA OneElementMore ==
  ASSUME NEW S, IsFiniteSet(S), NEW x, NEW T, T \subseteq S \cup {x}
  PROVE  /\ IsFiniteSet(T)
         /\ Cardinality(S) \in Nat /\ Cardinality(T) \in Nat
         /\ Cardinality(T) =< Cardinality(S) + 1
  <1>1. /\ IsFiniteSet(S \cup {x})
        /\ Cardinality(S \cup {x}) = Cardinality(S) \/ Cardinality(S \cup {x}) = Cardinality(S) + 1
    BY FS_AddElement
  <1>2. Cardinality(S) \in Nat
    BY FS_CardinalityType
  <1> QED
    BY <1>1, <1>2, FewerElements

(* Rows are about offsets of the topic, and InsertRow adds one at the end. *)
LEMMA RowsFacts ==
  ASSUME TypeOK
  PROVE  /\ Len(rows) \in Nat /\ Len(log) \in Nat
         /\ \A i \in 1..Len(rows) : rows[i].offset \in 1..Len(log)
         /\ IsFiniteSet(1..Len(rows)) /\ IsFiniteSet(1..Len(log))
  <1>1. Len(rows) \in Nat /\ Len(log) \in Nat
    BY LenProperties DEF TypeOK
  <1>2. ASSUME NEW i \in 1..Len(rows)
        PROVE  rows[i].offset \in 1..Len(log)
    <2>1. rows[i] \in [offset : 1..Len(log), hash : Seq(Published)]
      BY <1>2, ElementOfSeq DEF TypeOK
    <2> QED
      BY <2>1
  <1> QED
    BY <1>1, <1>2, FS_Interval

LEMMA InsertRowFacts ==
  ASSUME TypeInv, InsertRow
  PROVE  /\ Len(rows') = Len(rows) + 1
         /\ \A i \in 1..Len(rows) : rows'[i] = rows[i]
         /\ rows'[Len(rows) + 1].offset = position
         /\ rows'[Len(rows) + 1].hash = ComputeHashChain(log[position], lastHash)
  <1> DEFINE row == [offset |-> position,
                     hash |-> ComputeHashChain(log[position], lastHash)]
             Row == [offset : 1..Len(log), hash : Seq(Published)]
  <1>1. position \in 1..Len(log)
    BY LenProperties DEF InsertRow, TypeInv, TypeOK, LoopInv
  <1>2. ComputeHashChain(log[position], lastHash) \in Seq(Published)
    BY <1>1, AppendProperties, ElementOfSeq DEF ComputeHashChain, TypeInv, TypeOK
  <1>3. row \in Row /\ rows \in Seq(Row)
    BY <1>1, <1>2 DEF TypeInv, TypeOK
  <1>4. /\ row.offset = position
        /\ row.hash = ComputeHashChain(log[position], lastHash)
    OBVIOUS
  <1>5. rows' = Append(rows, row)
    BY DEF InsertRow
  <1> HIDE DEF row, Row
  <1> QED
    BY <1>3, <1>4, <1>5, AppendProperties, LenProperties
-----------------------------------------------------------------------------
(***************************************************************************)
(* Breaks of the chain.  A mishap between the insertion of a row and the   *)
(* assignment of _last_hash leaves the object detached from the rows; the  *)
(* next row pays with a break, and ties them together again.               *)
(***************************************************************************)
TailHash == PreviousHash(Len(rows) + 1)

Detached == IF loop # "persisted" /\ lastHash # TailHash THEN 1 ELSE 0

BreaksInv ==
  /\ Cardinality(Breaks) + Detached =< mishaps["crash"] + mishaps["raise"]
  /\ loop = "persisted" => TailHash = ComputeHashChain(log[position], lastHash)

LEMMA BreaksFinite ==
  ASSUME TypeOK
  PROVE  IsFiniteSet(Breaks) /\ Cardinality(Breaks) \in Nat
  <1>1. Breaks \subseteq 1..Len(rows)
    BY DEF Breaks
  <1> QED
    BY <1>1, RowsFacts, FewerElements

(* A step that inserts no row leaves breaks and tail as they are. *)
LEMMA BreaksKept ==
  ASSUME TypeOK, UNCHANGED rows,
         \A o \in 1..Len(log) : log'[o] = log[o]
  PROVE  Breaks' = Breaks /\ TailHash' = TailHash
  <1>1. TailHash' = TailHash /\ \A i \in 1..Len(rows) : PreviousHash(i)' = PreviousHash(i)
    BY DEF TailHash, PreviousHash
  <1>2. \A i \in 1..Len(rows) : log'[rows[i].offset] = log[rows[i].offset]
    BY RowsFacts
  <1> QED
    BY <1>1, <1>2 DEF Breaks, ComputeHashChain

LEMMA BreaksInvInit == Init => BreaksInv
  <1> SUFFICES ASSUME Init
               PROVE  BreaksInv
    OBVIOUS
  <1>1. Len(rows) = 0
    BY DEF Init
  <1>2. TailHash = Genesis /\ lastHash = Genesis /\ loop = "idle"
    BY <1>1 DEF Init, TailHash, PreviousHash
  <1>3. Breaks = {}
    BY <1>1 DEF Breaks
  <1>4. Cardinality(Breaks) = 0 /\ Detached = 0
    BY <1>2, <1>3, FS_EmptySet DEF Detached
  <1>5. mishaps["crash"] = 0 /\ mishaps["raise"] = 0
    BY DEF Init, Mishap
  <1> QED
    BY <1>2, <1>4, <1>5 DEF BreaksInv

LEMMA InsertRowBreaks ==
  ASSUME TypeInv, BreaksInv, InsertRow
  PROVE  BreaksInv'
  <1> DEFINE new == Len(rows) + 1
  <1>1. Len(rows) \in Nat /\ Len(rows') = new /\ UNCHANGED <<log, position, lastHash, mishaps>>
    BY RowsFacts, InsertRowFacts DEF InsertRow, kafka, TypeInv
  <1>2. \A i \in 1..new : PreviousHash(i)' = PreviousHash(i)
    <2>1. \A i \in 1..new : i # 1 => i - 1 \in 1..Len(rows)
      BY <1>1
    <2> QED
      BY <2>1, InsertRowFacts DEF PreviousHash
  <1>3. TailHash' = ComputeHashChain(log[position], lastHash)
    <2>1. Len(rows') + 1 # 1 /\ (Len(rows') + 1) - 1 = new
      BY <1>1
    <2> QED
      BY <2>1, InsertRowFacts DEF TailHash, PreviousHash
  <1>4. \A i \in 1..new : i # new => i \in 1..Len(rows) /\ rows'[i] = rows[i]
    BY <1>1, InsertRowFacts
  <1>5. Breaks' \subseteq Breaks \cup {new}
    BY <1>1, <1>2, <1>4 DEF Breaks, ComputeHashChain
  <1>6. new \in Breaks' => lastHash # TailHash
    BY <1>1, <1>2, InsertRowFacts DEF Breaks, TailHash, ComputeHashChain
  <1>7. Cardinality(Breaks') =< Cardinality(Breaks) + Detached /\ Cardinality(Breaks') \in Nat
    <2>0. loop = "persisting" /\ IsFiniteSet(Breaks) /\ Cardinality(Breaks) \in Nat
      BY BreaksFinite DEF InsertRow, TypeInv
    <2>1. CASE lastHash # TailHash
      BY <2>0, <2>1, <1>5, OneElementMore DEF Detached
    <2>2. CASE lastHash = TailHash
      <3>1. Breaks' \subseteq Breaks
        BY <2>2, <1>5, <1>6
      <3> QED
        BY <2>0, <2>2, <3>1, FewerElements DEF Detached
    <2> QED
      BY <2>1, <2>2
  <1>8. loop' = "persisted" /\ Detached' = 0
    BY DEF InsertRow, Detached
  <1> QED
    BY <1>1, <1>3, <1>7, <1>8, BreaksFinite, MishapsCount DEF BreaksInv, TypeInv, Detached

LEMMA BreaksInvNext == TypeInv /\ BreaksInv /\ [Next]_vars => BreaksInv'
  <1> SUFFICES ASSUME TypeInv, BreaksInv, [Next]_vars
               PROVE  BreaksInv'
    OBVIOUS
  <1>1. /\ TypeOK /\ Cardinality(Breaks) \in Nat
        /\ mishaps["crash"] \in Nat /\ mishaps["raise"] \in Nat
        /\ \A m \in Mishap : Happens(m) =>
             /\ mishaps'[m] = mishaps[m] + 1
             /\ \A n \in Mishap \ {m} : mishaps'[n] = mishaps[n]
    BY BreaksFinite, MishapsCount, HappensCounts DEF TypeInv
  <1>2. CASE InsertRow
    BY <1>2, InsertRowBreaks
  <1>3. CASE Publish
    <2>1. UNCHANGED <<rows, lastHash, loop, position, mishaps>>
      BY <1>3 DEF Publish, object
    <2>2. Breaks' = Breaks /\ TailHash' = TailHash
      BY <1>1, <1>3, <2>1, PublishAppends, BreaksKept
    <2>3. loop = "persisted" => log'[position] = log[position]
      BY <1>1, <1>3, PublishAppends, RowsFacts DEF TypeInv, TypeOK, LoopInv
    <2> QED
      BY <2>1, <2>2, <2>3 DEF BreaksInv, Detached, ComputeHashChain
  <1>4. CASE PersistReturns
    <2>1. /\ UNCHANGED <<rows, log, mishaps>> /\ loop' # "persisted"
          /\ lastHash' = TailHash
      BY <1>4 DEF PersistReturns, kafka, BreaksInv
    <2>2. Breaks' = Breaks /\ TailHash' = TailHash
      BY <1>1, <2>1, BreaksKept
    <2>3. Detached' = 0 /\ Detached \in 0..1
      BY <2>1, <2>2 DEF Detached
    <2> QED
      BY <1>1, <2>1, <2>2, <2>3 DEF BreaksInv
  <1>5. CASE LoopRaises \/ Crash
    <2>1. /\ UNCHANGED <<rows, log>> /\ loop' # "persisted"
          /\ Happens("raise") \/ Happens("crash")
      BY <1>5 DEF LoopRaises, Crash, kafka
    <2>2. Breaks' = Breaks
      BY <1>1, <2>1, BreaksKept
    <2>3. mishaps'["crash"] + mishaps'["raise"] = mishaps["crash"] + mishaps["raise"] + 1
      BY <1>1, <2>1 DEF Mishap
    <2>4. Detached \in 0..1 /\ Detached' \in 0..1
      BY DEF Detached
    <2> QED
      BY <1>1, <2>1, <2>2, <2>3, <2>4 DEF BreaksInv
  <1>6. CASE \/ ConnectProducer \/ DisconnectProducer \/ Connect \/ Consume
             \/ Take \/ AutoCommit \/ Disconnect \/ Stopped \/ UNCHANGED vars
    <2>1. /\ UNCHANGED <<rows, log, lastHash>>
          /\ loop' = "persisted" <=> loop = "persisted"
          /\ loop = "persisted" => UNCHANGED position
          /\ UNCHANGED mishaps \/ Happens("stop")
      BY <1>6 DEF ConnectProducer, DisconnectProducer, Connect, Consume, Take,
                  AutoCommit, Disconnect, Stopped, vars, kafka, object
    <2>2. Breaks' = Breaks /\ TailHash' = TailHash
      BY <1>1, <2>1, BreaksKept
    <2>3. mishaps'["crash"] = mishaps["crash"] /\ mishaps'["raise"] = mishaps["raise"]
      BY <1>1, <2>1 DEF Mishap
    <2> QED
      BY <2>1, <2>2, <2>3 DEF BreaksInv, Detached, ComputeHashChain
  <1> QED
    BY <1>2, <1>3, <1>4, <1>5, <1>6 DEF Next

(* Restarts and exceptions break the chain of persisted rows at most once  *)
(* each, and nothing else does.                                            *)
THEOREM BreaksAreBounded == Spec => []BreaksBounded
  <1>1. TypeInv /\ BreaksInv => BreaksBounded
    <2> SUFFICES ASSUME TypeInv, BreaksInv
                 PROVE  BreaksBounded
      OBVIOUS
    <2>1. Cardinality(Breaks) \in Nat /\ Detached \in 0..1
      BY BreaksFinite DEF TypeInv, Detached
    <2> QED
      BY <2>1, MishapsCount DEF BreaksInv, BreaksBounded, TypeInv
  <1> QED
    BY <1>1, TypeInvInit, TypeInvNext, BreaksInvInit, BreaksInvNext, PTL DEF Spec
-----------------------------------------------------------------------------
(***************************************************************************)
(* Lost events.  A loop that waits when stop() begins may be handed one    *)
(* more message, which it drops.                                           *)
(***************************************************************************)
Dropping == IF consumer = "stopping" /\ loop = "waiting" THEN 1 ELSE 0

LossInv == Cardinality(Lost) + Dropping =< Mishaps

LEMMA LostFinite ==
  ASSUME TypeOK
  PROVE  IsFiniteSet(Lost) /\ Cardinality(Lost) \in Nat
  <1>1. Lost \subseteq 1..Len(log)
    BY RowsFacts DEF TypeOK, Lost, Passed
  <1> QED
    BY <1>1, RowsFacts, FewerElements

LEMMA LossInvInit == Init => LossInv
  <1> SUFFICES ASSUME Init
               PROVE  LossInv
    OBVIOUS
  <1>1. Lost = {} /\ Dropping = 0
    BY DEF Init, Lost, Passed, Dropping
  <1>2. Mishaps = 0
    BY DEF Init, Mishaps, Mishap
  <1> QED
    BY <1>1, <1>2, FS_EmptySet DEF LossInv

LEMMA LossInvNext == TypeInv /\ LossInv /\ [Next]_vars => LossInv'
  <1> SUFFICES ASSUME TypeInv, LossInv, [Next]_vars
               PROVE  LossInv'
    OBVIOUS
  <1>1. /\ IsFiniteSet(Lost) /\ Cardinality(Lost) \in Nat /\ Mishaps \in Nat
        /\ \A m \in Mishap : Happens(m) => Mishaps' = Mishaps + 1
        /\ position \in Nat /\ committed \in 0..position
        /\ Dropping \in 0..1
    BY LostFinite, MishapsCount, RowsFacts DEF TypeInv, TypeOK, Dropping
  <1>2. \A x : Lost' \subseteq Lost \cup {x} =>
          Cardinality(Lost') \in Nat /\ Cardinality(Lost') =< Cardinality(Lost) + 1
    BY <1>1, OneElementMore
  <1>3. Lost' \subseteq Lost =>
          Cardinality(Lost') \in Nat /\ Cardinality(Lost') =< Cardinality(Lost)
    BY <1>1, FewerElements
  <1>4. CASE \/ ConnectProducer \/ DisconnectProducer \/ Publish \/ Connect
             \/ Consume \/ AutoCommit \/ UNCHANGED vars
    <2>1. /\ UNCHANGED <<rows, mishaps>>
          /\ Passed' = Passed /\ InFlight' = InFlight /\ Dropping' = Dropping
      BY <1>4 DEF ConnectProducer, DisconnectProducer, Publish, Connect, Consume,
                  AutoCommit, vars, kafka, object, Passed, InFlight, Dropping
    <2>2. Lost' = Lost /\ Mishaps' = Mishaps
      BY <2>1 DEF Lost, Persisted, Mishaps
    <2> QED
      BY <2>1, <2>2 DEF LossInv
  <1>5. CASE Take
    <2>1. /\ UNCHANGED <<rows, mishaps, consumer>>
          /\ consumer \in {"started", "stopping"}
          /\ InFlight = {} /\ position' = position + 1 /\ Dropping' = 0
      BY <1>5 DEF Take, TypeInv, LoopInv, InFlight, Dropping
    <2>2. Passed' = Passed \cup {position + 1} /\ position + 1 \notin Passed
      BY <1>1, <2>1 DEF Passed
    <2>3. Lost' \subseteq Lost \cup {position + 1}
      BY <2>1, <2>2 DEF Lost, Persisted
    <2>4. Mishaps' = Mishaps
      BY <2>1 DEF Mishaps
    <2>5. CASE running
      <3>1. position + 1 \in InFlight'
        BY <1>5, <2>5 DEF Take, InFlight
      <3>2. Lost' \subseteq Lost
        BY <2>3, <3>1 DEF Lost
      <3> QED
        BY <1>1, <1>3, <2>1, <2>4, <3>2 DEF LossInv
    <2>6. CASE ~running
      <3>1. Dropping = 1
        BY <1>5, <2>1, <2>6 DEF Take, TypeInv, LoopInv, Dropping
      <3> QED
        BY <1>1, <1>2, <2>1, <2>3, <2>4, <3>1 DEF LossInv
    <2> QED
      BY <2>5, <2>6
  <1>6. CASE InsertRow
    <2>1. /\ Passed' = Passed /\ Dropping' = 0 /\ Mishaps' = Mishaps
          /\ InFlight = {position}
      BY <1>6 DEF InsertRow, kafka, Passed, InFlight, Dropping, Mishaps
    <2>2. \A o : o = position \/ Persisted(o) =>
            \E i \in 1..Len(rows') : rows'[i].offset = o
      BY <1>6, InsertRowFacts, RowsFacts DEF Persisted, TypeInv
    <2>3. Lost' \subseteq Lost
      BY <2>1, <2>2 DEF Lost, Persisted
    <2> QED
      BY <1>1, <1>3, <2>1, <2>3 DEF LossInv
  <1>7. CASE PersistReturns
    <2>1. /\ UNCHANGED <<rows, mishaps>> /\ Passed' = Passed
          /\ InFlight = {} /\ InFlight' = {} /\ Dropping' = 0
      BY <1>7 DEF PersistReturns, kafka, Passed, InFlight, Dropping
    <2>2. Lost' = Lost /\ Mishaps' = Mishaps
      BY <2>1 DEF Lost, Persisted, Mishaps
    <2> QED
      BY <1>1, <2>1, <2>2 DEF LossInv
  <1>8. CASE LoopRaises \/ Crash
    <2>1. /\ UNCHANGED rows /\ Passed' \subseteq Passed /\ InFlight \subseteq {position}
          /\ Dropping' = 0 /\ (Happens("raise") \/ Happens("crash"))
      BY <1>1, <1>8 DEF LoopRaises, Crash, kafka, Passed, InFlight, Dropping
    <2>2. Lost' \subseteq Lost \cup {position}
      BY <2>1 DEF Lost, Persisted
    <2>3. Mishaps' = Mishaps + 1
      BY <1>1, <2>1 DEF Mishap
    <2>4. Cardinality(Lost') \in Nat /\ Cardinality(Lost') =< Cardinality(Lost) + 1
      BY <1>2, <2>2
    <2> QED
      BY <1>1, <2>1, <2>3, <2>4 DEF LossInv
  <1>9. CASE Disconnect
    <2>1. /\ UNCHANGED rows /\ Passed' = Passed /\ InFlight' = InFlight
          /\ Dropping = 0 /\ Dropping' \in 0..1
      BY <1>9 DEF Disconnect, kafka, Passed, InFlight, Dropping
    <2>2. Lost' = Lost
      BY <2>1 DEF Lost, Persisted
    <2>3. Mishaps' = Mishaps + 1
      BY <1>1, <1>9 DEF Disconnect, Mishap
    <2> QED
      BY <1>1, <2>1, <2>2, <2>3 DEF LossInv
  <1>10. CASE Stopped
    <2>1. /\ UNCHANGED <<rows, mishaps>> /\ Passed' \subseteq Passed
          /\ InFlight' = InFlight /\ Dropping' = 0
      BY <1>1, <1>10 DEF Stopped, kafka, Passed, InFlight, Dropping
    <2>2. Lost' \subseteq Lost /\ Mishaps' = Mishaps
      BY <2>1 DEF Lost, Persisted, Mishaps
    <2> QED
      BY <1>1, <1>3, <2>1, <2>2 DEF LossInv
  <1> QED
    BY <1>4, <1>5, <1>6, <1>7, <1>8, <1>9, <1>10 DEF Next

(* A mishap costs at most one event, however late the commits are and      *)
(* wherever it strikes.                                                    *)
THEOREM LossIsBounded == Spec => []LossBounded
  <1>1. TypeInv /\ LossInv => LossBounded
    <2> SUFFICES ASSUME TypeInv, LossInv
                 PROVE  LossBounded
      OBVIOUS
    <2>1. Cardinality(Lost) \in Nat /\ Dropping \in 0..1
      BY LostFinite DEF TypeInv, Dropping
    <2> QED
      BY <2>1, MishapsCount DEF LossInv, LossBounded, TypeInv
  <1> QED
    BY <1>1, TypeInvInit, TypeInvNext, LossInvInit, LossInvNext, PTL DEF Spec
-----------------------------------------------------------------------------
(***************************************************************************)
(* Redelivery.  An event has its rows, may be in the hands of the loop,    *)
(* and may still lie ahead of where reading goes on: a started consumer    *)
(* goes on at its position, any other at the last commit.                  *)
(***************************************************************************)
RowsOf(o) == {i \in 1..Len(rows) : rows[i].offset = o}

Held(o) == IF loop = "persisting" /\ position = o THEN 1 ELSE 0

Ahead(o) ==
  IF o > (IF consumer = "started" THEN position ELSE committed) THEN 1 ELSE 0

RedeliveryInv ==
  \A o \in Nat : Cardinality(RowsOf(o)) + Held(o) + Ahead(o)
                  =< 1 + mishaps["crash"] + mishaps["stop"]

LEMMA RowsOfFinite ==
  ASSUME TypeOK, NEW o
  PROVE  IsFiniteSet(RowsOf(o)) /\ Cardinality(RowsOf(o)) \in Nat
  <1>1. RowsOf(o) \subseteq 1..Len(rows)
    BY DEF RowsOf
  <1> QED
    BY <1>1, RowsFacts, FewerElements

LEMMA RedeliveryInvInit == Init => RedeliveryInv
  <1> SUFFICES ASSUME Init, NEW o \in Nat
               PROVE  Cardinality(RowsOf(o)) + Held(o) + Ahead(o)
                        =< 1 + mishaps["crash"] + mishaps["stop"]
    BY DEF RedeliveryInv
  <1>1. RowsOf(o) = {} /\ Held(o) = 0 /\ Ahead(o) \in 0..1
    BY DEF Init, RowsOf, Held, Ahead
  <1>2. mishaps["crash"] = 0 /\ mishaps["stop"] = 0
    BY DEF Init, Mishap
  <1> QED
    BY <1>1, <1>2, FS_EmptySet

LEMMA RedeliveryInvNext == TypeInv /\ RedeliveryInv /\ [Next]_vars => RedeliveryInv'
  <1> SUFFICES ASSUME TypeInv, RedeliveryInv, [Next]_vars, NEW o \in Nat
               PROVE  (Cardinality(RowsOf(o)) + Held(o) + Ahead(o)
                        =< 1 + mishaps["crash"] + mishaps["stop"])'
    BY DEF RedeliveryInv
  <1> DEFINE rowsOf == Cardinality(RowsOf(o))
             bound == 1 + mishaps["crash"] + mishaps["stop"]
  <1>1. /\ IsFiniteSet(RowsOf(o)) /\ rowsOf \in Nat /\ bound \in Nat
        /\ rowsOf + Held(o) + Ahead(o) =< bound
        /\ Held(o) \in 0..1 /\ Ahead(o) \in 0..1
        /\ Held(o)' \in 0..1 /\ Ahead(o)' \in 0..1
        /\ position \in Nat /\ committed \in 0..position
    <2>1. IsFiniteSet(RowsOf(o)) /\ rowsOf \in Nat /\ bound \in Nat
      BY RowsOfFinite, MishapsCount DEF TypeInv
    <2>2. rowsOf + Held(o) + Ahead(o) =< bound
      BY DEF RedeliveryInv
    <2>3. /\ Held(o) \in 0..1 /\ Ahead(o) \in 0..1
          /\ Held(o)' \in 0..1 /\ Ahead(o)' \in 0..1
      BY DEF Held, Ahead
    <2>4. position \in Nat /\ committed \in 0..position
      BY RowsFacts DEF TypeInv, TypeOK
    <2> QED
      BY <2>1, <2>2, <2>3, <2>4
  <1>2. UNCHANGED mishaps => bound' = bound
    OBVIOUS
  <1>3. \A m \in Mishap : Happens(m) =>
          bound' = IF m = "raise" THEN bound ELSE bound + 1
    <2>1. \A m \in Mishap : Happens(m) =>
            /\ mishaps'[m] = mishaps[m] + 1
            /\ \A n \in Mishap \ {m} : mishaps'[n] = mishaps[n]
      BY HappensCounts DEF TypeInv
    <2> QED
      BY <2>1, MishapsCount DEF Mishap, TypeInv
  <1>4. UNCHANGED rows => rowsOf' = rowsOf
    BY DEF RowsOf
  <1>5. CASE \/ ConnectProducer \/ DisconnectProducer \/ Publish \/ Connect
             \/ Consume \/ AutoCommit \/ PersistReturns \/ UNCHANGED vars
    <2>1. UNCHANGED <<rows, mishaps>> /\ Held(o)' = Held(o) /\ Ahead(o)' = Ahead(o)
      BY <1>5 DEF ConnectProducer, DisconnectProducer, Publish, Connect, Consume,
                  AutoCommit, PersistReturns, vars, kafka, object, Held, Ahead
    <2> QED
      BY <1>1, <1>2, <1>4, <2>1
  <1>6. CASE Take
    <2>1. UNCHANGED <<rows, mishaps>> /\ Held(o) = 0
      BY <1>6 DEF Take, Held
    <2>2. Held(o)' + Ahead(o)' =< Ahead(o)
      BY <1>1, <1>6 DEF Take, TypeInv, LoopInv, Held, Ahead
    <2> QED
      BY <1>1, <1>2, <1>4, <2>1, <2>2
  <1>7. CASE InsertRow
    <2>1. /\ UNCHANGED mishaps /\ Ahead(o)' = Ahead(o) /\ Held(o)' = 0
          /\ Held(o) = IF position = o THEN 1 ELSE 0
      BY <1>7 DEF InsertRow, kafka, Held, Ahead
    <2>2. RowsOf(o)' \subseteq RowsOf(o) \cup {Len(rows) + 1}
      BY <1>7, InsertRowFacts, RowsFacts DEF RowsOf, TypeInv
    <2>3. position # o => RowsOf(o)' \subseteq RowsOf(o)
      BY <1>7, <2>2, InsertRowFacts DEF RowsOf
    <2>4. rowsOf' \in Nat /\ rowsOf' =< rowsOf + Held(o)
      <3>1. CASE position = o
        BY <1>1, <2>1, <2>2, <3>1, OneElementMore
      <3>2. CASE position # o
        BY <1>1, <2>1, <2>3, <3>2, FewerElements
      <3> QED
        BY <3>1, <3>2
    <2> QED
      BY <1>1, <1>2, <2>1, <2>4
  <1>8. CASE LoopRaises
    <2>1. /\ UNCHANGED rows /\ Happens("raise")
          /\ Held(o)' = 0 /\ Ahead(o)' = Ahead(o)
      BY <1>8 DEF LoopRaises, kafka, Held, Ahead
    <2>2. bound' = bound
      BY <1>3, <2>1 DEF Mishap
    <2> QED
      BY <1>1, <1>4, <2>1, <2>2
  <1>9. CASE Disconnect
    <2>1. UNCHANGED rows /\ Happens("stop") /\ Held(o)' = Held(o)
      BY <1>9 DEF Disconnect, kafka, Held
    <2>2. bound' = bound + 1
      BY <1>3, <2>1 DEF Mishap
    <2> QED
      BY <1>1, <1>4, <2>1, <2>2
  <1>10. CASE Stopped
    <2>1. UNCHANGED <<rows, mishaps>> /\ Held(o)' = Held(o)
      BY <1>10 DEF Stopped, kafka, Held
    <2>2. Ahead(o)' =< Ahead(o)
      BY <1>1, <1>10 DEF Stopped, Ahead
    <2> QED
      BY <1>1, <1>2, <1>4, <2>1, <2>2
  <1>11. CASE Crash
    <2>1. UNCHANGED rows /\ Happens("crash") /\ Held(o)' = 0
      BY <1>11 DEF Crash, Held
    <2>2. bound' = bound + 1
      BY <1>3, <2>1 DEF Mishap
    <2> QED
      BY <1>1, <1>4, <2>1, <2>2
  <1> QED
    BY <1>5, <1>6, <1>7, <1>8, <1>9, <1>10, <1>11 DEF Next

(* An event is persisted again at most once per restart or reconnection.   *)
THEOREM RedeliveryIsBounded == Spec => []RedeliveryBounded
  <1>1. TypeInv /\ RedeliveryInv => RedeliveryBounded
    <2> SUFFICES ASSUME TypeInv, RedeliveryInv, NEW o \in 1..Len(log)
                 PROVE  Cardinality(RowsOf(o)) =< 1 + mishaps["crash"] + mishaps["stop"]
      BY DEF RedeliveryBounded, RowsOf
    <2>1. o \in Nat /\ Cardinality(RowsOf(o)) \in Nat
      BY RowsFacts, RowsOfFinite DEF TypeInv
    <2>2. Held(o) \in 0..1 /\ Ahead(o) \in 0..1
      BY DEF Held, Ahead
    <2> QED
      BY <2>1, <2>2, MishapsCount DEF RedeliveryInv, TypeInv
  <1> QED
    BY <1>1, TypeInvInit, TypeInvNext, RedeliveryInvInit, RedeliveryInvNext, PTL DEF Spec
=============================================================================
