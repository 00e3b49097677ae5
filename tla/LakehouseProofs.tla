--------------------------- MODULE LakehouseProofs --------------------------
(***************************************************************************)
(* What the lakehouse agent keeps, for any number of calls, scores and     *)
(* versions of the dataset.                                                *)
(***************************************************************************)
EXTENDS Lakehouse, SequenceTheorems, TLAPS

(* The layers are the four entries of _LAYER_ORDER. *)
LEMMA LayersByPosition ==
  /\ \A k \in 1..4 : _LAYER_ORDER[k] \in Layers
  /\ \A l \in Layers : \E k \in 1..4 : l = _LAYER_ORDER[k]
  /\ \A j, k \in 1..4 : _LAYER_ORDER[j] = _LAYER_ORDER[k] => j = k
  BY DEF Layers, _LAYER_ORDER

(* The only automatic step: from bronze to silver. *)
LEMMA AutomaticStep ==
  ASSUME NEW source \in Layers, NEW target \in Layers, ValidTransition(source, target)
  PROVE  /\ source \in {"bronze", "silver", "gold"}
         /\ target # "bronze"
         /\ _STRATEGIES[source] = "auto" => source = "bronze" /\ target = "silver"
  BY DEF Layers, ValidTransition, _LAYER_ORDER, _STRATEGIES

LEMMA BronzeToSilver ==
  /\ ValidTransition("bronze", "silver")
  /\ _STRATEGIES["bronze"] = "auto"
  /\ _DQ_THRESHOLDS["bronze"] = 70
  BY DEF ValidTransition, _LAYER_ORDER, _STRATEGIES, _DQ_THRESHOLDS
-----------------------------------------------------------------------------
(* A call's kind tells its fields. *)
LEMMA CallKinds ==
  ASSUME TypeOK, NEW c \in Calls
  PROVE  /\ call[c].op = "ensure" => call[c] \in EnsureCall
         /\ call[c].op = "promote" => call[c] \in PromoteCall
  BY DEF TypeOK, Idle, EnsureCall, PromoteCall

LEMMA StoppedCalls ==
  ASSUME TypeOK, NEW c \in Calls, Return(c)
  PROVE  /\ call' \in [Calls -> {Idle} \cup EnsureCall \cup PromoteCall]
         /\ call'[c].op = "none"
         /\ \A d \in Calls \ {c} : call'[d] = call[d]
  BY DEF TypeOK, Return, Idle

(* What an upload leaves behind. *)
LEMMA PutKeeps ==
  ASSUME TypeOK, NEW layer \in Layers, NEW copy \in Copy, PutObject(layer, copy)
  PROVE  /\ stored' \in [Layers -> Seq(Copy)]
         /\ \A l \in Layers \ {layer} : stored'[l] = stored[l]
         /\ Newest(layer)' = copy.content
         /\ \A i \in 1..Len(stored'[layer]) :
              \/ stored'[layer][i] = copy
              \/ i \in 1..Len(stored[layer]) /\ stored'[layer][i] = stored[layer][i]
         /\ versioning[layer] = "on" =>
              /\ Len(stored[layer]) <= Len(stored'[layer])
              /\ SubSeq(stored'[layer], 1, Len(stored[layer])) = stored[layer]
  <1>1. stored \in [Layers -> Seq(Copy)] /\ stored[layer] \in Seq(Copy)
    BY DEF TypeOK
  <1>2. <<copy>> \in Seq(Copy) /\ Len(<<copy>>) = 1 /\ <<copy>>[1] = copy
    OBVIOUS
  <1>3. /\ Append(stored[layer], copy) \in Seq(Copy)
        /\ Len(Append(stored[layer], copy)) = Len(stored[layer]) + 1
        /\ Append(stored[layer], copy)[Len(stored[layer]) + 1] = copy
        /\ \A i \in 1..Len(stored[layer]) : Append(stored[layer], copy)[i] = stored[layer][i]
        /\ SubSeq(Append(stored[layer], copy), 1, Len(stored[layer])) = stored[layer]
        /\ Len(stored[layer]) \in Nat
    BY <1>1, AppendProperties, LenProperties, SubSeqProperties, SeqEqual
  <1>4. stored'[layer] =
          IF versioning[layer] = "on" THEN Append(stored[layer], copy) ELSE <<copy>>
    BY <1>1 DEF PutObject
  <1>5. /\ stored' \in [Layers -> Seq(Copy)]
        /\ \A l \in Layers \ {layer} : stored'[l] = stored[l]
    BY <1>1, <1>2, <1>3 DEF PutObject
  <1>6. CASE versioning[layer] = "on"
    <2>1. stored'[layer] = Append(stored[layer], copy)
      BY <1>4, <1>6
    <2>2. stored'[layer] # <<>>
      BY <1>3, <2>1
    <2> QED
      BY <1>3, <1>5, <2>1, <2>2 DEF Newest
  <1>7. CASE versioning[layer] # "on"
    <2>1. stored'[layer] = <<copy>>
      BY <1>4, <1>7
    <2> QED
      BY <1>2, <1>5, <1>7, <2>1 DEF Newest
  <1> QED
    BY <1>6, <1>7
-----------------------------------------------------------------------------
(***************************************************************************)
(* Types.                                                                  *)
(***************************************************************************)

(* What reads of a layer give. *)
LEMMA NewestIsNat ==
  ASSUME TypeOK, NEW l \in Layers
  PROVE  Newest(l) \in Nat
  <1>1. stored[l] \in Seq(Copy)
    BY DEF TypeOK
  <1>2. CASE stored[l] # <<>>
    <2>1. Len(stored[l]) \in 1..Len(stored[l])
      BY <1>1, <1>2, LenProperties, EmptySeq
    <2>2. stored[l][Len(stored[l])] \in Copy
      BY <1>1, <2>1, ElementOfSeq
    <2> QED
      BY <1>2, <2>2 DEF Newest, Copy
  <1> QED
    BY <1>2 DEF Newest

(* The step to the next layer. *)
LEMMA NextLayerMoves ==
  ASSUME TypeOK, NEW c \in Calls, call[c].op = "ensure", NextLayer(c)
  PROVE  /\ call' \in [Calls -> {Idle} \cup EnsureCall \cup PromoteCall]
         /\ ready' \in BOOLEAN
         /\ \A d \in Calls \ {c} : call'[d] = call[d]
         /\ \/ /\ call[c].layer < 4 /\ ready' = ready
               /\ call'[c].op = "ensure" /\ call'[c].layer = call[c].layer + 1
            \/ /\ call[c].layer = 4 /\ ready'
               /\ call'[c].op = "none"
  <1>1. call[c] \in EnsureCall /\ call \in [Calls -> {Idle} \cup EnsureCall \cup PromoteCall]
    BY CallKinds DEF TypeOK
  <1>2. CASE /\ call[c].layer < 4 /\ UNCHANGED ready
             /\ call' = [call EXCEPT ![c].layer = @ + 1, ![c].pc = "exists"]
    <2>0. call[c].layer + 1 \in 1..4
      BY <1>1, <1>2 DEF EnsureCall
    <2>1. [call[c] EXCEPT !.layer = call[c].layer + 1, !.pc = "exists"] \in EnsureCall
      BY <1>1, <2>0 DEF EnsureCall
    <2>2. call' = [call EXCEPT ![c] = [call[c] EXCEPT !.layer = @ + 1, !.pc = "exists"]]
      BY <1>1, <1>2
    <2> QED
      BY <1>1, <1>2, <2>1, <2>2 DEF EnsureCall, TypeOK
  <1>3. CASE call[c].layer = 4 /\ Return(c) /\ ready' = TRUE
    BY <1>3, StoppedCalls
  <1> QED
    BY <1>2, <1>3 DEF NextLayer

(* A move to another program counter of the same kind. *)
LEMMA GotoMoves ==
  ASSUME TypeOK, NEW c \in Calls, NEW pc, Goto(c, pc),
         call[c].op = "ensure" /\ pc \in {"exists", "make", "enable"}
  PROVE  /\ call' \in [Calls -> {Idle} \cup EnsureCall \cup PromoteCall]
         /\ \A d \in Calls \ {c} : call'[d] = call[d]
         /\ call'[c].op = "ensure" /\ call'[c].layer = call[c].layer
  <1>1. call[c] \in EnsureCall /\ call \in [Calls -> {Idle} \cup EnsureCall \cup PromoteCall]
    BY CallKinds DEF TypeOK
  <1>2. [call[c] EXCEPT !.pc = pc] \in EnsureCall
    BY <1>1 DEF EnsureCall
  <1>3. call' = [call EXCEPT ![c] = [call[c] EXCEPT !.pc = pc]]
    BY <1>1 DEF Goto
  <1> QED
    BY <1>1, <1>2, <1>3 DEF EnsureCall

LEMMA TypeInit == Init => TypeOK
  <1> SUFFICES ASSUME Init
               PROVE  TypeOK
    OBVIOUS
  <1>1. <<>> \in Seq(Copy)
    BY EmptySeq
  <1> QED
    BY <1>1 DEF Init, TypeOK, Layers

LEMMA TypeStep == TypeOK /\ [Next]_vars => TypeOK'
  <1> SUFFICES ASSUME TypeOK, [Next]_vars
               PROVE  TypeOK'
    OBVIOUS
  <1>0. /\ ingested \in Nat /\ ready \in BOOLEAN
        /\ begun \in [{"ensure", "promote"} -> Nat]
        /\ versioning \in [Layers -> {"absent", "off", "on"}]
        /\ call \in [Calls -> {Idle} \cup EnsureCall \cup PromoteCall]
        /\ "bronze" \in Layers
    BY DEF TypeOK, Layers
  <1>1. CASE Ingest
    <2> DEFINE copy == [content |-> ingested + 1, source |-> "outside", score |-> 0]
    <2>1. copy \in Copy /\ ingested' \in Nat
      BY <1>0, <1>1 DEF Ingest, Copy
    <2>2. PutObject("bronze", copy)
      BY <1>1 DEF Ingest, PutObject
    <2>3. stored' \in [Layers -> Seq(Copy)]
      BY <1>0, <2>1, <2>2, PutKeeps
    <2> QED
      BY <1>1, <2>1, <2>3 DEF Ingest, TypeOK
  <1>2. ASSUME NEW c \in Calls, BeginEnsure(c)
        PROVE  TypeOK'
    <2>1. [op |-> "ensure", pc |-> "exists", layer |-> 1] \in EnsureCall
      BY DEF EnsureCall
    <2> QED
      BY <1>0, <1>2, <2>1 DEF BeginEnsure, Begin, TypeOK
  <1>3. ASSUME NEW c \in Calls, BucketExists(c)
        PROVE  TypeOK'
    BY <1>3, GotoMoves DEF BucketExists, At, TypeOK
  <1>4. ASSUME NEW c \in Calls, MakeBucket(c)
        PROVE  TypeOK'
    <2>1. call' \in [Calls -> {Idle} \cup EnsureCall \cup PromoteCall]
      BY <1>4, GotoMoves, StoppedCalls DEF MakeBucket, At
    <2>2. versioning' \in [Layers -> {"absent", "off", "on"}]
      BY <1>0, <1>4 DEF MakeBucket
    <2> QED
      BY <1>4, <2>1, <2>2 DEF MakeBucket, TypeOK
  <1>5. ASSUME NEW c \in Calls, EnableVersioning(c)
        PROVE  TypeOK'
    <2>1. versioning' \in [Layers -> {"absent", "off", "on"}]
      BY <1>0, <1>5 DEF EnableVersioning
    <2>2. ready' \in BOOLEAN /\ call' \in [Calls -> {Idle} \cup EnsureCall \cup PromoteCall]
      BY <1>5, NextLayerMoves DEF EnableVersioning, At
    <2> QED
      BY <1>5, <2>1, <2>2 DEF EnableVersioning, TypeOK
  <1>6. ASSUME NEW c \in Calls, BeginPromote(c)
        PROVE  TypeOK'
    <2>1. begun' \in [{"ensure", "promote"} -> Nat]
      BY <1>0, <1>6 DEF BeginPromote, Begin
    <2>2. PICK source \in Layers, target \in Layers, score \in Scores :
            IF ValidTransition(source, target) /\ ~ score < _DQ_THRESHOLDS[source]
            THEN call' = [call EXCEPT ![c] =
                   [op |-> "promote", source |-> source, target |-> target, score |-> score,
                    pc |-> IF _STRATEGIES[source] = "auto" THEN "get" ELSE "govern",
                    data |-> 0, floor |-> Newest(target)]]
            ELSE UNCHANGED call
      BY <1>6 DEF BeginPromote
    <2>3. [op |-> "promote", source |-> source, target |-> target, score |-> score,
           pc |-> IF _STRATEGIES[source] = "auto" THEN "get" ELSE "govern",
           data |-> 0, floor |-> Newest(target)] \in PromoteCall
      BY NewestIsNat, ScoresAssumption DEF PromoteCall
    <2>4. call' \in [Calls -> {Idle} \cup EnsureCall \cup PromoteCall]
      BY <1>0, <2>2, <2>3
    <2> QED
      BY <1>6, <2>1, <2>4 DEF BeginPromote, TypeOK
  <1>7. ASSUME NEW c \in Calls, GetObject(c)
        PROVE  TypeOK'
    <2>1. call[c] \in PromoteCall
      BY <1>7, CallKinds DEF GetObject, At
    <2>2. Newest(call[c].source) \in Nat
      BY <2>1, NewestIsNat DEF PromoteCall
    <2>3. [call[c] EXCEPT !.data = Newest(call[c].source), !.pc = "upload"] \in PromoteCall
      BY <2>1, <2>2 DEF PromoteCall
    <2>4. call' \in [Calls -> {Idle} \cup EnsureCall \cup PromoteCall]
      BY <1>0, <1>7, <2>3 DEF GetObject
    <2> QED
      BY <1>7, <2>4 DEF GetObject, TypeOK
  <1>8. ASSUME NEW c \in Calls, UploadObject(c)
        PROVE  TypeOK'
    <2> DEFINE copy == [content |-> call[c].data, source |-> call[c].source,
                        score |-> call[c].score]
    <2>1. call[c] \in PromoteCall
      BY <1>8, CallKinds DEF UploadObject, At
    <2>2. copy \in Copy /\ call[c].target \in Layers
      BY <2>1 DEF PromoteCall, Copy
    <2>3. stored' \in [Layers -> Seq(Copy)]
      BY <1>8, <2>2, PutKeeps DEF UploadObject
    <2> QED
      BY <1>8, <2>3, StoppedCalls DEF UploadObject, TypeOK
  <1>9. ASSUME NEW c \in Calls, AskGovernance(c) \/ StoreError(c)
        PROVE  TypeOK'
    BY <1>9, StoppedCalls DEF AskGovernance, StoreError, TypeOK
  <1>10. CASE UNCHANGED vars
    BY <1>10 DEF vars, TypeOK
  <1> QED
    BY <1>1, <1>2, <1>3, <1>4, <1>5, <1>6, <1>7, <1>8, <1>9, <1>10 DEF Next

(* The buckets, the versions and the calls keep their types: the variables *)
(* stand for the object store and the awaits of the agent.                 *)
THEOREM LakehouseTypeCorrect == Spec => []TypeOK
  <1>1. Init => TypeOK
    BY TypeInit
  <1>2. TypeOK /\ [Next]_vars => TypeOK'
    BY TypeStep
  <1> QED
    BY <1>1, <1>2, PTL DEF Spec
-----------------------------------------------------------------------------
(***************************************************************************)
(* Buckets: a call has made versioned every layer it has passed, and no    *)
(* step of anybody undoes that.                                            *)
(***************************************************************************)
LoopBehind ==
  \A c \in Calls : call[c].op = "ensure" =>
    \A k \in 1..(call[c].layer - 1) : versioning[_LAYER_ORDER[k]] = "on"

BucketInv == TypeOK /\ LoopBehind /\ ReadyBucketsAreVersioned

LEMMA VersioningStaysOn ==
  ASSUME TypeOK, [Next]_vars, NEW l \in Layers, versioning[l] = "on"
  PROVE  versioning'[l] = "on"
  <1>1. /\ versioning \in [Layers -> {"absent", "off", "on"}]
        /\ \A c \in Calls : call[c].op = "ensure" =>
              _LAYER_ORDER[call[c].layer] \in Layers
    BY CallKinds, LayersByPosition DEF TypeOK, EnsureCall
  <1>2. ASSUME NEW c \in Calls, MakeBucket(c)
        PROVE  versioning'[l] = "on"
    BY <1>1, <1>2 DEF MakeBucket, At
  <1>3. ASSUME NEW c \in Calls, EnableVersioning(c)
        PROVE  versioning'[l] = "on"
    BY <1>1, <1>3 DEF EnableVersioning, At
  <1>4. CASE UNCHANGED versioning
    BY <1>4
  <1> QED
    BY <1>2, <1>3, <1>4 DEF Next, vars, Ingest, BeginEnsure, BucketExists, BeginPromote,
       GetObject, UploadObject, AskGovernance, StoreError

(* A call that does not move in its loop keeps what it had passed. *)
LEMMA BehindStays ==
  ASSUME BucketInv, [Next]_vars, NEW c \in Calls,
         call'[c].op = "ensure" =>
           \/ call[c].op = "ensure" /\ call'[c].layer = call[c].layer
           \/ call'[c].layer = 1
  PROVE  call'[c].op = "ensure" =>
           \A k \in 1..(call'[c].layer - 1) : versioning'[_LAYER_ORDER[k]] = "on"
  <1>1. CASE call[c].op = "ensure" /\ call'[c].layer = call[c].layer
    <2>1. call[c].layer \in 1..4
      BY <1>1, CallKinds DEF BucketInv, EnsureCall
    <2>2. ASSUME NEW k \in 1..(call[c].layer - 1)
          PROVE  versioning'[_LAYER_ORDER[k]] = "on"
      <3>1. k \in 1..4
        BY <2>1
      <3>2. _LAYER_ORDER[k] \in Layers /\ versioning[_LAYER_ORDER[k]] = "on"
        BY <1>1, <3>1, LayersByPosition DEF BucketInv, LoopBehind
      <3> QED
        BY <3>2, VersioningStaysOn DEF BucketInv
    <2> QED
      BY <1>1, <2>2
  <1>2. CASE call'[c].layer = 1
    BY <1>2
  <1> QED
    BY <1>1, <1>2

(* Who does not finish a loop does not make the buckets ready. *)
LEMMA ReadyStays ==
  ASSUME BucketInv, [Next]_vars, ready' = ready
  PROVE  ReadyBucketsAreVersioned'
  BY VersioningStaysOn DEF BucketInv, ReadyBucketsAreVersioned

LEMMA BucketStep == BucketInv /\ [Next]_vars => BucketInv'
  <1> SUFFICES ASSUME BucketInv, [Next]_vars
               PROVE  BucketInv'
    OBVIOUS
  <1>0. TypeOK /\ TypeOK'
    BY TypeStep DEF BucketInv
  <1>1. ASSUME NEW c \in Calls, ready' = ready,
               \A d \in Calls \ {c} : call'[d] = call[d],
               call'[c].op = "ensure" =>
                 \/ call[c].op = "ensure" /\ call'[c].layer = call[c].layer
                 \/ call'[c].layer = 1
        PROVE  BucketInv'
    <2>1. ASSUME NEW d \in Calls
          PROVE  call'[d].op = "ensure" =>
                   \A k \in 1..(call'[d].layer - 1) : versioning'[_LAYER_ORDER[k]] = "on"
      <3>1. call'[d].op = "ensure" =>
              \/ call[d].op = "ensure" /\ call'[d].layer = call[d].layer
              \/ call'[d].layer = 1
        BY <1>1
      <3> QED
        BY <3>1, BehindStays
    <2> QED
      BY <1>0, <1>1, <2>1, ReadyStays DEF BucketInv, LoopBehind
  <1>2. CASE UNCHANGED <<call, ready>>
    <2>1. ASSUME NEW d \in Calls
          PROVE  call'[d].op = "ensure" =>
                   \A k \in 1..(call'[d].layer - 1) : versioning'[_LAYER_ORDER[k]] = "on"
      BY <1>2, BehindStays
    <2> QED
      BY <1>0, <1>2, <2>1, ReadyStays DEF BucketInv, LoopBehind
  <1>3. ASSUME NEW c \in Calls, EnableVersioning(c)
        PROVE  BucketInv'
    <2> DEFINE k == call[c].layer
    <2>1. k \in 1..4 /\ call[c].op = "ensure" /\ NextLayer(c)
      BY <1>0, <1>3, CallKinds DEF EnableVersioning, At, EnsureCall
    <2>2. versioning'[_LAYER_ORDER[k]] = "on"
      BY <1>0, <1>3, <2>1, LayersByPosition DEF EnableVersioning, TypeOK
    <2>3. \A j \in 1..k : versioning'[_LAYER_ORDER[j]] = "on"
      <3>1. \A j \in 1..(k - 1) : j \in 1..4 /\ versioning[_LAYER_ORDER[j]] = "on"
        BY <2>1 DEF BucketInv, LoopBehind
      <3>2. \A j \in 1..(k - 1) : versioning'[_LAYER_ORDER[j]] = "on"
        BY <1>0, <3>1, LayersByPosition, VersioningStaysOn
      <3>3. \A j \in 1..k : j \in 1..(k - 1) \/ j = k
        BY <2>1
      <3> QED
        BY <2>2, <3>2, <3>3
    <2>4. ASSUME NEW d \in Calls \ {c}
          PROVE  call'[d].op = "ensure" =>
                   \A j \in 1..(call'[d].layer - 1) : versioning'[_LAYER_ORDER[j]] = "on"
      <3>1. call'[d] = call[d]
        BY <1>0, <2>1, NextLayerMoves
      <3> QED
        BY <3>1, BehindStays
    <2>5. CASE /\ k < 4 /\ ready' = ready
               /\ call'[c].op = "ensure" /\ call'[c].layer = k + 1
      <3>1. 1..(call'[c].layer - 1) = 1..k
        BY <2>1, <2>5
      <3>2. LoopBehind'
        BY <2>3, <2>4, <3>1 DEF LoopBehind
      <3> QED
        BY <1>0, <2>5, <3>2, ReadyStays DEF BucketInv
    <2>6. CASE k = 4 /\ ready' /\ call'[c].op = "none"
      <3>1. LoopBehind'
        BY <2>4, <2>6 DEF LoopBehind
      <3>2. ReadyBucketsAreVersioned'
        BY <2>3, <2>6, LayersByPosition DEF ReadyBucketsAreVersioned
      <3> QED
        BY <1>0, <3>1, <3>2 DEF BucketInv
    <2> QED
      BY <1>0, <2>1, <2>5, <2>6, NextLayerMoves
  <1>4. ASSUME NEW c \in Calls, BeginEnsure(c)
        PROVE  BucketInv'
    BY <1>0, <1>1, <1>4 DEF BeginEnsure, TypeOK
  <1>5. ASSUME NEW c \in Calls, BucketExists(c)
        PROVE  BucketInv'
    BY <1>0, <1>1, <1>5, GotoMoves DEF BucketExists, At
  <1>6. ASSUME NEW c \in Calls, MakeBucket(c)
        PROVE  BucketInv'
    <2>1. CASE Goto(c, "enable") /\ UNCHANGED ready
      BY <1>0, <1>1, <1>6, <2>1, GotoMoves DEF MakeBucket, At
    <2>2. CASE Return(c) /\ UNCHANGED ready
      BY <1>0, <1>1, <2>2, StoppedCalls
    <2> QED
      BY <1>6, <2>1, <2>2 DEF MakeBucket
  <1>7. ASSUME NEW c \in Calls, BeginPromote(c)
        PROVE  BucketInv'
    <2>1. CASE UNCHANGED call
      BY <1>2, <1>7, <2>1 DEF BeginPromote
    <2>2. CASE call' # call
      <3>1. /\ \A d \in Calls \ {c} : call'[d] = call[d]
            /\ call'[c].op = "promote"
        BY <1>0, <1>7, <2>2 DEF BeginPromote, TypeOK
      <3> QED
        BY <1>1, <1>7, <3>1 DEF BeginPromote
    <2> QED
      BY <2>1, <2>2
  <1>8. ASSUME NEW c \in Calls, GetObject(c)
        PROVE  BucketInv'
    <2>1. call[c] \in PromoteCall
      BY <1>0, <1>8, CallKinds DEF GetObject, At
    <2>2. /\ \A d \in Calls \ {c} : call'[d] = call[d]
          /\ call'[c].op = "promote"
      BY <1>0, <1>8, <2>1 DEF GetObject, TypeOK, PromoteCall
    <2> QED
      BY <1>1, <1>8, <2>2 DEF GetObject
  <1>9. ASSUME NEW c \in Calls, UploadObject(c) \/ AskGovernance(c) \/ StoreError(c)
        PROVE  BucketInv'
    <2>1. Return(c) /\ ready' = ready
      BY <1>9 DEF UploadObject, AskGovernance, StoreError
    <2> QED
      BY <1>0, <1>1, <2>1, StoppedCalls
  <1>10. CASE Ingest \/ UNCHANGED vars
    BY <1>2, <1>10 DEF Ingest, vars
  <1> QED
    BY <1>3, <1>4, <1>5, <1>6, <1>7, <1>8, <1>9, <1>10 DEF Next

LEMMA BucketInvHolds == Spec => []BucketInv
  <1>1. Init => BucketInv
    BY TypeInit DEF Init, BucketInv, LoopBehind, ReadyBucketsAreVersioned, Idle
  <1> QED
    BY <1>1, BucketStep, PTL DEF Spec

(* Whoever finishes ensure_buckets leaves all four buckets versioned,      *)
(* however many agents run the loop at the same time or stop inside it.    *)
THEOREM BucketsAreVersioned == Spec => []ReadyBucketsAreVersioned
  <1>1. BucketInv => ReadyBucketsAreVersioned
    BY DEF BucketInv
  <1> QED
    BY <1>1, BucketInvHolds, PTL
-----------------------------------------------------------------------------
(***************************************************************************)
(* What an upload writes, wherever it comes from.                          *)
(***************************************************************************)
LEMMA IngestPuts ==
  ASSUME TypeOK, Ingest
  PROVE  \E copy \in Copy :
           /\ PutObject("bronze", copy)
           /\ copy.content = ingested + 1
           /\ "bronze" \in Layers /\ ingested \in Nat
  <1> DEFINE copy == [content |-> ingested + 1, source |-> "outside", score |-> 0]
  <1>1. ingested \in Nat /\ "bronze" \in Layers
    BY DEF TypeOK, Layers
  <1>2. copy \in Copy /\ copy.content = ingested + 1
    BY <1>1 DEF Copy
  <1>3. PutObject("bronze", copy)
    BY DEF Ingest, PutObject
  <1> QED
    BY <1>1, <1>2, <1>3

LEMMA UploadPuts ==
  ASSUME TypeOK, NEW c \in Calls, UploadObject(c)
  PROVE  \E copy \in Copy :
           /\ PutObject(call[c].target, copy)
           /\ copy.content = call[c].data
           /\ copy.source = call[c].source
           /\ copy.score = call[c].score
           /\ call[c].target \in Layers
  <1> DEFINE copy == [content |-> call[c].data, source |-> call[c].source,
                      score |-> call[c].score]
  <1>1. call[c] \in PromoteCall
    BY CallKinds DEF UploadObject, At
  <1>2. copy \in Copy /\ call[c].target \in Layers
    BY <1>1 DEF PromoteCall, Copy
  <1>3. PutObject(call[c].target, copy)
    BY DEF UploadObject
  <1> QED
    BY <1>2, <1>3

LEMMA OthersPutNothing ==
  ASSUME [Next]_vars, ~Ingest, \A c \in Calls : ~UploadObject(c)
  PROVE  stored' = stored /\ ingested' = ingested
  BY DEF Next, vars, BeginEnsure, BucketExists, MakeBucket, EnableVersioning,
     BeginPromote, GetObject, AskGovernance, StoreError

(* Once the buckets are ready, no version of the dataset disappears.       *)
THEOREM NothingIsLost == Spec => NothingLost
  <1>1. ASSUME BucketInv, [Next]_vars, ready, NEW l \in Layers
        PROVE  /\ Len(stored[l]) <= Len(stored'[l])
               /\ SubSeq(stored'[l], 1, Len(stored[l])) = stored[l]
    <2>1. TypeOK /\ stored[l] \in Seq(Copy) /\ versioning[l] = "on"
      BY <1>1 DEF BucketInv, ReadyBucketsAreVersioned, TypeOK
    <2>2. stored'[l] = stored[l] => 
            /\ Len(stored[l]) <= Len(stored'[l])
            /\ SubSeq(stored'[l], 1, Len(stored[l])) = stored[l]
      BY <2>1, LenProperties, SubSeqProperties, SeqEqual
    <2>3. CASE Ingest
      <3>1. PICK copy \in Copy : PutObject("bronze", copy) /\ "bronze" \in Layers
        BY <2>1, <2>3, IngestPuts
      <3> QED
        BY <2>1, <2>2, <3>1, PutKeeps
    <2>4. ASSUME NEW c \in Calls, UploadObject(c)
          PROVE  /\ Len(stored[l]) <= Len(stored'[l])
                 /\ SubSeq(stored'[l], 1, Len(stored[l])) = stored[l]
      <3>1. PICK copy \in Copy : PutObject(call[c].target, copy) /\ call[c].target \in Layers
        BY <2>1, <2>4, UploadPuts
      <3> QED
        BY <2>1, <2>2, <3>1, PutKeeps
    <2> QED
      BY <1>1, <2>2, <2>3, <2>4, OthersPutNothing
  <1>2. BucketInv /\ [Next]_vars =>
          [ready => \A l \in Layers :
             /\ Len(stored[l]) <= Len(stored'[l])
             /\ SubSeq(stored'[l], 1, Len(stored[l])) = stored[l]]_vars
    BY <1>1
  <1> QED
    BY <1>2, BucketInvHolds, PTL DEF Spec, NothingLost
-----------------------------------------------------------------------------
(***************************************************************************)
(* Promotions: a call that is about to copy copies from bronze to silver   *)
(* on a sufficient score, and what it holds is at least what silver showed *)
(* when it began, since bronze shows the newest version of all.            *)
(***************************************************************************)
Copying(c) == call[c].op = "promote" /\ call[c].pc \in {"get", "upload"}

CopyingEarned ==
  \A c \in Calls : Copying(c) =>
    call[c].source = "bronze" /\ call[c].target = "silver" /\ call[c].score >= 70

CopyingFresh ==
  \A c \in Calls : Copying(c) =>
    /\ call[c].floor <= ingested
    /\ call[c].pc = "upload" =>
         call[c].floor <= call[c].data /\ call[c].data <= ingested

BronzeIsNewest ==
  /\ Newest("bronze") = ingested
  /\ \A l \in Layers : \A i \in 1..Len(stored[l]) : stored[l][i].content <= ingested

PromotionInv ==
  TypeOK /\ CopyingEarned /\ CopyingFresh /\ BronzeIsNewest /\ EveryCopyEarned

(* A reader of any layer gets a version that has arrived. *)
LEMMA NewestHasArrived ==
  ASSUME PromotionInv, NEW l \in Layers
  PROVE  Newest(l) \in Nat /\ Newest(l) <= ingested
  <1>1. TypeOK /\ stored[l] \in Seq(Copy) /\ ingested \in Nat
    BY DEF PromotionInv, TypeOK
  <1>2. CASE stored[l] # <<>>
    <2>1. Len(stored[l]) \in 1..Len(stored[l])
      BY <1>1, <1>2, LenProperties, EmptySeq
    <2> QED
      BY <1>1, <1>2, <2>1, NewestIsNat DEF PromotionInv, BronzeIsNewest, Newest
  <1>3. CASE stored[l] = <<>>
    BY <1>1, <1>3 DEF Newest
  <1> QED
    BY <1>2, <1>3

(* The calls of a step: one call moves, or none. *)
LEMMA CopyingStep ==
  ASSUME PromotionInv, [Next]_vars
  PROVE  CopyingEarned' /\ CopyingFresh'
  <1>0. /\ TypeOK /\ TypeOK' /\ ingested \in Nat
        /\ call \in [Calls -> {Idle} \cup EnsureCall \cup PromoteCall]
    BY TypeStep DEF PromotionInv, TypeOK
  <1>1. ingested' \in Nat /\ ingested <= ingested'
    BY <1>0, OthersPutNothing DEF Ingest, UploadObject
  <1> DEFINE Fine(d) ==
        Copying(d)' =>
          /\ call'[d].source = "bronze" /\ call'[d].target = "silver"
          /\ call'[d].score >= 70
          /\ call'[d].floor <= ingested'
          /\ call'[d].pc = "upload" =>
               call'[d].floor <= call'[d].data /\ call'[d].data <= ingested'
  <1>2. ASSUME NEW d \in Calls, call'[d] = call[d]
        PROVE  Fine(d)
    <2> SUFFICES ASSUME Copying(d)
                 PROVE  Fine(d)
      BY <1>2 DEF Copying
    <2>1. call[d].floor \in Nat /\ call[d].data \in Nat
      BY <1>0, CallKinds DEF Copying, PromoteCall
    <2> QED
      BY <1>0, <1>1, <1>2, <2>1 DEF PromotionInv, CopyingEarned, CopyingFresh
  <1>3. ASSUME NEW d \in Calls, call'[d].op \in {"none", "ensure"}
        PROVE  Fine(d)
    BY <1>3 DEF Copying
  <1>4. SUFFICES \A d \in Calls : Fine(d)
    BY DEF CopyingEarned, CopyingFresh
  <1> HIDE DEF Fine
  <1>5. ASSUME NEW c \in Calls, BeginPromote(c)
        PROVE  \A d \in Calls : Fine(d)
    <2>1. PICK source \in Layers, target \in Layers, score \in Scores :
            IF ValidTransition(source, target) /\ ~ score < _DQ_THRESHOLDS[source]
            THEN call' = [call EXCEPT ![c] =
                   [op |-> "promote", source |-> source, target |-> target, score |-> score,
                    pc |-> IF _STRATEGIES[source] = "auto" THEN "get" ELSE "govern",
                    data |-> 0, floor |-> Newest(target)]]
            ELSE UNCHANGED call
      BY <1>5 DEF BeginPromote
    <2>2. ASSUME NEW d \in Calls \ {c}
          PROVE  Fine(d)
      BY <1>0, <1>2, <2>1
    <2>3. CASE UNCHANGED call
      BY <1>2, <2>3
    <2>4. CASE ValidTransition(source, target) /\ ~ score < _DQ_THRESHOLDS[source]
      <3>1. call'[c] =
              [op |-> "promote", source |-> source, target |-> target, score |-> score,
               pc |-> IF _STRATEGIES[source] = "auto" THEN "get" ELSE "govern",
               data |-> 0, floor |-> Newest(target)]
        BY <1>0, <2>1, <2>4
      <3>2. Copying(c)' => _STRATEGIES[source] = "auto" /\ call'[c].pc = "get"
        BY <3>1 DEF Copying
      <3>3. Copying(c)' => source = "bronze" /\ target = "silver" /\ score >= 70
        BY <2>4, <3>2, AutomaticStep, BronzeToSilver, ScoresAssumption
      <3>4. Newest(target) <= ingested'
        BY <1>0, <1>1, NewestHasArrived
      <3> QED
        BY <2>2, <3>1, <3>2, <3>3, <3>4 DEF Fine
    <2> QED
      BY <2>1, <2>3, <2>4
  <1>6. ASSUME NEW c \in Calls, GetObject(c)
        PROVE  \A d \in Calls : Fine(d)
    <2>1. call[c] \in PromoteCall /\ Copying(c) /\ ingested' = ingested
      BY <1>0, <1>6, CallKinds DEF GetObject, At, Copying
    <2>2. /\ \A d \in Calls \ {c} : call'[d] = call[d]
          /\ call'[c] = [call[c] EXCEPT !.data = Newest(call[c].source), !.pc = "upload"]
      BY <1>0, <1>6 DEF GetObject
    <2>3. /\ call[c].source = "bronze" /\ call[c].target = "silver" /\ call[c].score >= 70
          /\ call[c].floor <= ingested /\ Newest(call[c].source) = ingested
      BY <2>1 DEF PromotionInv, CopyingEarned, CopyingFresh, BronzeIsNewest
    <2>4. /\ call'[c].source = call[c].source /\ call'[c].target = call[c].target
          /\ call'[c].score = call[c].score /\ call'[c].floor = call[c].floor
          /\ call'[c].data = ingested
      BY <2>1, <2>2, <2>3 DEF PromoteCall
    <2>5. Fine(c)
      BY <1>0, <2>1, <2>3, <2>4 DEF Fine
    <2> QED
      BY <1>2, <2>2, <2>5
  <1>7. ASSUME NEW c \in Calls, Return(c)
        PROVE  \A d \in Calls : Fine(d)
    BY <1>0, <1>2, <1>3, <1>7, StoppedCalls
  <1>8. ASSUME NEW c \in Calls, BeginEnsure(c)
        PROVE  \A d \in Calls : Fine(d)
    BY <1>0, <1>2, <1>3, <1>8 DEF BeginEnsure
  <1>9. ASSUME NEW c \in Calls, BucketExists(c) \/ MakeBucket(c)
        PROVE  \A d \in Calls : Fine(d)
    <2>1. CASE \E pc \in {"exists", "make", "enable"} : Goto(c, pc)
      BY <1>0, <1>2, <1>3, <1>9, <2>1, GotoMoves DEF BucketExists, MakeBucket, At
    <2> QED
      BY <1>7, <1>9, <2>1 DEF BucketExists, MakeBucket
  <1>10. ASSUME NEW c \in Calls, EnableVersioning(c)
         PROVE  \A d \in Calls : Fine(d)
    BY <1>0, <1>2, <1>3, <1>10, NextLayerMoves DEF EnableVersioning, At
  <1>11. CASE Ingest \/ UNCHANGED vars
    BY <1>2, <1>11 DEF Ingest, vars
  <1> QED
    BY <1>5, <1>6, <1>7, <1>8, <1>9, <1>10, <1>11
       DEF Next, UploadObject, AskGovernance, StoreError

(* The object store after a step. *)
LEMMA StoredStep ==
  ASSUME PromotionInv, [Next]_vars
  PROVE  BronzeIsNewest' /\ EveryCopyEarned'
  <1>0. /\ TypeOK /\ ingested \in Nat /\ "bronze" \in Layers
        /\ stored \in [Layers -> Seq(Copy)]
        /\ BronzeIsNewest /\ EveryCopyEarned
    BY DEF PromotionInv, TypeOK, Layers
  <1>1. \A l \in Layers : \A i \in 1..Len(stored[l]) : stored[l][i] \in Copy
    BY <1>0, ElementOfSeq
  <1>2. CASE Ingest
    <2>1. PICK copy \in Copy : PutObject("bronze", copy) /\ copy.content = ingested + 1
      BY <1>0, <1>2, IngestPuts
    <2>2. ingested' = ingested + 1
      BY <1>2 DEF Ingest
    <2>3. /\ Newest("bronze")' = ingested'
          /\ \A l \in Layers \ {"bronze"} : stored'[l] = stored[l]
          /\ \A i \in 1..Len(stored'["bronze"]) :
               \/ stored'["bronze"][i] = copy
               \/ /\ i \in 1..Len(stored["bronze"])
                  /\ stored'["bronze"][i] = stored["bronze"][i]
      BY <1>0, <2>1, <2>2, PutKeeps
    <2>4. EveryCopyEarned'
      BY <1>0, <2>3 DEF EveryCopyEarned
    <2>5. ASSUME NEW l \in Layers, NEW i \in 1..Len(stored'[l])
          PROVE  stored'[l][i].content <= ingested'
      <3>1. CASE stored'[l][i] = copy /\ l = "bronze"
        BY <1>0, <2>1, <2>2, <3>1
      <3>2. CASE i \in 1..Len(stored[l]) /\ stored'[l][i] = stored[l][i]
        BY <1>0, <1>1, <2>2, <3>2 DEF BronzeIsNewest, Copy
      <3> QED
        BY <2>3, <3>1, <3>2
    <2> QED
      BY <2>3, <2>4, <2>5 DEF BronzeIsNewest
  <1>3. ASSUME NEW c \in Calls, UploadObject(c)
        PROVE  BronzeIsNewest' /\ EveryCopyEarned'
    <2>1. Copying(c) /\ call[c].pc = "upload" /\ ingested' = ingested
      BY <1>3 DEF UploadObject, At, Copying
    <2>2. /\ call[c].source = "bronze" /\ call[c].target = "silver" /\ call[c].score >= 70
          /\ call[c].data <= ingested
      BY <2>1 DEF PromotionInv, CopyingEarned, CopyingFresh
    <2>3. PICK copy \in Copy :
            /\ PutObject("silver", copy) /\ copy.content = call[c].data
            /\ copy.source = "bronze" /\ copy.score >= 70
            /\ "silver" \in Layers
      BY <1>0, <1>3, <2>2, UploadPuts
    <2>4. /\ \A l \in Layers \ {"silver"} : stored'[l] = stored[l]
          /\ \A i \in 1..Len(stored'["silver"]) :
               \/ stored'["silver"][i] = copy
               \/ /\ i \in 1..Len(stored["silver"])
                  /\ stored'["silver"][i] = stored["silver"][i]
      BY <1>0, <2>3, PutKeeps
    <2>5. Newest("bronze")' = Newest("bronze")
      BY <1>0, <2>4 DEF Newest
    <2>6. ASSUME NEW l \in Layers, NEW i \in 1..Len(stored'[l])
          PROVE  /\ stored'[l][i].content <= ingested'
                 /\ l # "bronze" =>
                      /\ ValidTransition(stored'[l][i].source, l)
                      /\ stored'[l][i].score >= _DQ_THRESHOLDS[stored'[l][i].source]
                      /\ _STRATEGIES[stored'[l][i].source] = "auto"
      <3>1. CASE stored'[l][i] = copy /\ l = "silver"
        BY <2>1, <2>2, <2>3, <3>1, BronzeToSilver
      <3>2. CASE i \in 1..Len(stored[l]) /\ stored'[l][i] = stored[l][i]
        BY <1>0, <2>1, <3>2 DEF BronzeIsNewest, EveryCopyEarned
      <3> QED
        BY <2>4, <3>1, <3>2
    <2> QED
      BY <1>0, <2>1, <2>5, <2>6 DEF BronzeIsNewest, EveryCopyEarned
  <1>4. CASE UNCHANGED <<stored, ingested>>
    BY <1>0, <1>4 DEF BronzeIsNewest, EveryCopyEarned, Newest
  <1> QED
    BY <1>2, <1>3, <1>4, OthersPutNothing

LEMMA PromotionInvHolds == Spec => []PromotionInv
  <1>1. ASSUME Init
        PROVE  PromotionInv
    <2>1. /\ \A l \in Layers : stored[l] = <<>> /\ Len(stored[l]) = 0
          /\ \A c \in Calls : call[c].op = "none"
          /\ ingested = 0 /\ "bronze" \in Layers
      BY <1>1 DEF Init, Idle, Layers
    <2> QED
      BY <1>1, <2>1, TypeInit DEF PromotionInv, CopyingEarned, CopyingFresh, Copying,
         BronzeIsNewest, Newest, EveryCopyEarned
  <1>2. PromotionInv /\ [Next]_vars => PromotionInv'
    BY TypeStep, CopyingStep, StoredStep DEF PromotionInv
  <1> QED
    BY <1>1, <1>2, PTL DEF Spec

(* Everything above bronze was copied there on a sufficient score, and     *)
(* never where a governance decision is needed.                            *)
THEOREM CopiesAreEarned == Spec => []EveryCopyEarned
  <1>1. PromotionInv => EveryCopyEarned
    BY DEF PromotionInv
  <1> QED
    BY <1>1, PromotionInvHolds, PTL

(* No promotion puts back less than its target showed when it began.       *)
THEOREM PromotionsAreFresh == Spec => NoStalePromotion
  <1>1. ASSUME PromotionInv, NEW c \in Calls, UploadObject(c)
        PROVE  \A l \in Layers : l = call[c].target => Newest(l)' >= call[c].floor
    <2>1. call[c].pc = "upload" /\ Copying(c) /\ TypeOK
      BY <1>1 DEF UploadObject, At, Copying, PromotionInv
    <2>2. call[c] \in PromoteCall
      BY <2>1, CallKinds DEF Copying
    <2>3. PICK copy \in Copy :
            /\ PutObject(call[c].target, copy) /\ copy.content = call[c].data
            /\ call[c].target \in Layers
      BY <1>1, <2>1, UploadPuts
    <2>4. \A l \in Layers : l = call[c].target => Newest(l)' = call[c].data
      BY <2>1, <2>3, PutKeeps
    <2>5. call[c].floor <= call[c].data
      BY <1>1, <2>1 DEF PromotionInv, CopyingFresh
    <2> QED
      BY <2>2, <2>4, <2>5 DEF PromoteCall
  <1>2. PromotionInv /\ [Next]_vars =>
          [\A c \in Calls, l \in Layers :
             UploadObject(c) /\ l = call[c].target => Newest(l)' >= call[c].floor]_vars
    BY <1>1
  <1> QED
    BY <1>2, PromotionInvHolds, PTL DEF Spec, NoStalePromotion
=============================================================================
