----------------------------- MODULE Lakehouse -----------------------------
(***************************************************************************)
(* The lakehouse agent: the medallion buckets of one domain in the object  *)
(* store, and the promotion of one dataset from a layer to the next.  The  *)
(* calls run concurrently, in one agent or in several that share the       *)
(* store; each await of the agent is a step of its own.                    *)
(*                                                                         *)
(* A score is a percentage (dq_score lies between 0.0 and 1.0) and the     *)
(* caller's own claim: the agent never measures the dataset.               *)
(***************************************************************************)
EXTENDS Medallion, Sequences

CONSTANTS
  Calls,      \* the calls that may be under way at the same time
  Scores,     \* the scores the callers claim
  MaxBegun,   \* bound: calls begun, of each kind
  MaxIngested \* bound: versions of the dataset that arrive in bronze

ASSUME ScoresAssumption == Scores \subseteq 0 .. 100
ASSUME BoundsAssumption == MaxIngested \in Nat /\ MaxBegun \in [{"ensure", "promote"} -> Nat]

VARIABLES
  versioning, \* per layer: the bucket is "absent", or versioning is "off" or "on"
  stored,     \* per layer: the versions of the dataset the store still has, oldest first
  call,       \* per call: what it has yet to do
  ready,      \* history: some ensure_buckets has returned normally
  ingested,   \* the number of versions that have arrived in bronze
  begun       \* the number of calls begun, of each kind

vars == <<versioning, stored, call, ready, ingested, begun>>

----------------------------------------------------------------------------
\* The object store.

Copy == [content : Nat, source : Layers \cup {"outside"}, score : 0 .. 100]

\* A versioned bucket keeps what it had; any other replaces it.
PutObject(layer, copy) ==
  stored' = [stored EXCEPT ![layer] =
    IF versioning[layer] = "on" THEN Append(@, copy) ELSE <<copy>>]

\* The content a reader of the layer gets, 0 when there is none.
Newest(layer) ==
  IF stored[layer] = <<>> THEN 0 ELSE stored[layer][Len(stored[layer])].content

----------------------------------------------------------------------------
\* The calls.

Idle == [op |-> "none", pc |-> "idle"]

EnsureCall == [op : {"ensure"}, pc : {"exists", "make", "enable"}, layer : 1 .. 4]

\* floor is history: what the target layer showed when the call began.
PromoteCall == [op : {"promote"}, pc : {"get", "upload", "govern"},
                source : Layers, target : Layers, score : 0 .. 100,
                data : Nat, floor : Nat]

At(c, op, pc) == call[c].op = op /\ call[c].pc = pc
Goto(c, pc)   == call' = [call EXCEPT ![c].pc = pc]
Return(c)     == call' = [call EXCEPT ![c] = Idle]

Begin(c, op) ==
  /\ call[c] = Idle
  /\ begun[op] < MaxBegun[op]
  /\ begun' = [begun EXCEPT ![op] = @ + 1]

Init ==
  /\ versioning = [l \in Layers |-> "absent"]
  /\ stored = [l \in Layers |-> <<>>]
  /\ call = [c \in Calls |-> Idle]
  /\ ready = FALSE
  /\ ingested = 0
  /\ begun = [op \in {"ensure", "promote"} |-> 0]

\* A producer outside the agent writes the next version of the dataset.
Ingest ==
  /\ versioning["bronze"] # "absent"
  /\ ingested < MaxIngested
  /\ ingested' = ingested + 1
  /\ PutObject("bronze", [content |-> ingested', source |-> "outside", score |-> 0])
  /\ UNCHANGED <<versioning, call, ready, begun>>

\* ensure_buckets, from the agent's start-up or from the route.
BeginEnsure(c) ==
  /\ Begin(c, "ensure")
  /\ call' = [call EXCEPT ![c] = [op |-> "ensure", pc |-> "exists", layer |-> 1]]
  /\ UNCHANGED <<versioning, stored, ready, ingested>>

\* Mutant of NextLayer: the loop runs past the last layer.
NextLayerTooFar(c) ==
  /\ call' = [call EXCEPT ![c].layer = @ + 1, ![c].pc = "exists"]
  /\ UNCHANGED ready

\* The loop's step to the next layer; after the last one the call returns.
NextLayer(c) ==
  \/ /\ call[c].layer < 4
     /\ call' = [call EXCEPT ![c].layer = @ + 1, ![c].pc = "exists"]
     /\ UNCHANGED ready
  \/ /\ call[c].layer = 4
     /\ Return(c)
     /\ ready' = TRUE

\* Mutant of BucketExists: versioning is enabled only for a bucket the call made.
BucketExistsSkips(c) ==
  /\ At(c, "ensure", "exists")
  /\ IF versioning[_LAYER_ORDER[call[c].layer]] = "absent"
     THEN Goto(c, "make") /\ UNCHANGED ready
     ELSE NextLayer(c)
  /\ UNCHANGED <<versioning, stored, ingested, begun>>

BucketExists(c) ==
  /\ At(c, "ensure", "exists")
  /\ Goto(c, IF versioning[_LAYER_ORDER[call[c].layer]] = "absent" THEN "make" ELSE "enable")
  /\ UNCHANGED <<versioning, stored, ready, ingested, begun>>

\* Mutant of MakeBucket: a bucket someone else just made is taken to be complete.
MakeBucketTolerant(c) ==
  LET layer == _LAYER_ORDER[call[c].layer] IN
  /\ At(c, "ensure", "make")
  /\ \/ /\ versioning[layer] = "absent"
        /\ versioning' = [versioning EXCEPT ![layer] = "off"]
        /\ Goto(c, "enable")
        /\ UNCHANGED ready
     \/ /\ versioning[layer] # "absent"
        /\ NextLayer(c)
        /\ UNCHANGED versioning
  /\ UNCHANGED <<stored, ingested, begun>>

\* Another agent may have made the bucket since: the error ends the call.
MakeBucket(c) ==
  LET layer == _LAYER_ORDER[call[c].layer] IN
  /\ At(c, "ensure", "make")
  /\ \/ /\ versioning[layer] = "absent"
        /\ versioning' = [versioning EXCEPT ![layer] = "off"]
        /\ Goto(c, "enable")
     \/ /\ versioning[layer] # "absent"
        /\ Return(c)
        /\ UNCHANGED versioning
  /\ UNCHANGED <<stored, ready, ingested, begun>>

EnableVersioning(c) ==
  /\ At(c, "ensure", "enable")
  /\ versioning' = [versioning EXCEPT ![_LAYER_ORDER[call[c].layer]] = "on"]
  /\ NextLayer(c)
  /\ UNCHANGED <<stored, ingested, begun>>

\* Mutant of BeginPromote: every transition takes the automatic strategy.
BeginPromoteAuto(c) ==
  /\ Begin(c, "promote")
  /\ \E source, target \in Layers, score \in Scores :
       IF ValidTransition(source, target) /\ ~ score < _DQ_THRESHOLDS[source]
       THEN call' = [call EXCEPT ![c] =
              [op |-> "promote", source |-> source, target |-> target, score |-> score,
               pc |-> "get", data |-> 0, floor |-> Newest(target)]]
       ELSE UNCHANGED call
  /\ UNCHANGED <<versioning, stored, ready, ingested>>

\* promote, up to its first await: a refused transition (400) and a score
\* below the threshold are answered at once.
BeginPromote(c) ==
  /\ Begin(c, "promote")
  /\ \E source, target \in Layers, score \in Scores :
       IF ValidTransition(source, target) /\ ~ score < _DQ_THRESHOLDS[source]
       THEN call' = [call EXCEPT ![c] =
              [op |-> "promote", source |-> source, target |-> target, score |-> score,
               pc |-> IF _STRATEGIES[source] = "auto" THEN "get" ELSE "govern",
               data |-> 0, floor |-> Newest(target)]]
       ELSE UNCHANGED call
  /\ UNCHANGED <<versioning, stored, ready, ingested>>

GetObject(c) ==
  /\ At(c, "promote", "get")
  /\ stored[call[c].source] # <<>>
  /\ call' = [call EXCEPT ![c].data = Newest(call[c].source), ![c].pc = "upload"]
  /\ UNCHANGED <<versioning, stored, ready, ingested, begun>>

\* Mutant of UploadObject: the one strategy instance keeps the data it read,
\* so that a call may write what another one read.
UploadShared(c) ==
  /\ At(c, "promote", "upload")
  /\ versioning[call[c].target] # "absent"
  /\ \E d \in Calls :
       /\ At(d, "promote", "upload")
       /\ PutObject(call[c].target, [content |-> call[d].data,
                                     source |-> call[c].source, score |-> call[c].score])
  /\ Return(c)
  /\ UNCHANGED <<versioning, ready, ingested, begun>>

UploadObject(c) ==
  /\ At(c, "promote", "upload")
  /\ versioning[call[c].target] # "absent"
  /\ PutObject(call[c].target, [content |-> call[c].data,
                                source |-> call[c].source, score |-> call[c].score])
  /\ Return(c)
  /\ UNCHANGED <<versioning, ready, ingested, begun>>

\* _GovernancePromotionStrategy: a fresh decision id, "promoted" false; no
\* decision is created and no object is copied.
AskGovernance(c) ==
  /\ At(c, "promote", "govern")
  /\ Return(c)
  /\ UNCHANGED <<versioning, stored, ready, ingested, begun>>

\* The store fails or refuses, or the agent stops, during any await.
StoreError(c) ==
  /\ call[c] # Idle
  /\ Return(c)
  /\ UNCHANGED <<versioning, stored, ready, ingested, begun>>

Next ==
  \/ Ingest
  \/ \E c \in Calls :
       \/ BeginEnsure(c) \/ BucketExists(c) \/ MakeBucket(c) \/ EnableVersioning(c)
       \/ BeginPromote(c) \/ GetObject(c) \/ UploadObject(c) \/ AskGovernance(c)
       \/ StoreError(c)

Spec == Init /\ [][Next]_vars

----------------------------------------------------------------------------
\* Properties.

\* Every variable keeps its type.
TypeOK ==
  /\ versioning \in [Layers -> {"absent", "off", "on"}]
  /\ stored \in [Layers -> Seq(Copy)]
  /\ call \in [Calls -> {Idle} \cup EnsureCall \cup PromoteCall]
  /\ ready \in BOOLEAN
  /\ ingested \in Nat
  /\ begun \in [{"ensure", "promote"} -> Nat]

\* Once any ensure_buckets has returned, all four buckets exist and keep old
\* versions, although each is created and made versioned by separate calls
\* and other agents start, fail or stop between the two.
ReadyBucketsAreVersioned == ready => \A l \in Layers : versioning[l] = "on"

\* What is above bronze was copied there from the layer below by a call whose
\* score met that step's threshold, and never past the layers that need a
\* governance decision, since no decision is ever taken.
EveryCopyEarned ==
  \A l \in Layers \ {"bronze"} : \A i \in 1 .. Len(stored[l]) :
    LET copy == stored[l][i] IN
    /\ ValidTransition(copy.source, l)
    /\ copy.score >= _DQ_THRESHOLDS[copy.source]
    /\ _STRATEGIES[copy.source] = "auto"

\* After some ensure_buckets has returned, no call of anyone makes a version
\* of the dataset disappear from any layer.
NothingLost ==
  [][ready => \A l \in Layers :
       /\ Len(stored[l]) <= Len(stored'[l])
       /\ SubSeq(stored'[l], 1, Len(stored[l])) = stored[l]]_vars

\* The copy a promotion writes is never older than what the target layer
\* showed when that promotion began, however reads and writes of concurrent
\* promotions and of the producers interleave.
NoStalePromotion ==
  [][\A c \in Calls, l \in Layers :
       UploadObject(c) /\ l = call[c].target => Newest(l)' >= call[c].floor]_vars

=============================================================================
