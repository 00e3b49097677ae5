---------------------------- MODULE GatewayProofs ---------------------------
(***************************************************************************)
(* What the gateway keeps, for any list of backends and any number of      *)
(* requests.                                                               *)
(***************************************************************************)
EXTENDS Gateway, Integers, TLAPS

(* The list of backends is what the gateway was started with. *)
LEMMA ListIsFinite ==
  ASSUME TypeOK
  PROVE  /\ n \in Nat
         /\ \A i \in 1..n : backends[i] \in Backends \cup {Malformed}
  BY ConfigurationsAssumption DEF TypeOK, n

LEMMA ListStays ==
  ASSUME [Next]_vars
  PROVE  backends' = backends /\ n' = n
  BY DEF Next, vars, n, Start, Probe, StoreResult, Tick, BeginShutdown, Drained,
     ShutdownDeadline, BackendChanges, Accept, UpstreamAnswers, ReadChunk, WriteChunk,
     StreamEnds, WriteFails, ClientTimeout, ClientLeaves
-----------------------------------------------------------------------------
(***************************************************************************)
(* Types.                                                                  *)
(***************************************************************************)
CheckerType ==
  /\ healthy \in [Backends -> BOOLEAN]
  /\ probing \in 0..n
  /\ answer \in {"none", "ok", "bad"}
  /\ steady \in [Backends -> 0..2]

ProxyType ==
  /\ counter \in 0..MaxAccepted
  /\ picked \in [1..n -> Nat]
  /\ request \in [Requests -> {Idle} \cup Waiting \cup Streaming]

(* The steps of the checker, which main takes the first pass of. *)
CheckerSteps == Start \/ Probe \/ StoreResult \/ Tick

LEMMA CheckerTypeStep ==
  ASSUME TypeOK, CheckerSteps
  PROVE  /\ healthy' \in [Backends -> BOOLEAN]
         /\ probing' \in 0..n
         /\ answer' \in {"none", "ok", "bad"}
         /\ steady' \in [Backends -> 0..2]
         /\ phase' \in {"starting", "serving", "draining", "stopped", "failed"}
         /\ UNCHANGED <<backends, up, counter, picked, request>>
  <1>0. /\ n \in Nat /\ CheckerType /\ up \in [Backends -> BOOLEAN]
        /\ phase \in {"starting", "serving", "draining", "stopped", "failed"}
    BY ListIsFinite DEF TypeOK, CheckerType
  <1>1. ASSUME n # 0, BeginRound
        PROVE  /\ probing' \in 0..n /\ steady' \in [Backends -> 0..2]
               /\ UNCHANGED <<healthy, answer>>
    BY <1>0, <1>1 DEF BeginRound, CheckerType
  <1>2. CASE Start
    BY <1>0, <1>1, <1>2 DEF Start, CheckerType, checker, proxy
  <1>3. CASE Probe
    BY <1>0, <1>3 DEF Probe, CheckerType, proxy
  <1>4. CASE StoreResult
    <2>1. healthy' \in [Backends -> BOOLEAN] /\ answer' = "none"
      BY <1>0, <1>4 DEF StoreResult, CheckerType
    <2>2. CASE probing < n
      BY <1>0, <1>4, <2>1, <2>2 DEF StoreResult, CheckerType, proxy
    <2>3. CASE ~ probing < n
      BY <1>0, <1>4, <2>1, <2>3 DEF StoreResult, EndRound, CheckerType, proxy
    <2> QED
      BY <2>2, <2>3
  <1>5. CASE Tick
    BY <1>0, <1>1, <1>5 DEF Tick, CheckerType, proxy
  <1> QED
    BY <1>2, <1>3, <1>4, <1>5 DEF CheckerSteps

(* The gateway does nothing with a list that NewHandler refuses. *)
ListAccepted ==
  phase \in {"serving", "draining"} \/ probing # 0 \/ answer # "none" => ~Refused

TypeInv == TypeOK /\ ListAccepted

LEMMA ListAcceptedStep ==
  ASSUME TypeInv, [Next]_vars
  PROVE  ListAccepted'
  <1>1. ListAccepted /\ Refused' = Refused
    BY ListStays DEF TypeInv, Refused
  <1>2. CASE CheckerSteps
    <2>1. CASE Start
      BY <1>1, <2>1 DEF Start, ListAccepted, BeginRound, checker
    <2>2. CASE Probe
      BY <1>1, <2>2 DEF Probe, ListAccepted
    <2>3. CASE StoreResult
      BY <1>1, <2>3 DEF StoreResult, ListAccepted, EndRound
    <2>4. CASE Tick
      BY <1>1, <2>4 DEF Tick, ListAccepted, BeginRound
    <2> QED
      BY <1>2, <2>1, <2>2, <2>3, <2>4 DEF CheckerSteps
  <1>3. CASE BeginShutdown \/ Drained \/ ShutdownDeadline
    BY <1>1, <1>3 DEF BeginShutdown, Drained, ShutdownDeadline, ListAccepted, checker
  <1>4. CASE UNCHANGED <<phase, probing, answer>>
    BY <1>1, <1>4 DEF ListAccepted
  <1> QED
    BY <1>2, <1>3, <1>4 DEF Next, vars, CheckerSteps, checker, BackendChanges, Accept,
       UpstreamAnswers, ReadChunk, WriteChunk, StreamEnds, WriteFails, ClientTimeout, ClientLeaves

LEMMA GatewayTypeStep == TypeInv /\ [Next]_vars => TypeOK'
  <1> SUFFICES ASSUME TypeOK, ListAccepted, [Next]_vars
               PROVE  TypeOK'
    BY DEF TypeInv
  <1>0. /\ backends' = backends /\ n' = n /\ n \in Nat /\ MaxAccepted \in Nat /\ MaxChunks \in Nat
        /\ \A i \in 1..n : backends[i] \in Backends \cup {Malformed}
    BY ListStays, ListIsFinite, BoundsAssumption
  <1>1. CASE CheckerSteps
    BY <1>0, <1>1, CheckerTypeStep DEF TypeOK
  <1>2. CASE BeginShutdown \/ Drained \/ ShutdownDeadline
    BY <1>0, <1>2 DEF BeginShutdown, Drained, ShutdownDeadline, TypeOK, checker, proxy
  <1>3. ASSUME NEW b \in Backends, BackendChanges(b)
        PROVE  TypeOK'
    BY <1>0, <1>3 DEF BackendChanges, TypeOK, proxy
  <1>4. ASSUME NEW r \in Requests, request' \in [Requests -> {Idle} \cup Waiting \cup Streaming],
               UNCHANGED <<backends, phase, up, checker, counter, picked>>
        PROVE  TypeOK'
    BY <1>0, <1>4 DEF TypeOK, checker
  <1>5. ASSUME NEW r \in Requests, request[r] # Idle
        PROVE  /\ request[r] \in Waiting \cup Streaming
               /\ request[r].backend \in Backends
               /\ request[r].pc # "waiting" => request[r] \in Streaming
    BY <1>5 DEF TypeOK, Waiting, Streaming
  <1>6. ASSUME NEW r \in Requests, Finish(r)
        PROVE  request' \in [Requests -> {Idle} \cup Waiting \cup Streaming]
    BY <1>6 DEF Finish, TypeOK
  <1>7. ASSUME NEW r \in Requests, ClientLeaves(r)
        PROVE  TypeOK'
    <2>1. [request[r] EXCEPT !.gone = TRUE] \in Waiting \cup Streaming
      <3>1. CASE request[r] \in Waiting
        BY <3>1 DEF Waiting
      <3>2. CASE request[r] \in Streaming
        BY <3>2 DEF Streaming
      <3> QED
        BY <1>5, <1>7, <3>1, <3>2 DEF ClientLeaves
    <2>2. request' \in [Requests -> {Idle} \cup Waiting \cup Streaming]
      BY <1>7, <2>1 DEF ClientLeaves, TypeOK
    <2> QED
      BY <1>4, <1>7, <2>2 DEF ClientLeaves
  <1>8. ASSUME NEW r \in Requests, Accept(r)
        PROVE  TypeOK'
    <2>1. CASE UNCHANGED <<counter, picked, request>>
      BY <1>0, <1>8, <2>1 DEF Accept, TypeOK, checker
    <2>2. CASE n > 0 /\ ~UNCHANGED <<counter, picked, request>>
      <3> DEFINE i == (counter % n) + 1
      <3>1. i \in 1..n /\ counter + 1 \in 0..MaxAccepted
        BY <1>0, <1>8, <2>2 DEF Accept, TypeOK
      <3>2. /\ counter' = counter + 1
            /\ picked' = [picked EXCEPT ![i] = @ + 1]
            /\ request' = [request EXCEPT ![r] =
                 [pc |-> "waiting", backend |-> backends[i], gone |-> FALSE]]
        BY <1>8, <2>2 DEF Accept, SelectBackend
      <3>3. backends[i] \in Backends
        BY <1>0, <1>8, <3>1 DEF Accept, ListAccepted, Refused
      <3>4. [pc |-> "waiting", backend |-> backends[i], gone |-> FALSE] \in Waiting
        BY <3>3 DEF Waiting
      <3> HIDE DEF i
      <3>5. /\ picked' \in [1..n -> Nat]
            /\ request' \in [Requests -> {Idle} \cup Waiting \cup Streaming]
        BY <3>1, <3>2, <3>4 DEF TypeOK
      <3> QED
        BY <1>0, <1>8, <3>1, <3>2, <3>5 DEF Accept, TypeOK, checker
    <2> QED
      BY <1>8, <2>1, <2>2, <1>0 DEF Accept, SelectBackend
  <1>9. ASSUME NEW r \in Requests, UpstreamAnswers(r)
        PROVE  TypeOK'
    <2>1. request[r] # Idle
      BY <1>9 DEF UpstreamAnswers, Idle
    <2>2. ASSUME NEW left \in 0..MaxChunks
          PROVE  [pc |-> "streaming", backend |-> request[r].backend,
                  gone |-> FALSE, left |-> left] \in Streaming
      BY <1>5, <2>1 DEF Streaming
    <2>3. request' \in [Requests -> {Idle} \cup Waiting \cup Streaming]
      BY <1>6, <1>9, <2>2 DEF UpstreamAnswers, TypeOK
    <2> QED
      BY <1>4, <1>9, <2>3 DEF UpstreamAnswers
  <1>10. ASSUME NEW r \in Requests, ReadChunk(r)
         PROVE  TypeOK'
    <2>1. request[r] \in Streaming /\ request[r].left > 0
      BY <1>5, <1>10 DEF ReadChunk, Idle
    <2>2. request[r].left - 1 \in 0..MaxChunks
      BY <1>0, <2>1 DEF Streaming
    <2>3. [request[r] EXCEPT !.pc = "writing", !.left = request[r].left - 1] \in Streaming
      BY <2>1, <2>2 DEF Streaming
    <2>4. request' = [request EXCEPT ![r] =
                        [request[r] EXCEPT !.pc = "writing", !.left = request[r].left - 1]]
      BY <1>10 DEF ReadChunk, TypeOK
    <2>5. request' \in [Requests -> {Idle} \cup Waiting \cup Streaming]
      BY <2>3, <2>4 DEF TypeOK
    <2> QED
      BY <1>4, <1>10, <2>5 DEF ReadChunk
  <1>11. ASSUME NEW r \in Requests, WriteChunk(r)
         PROVE  TypeOK'
    <2>1. request[r] \in Streaming
      BY <1>5, <1>11 DEF WriteChunk, Idle
    <2>2. [request[r] EXCEPT !.pc = "streaming"] \in Streaming
      BY <2>1 DEF Streaming
    <2>3. request' = [request EXCEPT ![r] = [request[r] EXCEPT !.pc = "streaming"]]
      BY <1>11 DEF WriteChunk, TypeOK
    <2>4. request' \in [Requests -> {Idle} \cup Waiting \cup Streaming]
      BY <2>2, <2>3 DEF TypeOK
    <2> QED
      BY <1>4, <1>11, <2>4 DEF WriteChunk
  <1>12. ASSUME NEW r \in Requests, StreamEnds(r) \/ WriteFails(r) \/ ClientTimeout(r)
         PROVE  TypeOK'
    BY <1>4, <1>6, <1>12 DEF StreamEnds, WriteFails, ClientTimeout
  <1>13. CASE UNCHANGED vars
    BY <1>0, <1>13 DEF vars, TypeOK
  <1> QED
    BY <1>1, <1>2, <1>3, <1>7, <1>8, <1>9, <1>10, <1>11, <1>12, <1>13
       DEF Next, CheckerSteps, Configured

LEMMA TypeInvInit == Init => TypeInv
  BY ConfigurationsAssumption, BoundsAssumption DEF Init, TypeInv, ListAccepted, TypeOK, n

LEMMA TypeInvHolds == Spec => []TypeInv
  <1>1. TypeInv /\ [Next]_vars => TypeInv'
    BY GatewayTypeStep, ListAcceptedStep DEF TypeInv
  <1> QED
    BY <1>1, TypeInvInit, PTL DEF Spec

(* The variables of main, of the checker and of the handlers keep their    *)
(* types.                                                                  *)
THEOREM GatewayTypeCorrect == Spec => []TypeOK
  <1>1. TypeInv => TypeOK
    BY DEF TypeInv
  <1> QED
    BY <1>1, TypeInvHolds, PTL
-----------------------------------------------------------------------------
(***************************************************************************)
(* Health: a backend that has not changed since the round began is known   *)
(* rightly as soon as its first position is stored, and an answer that     *)
(* waits to be stored is right for such a backend.                         *)
(***************************************************************************)
StoredIsRight ==
  /\ \A b \in Configured : steady[b] = 2 => (healthy[b] <=> up[b])
  /\ \A b \in Configured : steady[b] = 1 =>
       /\ probing # 0
       /\ \A i \in 1..(probing - 1) : backends[i] = b => (healthy[b] <=> up[b])

AnswerIsRight ==
  answer # "none" =>
    /\ probing # 0
    /\ \A b \in Configured : b = backends[probing] /\ steady[b] # 0 =>
         (answer = "ok" <=> up[b])

HealthInv == TypeInv /\ StoredIsRight /\ AnswerIsRight

LEMMA HealthStep == HealthInv /\ [Next]_vars => HealthInv'
  <1> SUFFICES ASSUME HealthInv, [Next]_vars
               PROVE  StoredIsRight' /\ AnswerIsRight'
    BY GatewayTypeStep, ListAcceptedStep DEF HealthInv, TypeInv
  <1>0. /\ backends' = backends /\ n' = n /\ n \in Nat /\ Configured' = Configured
        /\ probing \in 0..n /\ steady \in [Backends -> 0..2]
        /\ healthy \in [Backends -> BOOLEAN] /\ up \in [Backends -> BOOLEAN]
        /\ Configured \subseteq Backends
        /\ StoredIsRight /\ AnswerIsRight
    BY ListStays, ListIsFinite DEF HealthInv, TypeInv, TypeOK, Configured
  <1>1. CASE UNCHANGED <<up, healthy, probing, answer, steady>>
    BY <1>0, <1>1 DEF StoredIsRight, AnswerIsRight
  <1>2. ASSUME BeginRound, probing = 0, UNCHANGED up
        PROVE  StoredIsRight' /\ AnswerIsRight'
    <2>1. answer = "none" /\ answer' = "none" /\ probing' = 1 /\ healthy' = healthy
      BY <1>0, <1>2 DEF BeginRound, AnswerIsRight
    <2>2. \A b \in Configured : steady[b] # 1
      BY <1>0, <1>2 DEF StoredIsRight
    <2>3. \A b \in Configured : steady'[b] = 2 => steady[b] = 2
      BY <1>0, <1>2 DEF BeginRound
    <2> QED
      BY <1>0, <1>2, <2>1, <2>2, <2>3 DEF StoredIsRight, AnswerIsRight
  <1>3. CASE Start
    BY <1>1, <1>2, <1>3 DEF Start, checker
  <1>4. CASE Probe
    <2>1. \A b \in Configured : b = backends[probing] => (answer' = "ok" <=> up[b])
      BY <1>0, <1>4 DEF Probe
    <2> QED
      BY <1>0, <1>4, <2>1 DEF Probe, StoredIsRight, AnswerIsRight
  <1>5. CASE StoreResult
    <2>1. /\ answer' = "none" /\ up' = up /\ probing \in 1..n
          /\ healthy' = [healthy EXCEPT ![backends[probing]] = answer = "ok"]
      BY <1>0, <1>5 DEF StoreResult, AnswerIsRight
    <2>2. ASSUME NEW b \in Configured, b = backends[probing], steady[b] # 0
          PROVE  healthy'[b] <=> up[b]
      BY <1>0, <1>5, <2>1, <2>2 DEF AnswerIsRight, StoreResult
    <2>3. ASSUME NEW b \in Configured, b # backends[probing]
          PROVE  healthy'[b] = healthy[b]
      BY <1>0, <2>1, <2>3
    <2>4. ASSUME NEW b \in Configured, steady[b] = 2
          PROVE  healthy'[b] <=> up[b]
      BY <1>0, <2>2, <2>3, <2>4 DEF StoredIsRight
    <2>5. ASSUME NEW b \in Configured, steady[b] = 1,
                 NEW i \in 1..probing, backends[i] = b
          PROVE  healthy'[b] <=> up[b]
      <3>1. i \in 1..(probing - 1) \/ i = probing
        BY <1>0, <2>1
      <3> QED
        BY <1>0, <2>2, <2>3, <2>5, <3>1 DEF StoredIsRight
    <2>6. CASE probing < n
      <3>1. probing' = probing + 1 /\ steady' = steady
        BY <1>5, <2>6 DEF StoreResult
      <3>2. 1..(probing' - 1) = 1..probing /\ probing' # 0
        BY <1>0, <3>1
      <3> QED
        BY <1>0, <2>1, <2>4, <2>5, <3>1, <3>2 DEF StoredIsRight, AnswerIsRight
    <2>7. CASE ~ probing < n
      <3>1. /\ probing = n
            /\ steady' = [b \in Backends |-> IF steady[b] = 1 THEN 2 ELSE steady[b]]
        BY <1>0, <1>5, <2>7 DEF StoreResult, EndRound
      <3>2. \A b \in Configured : \E i \in 1..probing : backends[i] = b
        BY <3>1 DEF Configured
      <3>3. \A b \in Configured : steady'[b] # 1 /\ (steady'[b] = 2 => steady[b] \in {1, 2})
        BY <1>0, <3>1
      <3>4. \A b \in Configured : steady'[b] = 2 => (healthy'[b] <=> up[b])
        BY <2>4, <2>5, <3>2, <3>3
      <3> QED
        BY <1>0, <2>1, <3>3, <3>4 DEF StoredIsRight, AnswerIsRight
    <2> QED
      BY <2>6, <2>7
  <1>6. CASE Tick
    BY <1>2, <1>6 DEF Tick
  <1>7. ASSUME NEW b \in Backends, BackendChanges(b)
        PROVE  StoredIsRight' /\ AnswerIsRight'
    <2>1. /\ steady'[b] = 0
          /\ \A d \in Configured \ {b} : steady'[d] = steady[d] /\ up'[d] = up[d]
          /\ UNCHANGED <<healthy, probing, answer>>
      BY <1>0, <1>7 DEF BackendChanges
    <2> QED
      BY <1>0, <2>1 DEF StoredIsRight, AnswerIsRight
  <1> QED
    BY <1>1, <1>3, <1>4, <1>5, <1>6, <1>7 DEF Next, vars, checker, BeginShutdown, Drained,
       ShutdownDeadline, Accept, UpstreamAnswers, ReadChunk, WriteChunk, StreamEnds, WriteFails,
       ClientTimeout, ClientLeaves, Configured

LEMMA HealthInvHolds == Spec => []HealthInv
  <1>1. ASSUME Init
        PROVE  HealthInv
    <2>1. \A b \in Configured : steady[b] = 0
      BY <1>1 DEF Init, Configured
    <2> QED
      BY <1>1, <2>1, TypeInvInit DEF HealthInv, StoredIsRight, AnswerIsRight, Init
  <1> QED
    BY <1>1, HealthStep, PTL DEF Spec

(* What the checker knows of a backend is out of date for the round in     *)
(* which the backend changed and the next one, and never longer.           *)
THEOREM HealthLags == Spec => []HealthLagsOneRound
  <1>1. HealthInv => HealthLagsOneRound
    BY DEF HealthInv, StoredIsRight, HealthLagsOneRound
  <1> QED
    BY <1>1, HealthInvHolds, PTL
-----------------------------------------------------------------------------
(***************************************************************************)
(* Balance: before position counter % n of the current turn every position *)
(* has been picked once more than from there on.                           *)
(***************************************************************************)
TurnsAreEven ==
  n > 0 => \E turns \in Nat : \A i \in 1..n :
             picked[i] = IF i <= counter % n THEN turns + 1 ELSE turns

BalanceInv == TypeInv /\ TurnsAreEven

(* Division with remainder, and what the next number leaves. *)
LEMMA DivisionFacts ==
  ASSUME NEW a \in Nat, NEW k \in Nat \ {0}
  PROVE  a % k \in 0..(k - 1) /\ a \div k \in Int /\ a = k * (a \div k) + (a % k)
  OBVIOUS

LEMMA DivisionIsUnique ==
  ASSUME NEW k \in Nat \ {0}, NEW q \in Int, NEW t \in Int,
         NEW r \in 0..(k - 1), NEW s \in 0..(k - 1), k * q + r = k * t + s
  PROVE  r = s
  <1>1. k * (q - t) = s - r
    BY SMT
  <1>2. CASE q - t >= 1
    <2>1. k * (q - t) >= k
      BY <1>2, SMT
    <2> QED
      BY <1>1, <2>1
  <1>3. CASE q - t <= -1
    <2>1. k * (q - t) <= -k
      BY <1>3, SMT
    <2> QED
      BY <1>1, <2>1
  <1>4. CASE q = t
    BY <1>1, <1>4
  <1> QED
    BY <1>2, <1>3, <1>4

LEMMA NextPosition ==
  ASSUME NEW a \in Nat, NEW k \in Nat \ {0}
  PROVE  /\ a % k \in 0..(k - 1)
         /\ (a + 1) % k = IF a % k = k - 1 THEN 0 ELSE (a % k) + 1
  <1>1. PICK q \in Int, r \in 0..(k - 1) : r = a % k /\ a = k * q + r
    BY DivisionFacts
  <1>2. a + 1 \in Nat
    OBVIOUS
  <1>3. PICK t \in Int, s \in 0..(k - 1) : s = (a + 1) % k /\ a + 1 = k * t + s
    <2>1. \A b \in Nat : /\ b % k \in 0..(k - 1) /\ b \div k \in Int
                        /\ b = k * (b \div k) + (b % k)
      BY DivisionFacts
    <2> QED
      BY <1>2, <2>1, Zenon
  <1>4. CASE r = k - 1
    <2>1. k * (q + 1) + 0 = k * t + s /\ q + 1 \in Int /\ 0 \in 0..(k - 1)
      BY <1>1, <1>3, <1>4, SMT
    <2>2. s = 0
      BY <2>1, DivisionIsUnique
    <2> QED
      BY <1>1, <1>3, <1>4, <2>2
  <1>5. CASE r # k - 1
    <2>1. k * q + (r + 1) = k * t + s /\ r + 1 \in 0..(k - 1)
      BY <1>1, <1>3, <1>5
    <2>2. s = r + 1
      BY <2>1, DivisionIsUnique
    <2> QED
      BY <1>1, <1>3, <1>5, <2>2
  <1> QED
    BY <1>4, <1>5

LEMMA BalanceStep == BalanceInv /\ [Next]_vars => BalanceInv'
  <1> SUFFICES ASSUME BalanceInv, [Next]_vars
               PROVE  TurnsAreEven'
    BY GatewayTypeStep, ListAcceptedStep DEF BalanceInv, TypeInv
  <1>0. /\ n' = n /\ n \in Nat /\ counter \in Nat /\ picked \in [1..n -> Nat]
        /\ TurnsAreEven
    BY ListStays, ListIsFinite, BoundsAssumption DEF BalanceInv, TypeInv, TypeOK
  <1>1. CASE UNCHANGED <<counter, picked>>
    BY <1>0, <1>1 DEF TurnsAreEven
  <1>2. ASSUME NEW r \in Requests, Accept(r), n > 0
        PROVE  TurnsAreEven'
    <2> DEFINE here == counter % n
    <2>0. n \in Nat \ {0}
      BY <1>0, <1>2
    <2>1. here \in 0..(n - 1) /\ (counter + 1) % n = IF here = n - 1 THEN 0 ELSE here + 1
      BY <1>0, <2>0, NextPosition
    <2>2. counter' = counter + 1 /\ picked' = [picked EXCEPT ![here + 1] = @ + 1]
      BY <1>0, <1>2 DEF Accept, SelectBackend
    <2>3. PICK turns \in Nat : \A i \in 1..n :
            picked[i] = IF i <= here THEN turns + 1 ELSE turns
      BY <1>0, <1>2 DEF TurnsAreEven
    <2>4. counter' % n' = IF here = n - 1 THEN 0 ELSE here + 1
      BY <1>0, <2>1, <2>2
    <2> HIDE DEF here
    <2>5. \A i \in 1..n : picked'[i] = IF i <= here + 1 THEN turns + 1 ELSE turns
      BY <1>0, <2>1, <2>2, <2>3
    <2>6. CASE here = n - 1
      <3>1. \A i \in 1..n' :
              picked'[i] = IF i <= counter' % n' THEN turns + 1 + 1 ELSE turns + 1
        BY <1>0, <2>4, <2>5, <2>6
      <3>2. turns + 1 \in Nat
        OBVIOUS
      <3> QED
        BY <3>1, <3>2 DEF TurnsAreEven
    <2>7. CASE here # n - 1
      BY <1>0, <2>4, <2>5, <2>7 DEF TurnsAreEven
    <2> QED
      BY <2>6, <2>7
  <1>3. CASE ~ n > 0
    BY <1>0, <1>3 DEF TurnsAreEven
  <1> QED
    BY <1>1, <1>2, <1>3 DEF Next, vars, checker, proxy, Start, Probe, StoreResult, Tick,
       BeginShutdown, Drained, ShutdownDeadline, BackendChanges, UpstreamAnswers, ReadChunk,
       WriteChunk, StreamEnds, WriteFails, ClientTimeout, ClientLeaves

(* However requests overlap or fail, the round robin is even: two          *)
(* positions of the list differ by one request at most.                    *)
THEOREM RoundRobinIsEven == Spec => []Balanced
  <1>1. ASSUME Init
        PROVE  BalanceInv
    <2>1. TypeInv /\ n \in Nat
      BY <1>1, TypeInvInit, ListIsFinite DEF TypeInv
    <2>2. counter = 0 /\ \A i \in 1..n : picked[i] = 0
      BY <1>1 DEF Init, n
    <2>3. n > 0 => 0 % n = 0
      BY <2>1
    <2> QED
      BY <2>1, <2>2, <2>3 DEF BalanceInv, TurnsAreEven
  <1>2. ASSUME BalanceInv
        PROVE  Balanced
    <2>1. n \in Nat
      BY <1>2, ListIsFinite DEF BalanceInv, TypeInv
    <2>2. CASE n > 0
      <3>1. PICK turns \in Nat : \A i \in 1..n :
              picked[i] = IF i <= counter % n THEN turns + 1 ELSE turns
        BY <1>2, <2>2 DEF BalanceInv, TurnsAreEven
      <3> QED
        BY <3>1 DEF Balanced
    <2>3. CASE ~ n > 0
      BY <2>1, <2>3 DEF Balanced
    <2> QED
      BY <2>2, <2>3
  <1> QED
    BY <1>1, <1>2, BalanceStep, PTL DEF Spec
=============================================================================
