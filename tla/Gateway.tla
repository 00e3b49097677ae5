------------------------------ MODULE Gateway ------------------------------
(***************************************************************************)
(* The gateway process: its start and its graceful shutdown, the proxy     *)
(* that spreads completion requests over the backends, and the background  *)
(* health checker behind /ready.  A request handler, the checker and main  *)
(* are goroutines that interleave; backends come and go, clients leave,    *)
(* and a timeout may end any wait it bounds.                               *)
(***************************************************************************)
EXTENDS Naturals, Sequences, FiniteSets

CONSTANTS
  Backends,       \* the backend URLs that parse
  Malformed,      \* a backend URL that NewHandler refuses
  Configurations, \* the lists VLLM_BACKENDS may hold
  Requests,       \* the requests that may be in flight at the same time
  MaxAccepted,    \* bound: requests accepted
  MaxChunks       \* bound: chunks of a streamed body

ASSUME ConfigurationsAssumption ==
  /\ Configurations \subseteq Seq(Backends \cup {Malformed})
  /\ Malformed \notin Backends
ASSUME BoundsAssumption == MaxAccepted \in Nat /\ MaxChunks \in Nat

VARIABLES
  backends, \* cfg.Backends
  phase,    \* of main: "starting", "serving", "draining", "stopped" (exit 0), "failed" (exit 1)
  up,       \* per backend: it answers
  healthy,  \* per backend: the result the checker stored last
  probing,  \* the position the checker probes, 0 between two rounds
  answer,   \* what that probe returned: "none" yet, "ok" or "bad"
  steady,   \* history, per backend: 0 when up changed since the round under way
            \* began, 1 when not, 2 when a whole round has passed since
  counter,  \* the round-robin counter
  picked,   \* history, per position: how often it was selected
  request   \* per request: where its handler is

vars == <<backends, phase, up, healthy, probing, answer, steady, counter, picked, request>>
checker  == <<healthy, probing, answer, steady>>
proxy    == <<counter, picked, request>>

n == Len(backends)

\* The backends the checker and the proxy know; no other plays a part.
Configured == {backends[i] : i \in 1 .. n} \cap Backends

\* left is what the backend has yet to send, gone that the client has left.
Idle      == [pc |-> "idle"]
Waiting   == [pc : {"waiting"}, backend : Backends, gone : BOOLEAN]
Streaming == [pc : {"streaming", "writing"}, backend : Backends, gone : BOOLEAN, left : 0 .. MaxChunks]

InFlight == {r \in Requests : request[r] # Idle}
Finish(r) == request' = [request EXCEPT ![r] = Idle]

Init ==
  /\ backends \in Configurations
  /\ phase = "starting"
  /\ up \in [Backends -> BOOLEAN]
  /\ healthy = [b \in Backends |-> FALSE]
  /\ probing = 0
  /\ answer = "none"
  /\ steady = [b \in Backends |-> 0]
  /\ counter = 0
  /\ picked = [i \in 1 .. Len(backends) |-> 0]
  /\ request = [r \in Requests |-> Idle]

----------------------------------------------------------------------------
\* The environment.

BackendChanges(b) ==
  /\ up' = [up EXCEPT ![b] = ~@]
  /\ steady' = [steady EXCEPT ![b] = 0]
  /\ UNCHANGED <<backends, phase, healthy, probing, answer, proxy>>

ClientLeaves(r) ==
  /\ request[r] # Idle /\ ~request[r].gone
  /\ request' = [request EXCEPT ![r].gone = TRUE]
  /\ UNCHANGED <<backends, phase, up, checker, counter, picked>>

----------------------------------------------------------------------------
\* The health checker.

\* One pass of checkAll begins.
BeginRound ==
  /\ probing' = 1
  /\ steady' = [b \in Backends |-> IF steady[b] = 0 THEN 1 ELSE steady[b]]
  /\ UNCHANGED <<healthy, answer>>

\* client.Get, bounded by its own timeout.
Probe ==
  /\ phase \in {"starting", "serving", "draining"}
  /\ probing # 0 /\ answer = "none"
  /\ answer' = IF up[backends[probing]] THEN "ok" ELSE "bad"
  /\ UNCHANGED <<backends, phase, up, healthy, probing, steady, proxy>>

EndRound ==
  /\ probing' = 0
  /\ steady' = [b \in Backends |-> IF steady[b] = 1 THEN 2 ELSE steady[b]]
  /\ phase' = IF phase = "starting" THEN "serving" ELSE phase

\* Mutant of StoreResult: the pass runs past the last backend.
StoreResultPast ==
  /\ phase \in {"starting", "serving", "draining"}
  /\ answer # "none"
  /\ healthy' = [healthy EXCEPT ![backends[probing]] = answer = "ok"]
  /\ answer' = "none"
  /\ IF probing <= n
     THEN probing' = probing + 1 /\ UNCHANGED <<phase, steady>>
     ELSE EndRound
  /\ UNCHANGED <<backends, up, proxy>>

\* Mutant of StoreResult: the pass ends at the first backend that does not answer.
StoreResultBreaks ==
  /\ phase \in {"starting", "serving", "draining"}
  /\ answer # "none"
  /\ healthy' = [healthy EXCEPT ![backends[probing]] = answer = "ok"]
  /\ answer' = "none"
  /\ IF probing < n /\ answer = "ok"
     THEN probing' = probing + 1 /\ UNCHANGED <<phase, steady>>
     ELSE EndRound
  /\ UNCHANGED <<backends, up, proxy>>

\* The result is stored under the lock; the initial pass, run by main itself,
\* is what precedes listening.
StoreResult ==
  /\ phase \in {"starting", "serving", "draining"}
  /\ answer # "none"
  /\ healthy' = [healthy EXCEPT ![backends[probing]] = answer = "ok"]
  /\ answer' = "none"
  /\ IF probing < n
     THEN probing' = probing + 1 /\ UNCHANGED <<phase, steady>>
     ELSE EndRound
  /\ UNCHANGED <<backends, up, proxy>>

\* The ticker.  A cancelled context may lose against a due tick in the select;
\* a checker that has returned is one that takes no further tick.
Tick ==
  /\ phase \in {"serving", "draining"}
  /\ probing = 0 /\ n > 0
  /\ BeginRound
  /\ UNCHANGED <<backends, phase, up, proxy>>

anyHealthy == \E b \in Backends : healthy[b]

\* handleReady answers 200.
Ready == n > 0 /\ anyHealthy

----------------------------------------------------------------------------
\* main.

\* NewHandler returns an error.
Refused == \E i \in 1 .. n : backends[i] = Malformed

\* A URL that does not parse ends the process; otherwise the initial pass
\* begins, over at once when there is no backend.
Start ==
  /\ phase = "starting" /\ probing = 0
  /\ \/ /\ Refused
        /\ phase' = "failed"
        /\ UNCHANGED checker
     \/ /\ ~Refused
        /\ IF n = 0
           THEN phase' = "serving" /\ UNCHANGED checker
           ELSE BeginRound /\ UNCHANGED phase
  /\ UNCHANGED <<backends, up, proxy>>

\* A signal, or ListenAndServe that failed: the context is cancelled and
\* Shutdown closes the listener.
BeginShutdown ==
  /\ phase = "serving"
  /\ phase' = "draining"
  /\ UNCHANGED <<backends, up, checker, proxy>>

Drained ==
  /\ phase = "draining"
  /\ InFlight = {}
  /\ phase' = "stopped"
  /\ UNCHANGED <<backends, up, checker, proxy>>

\* The deadline of Shutdown passes: os.Exit(1) takes the handlers with it.
ShutdownDeadline ==
  /\ phase = "draining"
  /\ InFlight # {}
  /\ phase' = "failed"
  /\ request' = [r \in Requests |-> Idle]
  /\ UNCHANGED <<backends, up, checker, counter, picked>>

----------------------------------------------------------------------------
\* The proxy.

\* Mutant of SelectBackend: the counter moves when the answer comes, so that
\* requests that overlap are given the same backend.
SelectBackendLate(r) ==
  /\ request[r] = Idle
  /\ \/ n = 0 /\ UNCHANGED <<counter, picked, request>>
     \/ LET i == (counter % n) + 1 IN
        /\ n > 0
        /\ counter' = IF InFlight = {} THEN counter + 1 ELSE counter
        /\ picked' = [picked EXCEPT ![i] = @ + 1]
        /\ request' = [request EXCEPT ![r] =
             [pc |-> "waiting", backend |-> backends[i], gone |-> FALSE]]

\* selectBackend adds to the counter atomically; without a backend the answer
\* is 502.  Whether the backend is healthy plays no part.
SelectBackend(r) ==
  /\ request[r] = Idle
  /\ \/ n = 0 /\ UNCHANGED <<counter, picked, request>>
     \/ LET i == (counter % n) + 1 IN
        /\ n > 0
        /\ counter' = counter + 1
        /\ picked' = [picked EXCEPT ![i] = @ + 1]
        /\ request' = [request EXCEPT ![r] =
             [pc |-> "waiting", backend |-> backends[i], gone |-> FALSE]]

\* The server hands proxyRequest a request for one of the two routes.
Accept(r) ==
  /\ phase = "serving"
  /\ counter < MaxAccepted
  /\ SelectBackend(r)
  /\ UNCHANGED <<backends, phase, up, checker>>

\* client.Do returns the headers, which are copied to the client, or an error (502).
UpstreamAnswers(r) ==
  /\ request[r].pc = "waiting"
  /\ \/ \E left \in 0 .. MaxChunks :
          /\ up[request[r].backend] /\ ~request[r].gone
          /\ request' = [request EXCEPT ![r] =
               [pc |-> "streaming", backend |-> request[r].backend,
                gone |-> FALSE, left |-> left]]
     \/ /\ ~up[request[r].backend] \/ request[r].gone
        /\ Finish(r)
  /\ UNCHANGED <<backends, phase, up, checker, counter, picked>>

\* streamBody reads a chunk.
ReadChunk(r) ==
  /\ request[r].pc = "streaming"
  /\ request[r].left > 0
  /\ up[request[r].backend] /\ ~request[r].gone
  /\ request' = [request EXCEPT ![r] = [request[r] EXCEPT !.pc = "writing", !.left = @ - 1]]
  /\ UNCHANGED <<backends, phase, up, checker, counter, picked>>

\* ... and writes and flushes it, once the client takes it.
WriteChunk(r) ==
  /\ request[r].pc = "writing"
  /\ ~request[r].gone
  /\ request' = [request EXCEPT ![r].pc = "streaming"]
  /\ UNCHANGED <<backends, phase, up, checker, counter, picked>>

\* The write fails: the client has left, or has taken nothing by the time the
\* server's WriteTimeout has passed.
WriteFails(r) ==
  /\ request[r].pc = "writing"
  /\ Finish(r)
  /\ UNCHANGED <<backends, phase, up, checker, counter, picked>>

\* streamBody ends with the body or on a read error.
StreamEnds(r) ==
  /\ request[r].pc = "streaming"
  /\ request[r].left = 0 \/ ~up[request[r].backend] \/ request[r].gone
  /\ Finish(r)
  /\ UNCHANGED <<backends, phase, up, checker, counter, picked>>

\* Mutant of ClientTimeout: it covers the wait for the headers only.
HeaderTimeout(r) ==
  /\ request[r].pc = "waiting"
  /\ Finish(r)
  /\ UNCHANGED <<backends, phase, up, checker, counter, picked>>

\* http.Client.Timeout: it bounds the whole exchange, the reading of the body
\* included; a stream it cuts has already been answered with the status.
ClientTimeout(r) ==
  /\ request[r].pc \in {"waiting", "streaming"}
  /\ Finish(r)
  /\ UNCHANGED <<backends, phase, up, checker, counter, picked>>

Next ==
  \/ Start \/ Probe \/ StoreResult \/ Tick
  \/ BeginShutdown \/ Drained \/ ShutdownDeadline
  \/ \E b \in Configured : BackendChanges(b)
  \/ \E r \in Requests :
       \/ Accept(r) \/ UpstreamAnswers(r) \/ ReadChunk(r) \/ WriteChunk(r)
       \/ StreamEnds(r) \/ WriteFails(r) \/ ClientTimeout(r) \/ ClientLeaves(r)

\* The goroutines are scheduled, the ticker ticks, and the timeouts expire.
\* Nothing is assumed of the backends, the clients or the operator.
Fairness ==
  /\ WF_vars(Start) /\ WF_vars(Probe) /\ WF_vars(StoreResult) /\ WF_vars(Tick)
  /\ WF_vars(Drained)
  /\ \A r \in Requests : WF_vars(ClientTimeout(r)) /\ WF_vars(WriteFails(r))

Spec == Init /\ [][Next]_vars /\ Fairness

----------------------------------------------------------------------------
\* Properties.

\* Every variable keeps its type.
TypeOK ==
  /\ backends \in Configurations
  /\ phase \in {"starting", "serving", "draining", "stopped", "failed"}
  /\ up \in [Backends -> BOOLEAN]
  /\ healthy \in [Backends -> BOOLEAN]
  /\ probing \in 0 .. n
  /\ answer \in {"none", "ok", "bad"}
  /\ steady \in [Backends -> 0 .. 2]
  /\ counter \in 0 .. MaxAccepted
  /\ picked \in [1 .. n -> Nat]
  /\ request \in [Requests -> {Idle} \cup Waiting \cup Streaming]

\* However requests overlap, fail or are abandoned, two positions of the
\* backend list never differ by more than one in the requests given to them.
Balanced == \A i, j \in 1 .. n : picked[i] <= picked[j] + 1

\* Probes run one after the other and a backend may change between a probe
\* and the store of its result; still, what is stored is wrong for a backend
\* for at most the round it changed in and the next one, whatever the other
\* backends do.
HealthLagsOneRound == \A b \in Configured : steady[b] = 2 => (healthy[b] <=> up[b])

\* While the gateway serves: a backend that stays up is enough for /ready to
\* say so for good, and when all stay down /ready stops saying so for good.
ReadinessConverges ==
  /\ \A b \in Backends :
       <>[](b \in Configured /\ up[b] /\ phase = "serving") => <>[]Ready
  /\ <>[](phase = "serving" /\ \A b \in Backends : ~up[b]) => <>[]~Ready

\* Every accepted request ends, also when its backend goes silent in the
\* middle of a stream and its client keeps waiting, or the client takes none
\* of what it is sent.
EveryRequestEnds == \A r \in Requests : request[r] # Idle ~> request[r] = Idle

\* The comment above the client: the timeout covers the header wait, and
\* streaming bodies are bounded by the request context.  A stream then ends
\* only when the body does, the backend fails, the client leaves or the
\* process exits.
StreamsBoundedByContext ==
  [][\A r \in Requests :
       request[r].pc = "streaming" /\ request'[r] = Idle =>
         \/ request[r].left = 0
         \/ ~up[request[r].backend]
         \/ request[r].gone
         \/ phase' = "failed"]_vars
=============================================================================
