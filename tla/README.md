# OpenDataGov: TLA+ models, model checking and proofs

OpenDataGov is a data governance platform: FastAPI services in Python, a Go
gateway, PostgreSQL, MinIO, Kafka and NATS. This directory holds TLA+ models of
its control logic, the TLC configurations that check them on small instances,
and TLAPS proofs that carry some of the properties to every instance. All paths
below are relative to the repository; `GE` is
`src/services/governance-engine/src/governance_engine`, `CORE` is
`src/libs/python/odg-core/src/odg_core`, `LH` is
`src/services/lakehouse-agent/src/lakehouse_agent` and `GW` is
`src/services/gateway`.

Run a configuration with `tlc -config requests.cfg MCGovernanceEngine`, check the
proofs of a module with `tlapm LakehouseProofs.tla`.

## 1. Inventory

| Component | State it keeps | Operations | Interacts with | What is hard |
|---|---|---|---|---|
| Governance engine, sessions (`GE/api/deps.py`, `GE/repository/postgres.py`) | PostgreSQL tables; one transaction per request | open, commit at handler return, roll back on an exception | every service of the engine shares the session of its request | READ COMMITTED interleavings, row locks, failures between statements |
| Decisions (`GE/domain/decision_service.py`) | `governance_decisions` | create, submit, finalize | called by approvals and vetoes inside their transaction; records audit events | status checked in one statement, written in another |
| Approvals (`GE/domain/approval_service.py`) | `approval_records` | cast_vote | RACI roles, decisions, audit | duplicate votes, two last approvals at once, roles changing during a vote |
| Vetoes (`GE/domain/veto_service.py`) | `veto_records` | exercise, override | RACI roles, decisions, audit | a veto that loses the race in finalize, two overrides, expiry nobody enforces |
| RACI roles (`GE/domain/role_service.py`) | `raci_assignments` under a unique index | assign, revoke | approvals and vetoes read them | unique-index waits, revocation during a decision |
| Audit trail (`GE/domain/audit_service.py`, `CORE/audit.py`) | `audit_events`, append-only, hash chained | record_event, verify_integrity | every operation above | read-then-insert of the last hash, order by wall clock, limit of 1000 |
| Kafka audit trail (`GE/events/kafka_*.py`) | consumer's last hash in memory, offset committed to the broker | publish, connect, consume, disconnect | persists a second hash chain through a callback | restart, redelivery, disconnection during a message, an exception that ends the loop |
| NATS events (`GE/events/publisher.py`) | a client | connect, publish | nothing publishes through it | none |
| Lakehouse agent (`LH/minio_client.py`, `LH/promotion.py`) | buckets and object versions in MinIO | ensure_buckets, promote | several agents share the store; scores are the callers' own; governance decisions are named but never created | copy in two calls, bucket creation in three, stops between them, layer order |
| Gateway (`GW/main.go`, `GW/internal`) | round-robin counter, health map | start, proxy, health check, readiness, shutdown | vLLM backends, HTTP clients, signals | goroutines, health answers of different moments, three time-outs of different length |
| Quality (`CORE/quality`, `src/services/quality-gate`) | reports in memory | validate, score, check an SLA | the promotion thresholds of the lakehouse | rounded means at a threshold, unmeasured dimensions, two tables of thresholds |
| Data contracts (`CORE/contracts`) | none (pure) | detect breaking changes, evaluate a change, validate data | the approval workflow, by the name of an action | completeness of the rules over chains of changes |
| Compliance (`CORE/compliance`) | none (pure) | seven checkers, registry, risk classes, DAMA coverage report | a context of facts | rules with two conditions, totals that vary, pass marks |
| Privacy (`CORE/privacy`, the OPA policies in `src/deploy`) | none (pure) | jurisdictions, transfers, masking, noise, classification | a Rego policy that repeats part of it | the same rule in two languages, slices at length zero |
| Authentication (`CORE/auth`) | lazily created clients | verify token, check access | Keycloak, OPA | deny on error |
| Vault client (`CORE/vault`) | cached client | ensure client, read, encrypt | Vault | client cached before it is authenticated |
| Data expert, metadata, lineage, observability, telemetry | mostly none | canned answers, look-ups, client wrappers | external services | little control |
| Deployment (`src/deploy`, `src/config`) | none | — | — | no program logic |

What makes each part correct: a decision goes through its documented life cycle
and nothing is approved without its required approvals; a reject, and a veto that is
active, stand; a role table without two roles per user and domain; a trail that tells
exactly what was committed and verifies; buckets that keep every version and a
promotion that only copies upwards what has earned it; a load that is even,
readiness that follows the backends and requests that end; rules that agree
with each other where two modules state the same thing.

`PROJECT.json` lists every component with its status, and every hazard at its
line with the properties that cover it.

## 2. What is modelled

### Modules

| Module | Models | Kind |
|---|---|---|
| `GovernanceTypes` | the enumerations, role sets, role hierarchy, event of each status | constants |
| `AuditChain` | `get_last_hash`, `get_chain`, `verify_chain`, `verify_integrity` | operators on a set of rows |
| `RequestTransaction` | `get_session`, the transaction, its locks, commit, rollback, failure, and `record_event` as a subroutine | state and shared actions |
| `DecisionService`, `ApprovalService`, `VetoService`, `RoleService` | the four services, one action per SQL statement | actions |
| `DecisionLifecycle` | the life cycle `DecisionService` documents | abstract specification |
| `GovernanceEngine` | the composition, its specification and its properties | specification |
| `MCGovernanceEngine` | small instances | model checking |
| `GovernanceEngineTyping`, `-Audit`, `-Authority`, `-Serial` | the theorems, each module on top of the one before | proofs |
| `KafkaAudit` | `KafkaAuditProducer`, `KafkaAuditConsumer`, the topic and the persisted rows | specification |
| `MCKafkaAudit` | a small instance | model checking |
| `KafkaAuditProofs` | its theorems | proofs |
| `Medallion` | layer order, thresholds and strategies of promotion | constants |
| `Lakehouse` | `MinIOClient.ensure_buckets`, the promotion service and its strategies, the object store | specification |
| `MCLakehouse`, `LakehouseProofs` | a small instance; its theorems | model checking, proofs |
| `Gateway` | `main`, the proxy handler, the health checker | specification |
| `MCGateway`, `GatewayProofs` | a small instance; its theorems | model checking, proofs |
| `Compliance`, `Privacy`, `Contracts`, `QualityScoring` | the rule libraries of `CORE`, each with the steps of whoever uses it; `QualityScoring` also the quality gate and, through `Medallion`, the promotion thresholds | rules and actions |
| `Policies` | the four beside each other | specification |
| `MCPolicies`, `PoliciesProofs` | a small instance; its theorems | model checking, proofs |

### The governance engine: state

The five tables are variables of committed rows: `decision` (the status of each
id, `"absent"` before its row exists), `votes`, `vetoes`, `raci`, `audit`.
`Workers` are requests that can be open at the same time. For each of them
`pc` names the SQL statement it executes next, `req` is the request it serves,
`read` is what its handler has read and still uses, and `staged` is what its
transaction has written and not committed. A reader sees committed rows and its
own staged ones. `clock` is the wall clock of `occurred_at`; `nextId` stands for
`uuid4` (one row id per request is enough: no handler creates two identified
rows); `begun` counts requests against the bound `Limits`.

### The governance engine: one step

A step is one SQL statement of one request, together with the Python code that
runs before the next one: between two statements there is an `await`, and other
requests run. `get_session` (`GE/api/deps.py:25-28`) opens the transaction,
commits it when the handler returns and rolls it back when anything raises, so
a `ValueError` of a service, which the route turns into a 4xx, undoes the
request (`Rollback`). `Fail` does the same at any statement: the client
disconnects, the database errs, the process dies.

* **Reads.** The repositories return pydantic copies and drop the ORM rows, so
  `session.get` finds no live row in the session's weak identity map and runs a
  SELECT each time, at READ COMMITTED. That is why `update` re-reads the row
  (`ReselectDecision`, `ReselectVeto`, `ReselectAssignment`) and why what it
  re-reads may differ from what the service checked.
* **Writes.** An UPDATE sets the columns the unit of work saw change, WHERE id
  alone. A status that already is the target is not written; the row is
  still locked, because `updated_at` changes. Row locks are held to the end of
  the transaction (`DecisionFree`, `VetoFree`); an INSERT into `raci_assignments`
  waits for a transaction that inserts or deletes the same entry of the unique
  index and fails if it is there afterwards (`EntryFree`). The foreign key locks
  of votes and vetoes are compatible with an update of the status and are left
  out.
* **Audit events.** `record_event` is two statements (`ReadLastHash`,
  `InsertEvent`), with the handler's continuation in `read.then`. `occurred_at`
  is taken when the event is built, in the step that inserts it. SHA-256 is
  taken as injective; `occurred_at` is unique and part of the payload, so it
  stands for the hash, and 0 for the genesis hash. A veto records
  `VETO_EXERCISED` twice, in `finalize` and in `exercise_veto`, as the code does.
* **Finalize** is a subroutine of the vote and the veto, in their transaction.
* **Time.** Nothing in the engine reads `expires_at`, so a veto has no time-out
  here, and `ESCALATED` has no caller.

Data that no property tells apart is left out: titles, comments, reasons,
timestamps other than `occurred_at`, and who created, submitted, assigned or
revoked (`"client"`). GET routes change nothing and are not actions.

The role assignments the engine starts from (`Seed`) are in the state that as
many `assign_role` requests leave, with their events.

### The Kafka audit trail

`KafkaAudit` is separate from the engine above: it models a second chain, fed by
a topic. `log` is the topic, `committed` the group's offset, and `consumer`,
`running`, `lastHash` are the fields of the consumer object; `position` is what
aiokafka counts as consumed, which includes the message it returned last.
`loop` is where `consume()` awaits: nowhere, for a message (`"waiting"`), or in
`persist_fn` before and after its INSERT (`"persisting"`, `"persisted"`). `rows`
is what `persist_fn` inserted, in order.

A step is what runs between two awaits of the loop, or a step of what goes on
besides it: the timer of `enable_auto_commit`, `disconnect()` up to the await of
`stop()` and the end of `stop()`, a publication, a crash. SHA-256 over
`"previous:event"` is taken as injective, so a hash is the sequence of events it
was computed from and appending an event is `compute_hash_chain`. `mishaps`
counts crashes, exceptions and disconnections; it only appears in bounds and
properties. The broker, aiokafka and `persist_fn` are external: no code of the
repository calls the two classes outside the tests. One partition, one consumer
of the group; the caller runs one loop at a time, as `consume()` is written for.

### The lakehouse

`versioning` says of each layer's bucket that it is absent, or that its
versioning is off or on; `stored` holds the versions of one dataset per layer.
Datasets and domains do not interact, so one of each is enough. A copy is
recorded with the content it has (the number of the version that arrived in
bronze), and with where it came from and the score claimed for it, which is what
the properties need to know of it.

`ensure_buckets` is a loop over the layers with up to three calls of the store
in each (`bucket_exists`, `make_bucket`, `set_bucket_versioning`); each is an
action, and another agent may act in between. MinIO refuses to make a bucket
that exists, which ends the loser's call (`MakeBucket`). `promote` decides on
the transition, the score and the strategy before its first await
(`BeginPromote`); the automatic strategy then reads and writes the object in two
calls, and the governance strategy only names a decision. `StoreError` is any
exception, refusal or stop of the agent during any await. The object store is
external: `PutObject` keeps old versions exactly when versioning is on.

### The gateway

`Gateway` is one process with three kinds of goroutine: `main` (`phase`), the
checker (`probing`, `answer`, `healthy`) and one handler per request
(`request`). The first pass of the checker is run by `main` before it listens.
Probing a backend and storing the answer are two steps, since the store happens
under its own lock after the answer came, up to the probe's time-out later.
`selectBackend` is one step: the counter is atomic. The server's graceful
shutdown waits for handlers (`Drained`) or gives up at its deadline
(`ShutdownDeadline`). A handler that relays a body alternates between reading a
chunk (`ReadChunk`) and writing it (`WriteChunk`). `http.Client.Timeout` ends one
that waits for the headers or for a chunk, also in the middle of a body
(`ClientTimeout`); one that is blocked in a write because its client takes
nothing is ended by the client's departure or the server's `WriteTimeout`
(`WriteFails`). Backends go up and down and clients leave at any time. `steady` and `picked` are history variables: what has
happened to a backend since the round began, and how often each position was
chosen. The 64-bit counter does not wrap within any bound of interest.

### The rule libraries

Each library is pure in the code; the module gives it the state of its user.
`Compliance`: an organisation that gathers evidence for one framework, adds
capabilities to its AI system or starts to transfer data. `Privacy`: a dataset
that the Rego policy lets move, and values that are masked. `Contracts`: a
contract that is loaded from its file, which may fail, and whose changes then
take effect at once or after an approval, according to
`evaluate_contract_change`. `QualityScoring`: one validation, with the standard
runner or with the results of a real one. The code computes scores with doubles:
the quotient of one dimension and a literal threshold are each correctly rounded,
which keeps their order, but the mean is a rounded sum divided again, so that
`OverallScore` is a set, the exact mean give or take `Rounding`. The libraries share no
variable, so a behaviour of `Policies` exercises one (`subject`) and the state
spaces add up instead of multiplying.

## 3. What the runs check

All instances of the engine have two users, one RESPONSIBLE (`ra`) and one ACCOUNTABLE (`ac`)
in one domain, both required for an approval, and one decision: the services
never relate two decisions or two domains, except through the audit chain, which
two requests for one decision already share.

| Run | Requests | Checks | Shows |
|---|---|---|---|
| `requests` | two at a time, one of three mixes: create, submit, two votes, a veto; or create, submit, veto, two overrides, a revocation; or two assignments, two revocations | `TypeOK`, `StatusAudited`, `DecisiveRowsAudited`, `EventsBacked`, `ApprovedUnanimously`, `OverriddenByAuthority`, `RolesMatchTrail` | atomicity of rows and events under every interleaving and failure; no approval without its voters; overrides racing for a veto while a role is revoked; the unique index, and the trail of revocations that found nothing |
| `progress` | two at a time: one of each but roles, with fairness | `EveryRequestEnds` | no cycle of lock waits, no request left behind |
| `serial` | one at a time: create, two submits, two votes, veto, override, revocation | `LifecycleSpec`, `ChainVerifies`, `OneVotePerUser`, `DecisiveRowsStand`, `NoApprovedDecisionWaits`, `ApprovalIsCurrent` | what the services promise, and keep as long as requests do not overlap. `DecisiveRowsStand`: a REJECT and an active veto decide; of an overridden veto it claims nothing (section 5) |
| `lifecycle_race` | the first mix of `requests` | `LifecycleSpec` | **violated**: a final status is overwritten |
| `chain_race` | two at a time: create, submit, two votes | `ChainVerifies` | **violated**: the chain forks |
| `approval_race` | as `chain_race` | `NoApprovedDecisionWaits` | **violated**: all have approved, nobody finalized |
| `kafka` | two events, each lost, once or twice in the topic; one crash, one exception, one disconnection | `TypeOK`, `LossBounded`, `BreaksBounded`, `RedeliveryBounded`, `LoopPersists` | what one mishap can cost the trail, at any point of the loop, and that a loop drains the topic |
| `kafka_chain` | the same with one crash | `ChainVerifiable` | **violated**: the chain starts again at genesis |
| `lakehouse` | two calls at a time, three `ensure_buckets` and three promotions in all, two versions of the dataset, scores 69, 70 and 90 | `TypeOK`, `ReadyBucketsAreVersioned`, `EveryCopyEarned`, `NothingLost`, `NoStalePromotion` | what agents that race for the buckets, and promotions that race with producers and each other, keep whatever fails |
| `gateway` | three requests, two at a time; no backend, two, one listed twice, or one that does not parse | `TypeOK`, `Balanced`, `HealthLagsOneRound`, `ReadinessConverges`, `EveryRequestEnds` | even load, bounded staleness of the health map, convergence of `/ready`, and requests that end in spite of silent backends |
| `gateway_stream` | the same | `StreamsBoundedByContext` | **violated**: the 30 seconds of the client also bound the body, so a long completion is cut, contrary to the comment above the client (`GW/internal/proxy/handler.go:98`) |
| `policies` | one library per behaviour | `ControlsSuffice`, `EvidenceNeverHurts`, `RestrictedDataStays`, `MaskHides`, `ConsumersKeepWorking`, `SLAMeetsPromotion` | the rules of one module against those of another, over every sequence of their uses; `SLAMeetsPromotion` speaks of scores with something to spare, since rounding may refuse one exactly at the threshold |

`DecisionLifecycle` is the abstract specification of the engine; `LifecycleSpec` is its
instance under the refinement mapping `status <- decision`. The serial engine
implements it and the concurrent engine does not, which is the finding of
`lifecycle_race`: the engine relies on a mutual exclusion between requests that
neither its isolation level nor a lock gives it.

### Bounds, and why they are enough

`Limits` is a set of mixes, and the requests of a behaviour stay within one of
them; it is the engine's only bound, and `Drained` is the end of such a behaviour
(deadlock is checked in every run of the engine).
Two workers, because every race of the code is between a reader and one writer,
or two writers, of one row. Two votes are the least at which approval takes
more than one request and at which a duplicate, or a write skew, can happen; a
veto beside them gives three requests that finalize. Two overrides and two
revocations race for one row. Every outcome the services distinguish occurs
within these limits: approved, rejected, vetoed, overridden, assigned, revoked,
refused, failed. `ChainLimit` is the code's default of 1000, which no behaviour
of these instances reaches.

Workers are interchangeable and `Symmetric` is used for invariants; not for the
runs that check a temporal formula.

For `kafka`, `MaxEvents` and `MaxMishaps` bound the publications and each mishap.
Up to four offsets, and one mishap of each kind, reach every order of commit,
insertion, assignment of `_last_hash` and mishap, and two mishaps in one message;
the theorems of section 4 remove both bounds. Deadlock is not checked there: a
loop that waits for a message that nobody publishes is the normal end.

For `lakehouse`, two calls race for one bucket, and a third begun after one of
them has stopped repairs what it left; three promotions are what it takes for
two to overlap while a third is already in silver. The scores lie one point
below, on and above the first threshold, and above the second. `MaxIngested` of
two gives an old and a new version. Calls are symmetric, and no temporal formula
with fairness is checked, so `Symmetric` is sound. Deadlock is not checked: the
calls are used up, and a loop that was refused simply ends.

For `gateway`, three requests over two positions let the round robin wrap around
while two overlap, and `MaxChunks` of one tells a stream that has ended from one
that has not. A list with one URL twice has two positions and one health entry.
The number of backend failures and of rounds is not bounded. Deadlock is not
checked: a stopped gateway with nothing left to change is the normal end.

For `policies`, the evidence of each framework is complete, a capability of each
risk class is enough since only the class counts, and two columns of two types
with and without null contain every kind of change and every pair of them. The
results of a dimension are none, 6 or 7 of 10, 17 or 19 of 20: below, on and
above each threshold a promotion asks for. `Unit` (20) is a multiple of all the
totals, and `Rounding` (1) lets a mean fall on either side of a threshold it
equals. Values up to four
characters cover every order of the length and the two settings. Deadlock is not
checked: a complete set of evidence is the normal end.

### Fairness

`FairSpec` gives weak fairness to the steps of each open request: the event loop
resumes a coroutine whose statement was answered, and PostgreSQL grants a row
lock when its holder ends. Nothing makes a client send a request and nothing
makes a request fail, so `Arrive` and `Fail` have no fairness.

In `KafkaAudit` the steps of a running loop are fair together: each await is
answered (there is a message, or `persist_fn` ends) and the event loop resumes
the coroutine. Nothing connects or starts a loop again by itself, and
`LoopPersists` therefore speaks of a loop that runs.

In `Gateway`, goroutines are scheduled (`Start`, `StoreResult`, `Drained`), the
ticker ticks (`Tick`), the probe returns within its own time-out (`Probe`), and the
time-outs of the HTTP client (`ClientTimeout`) and of the server's writes
(`WriteFails`) expire. Nothing is assumed of backends,
clients or the operator: a backend may stay silent for ever, and
`EveryRequestEnds` rests on the two time-outs alone.

The lakehouse and the rule libraries are checked for safety only: nothing in the
code retries or resumes a call.

## 4. What is proved

Every safety property that a passing run checks is also a theorem, for every
value of the constants. The assumptions are those the modules name:
`DomainsAssumption`, `NoneAssumption`, `SeedAssumption` and `LimitsAssumption` for
the engine, `KafkaAssumption`, `ScoresAssumption`, `ConfigurationsAssumption` and
the bounds for the next three, `UnitAssumption`, `ResultsAssumption` and
`LengthAssumption` for the rule libraries. `UnitAssumption` says that the
thresholds can be written in units and that the error of a mean is smaller than
the least difference of two exact means. With doubles that is so as long as a
common multiple of the totals stays below some 10^13. TLC evaluates them on every run. Some
theorems about the engine suppose a single worker, and state it (`Workers = {w}`): with two workers those properties may fail, as the
three race runs show for `LifecycleSpec`, `ChainVerifies` and
`NoApprovedDecisionWaits`.

### The engine, with any number of workers

The proofs about the engine share one shape. Each statement that stages a row or
records an event has a lemma `<Statement>Does` in `GovernanceEngineTyping`, which
says which worker moves where, what its handler then knows and what it stages;
the later modules cite those instead of the statements. Each invariant below is a
predicate of one worker's program counter, request, locals and staged rows.
Statements, the end of a handler, rollback and commit are one lemma each
(`Statement…`, `End…`, `Rollback…`, `Commit…`), and the step of the other workers
is the question what a commit does to the facts they rely on.

* **`TypeCorrect`** (`GovernanceEngineTyping`): `TypeOK` alone is not inductive:
  whether a staged vote has a role, or an event has a type, depends on the
  statements before it. `TypeInv` adds, for each worker, the *shape* of its
  locals at each program counter (`Shape`).
* **`StatusIsAudited`**, **`DecisiveRowsAreAudited`** (`GovernanceEngineAudit`).
  A transaction which has staged a status, a REJECT or a veto either has staged
  the event it owes or is at a program counter from which it cannot reach its
  commit without recording it (`Debts`). Commit pays every debt.
* **`TrailIsBacked`** (`GovernanceEngineAudit`) is the converse: an event that is
  staged, or about to be, names a row the same transaction has staged (`Backs`).
  It needs `IdInv`: the id of a request is new, names nothing committed, and is
  not that of another open request, so that an override updates the one veto its
  request refers to. An override is never undone, so what was recorded of it
  stays true.
* **`ApprovalIsUnanimous`** (`GovernanceEngineAuthority`). The required voters
  the handler read contain every user who has held a required role since the
  start, and the approvals it compared them with are committed or its own. Two
  monotonicities carry this from `list_required` to the commit (`Consents`):
  votes are never deleted, and a seeded assignment that was revoked never comes
  back, since a new assignment is a new row (`SeedRowsGo`).
* **`RolesAreOnRecord`** (`GovernanceEngineAuthority`). The unique index is what
  makes it true: two sessions never stage the same entry (`EntriesApart`), and the
  entry a session has staged is free in the table until it commits (`Roles`). A
  revocation whose row is gone by the time it deletes it still records its event,
  and the invariant allows for that.
* **`AuthorityOverrides`** (`GovernanceEngineAuthority`). The overrider's role is
  read in one statement and the veto updated in a later one, with the role
  revoked in between perhaps. `Commands` says what survives: the veto is that of a
  RESPONSIBLE user, and a seeded role the overrider still has is ACCOUNTABLE. It
  rests on `RolesAreOnRecord`, which makes the role that was looked at the only one.

### The engine, with one worker

`GovernanceEngineSerial` has one invariant for the life cycle and the votes,
`SerialInv`: what the only session has read is still so at its commit (`Checked`),
its vote is the first of a user who has a role in the domain (`Counted`), and what
its vote or veto decides it is on the way to set (`Decides`). This is exactly what
a second worker breaks. From it follow

* **`LifecycleImplemented`**: `Spec => LifecycleSpec`; every commit is a step of
  `DecisionLifecycle` or leaves `decision` alone (`CommitMoves`), and nothing else
  writes the tables (`CommitsWrite`);
* **`UsersVoteOnce`**, **`DecisionsStand`** and **`ApprovalIsPrompt`**. The invariant
  behind `DecisionsStand` is stronger (`DecisiveRowsDecide`): with one worker a
  decision stays VETOED after its veto was overridden, too;
* **`ApprovalStaysCurrent`**, an action property: the step that shows a decision
  as APPROVED finds everyone's approval who is required then.

**`ChainIsVerifiable`** has an invariant of its own, `Linked`: the committed
events, and those the worker sees, are each a chain whose times the clock has
passed, and the last hash read is still the last when the event is inserted.
`ChainExtends` appends to a chain; `ChainPrefix` carries verification from all
rows to the first `limit` rows that `verify_integrity` reads.

### Kafka, lakehouse and gateway

* **`KafkaTypeCorrect`**, **`LossIsBounded`**, **`BreaksAreBounded`**,
  **`RedeliveryIsBounded`** (`KafkaAuditProofs`), for every number of events and
  mishaps. Each bound is proved with what is still owed added to the count: a
  waiting loop that is being stopped may drop one more message (`Dropping`); an
  object whose last hash is not that of the last row will break the chain at the
  next insertion (`Detached`); an event in hand or still ahead of where reading
  resumes will get another row (`Held`, `Ahead`). A mishap raises the bound by
  one and the debt by at most one.
* **`LakehouseTypeCorrect`**, **`BucketsAreVersioned`**, **`NothingIsLost`**,
  **`CopiesAreEarned`**, **`PromotionsAreFresh`** (`LakehouseProofs`), for every
  number of calls, scores and versions. Versioning that is on stays on
  (`VersioningStaysOn`), and `LoopBehind` says that an `ensure_buckets` has it on
  in every layer it has passed: whoever returns leaves all four ready, and from
  then on an upload appends. `PromotionInv` says that a call which is about to
  copy goes from bronze to silver on a sufficient score, that bronze shows the
  newest version of all, and that what the call has read is at least what its
  target showed when it began.
* **`GatewayTypeCorrect`**, **`HealthLags`**, **`RoundRobinIsEven`**
  (`GatewayProofs`), for every list of backends and every number of requests.
  `HealthInv` says that for a backend that has not changed since the round began
  an answer still to be stored is right, and so is the health map from the first
  of the backend's positions on. `TurnsAreEven` says that the positions before
  `counter % n` have been picked once more than the others; the arithmetic of the
  wrap-around is in `NextPosition`.

### The rule libraries

`PoliciesProofs`, for any columns, types and capabilities, any length of a masked
value and any results of a validation within the precision assumed above:

* **`ConsumersAreSafe`**. A change that needs no approval keeps every column and
  its type (`QuietChangeIsCompatible`), and that relation is transitive, which is
  why a chain of such changes is as safe as one of them.
* **`MasksHide`**: the case analysis of `_partial_mask` over all lengths
  (`MaskIsPartial`).
* **`RestrictedDataIsKept`**: no transfer is allowed out of a jurisdiction that
  `CORE/privacy/jurisdiction.py` restricts, and each framework that applies where
  the data is has a checker (`FrameworksHaveCheckers`).
* **`SLASuffices`**: the thresholds of the SLA are not below those of the
  promotion (`ThresholdsAgree`), an exact mean that is above the threshold is
  above it by a whole step (`SixReachMore`), those dimensions that were never
  measured included, and an error smaller than a step cannot take a mean across a
  threshold it does not equal (`RoundingKeepsSides`).
* **`EvidenceHelps`**: more evidence leaves fewer findings, and `FewerFindings`
  gives the rest for a fixed total of rules; the lemma `CheckersImprove` goes
  through the seven checkers, for which neither the total nor the pass mark
  depends on what was gathered.
* **`ControlsAreEnough`**: what `get_required_controls` names leaves the EU AI Act
  checker without a finding, whatever capabilities are added.

### Only model-checked

Liveness: `EveryRequestEnds` of the engine and of the gateway, `LoopPersists` and
`ReadinessConverges`. Fairness is stated with ENABLED, which is out of the
prover's reach. The five properties of the `violation` runs are false and have no
theorem as they stand; three of them, `LifecycleSpec`, `ChainVerifies` and
`NoApprovedDecisionWaits`, hold for one worker, and that is proved.

## 5. Where documents and code part

The five findings of `PROJECT.json` are traces of TLC against a sentence of the
repository. Reading the code side by side with its documents showed more, which
the models carry as the code has it:

* **An overridden or expired veto.** ADR-014 (`docs/ARCHITECTURE_DECISIONS.md:403-404`,
  `:413`) lets a veto expire and be overridden, so that a veto does not block for
  ever, and `GE/domain/veto_service.py:32-33` repeats both. The code marks the veto
  OVERRIDDEN and leaves the decision VETOED, from which no operation leads on;
  `is_expired` has no caller. Neither text says which status the decision should
  get, so no property demands one: `DecisiveRowsStand` speaks of active vetoes
  only.
* **A missed SLA.** The diagram at `docs/ARCHITECTURE.md:399-401` lets a failed SLA
  check block the promotion. The promotion never sees an SLA: it compares the mean
  score alone, and a dataset with one failing dimension can pass.
* **Scores exactly on a threshold.** A dataset with 7 of 10 in all six dimensions
  meets an SLA of 0.70, and its mean is 4.199999999999999 / 6 =
  0.6999999999999998 with the sum of Python 3.12 and later, below the 0.7 of
  the promotion; 19 of 20 and gold behave alike. `SLAMeetsPromotion` therefore
  excludes this case, and `SLASuffices` shows that it is the only one.
* **Names of DAMA areas.** `CORE/compliance/dama_coverage.py` reports display names
  ("Data Governance") where the checker of `CORE/compliance` expects keys
  ("data_governance"), and no code turns one into the other. A context filled
  from the report leaves all eleven areas as findings.

## 6. Not modelled

* Veto expiry and escalation: no code acts on them (section 5).
* The DAMA coverage report: a table of display names and statuses that no other
  code reads.
* Parsing and validation of a contract file: `load_contract` yields a schema or
  fails.
* Isolation levels other than PostgreSQL's default, which the engine uses, and
  the connection pool's limit.
* Payload content of audit events; collisions of SHA-256; two events with the
  same microsecond.
* Retries inside the client libraries (aiokafka, minio, net/http), TLS, and the
  sizes of bodies and objects.
* The quality gate's reports: a dictionary in memory, looked up by a fresh id.
* In privacy: the controls per classification and the table of epsilons
  (constants), Laplace noise (floating point), hashes and PII patterns (strings).
* Primary keys and PII flags of a contract: the code compares neither.
* The review intervals of `CORE/quality/reviewer.py` and the observability
  checks: comparisons of dates and of floating-point statistics.
* Authentication: `KeycloakVerifier.verify_token` is a placeholder that answers
  `None` for every token, so there is no protocol yet.
* The Vault client keeps nothing but a cached client of an external server;
  `_ensure_client` caches it before it asks `is_authenticated`, so that only the
  first call reports a failed authentication and later ones are refused by Vault.
* The data expert (canned answers and regular expressions over column names),
  metadata adapters and lineage (conversions and clients of external services),
  the NATS publisher (nothing publishes through it), telemetry, settings and
  deployment files, except the residency policy.

## 7. Plan

1. Proofs: a specification of the audit trail alone (rows only added, in the
   order of the clock, each backed by a committed row) that the engine with any
   number of workers implements, from `EventsBacked` and `RolesMatchTrail`; which
   part of the chain survives concurrent requests.
2. Proofs: the exact sense in which the lock of `update_decision` serializes two
   finalizations, as an action property for any number of workers.
3. `AuditChain`: tamper detection over bounded chains, with the limit of
   `verify_integrity` as a parameter.
4. The authentication protocol, once the code has one, and the expiry of vetoes,
   once the engine acts on it.
