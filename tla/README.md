# Cyrvanta: TLA+ models and proofs

This directory models the backend of Cyrvanta, a multi-tenant platform that
turns security findings into incidents and, when enough people agree, into
governed responses. It holds TLA+ modules, configurations for the model checker
TLC, and proofs checked by TLAPS. Paths below are relative to
`backend/src/cyrvanta/` unless they start with another directory of the
repository.

    tlc -workers 2 -config EventBus_safety.cfg MCEventBus
    tlapm EventBusProofs.tla

`PROJECT.json` maps every definition to the lines it models, and lists the runs,
the mutants that show each property can fail, the hazards, the findings and the
theorems.

## 1. The system

Three kinds of processes share a PostgreSQL database (every table is scoped to a
tenant by row-level security, `tenant_session`): the FastAPI backend, one or more
**workers** (`worker.py`) that run an outbox dispatcher and RabbitMQ consumers,
and a **scheduler** (`scheduler.py`), one loop of passes every fifteen seconds.
All three are restarted when they die (`docker-compose.yml`,
`restart: unless-stopped`). Components talk in three ways: rows, with `FOR UPDATE`
and `SKIP LOCKED`; domain events, written to an outbox in the transaction of the
change they announce; and direct calls.

### Inventory

| component | state | operations that change it | what is hard | what makes it correct |
|---|---|---|---|---|
| **Event delivery** (`shared/infrastructure/event_store.py`, `rabbitmq.py`, migration 0008, `worker.py`) | `event_outbox`, `event_inbox`, queues main/retry/dlq, batch and task locals | add, claim, publish, confirm, fail; deliver, claim inbox, run handler, mark failed, retry or dead-letter, ack | leases that lapse, crashes between two commits, copies, lost channels | no routed event lost, effect once, every event settles |
| **Decision** (`modules/decision`) | proposals, requests, decisions, authorizations, clock, kill switch | create_proposal, decide, revoke, expire_due, consumption | concurrent approvers, clocks read before a lock, a sweep that lists first and visits later | quorum of others behind every execution, one use, the tables agree, nothing waits for ever |
| **Playbook execution** (`modules/playbooks/application/service.py`, `domain/models.py`) | `playbook_executions`, attempts, updates, nonces | create_from_authorization, claim, update, cancel, rollback | callbacks lost, repeated and late; deadline against completion | one runner, final verdict |
| **n8n and hybrid dispatch** (`playbooks/infrastructure/dispatcher.py`, `hybrid_dispatcher.py`) | attempts and their outcomes | dispatch in three transactions, reconcile_timeouts, dispatch_pending | POST that times out although the run started, process dies between commits | one run acts, budget of ten attempts |
| **Native engine** (`playbooks/infrastructure/native_engine.py`, `action_registry.py`) | steps, step attempts and outcomes, advisory lock | claim or recover, walk, claim step, call connector, record, complete, reject | crash around an external effect, lock lost while the worker goes on, stale progress | external effects not repeated, SUCCEEDED is true |
| **Playbook administration** (`playbooks/application/administration_service.py`) | versions DRAFT-VALIDATED-APPROVED-RETIRED, engine and action bindings | create, validate, publish, bind, toggle, probe, verify; a **listing** seeds, retires and disarms | every operation reads without locks and writes later, only the columns its copy saw change | retired is final, a listing leaves no outdated version armed |
| **Claims ledger** (`modules/claims`) | claims, assessments, relations (append-only) | create, assess, relate, presentation, machine claims | rows dated at the start of transactions that commit in another order; relations checked before they are inserted | nobody validates his own word, lost trust is not regained |
| **Governed memory** (`modules/governed_memory`) | feedback, candidates, versions, reviews, status history, influences, metrics | feedback, candidate, version, review, activate, disable, expire_due, suggest, list_active | authors differ between versions of one memory; the sweep lists first and visits later | four eyes on the version, judgements stand, due versions expire |
| **Incident** (`modules/incident`) | incident, owner, resolver, collaborators, file, `version` | transition, update, assign, link, note, collaborators, apply_match | `expected_version` is compared without a lock; API, playbooks and correlation write one row | what is resolved can be reviewed, the resolver does not close |
| **Correlation, entity risk** (`modules/correlation`) | rules, runs, incidents opened | handle_normalized_finding, reserve_match, apply_match, rule lifecycle, sweep | two handlers in one window; an analyst who closes the incident meanwhile; redelivery | no pattern is missed, no match joins a closed case |
| **Identity** (`modules/identity`) | users, roles, session generation, refresh tokens and their index in Redis | login, refresh, logout, deactivate, change password, roles | a revocation is four calls to Redis and then a commit; one token presented twice | one live token per login, a revoked login gets no other |
| **Directory** (`modules/directory`) | connection, mappings, linked users | login, put, enable, link | mapping changed during login | roles follow the mapping |
| **Integrations, Wazuh ingestion** (`modules/integrations`) | connections, cursor, finding revisions | synchronize, persist, store cursor, configure, probe | a page that fails half way; documents that change or appear late | every finding after the cursor is taken |
| **Threat knowledge, risk** (`modules/threat_knowledge`, `modules/risk`) | active release of the catalogue, mappings, assessments, explanations | enrich, record_ai_redaction, assess_risk, import_attack | a language model that answers between two transactions; rows shared between matches; a release switched between two recalculations | explanations tell of their own assessment, a score counts its mappings in a release |
| **Operations, topology, reporting; web frontend; infrastructure** | none of their own | read and render | | |

Two flows tie them together. *Detection*: a finding becomes visible in the Wazuh
indexer (Ingestion), its event reaches a handler (Event delivery), the handler
opens or extends an incident (Correlation), which is scored and explained
(Enrichment) beside what is remembered of earlier ones (Governed memory).
*Response*: people write and judge claims about it (Claims, Incident), a proposal
is approved (Decision), consumed into an execution (Event delivery), run by n8n or
the native engine (Playbooks) from a released version (Playbook administration),
and taken back if it was wrong (rollback, in Containment). Identity is who they
all are.

## 2. Modules

| module | what it is |
|---|---|
| `EventDelivery` | abstract: recorded, applied at most once, parked, settled in the end |
| `EventBus` | outbox, dispatchers, broker, consumers, inbox |
| `MCEventBus`, `EventBusProofs` | instances for TLC; proofs |
| `ApprovalGate` | abstract: quorum of others, one use, a grant that ends |
| `Decision` | policy, approval, authorization, consumption, sweep |
| `MCDecision`, `DecisionProofs` | instances for TLC; proofs |
| `ExecutionLifecycle` | abstract: one runner, none after the verdict, success only of what ran, a verdict that is final and comes |
| `PlaybookExecution` | the row both engines share: statuses, CHECK, deadline, reconciliation |
| `N8nDispatcher` | adds attempts, the POST, the runs of n8n and their callbacks |
| `NativeEngine` | adds the lock, the workers, the walk over the graph, connectors, cancel |
| `HybridDispatcher` | composes the two over one row; the complete runtime |
| `MCPlaybooks`, `PlaybookProofs` | the playbook TLC uses; proofs |
| `Containment`, `ContainmentProofs` | the actions that isolate and restore, and rollback; proofs |
| `PlaybookRelease` | versions and bindings of one playbook, and the listings that tidy them |
| `ClaimLedger` | claims about one incident and what they read as |
| `IncidentCase` | one incident on the desks of several people |
| `Identity`, `IdentityProofs` | sessions, their revocation, the last administrator; proofs |
| `Governance` | the five above side by side, one moving at a time |
| `MCGovernance`, `GovernanceProofs` | its instance for TLC; proofs |
| `Ingestion` | from the indexer to the finding ledger |
| `Correlation` | rules, handlers and the sweep that make findings into incidents |
| `Enrichment` | mappings, risk and explanations of one incident |
| `GovernedMemory`, `GovernedMemoryProofs` | lessons, their review, activation and expiry; proofs |
| `Detection` | the four above side by side, one moving at a time |
| `MCDetection`, `DetectionProofs` | its instance for TLC; proofs |

The three abstract modules know nothing of tables or queues. Each is instantiated
with a refinement mapping in the detailed module and is a PROPERTY of a run:
`DeliveryImplemented`, `GateImplemented`, `LifecycleImplemented`.

### EventBus

`outbox`, `lease_token` and `lapsed` are columns of an `event_outbox` row (its
status, the holder of its lease, whether `locked_until` has passed); `batch` and
`sent` the locals of `OutboxDispatcher.run_forever`; `main`, `retry` and `dlq`
count copies in RabbitMQ, by event and attempt header; `inbox` is a row of
`event_inbox`, `effects` the number of commits of the handler's transaction, and
`task` what a running `_on_message` has reached. One action is one transaction or
one exchange with the broker: `Record`, `ClaimOutbox`, `Publish`, `PublishFails`,
`ConfirmOutbox`; `Deliver`, `RejectPermanently`, `ClaimAcquired`,
`ClaimDuplicate`, `ClaimBusy`, `ClaimRaises`, `HandlerCommits`, `HandlerFails`,
`MarkFailed`, `RetryOrDeadletter`, `Ack`. Crashes, lost channels and lapsed
leases are actions too. The dispatcher's channel confirms publishes and leaves
`on_return_raises` at its default (`rabbitmq.py:182`), so a mandatory message that
the broker returns raises nothing: `Publish` of an event outside `Routed` puts no
copy anywhere and `ConfirmOutbox` follows as usual (this is aio-pika 9.6.2, the
locked version; the library itself is not part of the repository). Left out: payloads, schemas beyond "supported or not", the
delay of a retry (a copy may come back any time), the order of the outbox.

### Decision

The variables are columns of the five tables, a clock, the kill switch and the
incident's version. `call` is the transaction a session is in: what the code
reads before it has the row's lock (`now`, above all) is a field of it and may be
old. `Discover` lists due rows as `expire_due` does; `ExpireRequest` and
`ExpireAuthorization` visit them one by one, under the lock, later. `Abort` also
stands for the consumer finding the released playbook no longer what was
authorized.

### Playbooks

`status`, `adapter`, `overdue` and `row_lock` are the row of `playbook_executions`;
`row_lock` is only taken by the one transaction whose reads and writes are apart
(`RejectRead`, `RejectWrite`). An n8n attempt is committed, posted and concluded in
three actions (`Send`, `PostAnswered`, `FinishDispatch` or `FailDispatch`), and
`RunStarts` may come at any time after the first. `Claim`, `ClaimAnswered`,
`Update` and `UpdateAnswered` are the callbacks, each with an answer that may be
lost. The native engine's `worker` is what one call of `dispatch` holds in memory:
where it is, which step, and its **copy** of the progress, which the walk follows
and the rows may have left behind. `step`, `attempted`, `reported` and `matched` are
the step tables; `effect` and `effect_by` the outside world. Points worth knowing:

- A connector's call is one action, its look for a prior effect included.
- A condition's expression may be either value whenever it is evaluated.
- `Order` and `Edge` are what `_topological_steps` and the validation of
  `portable.py` leave: an order that respects the edges.
- `Cancel` refuses while an action step is active, because no descriptor is
  cancellable (`action_registry.py:151`); so the branch of `_execute_action` for
  an outcome that comes late after a cancel cannot be reached and is not modelled.
  Nor is `PLAYBOOK_STATE_CONFLICT` in `_reject_execution`: it would take a
  released artifact that changed.
- A callback that says RUNNING is left out: the modelled runs claim first, and
  from RUNNING the transition table refuses it.

### Containment

What an execution comes to is abstracted from `NativeEngine` (`stage`); kept is
everything the four actions and `rollback` read and write: `contained` (inactive
accounts, isolated hosts), `trail` (the audit events the actions look themselves up
in, with the correlation id they were written under), `reverted` (the mark in the
execution's result). An account's action commits its effect and its record at
once (`Disable`, `Enable`); a host's sends a command whose answer may be lost and
records afterwards (`Isolate`, `IsolateRecord`; `RestoreCheck`, `RestoreSend`,
`RestoreRecord`). A rollback checks in one transaction (`Rollback`), acts in
others, and marks in a last one (`Conclude`); after a failure it raises there, and
so undoes what it wrote about the failure. The correlation id of a rollback is free:
clients choose it (`X-Correlation-ID`).

### PlaybookRelease, IncidentCase, Identity

These services read rows without locks and write when they commit, and
SQLAlchemy writes only the columns that differ from the copy that was read. An
operation whose reads and writes another can come between is therefore two
actions: `Open...` keeps what was read in `request`, the `...Commit` writes what
that copy says has changed. Operations whose reads are under a lock or whose
writes do not depend on them are one. In `Identity` every Redis call is an action of
its own, except the rotation, which is one Lua script; `login` and `ended` are
history, for the properties. An operator of `IncidentCase` is always up to date when
a request starts, so that `expected_version` refuses only what it can refuse.

### ClaimLedger

Nothing is stored of a claim's state: `ReadsAs` derives it as `_response` does.
`assessed` is in the order of `created_at`, which is the start of a transaction; a
new row may therefore be inserted anywhere after the rows its author had to see.

### Ingestion, Correlation, Enrichment

What one hands to the next is an event of the bus, so each has as input what
the bus may deliver: `waiting` in `Correlation` is a set from which events are
taken in any order and to which a crash returns them. A page of the indexer
(`After`) is described by what it contains, not by how it is sorted: the documents
that come first after a stamp, in order, all there are or as many as fit. A handler's transaction is
two actions, `Reserve` (what it looks up) and `Apply` (where it takes the
incident's row lock and looks again). In `Enrichment` the language model answers
between `Explain` and `ExplainCommit`. The active release of the ATT&CK catalogue is
state, `ActivateRelease` is `import_attack --activate`, and a mapping names the
release of its technique, as `attack_object.id` does in its fingerprint; the
fingerprint of a risk names none. Whatever the active release lacks makes a request
`Fail`. Scores are integers as in the code; the
entity-risk sweep's decay is not, so which entity is due is a free choice.

### GovernedMemory

Every transition locks its version's row first and is one action. The status
history is append-only and its last row is the status: `version` holds that
row, the reviews and who drafted, judged and activated. `list_active` orders the
live versions and then drops those whose response does not match; `ListActive` orders
those that are left, which comes to the same.

### Governance and Detection

Each instantiates its components with constants of its own and is parametric as
they are, so theorems can be stated of it. The rollbacks and the memory are
extended, the others instantiated; names are changed only where two components mean
different things by one (`GovernanceAssumption` and `DetectionAssumption` collect
what each asks of its constants).

### Notation

Functions of pairs are updated at `<<a, b>>`, and versions of playbooks are written as
literal records: the SMT backend reads no other form. Guards of a CASE are disjoint:
TLA+ leaves open which of several true guards counts, TLC takes the first and the
provers none.

## 3. Runs

| run | question | result |
|---|---|---|
| `EventBus_safety` | Is an event that has a queue lost, applied twice or taken from a running lease? | no: 840 000 states |
| `EventBus_delivery` | Does the bus implement `EventDelivery`, liveness included? | yes: 137 000 states |
| `EventBus_lease` | Does a running inbox lease exclude other handlers? | **no**, finding 1 |
| `EventBus_unrouted` | Has somebody every event whose row says published? | **no**, finding 2 |
| `Decision_gate` | Quorum, agreement of the tables, no waiting for ever, `ApprovalGate` | yes: 312 000 states |
| `Decision_killswitch` | Is no authorization issued while the kill switch is on? | **no**, finding 3 |
| `Playbooks_execution` | One runner, true success, effects not repeated, attempt budget, `ExecutionLifecycle` | yes: 264 000 states |
| `Playbooks_unknown` | Does an unknown outcome reach the execution? | **no**, finding 4 |
| `Playbooks_replay` | Is an idempotent action applied once when it is replayed? | **no**, finding 5 |
| `Governance_services` | Do releases, rollbacks, claims, cases and sessions keep their promises when requests overtake one another? | yes: 369 000 states |
| `Governance_closer` | Is closing left to somebody other than the resolver? | **no**, finding 6 |
| `Detection_pipeline` | Is every finding taken, every pattern noticed, every closed case left alone by later matches, every explanation filed under what it tells of, every judgement kept? | yes: 87 000 states |

### Bounds

- *Event bus.* Two dispatchers and two consumers are what a lease needs to go
  wrong between; one retry (`MaxRetries = 1`) has a first, a last and a dead-lettered
  attempt; `MaxFaults` bounds crashes, lost channels and lapses under a live task to
  two (one in the liveness run): a fault and another during its recovery. The safety
  run has one routed and one unrouted event and is symmetric in processes; the
  liveness run has a supported and an unsupported event, one dispatcher, no symmetry.
- *Decision.* `MaxTime = 3`, a request that lives 2 and an authorization that lives 1:
  both may lapse before, at and after each step. Two approvals are asked of three
  users, one of them the requester; two sessions, so that any two calls overlap; two
  keys for one authorization; a batch of one. `MaxVersion = 1` lets the incident change once.
- *Playbooks.* Two processes, `MaxAttempts = 2` for ten, a graph of four steps with a
  condition, an action that may be repeated, one that may not, and edges of three
  kinds; two faults. Two attempts have a first, a last and a crossing of the two.

- *Governance.* `Governance` lets one of its five components move while the others
  rest in their initial state (`focus`). The modules share no variable, so a property
  of one holds of any interleaving of them when it holds of the one alone; the
  product would only multiply states. Two concurrent requests in each (`Request`),
  which is what a stale read needs; two versions of a playbook and one change of the
  catalogue; an account and a host, an execution on each and two correlations, so
  that a correlation may be shared; two claims, two assessments of each and one relation;
  five requests on a case, enough to resolve, reopen and close it; three refresh
  tokens and one revocation. Requests are interchangeable: the symmetry is sound, and
  the runs check invariants and action properties only.
- *Detection.* The same composition. Where a component rests, at its initial state,
  nothing it is fairly obliged to do is enabled, so fairness of all is
  fairness of the one that moves. Three documents, pages of two, one failure and an
  operator's own batch; three findings, two of them exactly one window apart, two
  versions of a rule, two handlers and two acts of an analyst; two matches, two
  severities, two releases that may be switched at any time, and two people who ask; one memory with two versions, two people
  and the machine. No symmetry.

Deadlock is checked in `Decision_gate` and `Playbooks_execution`; the bus may
come to rest when everything is settled, so its configurations switch the check off, and
the requests of the governance and detection runs are bounded, so they end.

### Fairness

Weak fairness of a dispatcher's and of a consumer's steps says that a worker that
is up goes on; none says that a step succeeds. Time passes (leases, delays, the
clock, the deadline). The scheduler's visits (`ExpireRequest`, `ExpireAuthorization`,
`ReconcileTimeouts`) are strongly fair: it may be restarted any number of times, and
a row may be locked when it comes, but not every time; it loops for ever and is
restarted when it dies. A transaction that holds a row ends. No fairness is assumed of
people, producers, n8n or the native engine: an execution's verdict comes from the
deadline if from nowhere else.

In the detection run, weak fairness of `Ingestion!Cycle` (the scheduler's loop comes
round every fifteen seconds and is restarted), of `Correlation`'s `Handle` and `Apply`
(the bus delivers every event in the end, which is `DeliveryImplemented`) and of
`GovernedMemory`'s `ExpireDue` (the scheduler's pass). That documents become visible, that
people act or that the clock moves is not assumed.

## 4. Proofs

`EventBusProofs` proves, for any events, dispatchers, consumers and bounds, from
`BusAssumption` (the subsets and naturals one expects; `NoEvent` is no event and
`NoToken` no dispatcher):

- `TypeCorrect`;
- `EffectOnceHolds`: every step leaves `inbox` and `effects` alone, takes a row that
  can be claimed, completes one with one more effect, or fails one;
- `NoEventLostHolds`, of the events some queue is bound to (of the others finding 2
  shows the contrary): NoEventLost is not inductive, since a dispatcher confirms after
  it has published and a task acknowledges after it has disposed of its copy. The
  strengthening `ReleasedAnchored` says that as soon as such an event has left the
  outbox's care (sent, published, or about to be acknowledged) something answers
  for it. `AnchorStable` shows that no step lets go of an anchored event, and
  `ReleaseAnchors` that none releases one that is not;
- `LeaseHolderUndisturbedHolds`, from `RowShape` (a row has a token exactly while
  it is publishing);
- `DeliverySafety`: every step is a step of `EventDelivery` or a stutter, from
  `OnlyRecorded` (nothing of the bus knows an event before its row is committed).

`DecisionProofs` proves, for any proposals, users, sessions, keys, governance and
lifetimes, from `DecisionAssumption` (users and keys are finite sets, since
approvals and uses are counted; an authorization lives no longer than a request):

- `TypeCorrect`, with `CallsOK` (a call at work is about some proposal);
- `StatusesAgreeHolds`. The inductive invariant is `TypedCalls /\ LockOK /\
  StatusesAgree`: `LockOK` says that the consumer's row lock has one holder and that
  the authorization it validated stays ACTIVE until it commits; without it a revoke
  could slip between the check and the consumption;
- `QuorumBehindExecutionHolds`, from `VotesAgree`: what the decisions on a proposal
  say at each stage of its request;
- `GateSafety`: every step is a step of `ApprovalGate` or a stutter.

`PlaybookProofs` proves about `HybridDispatcher`, for any graph, retry-safe actions,
processes, workers, attempt budget and number of faults, from `N8nAssumption` (a
budget of one attempt at least) and `NativeAssumption` (no step twice in the order,
edges forward, `NoWorker` no worker and `NoStep` no step):

- `TypeCorrect`, from `TypedInv`: `EngineOK` keeps the engines apart, `CallsReady`
  says what a call about to write holds, and `DispatchOK` is what makes the budget
  inductive: one process at a time has an attempt in flight, none while the
  execution is QUEUED, and while it is DISPATCHING that attempt is the last. The
  attempt a failing process looks at is thus the number of attempts made;
- `OneRunActsHolds` and `QueuedHasAttemptLeftHolds`, from `DispatchOK` too;
- `ExternalEffectOnceHolds`, from `CallOK`: an action without an attempt row has had
  no effect, and one that may not be repeated is being called by one worker at most,
  before its effect. The advisory lock plays no part in the argument: the row that
  `ClaimStep` commits is what excludes the second call, so losing the lock is harmless;
- `SuccessIsTrueHolds`. A worker decides by its copy of the progress, and a worker
  whose lock was lost goes on with a copy the rows have left behind. `PathOK` says
  why that is harmless: `CopiesOK` (a copy lacks outcomes, it never has a wrong one),
  `RowsOK` (a step is decided or attempted only after those before it, skipped
  exactly when they do not select it), `EffectOK` (who says SUCCEEDED has had the
  effect and reported it), and `VerdictOK` (a verdict of success, already in a
  worker's hands, is about rows that are finished). It is claimed while the execution
  has not ended badly: what late workers write on a refused one is another matter;
- `LifecycleSafety`: every step is a step of `ExecutionLifecycle` or a stutter, from
  `RowLockOK` (a rejection writes over the status it read) and `RunnerOK` (whoever is
  past the claim left its mark on the row).

`ContainmentProofs` proves about `Containment`, for any accounts, hosts, executions,
correlations, requests and number of rollbacks, from `ContainmentAssumption`
(an account is no host, `None` no correlation, every execution has one target):

- `TypeCorrect`, with `Shape`: who is being reverted has succeeded, and SUCCEEDED is
  final, so the mark is never put on anything else;
- `RollbackIsTrueHolds` and `RestoredWasContainedHolds`. Neither is inductive: a
  request marks, or restores, by what it found on the trail some steps earlier.
  `Evidence` says what each point of a request knows: past its check, that the
  target was contained; when done, that the reverse action is recorded. It is
  stable because the trail only grows (`TrailGrows`), which is all that two
  operators reverting at once have in common.

`IdentityProofs` proves about `Identity`, for any users, administrators, requests,
tokens and generations, from `IdentityAssumption`:

- `TypeCorrect`, with `Pending`: what each open request has read;
- `OneSessionPerLoginHolds` and `RevocationEndsLoginsHolds`, from `IInv`. Between the
  draw of a token and its storing anything may happen: `IssueOK` says that such a
  token is nobody else's and, if a revocation ended its login meanwhile, that it was
  drawn under a generation which has passed, so that the script refuses it.
  `EndedOK` says the same of stored tokens: of an ended login only a token of an old
  generation is left, and the rotation compares generations.

`GovernanceProofs` proves about the composition `Governance`, from
`GovernanceAssumption` alone, every property its run checks that is not in
`ContainmentProofs`:

- `ResolvedIsReviewableHolds`, from `DeskInv`: what a request to resolve found on
  file is on file when it commits, since nothing filed is ever taken away;
- `ValidatedByOthersHolds` and `TrustIsNotRegainedHolds`, from `LedgerInv` (what an
  author says of his own claim is a retraction). A claim reads by its last row, and
  rows come to stand anywhere behind what their authors saw; `Unanimous` is what
  reading as validated rests on, and whoever reads so after a step had only
  validations, or nothing, before it (`TrustStep`);
- `RetirementIsFinalHolds` and `ListingDisarmsPredecessorsHolds`, from `ReleaseInv`: a
  listing commits a decision it took on a copy. `Onward` lists what no step takes
  back, and `Listing` says what of the copy is therefore still true: what it saw
  retired is, and what has been retired since is nothing the catalogue offers;
- `TypesHold`, `OneSessionPerLoginHolds`, `RevocationEndsLoginsHolds`. A step of the
  whole moves one component and leaves the others where they are (`EachMoves`), so
  invariants of the parts are invariants of the whole, and the whole implements the
  components whose theorems are of their own specifications (`ServicesImplement`).

`GovernedMemoryProofs` proves about `GovernedMemory`, for any people, memories,
feedback, facts, windows and number of versions, from `MemoryAssumption` (the
machine is no person, windows end a day after the clock at the latest, the
memories are finitely many):

- `TypeCorrect`. `Gapless` (versions are numbered without a gap) needs that a correction
  is written right behind the last version; that a response names a version that
  exists needs the same fact, and the ledger's keys that there are no more live
  versions than versions (`VersionIsFinite`);
- `ActiveWasJudgedHolds`. The code compares people with a version's author; the
  property speaks of who drafted it. `FourEyes` ties the two together for every row
  and says that no review is its author's;
- `JudgementsStandHolds`: `Changed` lists, for each action, what may become of each
  row. A correction must not overwrite a version, which needs `LatestIsLast`: the
  maximum of a bounded set exists by well-foundedness (`MaxIsLargest`), and the row
  after it is unwritten.

`DetectionProofs` proves about the composition `Detection`, from
`DetectionAssumption` alone:

- `TypesHold`, every component's types at once. They are not shallow: no revision is
  stored twice (`PersistedKeeps`), no run has another's match, at most one version of a
  rule is active, and no two assessments have one input. Correlation needs
  `EngineInv`: a handler at work holds a trigger that still waits and a match that
  nobody has committed (`Working`), and no two hold the same (`Apart`); without it a
  commit could take another handler's finding away or repeat its match;
- `EvidenceOnlyToLiveCasesHolds`, from the types: a commit joins the incident its handler
  found only if it looks again and finds it open, and opens one that nobody had. It
  speaks of correlation matches; the entity-risk sweep (`entity_risk_service.py:277`)
  writes to incidents too and is not covered;
- `ExplanationsAreGroundedHolds` and `RiskCountsItsMappingsHolds`, from `EnrichInv`.
  `Reading` says what a request that waits still knows: the assessment it read is on
  file, its match is the incident's. `Whole` says of a mapping that all others of
  its match in its release are filed beside it, since one transaction files them
  together; `Counts`, that a score counted as many as the match has. With
  `SupportedCount` (a match has as many mappings in a release as it has techniques)
  they make the count of what is shown of any release equal to what was scored. What
  is shown of all releases together is another matter: see section 5;

The inductive invariants of the last four were checked by TLC on the configurations of
the runs, and on larger ones (three versions and four requests for the releases, three
handlers and four requests for correlation and enrichment), before they were proved.

Only model-checked: liveness, which with ENABLED is beyond the prover: the liveness
halves of the three refinements (`DeliveryImplemented`, `GateImplemented`,
`LifecycleImplemented`), `RequestsSettle`, `EveryFindingIsTaken`, `PatternIsNoticed` and
`DueVersionsExpire`. Every other property of a passing run is a theorem, for every
value of the constants that satisfies the assumptions.

## 5. Findings

1. *`EventBus_lease`.* `fail_inbox` (`event_store.py:245`) is not tied to a claim: a
   task that overslept its lease fails the row of the task that recovered the event,
   and a third runs beside it, against PHASE_15 section 9. The effect is still committed once.
2. *`EventBus_unrouted`.* `playbook.execution.rolled_back` (`playbooks/application/service.py:574`)
   has no binding. The broker returns the message, which on this channel
   (`rabbitmq.py:182`) does not raise; the row is confirmed as published and the event
   is gone without a trace, neither applied nor dead-lettered. PHASE_24 (hand-off, line
   18) says that every production event name is registered in the worker. The test
   that should notice looks at three prefixes only.
3. *`Decision_killswitch`.* `decide` does not read the kill switch, against PHASE_20
   section 5; creating the execution does read it.
4. *`Playbooks_unknown`.* `_complete_execution` always writes `completed_at`, which
   the table refuses for UNKNOWN: the execution stays RUNNING until its deadline makes it
   TIMED_OUT, and the exception leaves `dispatch`.
5. *`Playbooks_replay`.* Idempotent actions recognise their own work by the
   dispatch's correlation id, and the scheduler invents a new one: an action it had
   begun is applied again by the event that recovers the execution.

6. *`Governance_closer`.* `transition` (`incident/application/service.py:747`) asks
   `can()` about facts that never name a resolver, so the rule of migration 0028 that
   whoever resolved an unassigned incident may not close it is never applied; its
   unit test fills the field that the caller leaves empty. `COLLABORATOR_CANNOT_JUDGE`
   goes unapplied in the same way.

### Observations

What modelling met besides, without a run. Definitions marked "does not hold of the
code" state some of it.

- *Decision and playbooks.* An authorization may outlive its request; AUTOMATIC
  proposals stay AWAITING_APPROVAL for ever; an execution may be cancelled after its last
  success; `claim` checks neither deadline nor kill switch (PHASE_21 line 340), a late
  callback is not kept (line 275), sequence numbers are stored but never compared (line 241).
- *Rollback.* Host actions recognise their work by the correlation id alone
  (`RevertedHostIsRestored`); two rollbacks may both run the reverse action; a host
  whose isolation lost its answer belongs to an execution that FAILED, and no
  rollback releases it; an account that was inactive before is enabled all the
  same; what a refused rollback writes is undone by its own exception.
- *Playbook administration.* `probe_binding` writes UNAVAILABLE, which the CHECK of
  migration 0016 refuses, so a binding that fails its probe stays armed; n8n bindings are
  never synchronized; `validate_version` looks at no status; `create_binding` may arm a
  second binding; `RetiredStaysDisarmed` does not hold; `approval_mode` is in no migration.
- *Claims.* Two relations may close a SUPERSEDES cycle (`NoCycle`); a RETRACTED claim may
  turn CONTESTED; `add_presentation` checks no authorship.
- *Incident.* `expected_version` is compared without a lock, so two requests with the same
  version both commit and a move may leave a state it is not allowed from
  (`MovesAreLegal`); the native action `incident.status.transition` passes no
  permissions and its refusal is not caught; a retracted claim still fills its slot.
- *Identity.* Two administrators may demote each other (`AdminRemains`); a login that
  reads the generation after the INCR and the user before the commit survives a
  revocation; a revocation whose transaction fails has ended the sessions all the same.
- *Ingestion.* A document that appears late with an older timestamp is never fetched; one
  without a timestamp moves the cursor past all others; a malformed one blocks its
  tenant; the lease, backoff and watermark of PHASE_25 are not there.
- *Correlation.* A burst may open two incidents (`OpensOnlyWhenNoneIsOpen`); findings that
  arrive out of order may be missed; a rule retired while it is being activated
  comes back (`RetiredRulesStay`); every sweep counts the incident's version up.
- *Enrichment.* A fingerprint does not name its match, so a second match with the same counts
  keeps the older assessment (`NewestMatchIsShown`). After another ATT&CK release was
  activated, recalculating a match files a second set of mappings, under the new
  release's techniques, and keeps the assessment, whose fingerprint names no release;
  `get` shows both sets beside a score that counts one (`ShownIsCounted`), where
  PHASE_19 section 9.5 asks for another assessment. `record_ai_redaction` does not look
  whether the assessment it was given is still the newest: PHASE_19 section 11.2 asks
  that the fingerprint of the inputs be checked when the model answers and stale
  output be discarded (`StaleOutputIsDiscarded`). `ExplanationsAreGrounded` says less:
  that the text is filed under the assessment it tells of. Concurrent recalculations may fail
  on a unique key; evidence is numbered from 1 where the CHECK admits 0 to 31.
- *Governed memory.* `list_active` shows a candidate's latest version, active or not
  (`InfluenceWasActivated`); influences are keyed by position, so some are not recorded;
  two versions of one memory may be active at once; a suggestion of the machine may be
  approved and activated by one person.

## 6. Plan and what is not modelled

What the plan has left, in order:

1. Proofs: the safety that the liveness properties rest on: the scheduler's cursor moves
   only over findings that are stored (`EveryFindingIsTaken`); who handles the younger of
   two findings of a window sees both (`PatternIsNoticed`).
2. `PlaybookGraph`: `_topological_steps`, `_is_selected` and the validation of `portable.py`
   against reference definitions, over all small graphs.
3. The early RUNNING callback, and the release composed with the guard of `ClaimExecution`.

Not modelled: the score of entity risk and the metrics (floating point); the
configuration of connections and of the directory, users, roles and playbook
definitions as data (create, read, update, delete without a protocol between them);
LDAP; reporting, topology and probes (input and output); dry runs and
notifying actions; the frontend and the deployment files.
