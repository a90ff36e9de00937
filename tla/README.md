# Verification of OpenAgentNet

TLA+ specifications of the OpenAgentNet platform (`src/backend/app`), model-checked
with TLC, and theorems about them whose proofs TLAPS checks. Paths below are
relative to `src/backend/app` unless they begin with `src/`.

The platform is a FastAPI monolith that runs in 3 to 20 replicas
(`src/docs/FEATURES.md:212`). Each replica serves the HTTP API and starts all the
background loops of `core/workers.py`. The replicas share PostgreSQL, Redis and
NATS, and nothing else. What is hard about the program is in this sentence: nearly
every handler reads rows, works on its copies across `await`s, and writes them
back in a transaction at READ COMMITTED that re-reads nothing. The modules model
those sessions, not the HTTP layer around them.

## 1. Inventory

| Component | State | Operations | Interactions | What is hard | What makes it correct |
|---|---|---|---|---|---|
| Delivery and expiry workers, `core/workers.py` | rows of `tasks`, batches in flight | `task_delivery_worker`, `ttl_expiry_worker`, `_record_terminal_outcome` | POST to the recipient, trust service, result reports | several replicas deliver one task; one commit per batch; late commits overwrite | one-way delivery, bounded attempts, an outcome for each closure, pending tasks leave the pool |
| Messaging, `services/messaging/service.py` | `tasks`, `agents.status` | `send_message`, `broadcast_to_team`, heartbeats, inactivity sweep | workers, orchestration, teams, contracts | check-then-insert deduplication; it commits its caller's session | one task per message, contracts respected |
| Results and streams, `api/v1/messages.py` | `tasks`, `task_stream_chunks` | `report_task_result`, `append_task_stream_chunk`, SSE | workers, trust, marketplace | reports race with timeouts; two transactions per report; chunks out of order | closed tasks at rest, contiguous streams |
| Negotiation, `services/negotiation/service.py` | `negotiations`, `negotiation_rounds`, `task_contracts` | `create_proposal`, `respond`, `_expire_due` | messaging (contracts) | answers from stale copies; a sweep of all negotiations inside each answer | one contract, bounded rounds, final decisions |
| Marketplace escrow, `services/marketplace/service.py` | `marketplace_escrows` | create, release, dispute, refund; cascade of `delete_listing` | tasks, listings, NATS events | idempotent creation without a lock; settlement races | each escrow settled once, one per key and task, none without listing |
| Listings and usage, same file | `marketplace_listings`, `marketplace_usage` | create, update, delete, tiers, `record_usage` | escrows | lost increments | usage equals the calls accepted |
| Orchestration, `services/orchestration/service.py` | `workflows`, `workflow_tasks` | `create_workflow`, `_run_workflow`, `_execute_step`, dispatch loop | messaging (which commits its session), workers, tasks | claim, retries and polling in one long session; death of a replica | one run per workflow, dependency order, agreement of outcomes, an end |
| Trust, `services/trust/` | `trust_records`, events, endorsements, disputes | `record_outcome`, `endorse`, flags, `resolve_dispute` | workers, results, index | read-modify-write of scores; rings of endorsements | records claim and remember what was committed |
| Registry, `services/registry/service.py` | `agents`, `agent_versions`, keys | register, update, deregister, rotate key | index, messaging | version numbers and keys written concurrently | one current key, no gap in versions |
| Capability index and discovery | Redis sorted sets | `sync_agent`, `remove_agent`, `update_agent_score`, search | registry, trust | two stores written one after the other; a search is several statements, a walk several searches | the index finds every active agent, pages list every agent |
| Routing, `services/routing.py` | none | `route` | an external model, trust | the model is awaited, and may name anybody | the best agent that qualifies is chosen, or the model's choice among them |
| Federation, `services/federation/service.py` | peers, federated `agents` | `sync_registry`, `migrate_agent` | registry | records out of order, local identities | local records are authoritative |
| Shared memory, teams | `memory_objects`, permissions, `team_members` | write, read, search, update, delete; membership | each other | access through membership | only permitted readers |
| Rate limit and anomalies | Redis counters | middleware, `observe_anomaly` | all routes | INCR and EXPIRE are two calls; the handler runs inside the guard | windows end, handlers run once |
| Privacy proofs, `core/privacy_proofs.py` | `task_proofs` | create, verify | tasks | check-then-insert; arithmetic modulo two numbers | stored proofs verify and stay |
| Security, identifiers, audit, schemas, configuration | none, or append-only | pure functions | all | — | — |
| Command line, SDKs, dashboard, deployment, migrations, tests | none of the platform's | clients of the API | — | — | — |

`PROJECT.json` lists every component with its status, and the hazards, each at its
line with the properties that watch it.

## 2. Plan

Written, in this order:

1. `TaskLifecycle`: the `tasks` table is where everything meets. Workers of
   several replicas, reports, chunks and the registry around it.
2. `Negotiation`: sessions with stale copies and the sweep they carry.
3. `Escrow`, and the abstract `EscrowLedger` it implements.
4. `Dag` and `WorkflowEngine`, which takes the order of its steps from `Dag`.
5. `TrustLedger`: what concurrent read-modify-writes leave of an agent's history.
6. `Directory`: registry, status, Redis index, discovery and federation of one agent.
7. `MessageIntake`, and `TaskStream`, which composes it with the stream of its task.
8. The small stores, checked in one run: `RateLimit`, `UsageMetering`,
   `SharedMemory` with teams, `PrivacyProofs`.
9. `Discovery`: the statements of a search, walks through its pages, and routes.

Except for those of `Discovery`, every invariant and every action property a passing run
checks is stated by a theorem (section 5). What can still be added are
refinements: an abstract ledger of charges that `TaskLifecycle` would implement, and
one of claims for `WorkflowEngine`.

## 3. Modules

All modules follow one convention. A session is what its process holds of the
database: a step that reads copies values into a record of the process, the
commit is the step that writes the shared variables, and a rollback empties the
record. Data the properties do not tell apart is left out. Definitions headed
`Mutant` are wrong variants of the definition that follows them; nothing uses
them, and they show that a property can be violated by a change of that code.

### TaskLifecycle

One row per task: `status`, `result` (as: attempts in the delivery journal, and
whether a reported result has replaced it), `error`, `completed`, with the
outcomes recorded for it. `todo`, `snap`, `seen` and `plan` are what an iteration
of a worker holds: the tasks it selected and has not judged, the results it loaded, the
recipient it loaded, and the writes it will commit. `req` is a report or a chunk
in flight. `posts`, `lost` and `reports` are history; the first two count POSTs by
the length of the journal the worker had loaded, its level.

| Action | Code |
|---|---|
| `SelectBatch`, `RefuseInactive`, `PostAccepted`, `PostRejected`, `CommitPlan`, `AbortIteration` | `task_delivery_worker`, `deliver_task_http`, `_count_delivery_attempts`, `_record_terminal_outcome` |
| `SelectExpired`, `CommitPlan` | `ttl_expiry_worker` |
| `LoadReport`, `CommitReport`, `RecordReported` | `report_task_result`: status and outcome are two transactions |
| `LoadChunk`, `CommitChunk` | `append_task_stream_chunk` |
| `Send`, `Heartbeat`, `MarkInactive`, `Deregister`, `Suspend` | messaging and registry, as far as they touch tasks and recipients |

A column that is assigned the value it was loaded with is not in the UPDATE; this
is how SQLAlchemy decides what to write, and `CommitPlan` depends on it. The
statuses `queued`, `acked` and `cancelled` exist but nothing sets them. The
branch for a recipient that is not found cannot be reached: agents are only
soft-deleted.

### Negotiation

`status`, `round_count`, `response` and `contract` of each row; `moves` counts the
rounds of each kind that were committed. A request goes through `SelectDue` (the
expiry query), `Sweep` (its UPDATE, whose row locks others wait for), `Decide` (the
answer, checked against its own copy) and `Commit`, or ends in `Refuse` or `Abort`.
Everything happens in one session, so a refusal rolls the expiry back. When
sessions wait for each other, PostgreSQL ends one of them: that is an `Abort` too.
Either participant may take every decision, so who answers is left out.

### Escrow and EscrowLedger

`EscrowLedger` is what `src/docs/DATA_MODEL.md` says of the table: held, disputed
once, settled once. `Escrow` has the handlers with their locks: `CheckCreation`
and `Insert` are the two steps of an idempotent creation, `Lock` the `FOR UPDATE`
of the three transitions, `ReadTask` the unlocked read of the linked task,
and `Commit` the end of the session. `Insert` waits for insertions of the same
key, as PostgreSQL does, and `DeleteListing` for sessions that hold one of its
escrows or have referenced the listing. The refinement mapping is
`ledger <- status`. Listings all exist from the start.

### Dag and WorkflowEngine

`Dag` has `validate_dag` and `topological_order` as operators: the loop of Kahn's
algorithm is a recursive function over the number of its turns. `Accepted` adds the
refusal of an empty definition, which is `create_workflow`'s. `MCDag` lets a
definition grow so that every small definition is a state.

`WorkflowEngine` has one workflow (workflows share no rows). The session of a run
is `engine[e].view` and the row lock `lock`; `Send` is `send_message`, which commits
the session it is given: the claim, with the first task sent, and the outcomes of
steps since the last one. `Polled` is what the ORM answers with: the row at the
first poll, the object it already has afterwards. `Break` is the loss of the
session, `ReadBack` and `FailWorkflow` the handler of last resort, `LoseHandler` the
loss of the session that handler opens (which is caught and logged), `Crash` the
death of the replica. The history variable `abandoned` says that the run whose
claim is committed has lost both sessions. The loop's test for steps already finished is left out:
a workflow that can be claimed has none.

### TrustLedger

The rows of `trust_records`, `endorsements` and `disputes`, with numbers in
thousandths. A session (`req`) loads the record (`was`), or creates it and waits
for whoever is creating the same one; computes what it will write; and `Merge`
writes the columns that differ from its copy. `hist` counts what was committed, so
that a record that lost updates can be compared with what it should remember.
`RecordOutcome`, `Endorse` and `RecomputeEndorsements`, `Flag`, `ResolveDispute`,
`MarkUnderReview` are the methods of `TrustService`; `WriteDispute` and
`CommitDispute` are the UPDATE of the dispute, which waits, and the route's
commit. `GetEvents` is the timeline a client reads. Which outcomes are recorded is
`TaskLifecycle`'s; the weights of endorsements, comments, the age component and
anomaly events are left out.

### Directory

One agent (agents share nothing): its row (`agent`), `revisions`, API `keys`, and
what Redis has of it, `index` (by capability) and `listed` (the agent's own set).
`Load` is a request with its copy, `Flush` the UPDATE that takes the row's lock,
and the version number and the keys read after it; `Smembers`, `Zrem`, `Delete`,
`Sadd`, `Zadd` are the commands of `remove_agent` and `sync_agent` between flush
and commit, `RedisFails` their failure, which is logged and swallowed. `Commit` and
`Abort` end the session. The requests are those of the registry, heartbeats and the
inactivity sweep, records from peers and migrations; `LoadListed` and `UpdateScore`
are the trust service's update of the index. `Answers(c, TRUE)` is what discovery
finds through the index and `Answers(c, FALSE)` what it would find in the database.

### Discovery

What a request asks of the rows of `agents` is one set, `qualified`; `indexed` is what
Redis answers, and `score` the trust records. A walk is `CandidateIds` (or no answer of
Redis), `Count`, `Page`, `ReadTrust` for each agent, `Answer`, and the client's
`NextPage`; each statement has its own snapshot. `Orders` are the orders an ORDER BY
allows: ties are in any, in each statement anew. A route is `RouteTask`, one statement
with sorting and cutting, and then `LLMSelect` or `LLMFails` when the awaited model has
answered. `Joins`, `IndexGains` and `Moves` happen meanwhile; how index and rows come to differ is
`Directory`'s, here they are any two sets. Requests only read, so one at a time stands
for all. `MCAnswers` checks walks, routes and
`MCDag` in one run, each while the other has not begun: they share nothing.

### MessageIntake and TaskStream

`MessageIntake` counts, for each envelope, tasks (per recipient), calls, messages
in NATS and audit events. A session goes through `Send` (is it a repetition),
`Resolve` (who gets it), `Commit`, `Post`, `Publish` and `End`, in the order that
`Order` gives for a message and for a broadcast, or is lost. `Listen` is the NATS
inbox listener with the subject filter it subscribes to.

`TaskStream` has the chunks of a task: `LoadAppend` (the checks), `CommitAppend`
(with the unique key of task and sequence) and readers that `Poll`. `System`
composes it with the intake: the stream is that of a task whose send has ended.

### RateLimit, UsageMetering, SharedMemory, PrivacyProofs

`RateLimit`: the two windows of one client (requests and floods) and its flag in
Redis, one action per Redis command, with lost replicas, lost answers and windows
that end. `UsageMetering`: one listing that comes and goes, and the reports of
usage that read a row and later write a total. `SharedMemory`: one key with its
version, its grants and the agent's teams; sessions of the owner load, look at the
grants and commit, a reader asks in three statements. `PrivacyProofs`: the
arithmetic of the disjunctive proof over a small group, and the sessions that
create it once per task. `MCStores` lets each of the four move while the others
rest: they share nothing, and their product would show nothing more.

## 4. Runs

Runs that pass:

| Run | Shows | Bounds |
|---|---|---|
| `TaskReplicas` | closures reach the trust service, journals stay below the cap, POSTs multiply by the replicas at most from one length of the journal to the next, outcomes are bounded by replicas and reports, nothing becomes pending again, closed tasks are disturbed only by what was in flight | two delivery workers, an expiry worker and a request on one task, a cap of two (the code has three: a longer journal repeats a step), two reports one after the other (overlapping ones are `ChargesAreBounded`'s): rows of different tasks only meet in a batch, which `TaskLiveness` has |
| `TaskLiveness` | a pending task is closed or delivered | two tasks in one batch, one rollback, time up to twice the window. Requests are left out: they can only take a task out of the pending ones (`NeverPendingAgain`) |
| `NegotiationPair` | bounded round counters, one contract, final decisions, overdue negotiations only expire | two rounds (the code has three, which takes minutes and adds a stale round of the same kind); two negotiations are what it takes for one request to expire what another answers |
| `EscrowRaces` | the handlers implement the ledger; one escrow per task, one answer per key; releases are earned; no escrow without its listing | two escrows, listings and requests, a key and a task they share: a race is between two |
| `Answers` | acceptance and order of workflows agree with reference definitions; a walk misses an agent for four reasons only, and is exact when nothing changes; routes lead to the best that qualified, or to the model's choice among them | up to three steps (an empty definition is refused), two dependencies each: forks, joins, chains, triangles, loops of one to three, repeated and dangling dependencies. Three agents (two of one age, two of one name), pages of one, one change during a request (with two, the same holds) |
| `WorkflowFork` | attempts bounded over all runs; dependencies first; outcomes agree with steps; the workflow ends unless a replica dies or the run that claimed it loses its session and then its handler's | a fork of three steps, two replicas, one retry (the code has two: a second repeats the first), two polls, two lost sessions, a crash |
| `TrustRaces` | a record never claims what was not committed, never loses all of a history, and its score stays in range | two sessions, one subject with two endorsers, one dispute, two outcomes: an update is lost between two |
| `DirectoryRaces` | versions without gap or collision, one key in force, an active agent is hidden from discovery for five reasons only | two sessions, one capability, one peer, three versions and keys together. Capabilities are independent members of the index |
| `MessagesRaces` | repetitions become tasks only together; tasks, calls and audit events agree; readers see one stream | four envelopes (two share an id, one is without, one goes to the team), two tasks, two sessions; three chunks, two appenders and readers. The stream starts once, after an ended send |
| `StoreRaces` | limits hold and windows end; metered calls are those accepted; versions count writes and reads follow rights; stored proofs verify and stay | limit and threshold two (the flag may come in the middle of a window); two overlapping calls, three reports; two committed changes of a memory; a group of order three in which, as in the real one, G is a square and H is not |

The small instances have as many processes as a race needs: every stale copy in
this code is one session's view of what one other session has changed meanwhile.

Type invariants are proved for every module that `TypeOK` or `StoresTypeOK` is named for in
section 5; of those, runs check only the ones of the tasks and of trust.

Runs that find a disagreement between the code and what the repository says of
it (details under "findings" in `PROJECT.json`):

| Run | Disagreement |
|---|---|
| `TaskTTL` | tasks are timed out by the heartbeat interval, not by their `ttl_seconds` |
| `WorkflowPolls` | a task that ends after the first poll is never seen to end |

**What follows from the models but has no run.** Some are formulas of the modules that
TLC refutes at once; others are plain from a definition.

* Tasks. A timeout is overwritten by a later report (`TimeoutIsDefinitive`, against
  `core/workers.py:12`; `api/v1/messages.py:109` writes any status over any other). A
  delivered task whose executor stays silent is never closed: `Expired` selects
  pending tasks only. After a rollback, or with two replicas, more than
  `MAX_DELIVERY_ATTEMPTS` POSTs are made: replicas that have loaded the same journal
  each make one, and one that comes late may write a shorter journal over a longer one,
  which starts the count again from there. `PostsAccounted` is the bound that holds: at most
  n + n² + n³ + ... (`MAX_DELIVERY_ATTEMPTS` terms) for n replicas, besides what rollbacks lost. A report whose second transaction is lost is never
  charged.
* Negotiation. A closed negotiation changes at the hands of a concurrent answer
  (`TerminalIsTerminal`, against `src/backend/scripts/check_phase3.py:196`);
  concurrent counter-proposals share a round number, so that more than `MAX_ROUNDS`
  of them are exchanged; the requester may answer its own proposal (against the
  comment at `services/negotiation/service.py:17`).
* Escrow. Settled escrows are deleted with their listing (`SettledIsTerminal`,
  against `src/docs/DATA_MODEL.md:351`): `models/marketplace.py:48` cascades.
* Workflows. A run that lost its session may fail the workflow of another run
  (`ClaimedIsSkipped`, `services/orchestration/service.py:339`); a workflow whose
  replica dies stays running, and so does one whose run loses its session and whose handler of last resort
  loses its own (`services/orchestration/service.py:346`).
* Directory. An empty answer of the index is final although the database has
  matching agents (`IndexIsComplete`, against `src/docs/ARCHITECTURE.md:81`); a peer's
  record may overwrite an agent that has just come home (`LocalIsAuthoritative`,
  against `services/federation/service.py:139`). A migration may set an origin
  that is no peer.
* Discovery. A page sorted by trust lists an agent shown with 0.5, because it has no
  record, behind one with less (`SortedByShownTrust`, against `src/docs/FEATURES.md:43`:
  `services/discovery/service.py:132` sorts it last). Two pages of an unchanged
  directory may list the same agent and miss another, because ties have no order
  (`PagesAreDisjoint`; `src/docs/FEATURES.md:34` says that results are paginated). A model that
  answers with no choice fails the route (`LLMFails`).
* Trust. Both endorsements of a ring count if they are committed one after the
  other from stale copies, or before each is recomputed (`RingCountsOnce`, against the docstring at
  `services/trust/service.py:262`); a dispute dismissed by one administrator and
  upheld by another at the same time may cost the agent a penalty
  (`DismissedCostsNothing`, `services/trust/service.py:440`). `get_events` fails for an agent
  that has a dispute but no trust record yet (`GetEventsFails`; endorsements come
  after a record, which `NothingForgotten` says).
* Messages. Repetitions sent at the same time without an id each make a task
  (`RepeatsOnlyTogether` bounds how many), after which the lookup by hash raises;
  broadcasts are never recognised as repetitions. The listener's filter
  `oan.messages.+.inbox` is, in NATS, a literal: it matches no inbox, and nothing is
  forwarded (`Listen`). Chunks after the final one are accepted and never read.
* Memory. Two overlapping updates that replace the grants leave the union of both
  lists, and the version may go back. A member of two teams with a grant gets an error.
* Limits and usage. A handler that raises is called a second time
  (`core/rate_limit.py:96`), and a request about to be refused is let through when
  Redis fails in that moment. First reports that overlap insert two rows of usage,
  after which every report of that user fails.

**Fairness.** `TaskLifecycle!FairSpec` assumes that time passes and that the steps
of the expiry worker are taken: it is an endless loop that catches every exception
and sleeps a fixed time. The delivery worker, agents and requests may stop.
`WorkflowEngine!FairSpec` assumes that a replica keeps taking some step of its
dispatch worker and its run, which awaits only bounded sleeps, queries and a POST
with a timeout; recipients owe no answer, and sessions may be lost up to the bound.

**Deadlock** is checked except where the program may come to rest: once all
listings are gone, when a workflow has ended, when a definition is complete.

## 5. Proofs

TLAPS proves, for all values of the constants that satisfy the `ASSUME`s (which say
that sentinels are not members of the sets they complete, that limits are numbers
and, where processes are counted, that there are finitely many):

* `TaskLifecycleProofs`: `TypeOK`, `NeverPendingAgain`, `PlatformClosureRecorded`,
  `JournalBelowCap`, `RestingTaskIsStable`, `OutcomesBounded`, `PostsAccounted`.
  `JournalBelowCap` is not inductive: a
  worker writes a journal computed from its snapshot. The strengthening says that
  what batches hold for tasks still pending was below the cap when it was loaded,
  and that a retry planned from it stays below; that such a task has no reported
  result in its row follows from reports never leaving it pending. For
  `OutcomesBounded` the invariant counts what is still to come: outcomes committed,
  reports that owe one, and workers that hold the task are together no more than
  workers and reports (`ChargesBounded`), because a worker takes a task up only while
  it is pending, and until then it has cost nothing (`WaitingIsFree`); the numbers
  are cardinalities of finite sets (`FinitenessAssumption`). `PostsAccounted` is
  proved for any number n of delivery workers, as a recurrence over the length k of
  the journal a POST was made from. The invariant (`TriesBounded`) counts the POSTs of
  a level whose iteration was committed (`Tried`) and the workers that have the task in
  hand at that level (`Trying`): together they are at most n for each POST committed
  one level below, because only such a commit writes a journal of length k; and while
  the row is pending with that journal there is room for n more, one for each worker that
  may load it. It needs that a batch has no task its plan has already judged
  (`BatchesDisjoint`) and that expiry workers make no POSTs (`ExpiryPlans`).
* `OrchestrationProofs`, for definitions of any size: `AcceptsExactlyDags` and
  `OrderIsTopological` of `Dag`; `AttemptsBounded`, `OutcomeAgreesWithSteps` and
  `DependenciesFirst` of the engine. The loop of Kahn's algorithm is a recursive
  function; what each turn keeps is proved by induction, itself derived from the
  least element of a set of numbers: the steps ordered so far are without repetition, have
  their dependencies before them, and the indegrees left count the dependencies that are
  not ordered yet. If the loop stops short, each step left has a dependency left, and a
  finite set in which that is so contains a cycle. For the engine (`EngineInv`) one run
  at most is active (`OneRun`): it has the row's lock and an uncommitted claim,
  or its claim is committed and no other succeeds. Of that run, the tasks sent
  for the step at hand are at most one per attempt, and none for later steps
  (`SentSoFar`); the steps before it are settled (`SettledSoFar`).
* `NegotiationProofs`: `TypeOK`, `RoundsBelowMax`, `OneContract`, `SettledIsFinal`,
  `OverdueOnlyExpires`. The invariant adds that requests are about rows that exist
  and that a decided request saw its row open, with room for the round it adds.
* `EscrowProofs`: `TypeOK`, `ReleasedAfterSuccess`, `EscrowsAreListed`,
  `OneEscrowPerTask`, `OneAnswerPerKey`, and `Spec => LedgerSpec`. The core of the
  invariant is that what a request checked still holds while it has the row
  (`RowsHeld`) and that no two requests have the same row (`Exclusive`): from these
  every commit is a step of the ledger. Uniqueness is kept over committed rows and
  insertions in flight together (`AllDistinct`); the check of the key before the
  insertion is not needed for it, which is why the race is harmless. A release in
  flight has seen its task succeed (`ReleasesEarned`).
* `TrustLedgerProofs`: `TypeOK`, `NothingInvented`, `NothingForgotten`. A session's
  copy must claim no more than the history does *now*, and a copy of a fresh
  record may only be in the hands of its one creator (`CopyOK`, `OneCreator`). What
  an update may take back is bounded by what its copy had: every counter it writes
  is at least one, so a history never becomes empty (`Remembers`). Endorsements are
  remembered because a session recomputes them from a table that already has its
  own (`SeenOK`), and because a record exists before the first of them
  (`EndorsedHaveRecords`).
* `DirectoryProofs`: `TypeOK`, `ChangesSerialise` and `HiddenHasCause`. The argument
  for the second is the row lock:
  one session holds it (`Exclusive`), and while it does, the number it has read is
  one more than the versions there are and the keys it will revoke are those in
  force (`Current`). For the third, `CauseInv`: something has disturbed
  the index, or a session that has begun to write to Redis is at work (`Touching`), or
  the index finds the row (`Explained`); and it will find the row a finished
  synchronization is about to commit, unless a deregistration is wiping it
  (`Synchronized`): once that has committed, there is no active agent to find.
* `MessagesProofs`: `SendsAccounted` and `RepeatsOnlyTogether`, and `StreamInOrder`,
  for the parts alone and composed. For the intake the invariant adds that a session
  about to commit has recipients, the addressed one if it is a message
  (`Addressed`); from there it is counting: each step moves one session between the
  uncommitted, the committed and those that still owe a call, and changes the tasks,
  calls and audit events of its envelope alone. The listener does not disturb it
  because its filter matches nothing. For the stream, a chunk in flight has a
  predecessor in the table (`AppendsFollow`), chunks are never changed, and hence what
  was sent remains a prefix.
* `StoresProofs`, about each store alone and `StoresTypeOK` of the four together:
  * `LimitHolds`, `WindowsEnd`: the requests let through and those
    still to be let through have different numbers of one window, all at most the
    limit (`NumbersSpent`, by cardinalities of finite sets).
  * `UsageExact`: a report that is alone has read what is there (`UsageInv`), and the
    number of a deleted listing does not come back while a call remembers it.
  * `WritesCount`, `AnswersAgree`: unless sessions raced, a session that is about to
    commit has read the version and the grants that are there (`Sound`, `Recent`,
    `Serial`); a reader's record of its rights includes those there are now
    (`Watching`), and what a statement has read is among them.
  * `ProofsStand`, for every group that `GroupAssumption` describes (a modulus whose
    elements have inverses and a generator whose power Q is one) and every hash into
    the exponents. The powers obey their laws by induction, and remainders theirs by
    the division of the library; a response that is not reduced differs from a
    reduced one by multiples of Q, which the verification does not see.

The assumptions that are new to a reader of the code are `FinitenessAssumption`
(workers and requests are finitely many), `StepIdsAssumption` and
`DefinitionAssumption` (ids are finitely many, and the engine's definition is a
sequence of steps that passed `validate_dag`), `KeptAssumption` and `NoMemoryAssumption` (sentinels differ from the values
they stand beside), and `UsageAssumption`'s finite `Calls`. TLC evaluates each in
the run of its module.

Only model-checked: `PendingIsTemporary` and `EveryWorkflowEnds`, which are liveness
and need ENABLED, out of the prover's reach; and `Discovery`, which sorts: what an
order over a set puts where is a statement about permutations that the runs check for three agents. The runs that find a
disagreement show a behaviour and need no proof. Theorems speak of the specifications
without fairness, which the fair ones imply.

## 6. Not modelled

Authorization, signatures and payload validation are left out of the handlers: a
request they refuse changes nothing. Events published to NATS other than messages
are best effort and read by nobody in the platform. The teams a search lists beside the
agents are left out, and `get_similar`, which has no caller. Cryptography, schemas,
clients, deployment and migrations have no protocol of their own. The constraints
migrations create are taken from `models/`. That a privacy proof hides the outcome is
not stated: it is a property of distributions, not of runs. Of the proofs only
completeness is checked; the comment beside the group names RFC 3526's group 14, but the
prime has 1024 bits, and H is not a square, so the commitments are not in the
subgroup G generates. The idempotency key of the billing webhook is read nowhere.
