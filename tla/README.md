# Verification of AODSL and the investment domain

TLA+ models of the control plane in `src/aodsl` and of the investment domain in
`src/investment_domain`, checked with TLC on small instances, and theorems about
them proved with TLAPS for every value of the constants. In the text below
`multiworker.py:97` is line 97 of `src/aodsl/multiworker.py`, and the `postgres_`,
`sec_` and `specialist_` files are those of `src/investment_domain`.
`PROJECT.json` maps each definition to the lines it models, and lists the runs,
the mutants that show each property can fail, the hazards and the theorems.

    tlc -workers 2 -config MCEventQueue.cfg MCEventQueue
    tlapm EndToEnd_proofs.tla

## 1. The system

AODSL is a deterministic control plane. Events about an investment research
graph are logged durably; a rule engine with three-valued logic plans at most
one rule per event over a snapshot of the graph; a committer applies the plan
in one transaction; what the plan dispatches to agents leaves through a
transactional outbox. Around this core sit a multi-worker store with leases and
fencing, a coordinator that lets specialist agents execute outbox rows, the
handover of leases at shutdown, schema migration, audit and release
certification. The investment domain stores what the research finds: nodes
(evidence, metrics, claims, calculations, estimates, valuations, ...), typed
edges between them, and revisions, in PostgreSQL, append-only, and answers every
question as of a cutoff. Two services ingest SEC filings into it and one
computes valuations from it.

### Components

| Component | State | Operations | Talks to | Correct when |
|---|---|---|---|---|
| Rule engine (`runtime.py` 175-333) | none | `plan` | called by each runtime | missing data never decides; first matching rule by priority |
| Durable runtime (`runtime.py` 1056-1518) | `event_log`, `outbox`, `graph_state`, `audit_log`; graph in memory | `emit`, `process_next`, `recover`, `flush` | SQLite, agents by `send` | commits are whole; replay and delivery are effectively once |
| Causal runtime (`runtime.py` 2010-2360) | the same, with chain, depth and fingerprint | `emit_root`, `emit_child`, `process_next` | SQLite | chains are bounded; nothing vanishes |
| Multi-worker event log (`multiworker.py`) | `event_log` with owner, expiry, version, attempts | append, claim, commit, fail, heartbeat | shared SQLite file | one live lease; newest generation finalizes; bounded retries |
| Multi-worker outbox (`outbox.py`) | `outbox`, likewise; `specialist_agent_results` | enqueue, claim, ack, fail, heartbeat, persist result | receiver, by key | as above, and results exactly with the row they close |
| Specialist dispatch (`specialist_outbox_coordinator.py`) | none of its own | `dispatch_specialist_outbox_once` | outbox, agents | answered or dead in the end; only the newest generation answers |
| End-to-end store (`e2e.py`) | event log and outbox in one database | `commit_dispatch_plan` | both stores | event and dispatch appear together |
| Graceful handoff (`graceful.py`) | work items, draining flags (in memory, one lock) | claim, finalize, relinquish, relinquish_all | workers | a drained worker owns nothing; old tokens are fenced |
| Schema migration (`schema.py`, `exclusive_migration.py`, `postgres_migrations.py`) | `schema_migrations`, the physical schema | migrate, attest | every store, at start | recorded = executed, one lineage, no migration turns on stored rows |
| Investment repository (`postgres_repository.py`) | `domain_nodes`, a projection table per kind, `domain_edges` | add, revise, link, aggregate writes; reads as of a cutoff; verify | PostgreSQL | chains do not fork; aggregates are whole; a past answer stays the answer |
| Point-in-time semantics (`temporal.py`, `metrics.py`, `claims.py`) | none | availability, active revision, eligible evidence | repository | nothing ahead of the cutoff |
| Calculations, valuations (`calculations.py`, `valuations.py`, `valuation_execution.py`) | projections of nodes | execute, reproduce | repository | reproducible from recorded inputs |
| SEC ingestion (`sec_*.py`, `ingestion.py`) | evidence and metrics | fetch, project, store | network, repository | backed by evidence; idempotent |
| Repository in memory, validation (`repository.py`, `validation.py`) | dictionaries | the same reads; canonical ids | | as the PostgreSQL one |
| Idempotency store (`runtime.py` 2470-2559) | keys with expiry, LRU order | claim, purge | rule engine | capacity kept; a key is claimed once per window |
| PostgreSQL store (`postgres_store.py`) | `event_log` with leases | claim, complete, fail | PostgreSQL | as the multi-worker log |
| Audit, snapshot, observability | hash chain, snapshots, counters | append, verify, restore | stores | tamper-evident, replayable |
| DSL front end (`compiler.py`, `lsp.py`, `cli.py`) | none | parse, validate | files | text in, text out |
| Certification (`aodsl/certification`, `tools`) | evidence and manifest files | create, verify, promote | files | a release is bound to its evidence |
| Agent orchestration | contracts, results | dispatch, collect | coordinator | one result per dispatch |

### What is hard here

- **Interleaving.** Workers and dispatchers of the multi-worker stores are
  processes that share only a database file. A transaction is atomic
  (`BEGIN IMMEDIATE`), but what a worker believes between two transactions is
  not: it may have been overtaken.
- **READ COMMITTED.** The repository reads, decides and inserts in one
  transaction, but each statement sees what others committed meanwhile. What
  keeps a decision true is a row lock on the source, where it is taken; two
  operations do not take it (section 6).
- **Stale clocks.** Claims, failures and heartbeats read the clock *before* they
  wait for the write lock (`multiworker.py:75`, `outbox.py:81`), the fence reads
  it *inside* the transaction (`multiworker.py:117`). The models keep this
  difference.
- **Crashes.** A process may die between any two steps: after a claim, between
  send and acknowledgement, between the commit of a transaction and the
  publication of the new graph in memory, between two transactions of a service.
- **Mixed versions.** Programs of several releases start on one database, and an
  older one goes on writing after a newer one has migrated it. 22 migrations
  restate whole CHECK lists.
- **Retries and limits.** Attempts, leases, backoffs, causal depth and cycle
  limits are all compared at a boundary.
- **Partial information.** Rules see data that is still arriving; point-in-time
  answers must not see data that arrived later.

The hazards in `PROJECT.json` name these places line by line, with the
properties that cover each, or the reason none does.

## 2. Modules

| Module | Models | Uses |
|---|---|---|
| `LeaseRow` | one row of either multi-worker table: who may claim it, what a grant, a fence, a failure or a sweep makes of it | |
| `FencedWork` | abstract: work is taken by generations; only the newest returns, finishes or gives it up | |
| `EventQueue` | `multiworker.py` | `LeaseRow`; implements `FencedWork` |
| `Outbox` | `outbox.py` | `LeaseRow`; implements `FencedWork` |
| `SpecialistDispatch` | the coordinator and `persist_specialist_result_and_ack` | extends `Outbox` and implements it |
| `EndToEnd` | `e2e.py` | composes `EventQueue` and `Outbox` |
| `GracefulHandoff` | `graceful.py` | |
| `RuleEngine` | evaluator, `RuleEngine.plan`, R001-R008 | |
| `RuleDecision` | the engine while data arrives | `RuleEngine` |
| `MemoryGraph` | the graph, the snapshot rules see, the effect of each action | `RuleEngine` |
| `DurableRuntime` | durable runtime, committer, dispatchers | `MemoryGraph` |
| `CausalRuntime` | causal runtime and bus | `MemoryGraph` |
| `DomainSchema` | what each of the 22 domain migrations creates and allows | |
| `SchemaMigration` | the three migration managers, started by several processes | `DomainSchema` |
| `InvestmentGraph` | the point-in-time reads and the verifications, as operators of a database | |
| `RepositoryCalls` | each writing operation, and each service, as its SQL statements | `InvestmentGraph` |
| `InvestmentRepository` | processes executing those statements on one PostgreSQL database | `RepositoryCalls` |
| `SpecialistDispatch_proofs`, `EndToEnd_proofs`, `GracefulHandoff_proofs`, `CausalRuntime_proofs`, `DurableRuntime_proofs`, `RuleDecision_proofs`, `SchemaMigration_proofs`, `InvestmentRepository_proofs` | theorems | the module of that name; `SpecialistDispatch_proofs` proves `Outbox` first, then the coordinator; `EndToEnd_proofs` proves `EventQueue` first, then the composition from the lemmas of both sides |
| `MC*` | instances for TLC | |

`Outbox` has no run of its own: it is checked inside `EndToEnd`, where rows come
from committed plans, and inside `SpecialistDispatch`, where agents take their
time. Operators named `Faulty...` stand before the definition they could
replace. They are plausible mistakes in that definition, and no specification
uses them.

### Correspondence

**LeaseRow, EventQueue, Outbox.** A row is a record with the columns of the
table; `version` is `lease_version`, the fencing token. `Claimable`, `Exhausted`
and `FenceHolds` are the WHERE clauses, `Granted`, `Buried`, `Failed`,
`Finalized`, `Extended` the SETs. Each operation is one action, with the
dead-letter sweep inside the claim as in the code; an operation whose fence
fails rolls back and is no step. A claim, failure or heartbeat picks `now` from
the clock readings of the last `LockWait` ticks, a heartbeat and a failure none
older than their lease. `lease[w]` is the `EventLease` object the worker
holds; a worker is followed over one lease at a time, so a later claim by the
same worker replaces it. `Crash` forgets it.

**SpecialistDispatch.** `lease[d]` and `outcome[d]` say where
`dispatch_specialist_outbox_once` stands: idle, claimed, answered or raised.
Binding accepts or refuses, an agent answers or raises, persisting may abort on
a result id that exists, which ends the call with the row still leased. No
heartbeat is sent while an agent runs, as in the code.

**EndToEnd.** `CommitDispatchPlan` is the single transaction of
`commit_dispatch_plan`. `KeyOf` gives each event its own idempotency key: the
caller's obligation, assumed as `KeyOfAssumption`.

**GracefulHandoff.** Every method holds one lock, so each is an action, except
`relinquish_all`, which releases the lock between collecting its tokens and
giving each back: begin, one step per token, end. Any token ever issued may be
presented again.

**RuleEngine, RuleDecision, MemoryGraph.** What a rule can look at is a partial
function from paths to values; a path outside its domain is a missing value.
`RuleDecision` records the values one at a time in any order, the three paths
that `rule_state` always projects of a claim together. A graph is nodes, edges
out of claims, deficits, stage, gate and revision; `canonical_hash` is the graph
itself (no collisions). The critical confidence is 50 inside the graph models;
`RuleDecision` varies it around the boundary.

**DurableRuntime.** `process` says where `process_next` stands: claimed and
planned, committed but not yet published, down. `CommitPlan` is the whole
transaction; `Publish` is the assignments after it, so a crash can fall
between. `LinkEvidence` is the application's edit of the graph in memory, also
between a plan and its commit, where the code answers R409. A crash drops the
process, `Restart` loads the graph. `flush` is a batch read once, then per row
mark, send, finish, each its own step. Rows are appended in the order of
`created_at` (a clock that does not run backwards). `attempt_count` is never
read by this store and left out. One live runtime per database; nodes are
created before the first event.

**CausalRuntime.** Rows carry chain, depth and parent; a fingerprint is the
event itself. The runtime counts and inserts inside its transaction
(`Propagated`); `emit_child` counts in one connection (`CountRepeats`) and
inserts in another (`EmitChild`). Claims take rows in order of insertion. The
outbox and audit writes are those of `DurableRuntime` and are not repeated.

**DomainSchema, SchemaMigration.** A migration is the tables it creates and the
CHECK lists it replaces; `Surface[v]` is what the database physically is after
version `v`, and `AsExpected` is the final surface that the attestation demands.
Three CHECKs guard a row of `domain_edges` (source and relation, relation and
target, the typed triple); `Fits` is their conjunction, and what the rows already
stored are asked when a migration restates a list. An INSERT must fit and also
name the columns that migrations have added to the table: those are filled in for
the rows there, made NOT NULL and given no default, and a program names the
columns of its own version. That is `Accepts(schema, version, row)`. `Writes[v]`
is what the programs of version `v` store. A start picks a release and one of two
lineages, the canonical one and one whose checksums differ from `AlteredFrom`
on. The versioned manager reads the history without a lock (`ReadHistory`) and
runs one transaction per migration; the exclusive and the advisory manager read
it under their lock and run one transaction for all. `work[p]` is history and
schema as the open transaction sees them; a crash or an error drops it. `Drift`
is a change by hand, `LockTimeout` the end of `busy_timeout` or `lock_timeout`.

**InvestmentGraph.** A database is `nodes` (payload and digest), `facts` (the
projection rows) and `edges`. The digest stands for the content it was computed
from, so a row altered by hand is a row that differs from its digest. Each
`..._at` read is an operator of a database and a cutoff; an answer is a node, a
set, NotFound, or the integrity error that the code raises. Values, units and
texts are one field; a formula and the DCF stand for the sum of their inputs,
which is enough to tell a recorded result from a wrong or incomplete one.

**RepositoryCalls, InvestmentRepository.** A request is an operation with its
arguments, as validation lets it through (`IsRequest`); `Perform` gives the
statements it executes. A request's rows (`RowsOf`) and what is stored are what
the program has been told (`Told`): an id is a digest of what its node says, so it
stands for one kind and, of a calculation, for one tuple of inputs
(`IdentityAssumption`). A call is a sequence of statements, each with the Python
up to the next one: read or lock a node, look for the node and its projection (one
query or two, as the operation has it), INSERT ... ON CONFLICT DO NOTHING and
compare, insert the projection, read the existing edges, insert the edges, verify,
commit. `InvestmentRepository` gives each its meaning under READ COMMITTED: it
sees what is committed and what its own transaction wrote; `FOR UPDATE` waits for
who locked or refers to the row; an INSERT waits for who is inserting the same key
and for who locked a row it refers to; a projection row whose node is not there
fails on its foreign key; a cycle of waits aborts one of its members. An exception
or a crash rolls back; after a crash the caller calls again. Reads of several
statements (`latest_evidence_at`, `evidence_for_metric_at`,
`evidence_for_claim_at`) run statement by statement as well, `possible[p]` collecting what the database would have answered
at each moment since they began; `outcome` is "torn" when the answer fits none of
them. `Damage` alters a node's payload or a projection by hand.

## 3. Runs

| Run | Instance | Shows |
|---|---|---|
| `event_queue` | 2 workers, 2 events, lease 2, backoff 1, budget 2, lock wait 2, clock to 4 | exclusive leases and true views although claims use stale readings; no early burial; refinement of `FencedWork` |
| `specialist_dispatch` | 2 coordinators, 2 keys, 2 result ids, budget 2, unbounded clock | a result exists exactly for a DISPATCHED row, from the newest generation; each step is an outbox step or none; every dispatch is answered or dead-lettered, although a failing persistence is reported by nobody |
| `end_to_end` | 2 workers, 2 dispatchers, one event and its dispatch, lease 1, backoff 1, budget 2, lock wait 1, unbounded clock | a dispatch exists exactly for a committed plan; deliveries at most attempts; the outbox refines `FencedWork`; every event ends COMMITTED or DEAD_LETTER; a committed plan is dispatched or its row dead with all attempts used |
| `graceful_handoff` | 2 workers, an event and an outbox row, versions to 3, clock to 1 | a drained worker owns nothing; returned tokens are fenced; nobody is robbed; what a draining worker owns is handed back without waiting for expiry |
| `rule_decision` | every value the rules distinguish, in every order of arrival | a definite decision is never revised; the stage gate opens last |
| `durable_runtime` | 1 claim, 4 graphs (it lacks a calculation, or a verification, or awaits its valuation, the gate open or unknown), 4 kinds of event, 2 emitted, 2 dispatchers, 2 faults, log to 7 | whole commits; the graph is the fold of the committed events; effects once; no stale commit; the log drains, poison events included; every dispatch is delivered |
| `deficit_loop` | one undisclosed claim, one event, no faults | **a violation**, see section 6 |
| `causal_runtime` | 2 racing callers, depth 3, cycle limit 2, 3 emits, 1 fault | bounded chains, cut exactly at the limit, nothing lost; the rule that triggers itself comes to rest |
| `schema_migration` | 2 processes, each of the three managers, releases 1-3 on SQLite and 1, 2, 3, 5, 10, 18, 20, 22 of the domain, two lineages, 1 crash, 1 edge | the history is what was executed; one lineage; losers only validate; stored rows survive every later migration; an older release keeps writing from release 3 on, and only from there |
| `investment_repository` | 2 processes, small databases of up to 15 nodes with 2 to 4 calls each, cutoffs 1 to 3, 1 crash, 2 altered rows | linear chains; whole aggregates; no lookahead; altered rows never served; atomic reads; whole services; identical writers agree; late knowledge changes no past answer |
| `aggregate_union` | one catalyst, two target sets | **a violation**, see section 6 |
| `sec_replay` | one filing, ingested twice | **a violation**, see section 6 |

### Bounds, and why they are enough

- **Two of each actor.** An exclusion, a fence, a fork or a double send needs one
  actor and the one that overtakes it. Workers of `event_queue` are
  interchangeable and only safety is checked there, so it uses symmetry; no run
  with a liveness property does.
- **Two rows.** One to work on and one that must be unaffected; the order of
  claims needs two. `end_to_end` follows one event and the row it commits, as
  nothing in it compares two events. Budget 2 gives one retry and one burial.
- **Clock.** `Horizon` covers granting, expiring and granting again. `LockWait`
  2 with leases of 2 includes the lease that is granted already expired. With
  `RunOn` the clock goes on while a deadline is ahead and stops when none is, so
  the state space is finite and no deadline is cut off.
- **MaxEmits, MaxLog, MaxFaults.** Two emitted events and what they generate;
  two faults, so that a recovery can fail too. Nothing is claimed once the log
  has `MaxLog` rows, which would be a way not to drain; the graphs of
  `durable_runtime` are those whose chains end (R006 on undisclosed data is the
  one that does not), and 7 rows are not reached by two inputs.
- **MaxDepth 3, CycleLimit 2** are reached by R006 alone, below them and beyond.
- **MaxVersion** in `GracefulHandoff`: three generations, the old one, the one
  that overtook it and the next.
- **Releases** of `schema_migration`: the domain versions at which what may be
  stored, or what is written, changes; the SQLite managers do not look at the
  contents of a migration. One edge is enough, because CHECKs look at one row.
- **Scenarios** of `investment_repository`: each is a database and the calls that
  compete for the same rows: the revisions of one node, the aggregates of one
  source, every pair of identical adds, the two services against themselves with
  a crash at every statement, and a database of all kinds with altered rows.
  Calls of different scenarios share no row they could disagree on. In every
  state every `..._at` read is asked for every node at every cutoff.

### Fairness, and what justifies it

- `EndToEnd`: weak fairness of the clock and of the polling claims
  (some worker and some dispatcher keep polling). Commit, failure and crash of
  the worker are *not* fair: it may die at every attempt; the budget ends that.
- `SpecialistDispatch`: each coordinator's call goes on or its process dies;
  an agent is not left running for ever.
- `GracefulHandoff`: only the steps of a running `relinquish_all`; the clock is
  not fair, which is the point.
- `DurableRuntime`, `CausalRuntime`: `process_next`, `flush` and a caller's
  started `emit_child` go on, a dead process is restarted; faults are finitely
  many.
- `EventQueue`, `RuleDecision`, `SchemaMigration`, `InvestmentRepository`: safety
  only.

Deadlock is checked except where the model ends by itself: in `rule_decision`
when all data has arrived, and in the three runs of `InvestmentRepository` when
all calls have returned.

## 4. Properties

The invariants the repository numbers INV-003 to INV-048 are the promises
checked here; the comment before each property says which. In short:

- Leases: `ExclusiveLease`, `LeaseViewSound` (what a worker believes of its lease
  is true until it is overtaken, and then its own expiry has passed),
  `FencedFinalization` (proved only).
- Retries: `BoundedAttempts`, `BackoffRespected`, `TerminalIsFinal` (proved only),
  `BoundedDelivery`, `NoEarlyBurial`, `EventuallyResolved`, `EventuallyAnswered`.
- Atomicity: `AtomicHandoff`, `DispatchContinuity`, `ResultIffDispatched`,
  `CommitIsWhole`, `ServicesWriteWhole`, `ReadsAreAtomic`.
- Recovery: `GraphIsItsHistory`, `EffectivelyOnce`, `NoEventBlocks`,
  `EveryDispatchDelivered`, `HistoryIsSchema`.
- Staleness: `NeverCommittedStale`, `DecisionStands`, `ValuationComesLast`,
  `NothingAheadOfTheCutoff`, `LateKnowledgeKeepsAnswers`.
- Refinement: `ImplementsFencedWork`, `OutboxImplementsFencedWork`,
  `ImplementsOutbox`.
- Handover: `DrainedOwnsNothing`, `ReturnedTokensFenced`, `NotRobbed`,
  `HandoffWithoutExpiry`.
- Causality: `PropagationBounded`, `NothingVanishes`, `ChainsEnd`.
- Schema: `OneLineage`, `LosersOnlyValidate`, `RowsFitEveryLaterSchema`,
  `OldReleasesKeepWriting`.
- Repository: `ChainsAreLinear`, `AggregatesAreWhole`,
  `TamperedRowsAreNeverServed`, `IdenticalAddsAgree`.

Some of these state what the code achieves, not what a reader might hope:

- `ReadsAreAtomic`: `latest_evidence_at` returns exactly what the database would
  have answered at one moment of the call. `evidence_for_metric_at` and
  `evidence_for_claim_at` read the links and then, in a second statement, the
  lineages: the answer may be less than at any moment, but all of it was evidence
  of the metric or the claim at one; and a read that fails would have failed at
  one.
- `PropagationBounded`: a caller between the count and the insert of `emit_child`
  can overshoot the cycle limit, by one per concurrent caller. With the limit
  alone on the right-hand side TLC finds the race.
- `DecisionStands` has one exception, which the proof needed and TLC confirmed:
  R004 tests that `required_calculation` EXISTS, and recording it is a new demand
  that may turn a later rule's decision into R004's.
- `LosersOnlyValidate` excepts the versioned manager, whose loser collides with
  the primary key of `schema_migrations`.
- `IdenticalAddsAgree` excepts the operations that look for node and projection
  in two reads (`postgres_repository.py:843`): the commit of an identical writer
  between the two makes the second one fail with an integrity error.
- `OldReleasesKeepWriting` is an equivalence: a running program of release 3 or
  later can store all its release writes after a newer one has migrated the
  database; one of release 1 or 2 can then store nothing, because its INSERT does
  not name `created_at` (`postgres_migrations.py:203`) or the endpoint types
  (`:227`). It fails instead of leaving an edge without time or types.
- `AggregatesAreWhole` leaves out AFFECTS, which is the finding below, and the
  dependencies of a recommendation, whose source is not locked either.

## 5. Proofs

`EventQueue`, in `EndToEnd_proofs` (any events, workers, durations, budgets, lock
wait, clock):

- The inductive invariant is `IInv == TypeOK /\ RowsSound /\ LeaseViewSound`.
  `ExclusiveLease` alone is not inductive: two live leases on one row are
  excluded because a live lease *determines* the row's owner, and that is
  `LeaseViewSound`, which in turn needs the columns of a row to agree
  (`RowsSound`: an active row has an owner and an expiry, a waiting row an
  attempt left).
- The argument goes through rows. `EveryRowStep` shows that each step changes a
  row by one of append, burial, grant, finish and renewal, or not at all; the
  action properties and the refinement are then read off one row's change.
- Theorems: `TypeCorrect`, `RowsStaySound`, `AttemptsBounded`, `ViewsAreSound`,
  `Exclusive`, `Fenced`, `TerminalStays`, `BackoffKept`, `BuriedInTime`, and
  `Implements`: `EventQueue` implements `FencedWork` under the refinement
  mapping of `Seen`.

`Outbox`, in `SpecialistDispatch_proofs` (any keys, dispatchers, durations, budgets,
lock wait, clock):

- `Becomes` lists what one statement may make of one row. `RowsMove` shows that
  every step moves each row by one of them and serves at most one row beyond the
  sweep; `RowChange` shows what that means for the columns (`RowSound`) and in
  the eyes of `FencedWork`. `RowsStaySound` and `Implements` follow.
- `Delivered` needs counting: `BoundedDelivery` alone is not inductive, because a
  dispatcher that was overtaken long ago may still send. `SendsLeft` adds the
  dispatchers that have yet to send a key under the lease they hold (`Unsent`):
  sent and still to be sent together never exceed the attempts, since each
  attempt hands out one lease and a lease is sent once.

The coordinator, in `SpecialistDispatch_proofs` (the same, any result ids):

- The outbox protocol closes a row only after a send; the coordinator never
  checks that it has sent. `Answers` is why it has: a result in hand is the
  outcome of the execution under the lease still held. With it each step of the
  coordinator is a step of `Outbox` (`CoordinatorRunsOutbox`), an abandoned call
  being a crash. `ResultsAreRows` follows, because no other statement closes a
  row or opens a closed one (`NotClosing`).

`EndToEnd`, in `EndToEnd_proofs` (any events, keys, workers, dispatchers,
injective `KeyOf`):

- `EventSide` and `OutboxSide`: every step of the store is, for each side, a
  step of its own, or time passing, or nothing; the plan is a step of both at
  once. The lemmas of both sides then hold of the composition, and with them
  `Delivered` and `OutboxStaysFenced`.
- `HandoffIsAtomic` needs one fact that belongs to neither side: dispatchers
  hold leases only on rows that exist (`HoldingsOpen`), so whatever is sent was
  planned.

`GracefulHandoff_proofs` (any workers, items, durations, number of versions):

- `DrainedOwnsNothing` is made inductive by `LeftToRelease`: while
  `relinquish_all` is on, whatever its worker still owns is among the tokens it
  has left to give back, because a draining worker gets nothing new and no step
  changes a generation without changing the owner. `ReturnedAreOld` does the
  same for returned tokens.
- Theorems: `DrainedIsFree`, `ReturnedStayFenced`, `NobodyIsRobbed`.

`CausalRuntime_proofs` (any callers, events, graphs, rules, limits, faults):

- A caller counts the repetitions in one connection and inserts in another, so
  the number of live rows alone is not inductive. `Bounded` counts two things
  together, for every chain and event: the live rows (`Running`) and the callers
  that counted below the limit and have yet to insert (`Racing`). Whoever joins
  the race counted fewer rows than the limit, and who leaves it moves from one
  count to the other; the runtime counts and inserts in one transaction and does
  not race at all.
- That no chain is cut early needs only that rows keep their chain, event and
  depth and are never removed (`AllKept`): what a caller has counted is at most
  what there is when it inserts (`EmittingOK`).
- `PropagationIsBounded` assumes finitely many callers and a repeat limit of at
  least one. Nothing is used of the rules or the graph.
- `NothingVanishes` says that a committed event has the one row its rule owes,
  `GeneratedOK` the converse: each row made by a commit belongs to one event, of
  a rule that changes the graph. `UnruledOK` and `DecidedOK` supply what the
  commit needs: an event in process has no rule yet and hence no row, so the row
  the commit makes is its first. Of the rules only this is used: those in
  `Changing` generate one event and the others none (`ChangingGenerate`).
- Theorems: `PropagationIsBounded`, `GenerationIsComplete`.

`DurableRuntime_proofs` (any claims, graphs, kinds of event, dispatchers, length
of the log, number of faults):

- The inductive invariant is `IInv == Ledger /\ ProcessOK /\ GraphsOK /\ FlushOK`.
- `Ledger` relates the tables by what an event's plan is called in each of them:
  the cause of the row it generated, the key of its dispatch, the subject of its
  audit entry. Each plan of a committed event has exactly its rows and nobody
  else has any. The event in process is not committed, so its names are new:
  `INSERT OR IGNORE` never ignores a row of a commit.
- `GraphsOK` compares the stored graph with the *sets* of committed events,
  which no order can disturb: a commit adds its event to the set of its rule and
  applies that rule's action to the claim of the event (`SeenPaths`), all other
  steps leave both alone. Between a commit and its publication the graph in
  memory is one event behind, and `ProcessOK` says that what is about to be
  published is what was stored.
- `FlushOK` ties each step of a flush to the receiver: what was sent, and every
  row finished as DISPATCHED, has been received, and whatever was received
  belongs to a committed plan. A row marked but not finished may be sent again
  after a restart; the receiver's key makes that one effect.
- `NeverCommittedStale` follows from `ProcessOK`: what the rules saw is the
  payload over the projection of the graph the plan names, and the commit
  compares that graph with the current one.
- Theorems: `CommittedWhole`, `GraphFoldsTheLog`, `SentEffectivelyOnce`,
  `CommittedFresh`. Assumed: the graph the application persists
  before the first event is well-formed and bears no trace of one
  (`GraphsAssumption`); `None` is no claim.

`RuleDecision_proofs` (any set of situations):

- `TypeOK` is inductive. The core is Kleene monotonicity: a test, and so a
  conjunction, that is TRUE or FALSE keeps that value when paths are added
  (`TruthStands`, `AllOfStands`); `EXISTS` is not monotone and is treated apart.
  `DecisionMonotone` lifts this to the first rule that is not FALSE.
- Theorems: `TypeCorrect`, `DecisionsStand`, `ValuationIsLast`.
- Assumed: `WorldsAssumption`, the types `rule_state` gives to what it projects,
  and that search counts are integers.

`SchemaMigration_proofs` (any processes, managers, releases, lineages, and any
number of crashes and edges):

- The versioned manager decides without a lock, so that the recorded history has
  one lineage is no matter of mutual exclusion. The invariant `IInv` says why it
  holds all the same: a plan made without the lock stays right about the part of
  the history it was made from (`Prepared`); an open transaction extends the
  committed history (`Opened`), because only the owner of the lock has one
  (`Owner`); and a plan that others have overtaken collides with what they
  executed. `Recorded` and `OneRoot` are the two results, `NoRerun` is what the
  exclusive managers add, and `Typed` is the typing of what the argument uses.
- That stored rows fit needs the contents of the migrations: a row that a program
  of version `v` writes satisfies the CHECK lists of every later one (`LaterListsFit`).
  From migration 5 on the lists only grow (`ListsGrow`, one comparison per pair of
  restatements); migrations 3 and 5 narrow two of them, but up to then programs
  write only edges from claims to evidence (`EarlyWrites`), which no version
  refuses (`ClaimEdgesAlways`). `Surface` picks the last statement in force
  instead of folding over the migrations, so that this can be said for two
  versions at once. Which columns an INSERT must name is a matter of migrations 2
  and 3 alone (`ColumnsByVersion`); the two together say exactly which older
  programs a later schema accepts (`LaterSchemasAccept`).
- The second invariant `SInv` joins this to the protocol: a program that serves
  is of a release the database has reached (`Served`), so each stored row was
  written under a version at or below the current one (`Stored`) and no
  migration meets a row it refuses (`NoRefusal`).
- Theorems: `RecordedIsExecuted`, `LineageIsOne`, `LosersValidate`,
  `RowsAlwaysFit`, `OlderReleasesWrite`. Assumed: the releases an advisory
  manager starts are versions of the one list of migrations
  (`ReleaseAssumption`).

`InvestmentRepository_proofs` (any processes, stored rows, requests, and any number
of crashes, deadlocks and rows altered by hand):

- `ChainsAreLinear` is not inductive, because what a commit adds to the database
  was decided statements before. `Chains` says it of each open transaction laid
  over the database, and that two transactions never write or revise the same
  row (`Apart`): that is what the waits on the unique indexes and on FOR UPDATE
  come to. `Standing` says where in its program each process is and that one
  about to insert a revision has found the row it replaces, with an earlier time
  and the same key, in a part of the database that does not change any more.
  `Rows` and `IsTx` are the typing the argument uses.
- `AggregatesAreWhole` adds `AInv`. `Alone`: two transactions never hold the same
  lock. `Covers`: a transaction that has inserted into a guarded set holds the
  lock of the source, and the database has nothing of that set. `Aligned`: a
  process between its lock and its commit knows whether the set was empty, and
  what it has inserted since is part of what it was asked for; the last read of
  the aggregate is what makes it all of it. So a commit leaves a guarded set as
  it was or turns an empty one into a whole one (`Yields`), and a call that was
  told "ok" either wrote its set or found it there.
- `ProgramsFit` is what the two invariants use of the operations, and it is proved
  of all of them: a revision is checked, then inserted, in this order
  (`RevisesFirst`); an operation that finds its work done goes on after it
  (`SkipsRevisions`); a guarded set is locked, compared, inserted and read again
  in one transaction, and no other statement inserts into it (`WritesWhole`).
  The proof follows how operations are put together: lemmas say what a part does
  (`FreshPart`, `RevisionPart`, `TwoReadsPart`, `OneReadPart`, `AggregateLocked`),
  that two parts joined keep it (`SoundJoined`, `LockingAfter`, `LockingBefore`),
  and then each operation is a few joins. An aggregate has any number of ids.
- `CInv` is what the reads rest on, and holds whatever is altered by hand: `Holding`
  says that node, projection and digest each have the form `IsRow` gives them,
  that each row is filed under its id, and that a projection agrees with what
  was told about it in everything an alteration cannot reach. It comes from
  `ProgramContents`: what any statement of any program writes is a row of
  `RowsOf` or an edge it was asked for.
- Induction over data without a predicate as a parameter. The library's
  facts that take no predicate suffice: a well-founded relation has a least element
  in each set, so sets of naturals have one (`SmallestIn`), finite sets of integers
  have a greatest (`LatestOf`, `GreatestIn`), and a function defined along a well-founded relation
  satisfies its equation (`Recursion`). On a database that calls can leave
  (`Sane`), successors and predecessors (`Above`, `Below`) and the inputs of
  calculations (`Made`) are such relations, whence one equation for each recursive
  read: the walk to the root and down a chain (`UpIs`, `DownIs`), a lineage
  (`LineIs`), the visibility of a calculation (`SeenIs`) and what it stands on
  (`VouchedIs`). No theorem says more about a recursive definition than its
  equation; everything else is argued over elements as usual.
- `TamperedRowsAreNeverServed`: every answer is `Simple` (nothing, an error, or a
  row that its digest vouches for) or a set of such rows; `Clean` follows reader
  by reader, aggregates and valuations through what they are assembled from.
- `NothingAheadOfTheCutoff` compares two recursions, the reader's (`Seen`) and the
  property's (`Vouched`). The least calculation that is visible and
  stands on something later would have an input like that. It needs `IdentityAssumption`:
  nothing else says that the inputs of inputs come to an end.
- `ReadsAreAtomic`: each projection row refers to a node and nobody writes one
  twice (`Grounded`), so a commit only adds rows (`Grown`), and only more links
  (`FewerLinks`). `ReadTasks` says what can be left of a read (`Tasks`), and `RInv`
  what its process knows at that point (`Knows`): what it has walked is the chain
  from its root downward, and `possible` holds the answer of this moment. When
  the walk ends, it is the whole chain of the moment of its last statement
  (`WalkIsWhole`, `WalkAnswers`), whose answer is in `possible`; commits of
  others meanwhile leave the root and what was read as they are (`RootStays`,
  `AnswerStays`). Rows are altered by hand only while no call runs.
- Assumed are three things, which TLC evaluates in the three runs of
  `InvestmentRepository`, whose requests cover every operation of
  `RepositoryCalls` (`PersistVerifiedValuation` and `IngestFiling` as parts of
  the services that call them). `RequestsAssumption`: a caller's arguments are
  what the code lets through before its first statement: only evidence and
  metrics have a predecessor, a link has one of the two relations, and ids come
  in a non-empty tuple (`postgres_repository.py:1854`; `calculations.py:181` for
  the inputs of a calculation). `ScenarioAssumption`: what is stored before the
  first call was left by earlier calls (`IsHistory`). `IdentityAssumption`: an id
  is a digest of what its node says (`validation.py:291`), so it names the kind
  and a calculation's inputs, and the inputs exist before the id that is made
  from theirs.
- Theorems: `ProgramsFit`, `ChainsStayLinear`, `AggregatesStayWhole`,
  `TamperedRowsStayUnserved`, `NothingIsAhead`, `ReadsStayAtomic`. The locks are
  used for what they are: with `Source` unlocked, as in the AFFECTS aggregates,
  `Alone` has nothing to exclude, which is the finding of run `aggregate_union`.

Only model-checked:

- liveness (`EventuallyAnswered`, `EventuallyResolved`, `DispatchContinuity`,
  `HandoffWithoutExpiry`, `NoEventBlocks`, `EveryDispatchDelivered`, `ChainsEnd`),
  which TLAPS cannot prove under fairness;
- three properties of `InvestmentRepository` that hold of the scenarios and not of
  all that the assumptions allow. `LateKnowledgeKeepsAnswers`: a late link to
  evidence that was altered by hand before makes an earlier answer fail.
  `ServicesWriteWhole` and `IdenticalAddsAgree`: another request that writes the
  service's own valuation with other dependencies, or a stored row that was
  altered before the call, makes a reproduction or a comparison fail. Conditions
  on requests and stored rows under which they hold always are in the plan.

## 6. Findings

- **The comment on R006** (`runtime.py:306`) says "register deficit, do not loop".
  R006 fires while a claim's data is DATA_NOT_DISCLOSED; committing it leaves that
  field as it is and generates `graph.changed` for the same claim
  (`runtime.py:1298`), which R006 decides again. Run `deficit_loop` shows the
  second registration in a few steps, without any fault. The durable runtime
  repeats it for as long as it is driven; the causal runtime ends it at its cycle
  limit (`ChainsEnd`).
- **AFFECTS aggregates.** The comments at `postgres_repository.py:2529` and
  `:1508` say that such an aggregate is empty or complete. `add_risk_affects`
  (`:2400`) and `add_catalyst_affects` (`:1379`) read their source without FOR
  UPDATE, unlike the aggregates of `AggregatesAreWhole`. Run `aggregate_union`:
  two calls with different targets find the aggregate empty, both succeed, and the
  union is stored.
- **Replay of a filing.** The replay tests call ingestion idempotent:
  `test_sec_filing_round_trip_and_replay_are_idempotent`
  (`tests/investment_domain/test_sec_edgar_ingestion_postgres_live.py:70`) and
  `test_sec_filing_live_replay_is_idempotent`
  (`tests/investment_domain/test_sec_financial_fact_ingestion_postgres_live.py:281`).
  They replay one fixed observation, not a second fetch; `SecEdgarProvider.fetch_filing` stamps each fetch with
  the current time (`sec_edgar.py:169`), which is part of the payload and not of
  the id, so a later fetch of the same filing fails with IDM-W501. Run
  `sec_replay`.

Observations made while modelling, which no text of the repository contradicts:

- `claim_at` and `evidence_for_claim_at` compare no `as_of` of the claim itself
  with the cutoff.
- A valuation's identity does not include its dependencies: two dependency sets
  for one valuation are told apart only by the second call failing.
- `add_recommendation_dependencies` reads its source unlocked too. Its claims are
  fixed by the node, the other dependencies are not, so two callers can leave a
  union here as well; no comment says that this set is empty or complete.
- `evidence_for_metric_at` reads links and lineages in two statements under READ
  COMMITTED (`postgres_repository.py:7302`, `:7326`), and so does
  `evidence_for_claim_at` (`:7646`, `:7671`). Evidence linked and revised
  between them can be missing from the answer.
- A link that becomes known later, but refers to evidence that was altered by
  hand, makes an answer for an earlier cutoff fail that was given before.
- Migrations 2 and 3 end the writes of the programs of releases 1 and 2 that still
  run (`OldReleasesKeepWriting`); no other migration of the 22 stops an older one.
- `UnifiedMultiWorkerStore` starts with the versioned manager (`unified_schema.py:66`),
  not the exclusive one INV-044 is about.

## 7. Not modelled, and why

- The DSL front end, observability counters and most of certification: text and
  files, with no state that outlives a call.
- The registry of formulas, units, currencies, rounding and the present-value
  arithmetic: pure decimal arithmetic that unit tests reach; discovery, HTTP and
  iXBRL parsing: network and text.
- The in-memory repository and canonical ids: no state that outlives a process.
  Of the validation of a node or an edge the model has what an operation relies
  on (`IsRequest`), not its error codes.
- OR, NOT and MISSING in predicates (no production rule uses them), the semantic
  validator and the conflict analyzer (static checks of rules).
- v0.1.2 (`AtomicGraphCommitter`, `OrchestrationRuntime`): replaced by the
  durable runtime; `ChaosDurableAtomicCommitter` is the durable one with
  failpoints, which the model has as crashes and failing transactions.
- The causal store's `mark_dead_letter`, which nothing calls.
- The contents of the two runtime migrations of `unified_schema.py`.
- The idempotency store, the PostgreSQL execution store, and the audit chain:
  see the plan.
- Two runtimes on one database, a database that loses committed data, hash
  collisions, and clocks that run backwards.

## 8. Plan

1. `IdempotencyStore`: the clock read before the lock, purge, LRU and capacity; a
   key is claimed once per window unless evicted.
2. `PostgresStore`: SKIP LOCKED claims on `FencedWork`.
3. `AuditLog`: the hash chain across crashes, and snapshots against replay.
4. Proofs: `ServicesWriteWhole`, `IdenticalAddsAgree` and `LateKnowledgeKeepsAnswers`,
   for requests and stored rows of which one first has to say what they may not
   do (other dependencies for a service's valuation; altered evidence that is
   linked later).
