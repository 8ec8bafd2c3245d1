--------------------------- MODULE DurableRuntime ---------------------------
(***************************************************************************)
(* The durable orchestration runtime (src/aodsl/runtime.py, v0.1.3): one   *)
(* process that claims events from the event log, plans with the rule      *)
(* engine over its in-memory graph, and commits graph, outbox, generated   *)
(* events, event result and audit row in one transaction before it         *)
(* publishes the new graph in memory.  Dispatchers flush the outbox from   *)
(* processes of their own.  Everything but the database may crash.         *)
(*                                                                         *)
(* Rows are appended in the order of their created_at.                     *)
(***************************************************************************)
EXTENDS MemoryGraph, FiniteSets

CONSTANTS
  Dispatchers,
  Inputs,          \* events the application may emit
  InitialGraphs,   \* graphs it may persist before the first event
  MaxEmits,        \* bound: events the application emits
  MaxLog,          \* bound: nothing is claimed once the log is this long
  MaxFaults        \* bound: crashes, failing transactions, failing sends

ASSUME GraphsAssumption ==
  \A g \in InitialGraphs : IsGraph(g) /\ IsUntouched(g)
ASSUME ClaimsAssumption == None \notin Claims

VARIABLES
  event_log,    \* rows, in order of creation
  outbox,       \* rows, in order of outbox_id
  audit_log,
  graph_state,  \* the persisted graph
  graph,        \* the graph in the memory of the process
  process,      \* where process_next stands, and with which event and graph
  batch,        \* per dispatcher, the rows its flush has still to visit
  sending,      \* per dispatcher, whether its first key is marked or sent
  received,     \* idempotency keys the receiver has seen
  faults

db == <<event_log, outbox, audit_log, graph_state>>
dispatching == <<batch, sending, received>>
vars == <<event_log, outbox, audit_log, graph_state, graph, process, batch,
          sending, received, faults>>

Resolved == {"COMMITTED", "NO_MATCH", "FAILED"}
Open     == {"PENDING", "PROCESSING"}
Indices  == DOMAIN event_log

(* plan_hash: the plan of a rule, for an event, over a snapshot.           *)
Plan(i, rule, snapshot) == [event |-> i, rule |-> rule, base |-> snapshot]
NoPlan == Plan(0, None, None)

Idle == [at |-> "idle", event |-> 0, base |-> None, seen |-> None,
         decision |-> None, next |-> None]
Down == [Idle EXCEPT !.at = "down"]

Init ==
  /\ event_log = <<>> /\ outbox = <<>> /\ audit_log = <<>>
  /\ graph_state \in InitialGraphs
  /\ graph = graph_state
  /\ process = Idle
  /\ batch = [d \in Dispatchers |-> {}]
  /\ sending = [d \in Dispatchers |-> "no"]
  /\ received = {}
  /\ faults = 0

-----------------------------------------------------------------------------
(* The application.                                                        *)

NewRow(e, cause) == [event |-> e, cause |-> cause, status |-> "PENDING",
                     plan |-> NoPlan]

Emitted == {i \in Indices : event_log[i].cause = NoPlan}

Emit ==
  /\ process.at = "idle"
  /\ Cardinality(Emitted) < MaxEmits
  /\ \E e \in Inputs : event_log' = Append(event_log, NewRow(e, NoPlan))
  /\ UNCHANGED <<outbox, audit_log, graph_state, graph, process, dispatching,
                 faults>>

\* The application links evidence, in memory only: between events or, when
\* it drives claim, plan and commit itself, between planning and committing.
LinkEvidence ==
  /\ process.at \in {"idle", "claimed"}
  /\ \E c \in Claims, type \in {"CALCULATION", "VERIFICATION"} :
       /\ <<c, type>> \notin graph.links
       /\ graph' = AddEdge(graph, c, type)
  /\ UNCHANGED <<db, process, dispatching, faults>>

PersistGraph ==
  /\ process.at = "idle"
  /\ graph_state' = graph
  /\ UNCHANGED <<event_log, outbox, audit_log, graph, process, dispatching,
                 faults>>

-----------------------------------------------------------------------------
(* process_next.                                                           *)

FaultyClaimable == {i \in Indices : event_log[i].status = "PENDING"}

Claimable == {i \in Indices : event_log[i].status \in Open}

\* What the rules see: the payload and the projected snapshot of the graph.
Context(e) == Over(e.payload, RuleState(graph, e.entity))

\* Claim and plan: the oldest open event, also one that an earlier process left PROCESSING.
ClaimNextEvent ==
  /\ process.at = "idle"
  /\ Len(event_log) < MaxLog
  /\ \E i \in Claimable : \E seen \in {Context(event_log[i].event)} :
       /\ \A j \in Claimable : i <= j
       /\ event_log' = [event_log EXCEPT ![i].status = "PROCESSING"]
       /\ process' = [at |-> "claimed", event |-> i, base |-> graph,
                      seen |-> seen, next |-> None,
                      decision |-> Decision(event_log[i].event.type, seen)]
  /\ UNCHANGED <<outbox, audit_log, graph_state, graph, dispatching, faults>>

Decided  == process.decision
Matched  == Decided \notin {"NO_MATCH", "R401"}
Fresh    == graph = process.base
Outcome  == Applied(graph, Planned(Decided, process.seen))
Current  == Plan(process.event, Decided, process.base)

Audit(status) ==
  audit_log' = Append(audit_log, [event |-> process.event, status |-> status])

NoMatch ==
  /\ process.at = "claimed"
  /\ Decided = "NO_MATCH"
  /\ event_log' = [event_log EXCEPT ![process.event].status = "NO_MATCH"]
  /\ Audit("NO_MATCH")
  /\ process' = Idle
  /\ UNCHANGED <<outbox, graph_state, graph, dispatching, faults>>

FaultyEnqueued(plan) ==
  IF outbox # <<>> THEN outbox
  ELSE Append(outbox, [key |-> plan, status |-> "PENDING"])

\* INSERT OR IGNORE: the key is the plan's, generated ids are derived from it.
Enqueued(plan) ==
  IF \E k \in DOMAIN outbox : outbox[k].key = plan THEN outbox
  ELSE Append(outbox, [key |-> plan, status |-> "PENDING"])

Generated(log, plan, events) ==
  IF events = <<>> \/ \E i \in Indices : log[i].cause = plan THEN log
  ELSE Append(log, NewRow(events[1], plan))

Completed(log, plan) ==
  [log EXCEPT ![plan.event].status = "COMMITTED", ![plan.event].plan = plan]

CommitTransaction ==
  /\ graph_state' = Outcome.graph
  /\ outbox' = IF Outcome.dispatch THEN Enqueued(Current) ELSE outbox
  /\ event_log' = Completed(Generated(event_log, Current, Outcome.events), Current)
  /\ Audit("COMMITTED")
  /\ process' = [process EXCEPT !.at = "committed", !.next = Outcome.graph]
  /\ UNCHANGED <<graph, dispatching, faults>>

FaultyCommitStale ==
  process.at = "claimed" /\ Matched /\ Outcome.ok /\ CommitTransaction

\* commit_plan: a plan over another graph than the current one is refused.
CommitPlan ==
  process.at = "claimed" /\ Matched /\ Fresh /\ Outcome.ok /\ CommitTransaction

\* ... and the assignments to self.graph after it.
Publish ==
  /\ process.at = "committed"
  /\ graph' = process.next
  /\ process' = Idle
  /\ UNCHANGED <<db, dispatching, faults>>

\* Any exception of planning or committing ends the event as FAILED: R401,
\* R409 for a stale plan, D404, G404.
Fail ==
  /\ process.at = "claimed"
  /\ Decided = "R401" \/ (Matched /\ ~(Fresh /\ Outcome.ok))
  /\ event_log' = [event_log EXCEPT ![process.event].status = "FAILED"]
  /\ process' = Idle
  /\ UNCHANGED <<outbox, audit_log, graph_state, graph, dispatching, faults>>

Fault == faults < MaxFaults /\ faults' = faults + 1

\* A transaction that raises is rolled back; recording FAILED may raise too.
TransactionFails ==
  /\ Fault
  /\ process.at = "claimed"
  /\ event_log' \in {event_log,
                     [event_log EXCEPT ![process.event].status = "FAILED"]}
  /\ process' = Idle
  /\ UNCHANGED <<outbox, audit_log, graph_state, graph, dispatching>>

Crash ==
  /\ Fault
  /\ process.at # "down"
  /\ process' = Down
  /\ UNCHANGED <<db, graph, dispatching>>

FaultyRestart ==
  /\ process.at = "down"
  /\ process' = Idle
  /\ UNCHANGED <<db, graph, dispatching, faults>>

\* A new runtime, or recover(): the graph is loaded from the database.
Restart ==
  /\ process.at = "down"
  /\ graph' = graph_state
  /\ process' = Idle
  /\ UNCHANGED <<db, dispatching, faults>>

-----------------------------------------------------------------------------
(* OutboxDispatcher.flush.                                                 *)

FaultyNotYet(k) == outbox[k].status = "PENDING"

NotYet(k) == outbox[k].status \in {"PENDING", "SENDING"}

BeginFlush(d) ==
  /\ batch[d] = {}
  /\ \E k \in DOMAIN outbox : NotYet(k)
  /\ batch' = [batch EXCEPT ![d] = {k \in DOMAIN outbox : NotYet(k)}]
  /\ UNCHANGED <<db, graph, process, sending, received, faults>>

\* The rows are visited in the order of the outbox; k is the next one.
Visits(d, k) == k \in batch[d] /\ \A j \in batch[d] : k <= j

\* The rowcount of the UPDATE is not looked at: the row is sent regardless.
MarkSending(d) ==
  /\ sending[d] = "no"
  /\ \E k \in batch[d] :
       /\ Visits(d, k)
       /\ outbox' = IF NotYet(k) THEN [outbox EXCEPT ![k].status = "SENDING"]
                    ELSE outbox
  /\ sending' = [sending EXCEPT ![d] = "marked"]
  /\ UNCHANGED <<event_log, audit_log, graph_state, graph, process, batch,
                 received, faults>>

Send(d) ==
  /\ sending[d] = "marked"
  /\ \E k \in batch[d] :
       /\ Visits(d, k)
       /\ received' = received \cup {outbox[k].key}
  /\ sending' = [sending EXCEPT ![d] = "sent"]
  /\ UNCHANGED <<db, graph, process, batch, faults>>

FaultyFinish(d) ==
  /\ sending[d] \in {"marked", "sent"}
  /\ \E k \in batch[d] :
       /\ Visits(d, k)
       /\ outbox' = [outbox EXCEPT ![k].status = "DISPATCHED"]
       /\ batch' = [batch EXCEPT ![d] = @ \ {k}]
  /\ sending' = [sending EXCEPT ![d] = "no"]
  /\ UNCHANGED <<event_log, audit_log, graph_state, graph, process, received,
                 faults>>

Finish(d) ==
  /\ sending[d] = "sent"
  /\ \E k \in batch[d] :
       /\ Visits(d, k)
       /\ outbox' = [outbox EXCEPT ![k].status = "DISPATCHED"]
       /\ batch' = [batch EXCEPT ![d] = @ \ {k}]
  /\ sending' = [sending EXCEPT ![d] = "no"]
  /\ UNCHANGED <<event_log, audit_log, graph_state, graph, process, received,
                 faults>>

\* send() raises, or the dispatcher dies: flush ends where it is.
AbortFlush(d) ==
  /\ Fault
  /\ batch[d] # {}
  /\ batch' = [batch EXCEPT ![d] = {}]
  /\ sending' = [sending EXCEPT ![d] = "no"]
  /\ UNCHANGED <<db, graph, process, received>>

-----------------------------------------------------------------------------
ProcessNext == ClaimNextEvent \/ NoMatch \/ CommitPlan \/ Publish \/ Fail
Flush(d) == BeginFlush(d) \/ MarkSending(d) \/ Send(d) \/ Finish(d)

Next ==
  \/ Emit \/ LinkEvidence \/ PersistGraph
  \/ ProcessNext \/ TransactionFails \/ Crash \/ Restart
  \/ \E d \in Dispatchers : Flush(d) \/ AbortFlush(d)

Spec == Init /\ [][Next]_vars

(* The process is driven in a loop and restarted when it has crashed; each *)
(* dispatcher flushes in a loop.  The application owes nothing.            *)
LiveSpec ==
  /\ Spec
  /\ WF_vars(ProcessNext) /\ WF_vars(Restart)
  /\ \A d \in Dispatchers : WF_vars(Flush(d))

-----------------------------------------------------------------------------
Committed(i) == event_log[i].status = "COMMITTED"
RuleOf(i)    == event_log[i].plan.rule

Dispatching == {"R002", "R003", "R004", "R005", "R007"}

(* INV-006, INV-008, INV-009, INV-012.  Wherever the process died and      *)
(* however often it came back: an event that is COMMITTED has exactly one  *)
(* COMMITTED audit row, and exactly one outbox row if its rule dispatches, *)
(* exactly one generated event if its rule changes the graph; any other    *)
(* event has left nothing of the kind behind.                              *)
CommitIsWhole ==
  \A i \in Indices :
    LET audits   == {a \in DOMAIN audit_log :
                       audit_log[a] = [event |-> i, status |-> "COMMITTED"]}
        rows     == {k \in DOMAIN outbox : outbox[k].key.event = i}
        children == {j \in Indices : /\ event_log[j].cause # NoPlan
                                     /\ event_log[j].cause.event = i}
    IN IF Committed(i)
       THEN /\ Cardinality(audits) = 1
            /\ Cardinality(rows) = IF RuleOf(i) \in Dispatching THEN 1 ELSE 0
            /\ Cardinality(children) = IF RuleOf(i) \in Dispatching THEN 0 ELSE 1
       ELSE audits = {} /\ rows = {} /\ children = {}

(* Which claim an event invalidates or registers, if its rule does so: the *)
(* fields of the action as the payload or the graph give them.             *)
InvalidatedBy(i) == Value(event_log[i].event.payload, "verification.claim_id")
RegisteredBy(i)  ==
  LET e == event_log[i].event
  IN IF "claim.id" \in DOMAIN e.payload THEN e.payload["claim.id"] ELSE e.entity

Invalidations(c) ==
  {i \in Indices : Committed(i) /\ RuleOf(i) = "R001" /\ InvalidatedBy(i) = c}
Registrations(c) ==
  {i \in Indices : Committed(i) /\ RuleOf(i) = "R006" /\ RegisteredBy(i) = c}
Valuations == {i \in Indices : Committed(i) /\ RuleOf(i) = "R008"}

(* The graph is the fold of the committed events: a claim's version counts *)
(* the invalidations committed for it, a deficit is registered exactly if  *)
(* an R006 was committed for it, and only a committed R008 opens valuation.*)
(* The durable graph says so always, the one in memory when idle.          *)
History(g) ==
  /\ \A c \in Claims :
       /\ g.nodes[c].version = 1 + Cardinality(Invalidations(c))
       /\ g.nodes[c].invalidated <=> Invalidations(c) # {}
       /\ c \in g.deficits <=> Registrations(c) # {}
       /\ c \in g.deficits <=> <<c, "DATA_DEFICIT">> \in g.links
  /\ g.stage = "VALUATION" <=> Valuations # {}

GraphIsItsHistory ==
  /\ History(graph_state)
  /\ process.at = "idle" => History(graph)

(* INV-010, INV-011.  The receiver, which drops repeated keys, carries out *)
(* at most one dispatch per event and none of an event that did not        *)
(* commit; a row is closed only if the receiver has it.                    *)
EffectivelyOnce ==
  /\ \A k1, k2 \in received : k1.event = k2.event => k1 = k2
  /\ \A k \in received : event_log[k.event].plan = k
  /\ \A k \in DOMAIN outbox :
       outbox[k].status = "DISPATCHED" => outbox[k].key \in received

(* INV-003, INV-005.  An event is committed with the rule, and the graph   *)
(* changed by the action, that the engine decides for it on the graph of   *)
(* that very moment; no link made meanwhile is overwritten by the commit.  *)
NeverCommittedStale ==
  [][/\ \A i \in Indices :
          event_log[i].status # "COMMITTED" /\ event_log'[i].status = "COMMITTED"
          => RuleOf(i)' = Decision(event_log[i].event.type, Context(event_log[i].event))
     /\ process.at # "down" => graph.links \subseteq graph'.links]_vars

(* INV-020.  No event blocks the log: once the faults stop, the log is     *)
(* drained again and again, whatever became of the events in it.           *)
NoEventBlocks == []<>(\A i \in Indices : event_log[i].status \in Resolved)

(* INV-010.  Once the faults stop, every dispatch committed to the outbox  *)
(* reaches the receiver and is closed.                                     *)
EveryDispatchDelivered ==
  []<>(\A k \in DOMAIN outbox : outbox[k].status = "DISPATCHED")

(* runtime.py, on R006: "register deficit, do not loop".  Registering a    *)
(* deficit does not lead to registering it again.                          *)
RegistersOnce ==
  \A i \in Indices :
    Committed(i) /\ RuleOf(i) = "R006" /\ event_log[i].cause # NoPlan
    => event_log[i].cause.rule # "R006"
=============================================================================
