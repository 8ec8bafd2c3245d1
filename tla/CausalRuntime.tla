---------------------------- MODULE CausalRuntime ---------------------------
(***************************************************************************)
(* Bounded causal propagation (src/aodsl/runtime.py, v0.2.0; repeated in   *)
(* causal_runtime.py).  Every event carries the root of its chain and its  *)
(* depth; an event that would be too deep, or that repeats one of its      *)
(* chain too often, is stored as DEAD_LETTER instead of PENDING.           *)
(*                                                                         *)
(* The runtime creates children inside the transaction of a commit.        *)
(* Callers of emit_child count the repetitions in one connection and       *)
(* insert in another, so they race each other and the runtime.             *)
(***************************************************************************)
EXTENDS MemoryGraph, FiniteSets

CONSTANTS
  Emitters,        \* callers of emit_root and emit_child
  Inputs,          \* the events they emit
  InitialGraphs,
  MaxDepth,        \* max_depth of the roots
  CycleLimit,      \* cycle_repeat_limit
  MaxEmits,        \* bound: events emitted by callers
  MaxFaults        \* bound: crashes and failing transactions

ASSUME LimitsAssumption == MaxDepth \in Nat /\ CycleLimit \in Nat \ {0}
ASSUME EmittersAssumption == IsFiniteSet(Emitters)
ASSUME NoneAssumption == None \notin {"R001", "R006", "R008"}

VARIABLES
  event_log,    \* rows, in order of creation
  graph_state,  \* the persisted graph
  graph,        \* the graph in memory
  process,      \* where process_next stands
  emitting,     \* per emitter, the child it has counted but not inserted
  emits, faults

vars == <<event_log, graph_state, graph, process, emitting, emits, faults>>

Indices  == DOMAIN event_log
Open     == {"PENDING", "PROCESSING"}
Resolved == {"COMMITTED", "NO_MATCH", "FAILED", "DEAD_LETTER"}

Idle == [at |-> "idle", event |-> 0, base |-> None, seen |-> None,
         decision |-> None, next |-> None]
Down == [Idle EXCEPT !.at = "down"]

Quiet == [parent |-> 0, event |-> None, prior |-> 0]

Init ==
  /\ event_log = <<>>
  /\ graph_state \in InitialGraphs
  /\ graph = graph_state
  /\ process = Idle
  /\ emitting = [m \in Emitters |-> Quiet]
  /\ emits = 0 /\ faults = 0

-----------------------------------------------------------------------------
(* Rows.                                                                   *)

Row(e, parent, root, depth, status, by) ==
  [event |-> e, parent |-> parent, root |-> root, depth |-> depth,
   status |-> status, by |-> by, rule |-> None]

\* emit_root: the event is the root of its own chain.
Root(e) == Row(e, 0, Len(event_log) + 1, 0, "PENDING", "caller")

\* fingerprint_count: rows of any status in the chain with this fingerprint.
Repeats(root, e) ==
  Cardinality({i \in Indices : event_log[i].root = root /\ event_log[i].event = e})

FaultyStatus(depth, prior) ==
  IF depth >= MaxDepth \/ prior > CycleLimit THEN "DEAD_LETTER" ELSE "PENDING"

Status(depth, prior) ==
  IF depth > MaxDepth \/ prior >= CycleLimit THEN "DEAD_LETTER" ELSE "PENDING"

Child(parent, e, prior, by) ==
  LET depth == event_log[parent].depth + 1 IN
  Row(e, parent, event_log[parent].root, depth, Status(depth, prior), by)

-----------------------------------------------------------------------------
(* Callers.                                                                *)

EmitRoot ==
  /\ emits < MaxEmits
  /\ emits' = emits + 1
  /\ \E e \in Inputs : event_log' = Append(event_log, Root(e))
  /\ UNCHANGED <<graph_state, graph, process, emitting, faults>>

\* emit_child up to the count.
CountRepeats(m) ==
  /\ emitting[m] = Quiet
  /\ emits < MaxEmits
  /\ emits' = emits + 1
  /\ \E i \in Indices, e \in Inputs :
       emitting' = [emitting EXCEPT ![m] =
                      [parent |-> i, event |-> e,
                       prior |-> Repeats(event_log[i].root, e)]]
  /\ UNCHANGED <<event_log, graph_state, graph, process, faults>>

\* ... and its insert.
EmitChild(m) ==
  /\ emitting[m] # Quiet
  /\ event_log' = Append(event_log, Child(emitting[m].parent, emitting[m].event,
                                          emitting[m].prior, "caller"))
  /\ emitting' = [emitting EXCEPT ![m] = Quiet]
  /\ UNCHANGED <<graph_state, graph, process, emits, faults>>

-----------------------------------------------------------------------------
(* process_next.                                                           *)

Context(e) == Over(e.payload, RuleState(graph, e.entity))

FaultyClaimable == {i \in Indices : event_log[i].status = "PENDING"}

Claimable == {i \in Indices : event_log[i].status \in Open}

\* Claim and plan.
ClaimNextCausalEvent ==
  /\ process.at = "idle"
  /\ \E i \in Claimable : \E seen \in {Context(event_log[i].event)} :
       /\ \A j \in Claimable : i <= j
       /\ event_log' = [event_log EXCEPT ![i].status = "PROCESSING"]
       /\ process' = [at |-> "claimed", event |-> i, base |-> graph,
                      seen |-> seen, next |-> None,
                      decision |-> Decision(event_log[i].event.type, seen)]
  /\ UNCHANGED <<graph_state, graph, emitting, emits, faults>>

Decided == process.decision
Matched == Decided \notin {"NO_MATCH", "R401"}
Outcome == Applied(graph, Planned(Decided, process.seen))

Resolve(status) ==
  /\ event_log' = [event_log EXCEPT ![process.event].status = status]
  /\ process' = Idle
  /\ UNCHANGED <<graph_state, graph, emitting, emits>>

NoMatch ==
  /\ process.at = "claimed"
  /\ Decided = "NO_MATCH"
  /\ Resolve("NO_MATCH")
  /\ UNCHANGED faults

Fail ==
  /\ process.at = "claimed"
  /\ Decided = "R401" \/ (Matched /\ ~(graph = process.base /\ Outcome.ok))
  /\ Resolve("FAILED")
  /\ UNCHANGED faults

Completed(log) ==
  [log EXCEPT ![process.event].status = "COMMITTED",
              ![process.event].rule = Decided]

FaultyPropagated(log, events) ==
  IF events = <<>> THEN log
  ELSE LET new == Child(process.event, events[1],
                        Repeats(event_log[process.event].root, events[1]),
                        "commit")
       IN IF new.status = "DEAD_LETTER" THEN log ELSE Append(log, new)

\* The generated event, counted and inserted inside the transaction.
Propagated(log, events) ==
  IF events = <<>> THEN log
  ELSE Append(log, Child(process.event, events[1],
                         Repeats(event_log[process.event].root, events[1]),
                         "commit"))

CommitPlan ==
  /\ process.at = "claimed"
  /\ Matched /\ graph = process.base /\ Outcome.ok
  /\ graph_state' = Outcome.graph
  /\ event_log' = Completed(Propagated(event_log, Outcome.events))
  /\ process' = [process EXCEPT !.at = "committed", !.next = Outcome.graph]
  /\ UNCHANGED <<graph, emitting, emits, faults>>

Publish ==
  /\ process.at = "committed"
  /\ graph' = process.next
  /\ process' = Idle
  /\ UNCHANGED <<event_log, graph_state, emitting, emits, faults>>

Fault == faults < MaxFaults /\ faults' = faults + 1

\* A failing transaction; the event is FAILED, or not even that is recorded.
TransactionFails ==
  /\ Fault
  /\ process.at = "claimed"
  /\ Resolve("FAILED") \/ Resolve("PROCESSING")

Crash ==
  /\ Fault
  /\ process.at # "down"
  /\ process' = Down
  /\ UNCHANGED <<event_log, graph_state, graph, emitting, emits>>

Restart ==
  /\ process.at = "down"
  /\ graph' = graph_state
  /\ process' = Idle
  /\ UNCHANGED <<event_log, graph_state, emitting, emits, faults>>

ProcessNext == ClaimNextCausalEvent \/ NoMatch \/ Fail \/ CommitPlan \/ Publish

\* process_next finds no event and returns None.
Poll ==
  /\ process.at = "idle" /\ Claimable = {}
  /\ UNCHANGED vars

Next ==
  \/ EmitRoot \/ \E m \in Emitters : CountRepeats(m) \/ EmitChild(m)
  \/ ProcessNext \/ TransactionFails \/ Crash \/ Restart \/ Poll

Spec == Init /\ [][Next]_vars

(* process_next is called in a loop and the process restarted when it      *)
(* died; callers finish the emit_child they are in.                        *)
LiveSpec ==
  /\ Spec /\ WF_vars(ProcessNext) /\ WF_vars(Restart)
  /\ \A m \in Emitters : WF_vars(EmitChild(m))

-----------------------------------------------------------------------------
Live(i) == event_log[i].status # "DEAD_LETTER"

(* The boundary itself is still inside: a chain is cut only over an event  *)
(* that is too deep or that its chain already holds CycleLimit times.      *)
CutOnlyAtTheLimit ==
  \A i \in Indices :
    ~Live(i) =>
      \/ event_log[i].depth > MaxDepth
      \/ Cardinality({j \in 1..(i - 1) :
           /\ event_log[j].root = event_log[i].root
           /\ event_log[j].event = event_log[i].event}) >= CycleLimit

(* INV-021.  Events that run are no deeper than max_depth, and in one      *)
(* chain no more often repeated than the limit, however the chain was      *)
(* spun: by rules, by callers, or by both racing.  A caller between its    *)
(* count and its insert can overshoot the limit, by one each; and no chain *)
(* is cut before its limit.                                                *)
CutAtTheLimit ==
  \A i \in Indices :
    Live(i) =>
      /\ event_log[i].depth <= MaxDepth
      /\ Cardinality({j \in Indices : /\ Live(j)
                                      /\ event_log[j].root = event_log[i].root
                                      /\ event_log[j].event = event_log[i].event})
           <= CycleLimit + Cardinality(Emitters)
PropagationBounded == CutAtTheLimit /\ CutOnlyAtTheLimit

(* INV-021, INV-006.  A committed rule that changes the graph has exactly  *)
(* one generated event on record, a dead one if the chain is at its limit; *)
(* an event whose chain was cut still has its own effect.                  *)
NothingVanishes ==
  \A i \in Indices :
    LET generated == {j \in Indices : /\ event_log[j].parent = i
                                      /\ event_log[j].by = "commit"} IN
    Cardinality(generated) =
      IF event_log[i].rule \in {"R001", "R006", "R008"} THEN 1 ELSE 0

(* Although R006 triggers itself, every chain comes to rest.               *)
ChainsEnd == []<>(\A i \in Indices : event_log[i].status \in Resolved)
=============================================================================
