------------------------------ MODULE EndToEnd ------------------------------
(***************************************************************************)
(* The end-to-end store (src/aodsl/e2e.py): event workers and dispatchers  *)
(* over one database holding the event log of EventQueue and the outbox of *)
(* Outbox.  A worker finishes its event with commit_dispatch_plan, which   *)
(* in one transaction commits the event and creates its outbox row; from   *)
(* then on a dispatcher carries the row to an idempotent receiver.         *)
(***************************************************************************)
EXTENDS EventQueue, FiniteSets

CONSTANTS
  Dispatchers,  \* worker ids on the outbox side
  Keys,         \* idempotency keys
  KeyOf         \* the key a plan for each event is given

ASSUME KeyOfAssumption ==
  /\ KeyOf \in [Events -> Keys]
  /\ \A e, f \in Events : KeyOf[e] = KeyOf[f] => e = f
ASSUME DispatchersAssumption == NoWorker \notin Dispatchers /\ IsFiniteSet(Keys)

VARIABLES
  outbox,      \* the outbox table, by idempotency key
  id,          \* outbox_id of each row
  holding,     \* the OutboxLease each dispatcher holds
  deliveries,  \* physical sends to the receiver, by key
  planned      \* events whose plan_hash column is set

outboxVars == <<outbox, id, holding, deliveries>>
allVars    == <<clock, log, lease, outbox, id, holding, deliveries, planned>>

O == INSTANCE Outbox WITH Workers <- Dispatchers, lease <- holding

ASSUME NoHoldingAssumption == NoLease \notin O!Lease

E2EInit == Init /\ O!Init /\ planned = {}

-----------------------------------------------------------------------------
FaultyCommitDispatchPlan(w) ==
  /\ AssertFence(w)
  /\ \/ /\ log' = [log EXCEPT ![lease[w].event] = Finalized(@)]
        /\ \E now \in LeaseReadings(w), budget \in Budgets :
             O!Insert(KeyOf[lease[w].event], now, budget)
     \/ /\ log' = [log EXCEPT ![lease[w].event] = Finalized(@)]
        /\ UNCHANGED <<outbox, id>>
  /\ planned' = planned \cup {lease[w].event}
  /\ lease' = [lease EXCEPT ![w] = NoLease]
  /\ UNCHANGED <<clock, holding, deliveries>>

\* One transaction: fence, INSERT OR IGNORE into outbox, event COMMITTED.  A
\* failure between its statements rolls all of it back: no step.
CommitDispatchPlan(w) ==
  /\ AssertFence(w)
  /\ \E now \in LeaseReadings(w), budget \in Budgets :
       O!Insert(KeyOf[lease[w].event], now, budget)
  /\ log' = [log EXCEPT ![lease[w].event] = Finalized(@)]
  /\ planned' = planned \cup {lease[w].event}
  /\ lease' = [lease EXCEPT ![w] = NoLease]
  /\ UNCHANGED <<clock, holding, deliveries>>

\* enqueue_outbox called again for a plan that is already durable.
ReEnqueue(e) ==
  /\ e \in planned
  /\ O!EnqueueOutbox(KeyOf[e])
  /\ UNCHANGED <<log, lease, planned>>

Time ==
  /\ clock < Horizon \/ (RunOn /\ (Pending \/ O!Pending))
  /\ clock' = clock + 1
  /\ UNCHANGED <<log, lease, outboxVars, planned>>

\* An event without external action is committed with no plan.
EventStep(w) ==
  /\ \/ ClaimNextEvent(w)
     \/ CommitEvent(w)
     \/ FailEvent(w)
     \/ Heartbeat(w)
     \/ Crash(w)
  /\ UNCHANGED <<outboxVars, planned>>

DispatchStep(d) ==
  /\ \/ O!ClaimNextOutbox(d)
     \/ O!Send(d)
     \/ O!AckDispatched(d)
     \/ O!FailDispatch(d)
     \/ O!HeartbeatOutbox(d)
     \/ O!Crash(d)
  /\ UNCHANGED <<log, lease, planned>>

E2ENext ==
  \/ Time
  \/ \E e \in Events : \/ AppendEvent(e) /\ UNCHANGED <<outboxVars, planned>>
                       \/ ReEnqueue(e)
  \/ \E w \in Workers : EventStep(w) \/ CommitDispatchPlan(w)
  \/ \E d \in Dispatchers : DispatchStep(d)

E2ESpec == E2EInit /\ [][E2ENext]_allVars

\* Time passes, and both kinds of worker keep polling.
E2EFairness ==
  /\ WF_allVars(Time)
  /\ WF_allVars(\E w \in Workers :
                  ClaimNextEvent(w) /\ UNCHANGED <<outboxVars, planned>>)
  /\ WF_allVars(\E d \in Dispatchers :
                  O!ClaimNextOutbox(d) /\ UNCHANGED <<log, lease, planned>>)

FairE2ESpec == E2ESpec /\ E2EFairness

-----------------------------------------------------------------------------
(* INV-034, INV-036, INV-037.  At every moment, in particular after any    *)
(* crash, an event has an outbox row exactly if it was committed with a    *)
(* plan: no dispatch is lost after the commit, none exists without it, and *)
(* nothing reaches the receiver for an event that is not durably           *)
(* committed, however many workers and dispatchers were overtaken.         *)
AtomicHandoff ==
  \A e \in Events :
    /\ outbox[KeyOf[e]].status # "ABSENT" <=> e \in planned
    /\ e \in planned => log[e].status = "COMMITTED"
    /\ deliveries[KeyOf[e]] > 0 => e \in planned

(* INV-033 in the whole system: the sends of a key stay within its budget. *)
BoundedDelivery == O!BoundedDelivery

(* INV-030, INV-032 in the whole system: the outbox that is fed by         *)
(* commit_dispatch_plan is still a fenced work table, in which generations *)
(* exclude each other and only the newest one closes a row.                *)
OutboxImplementsFencedWork == O!ImplementsFencedWork

(* INV-035.  An event committed with a plan is eventually dispatched, or   *)
(* its outbox row is dead-lettered with every attempt used.                *)
DispatchContinuity ==
  \A e \in Events :
    e \in planned
      ~> \/ outbox[KeyOf[e]].status = "DISPATCHED"
         \/ /\ outbox[KeyOf[e]].status = "DEAD_LETTER"
            /\ outbox[KeyOf[e]].attempts = outbox[KeyOf[e]].budget
=============================================================================
