------------------------------- MODULE Outbox -------------------------------
(***************************************************************************)
(* The multi-worker outbox (src/aodsl/outbox.py): dispatchers claim rows   *)
(* under a lease, send them to a receiver outside any transaction, and     *)
(* acknowledge, fail or renew them behind a fence.  A row is known by its  *)
(* idempotency key, which is UNIQUE.  As in EventQueue, `now` is read      *)
(* before BEGIN IMMEDIATE and the fence reads the clock inside.            *)
(***************************************************************************)
EXTENDS Integers, FiniteSets

CONSTANTS
  Keys,          \* idempotency keys
  Workers,       \* dispatcher ids
  NoWorker,      \* lease_owner IS NULL
  NoLease,       \* a dispatcher that holds no OutboxLease
  LeaseSeconds,  \* values passed as lease_seconds
  Backoffs,      \* values passed as backoff_seconds
  Budgets,       \* values passed as max_attempts
  LockWait,      \* how old a clock reading may be when its statement runs
  Horizon,       \* the clock runs freely up to Horizon
  RunOn          \* and beyond it, if RunOn, while a deadline is ahead

ASSUME KeysAssumption      == IsFiniteSet(Keys)
ASSUME NoWorkerAssumption  == NoWorker \notin Workers
ASSUME DurationsAssumption == /\ LeaseSeconds \subseteq Nat \ {0}
                              /\ Backoffs \subseteq Nat
                              /\ Budgets \subseteq Nat \ {0}
ASSUME BoundsAssumption    == /\ LockWait \in Nat /\ Horizon \in Nat
                              /\ RunOn \in BOOLEAN

VARIABLES
  clock,       \* what self.clock() returns
  outbox,      \* the outbox table, by idempotency key
  id,          \* outbox_id of each row, 0 while there is none
  lease,       \* the OutboxLease each dispatcher holds
  deliveries   \* how often the receiver was sent each key

vars == <<clock, outbox, id, lease, deliveries>>

INSTANCE LeaseRow WITH Active <- "SENDING", Final <- "DISPATCHED"

Lease == [key : Keys, version : Nat, expires : Int, at : Nat, sent : BOOLEAN]
ASSUME NoLeaseAssumption == NoLease \notin Lease

Init ==
  /\ clock = 0
  /\ outbox = [k \in Keys |-> NoRow]
  /\ id = [k \in Keys |-> 0]
  /\ lease = [d \in Workers |-> NoLease]
  /\ deliveries = [k \in Keys |-> 0]

-----------------------------------------------------------------------------
Readings == {t \in 0..clock : t >= clock - LockWait}
LeaseReadings(d) == {t \in Readings : t >= lease[d].at}

Pending ==
  \E k \in Keys :
    outbox[k].expires + LockWait > clock \/ outbox[k].next + LockWait > clock

Tick ==
  /\ clock < Horizon \/ (RunOn /\ Pending)
  /\ clock' = clock + 1
  /\ UNCHANGED <<outbox, id, lease, deliveries>>

\* AUTOINCREMENT: the next id is larger than any in the table.
NextId == Cardinality({k \in Keys : id[k] # 0}) + 1

\* INSERT OR IGNORE on the UNIQUE key; a known key keeps its row and its id.
Insert(k, now, budget) ==
  /\ outbox' = [outbox EXCEPT ![k] = Inserted(@, now, budget)]
  /\ id' = [id EXCEPT ![k] = IF @ = 0 THEN NextId ELSE @]

EnqueueOutbox(k) ==
  /\ \E now \in Readings, budget \in Budgets : Insert(k, now, budget)
  /\ UNCHANGED <<clock, lease, deliveries>>

\* ORDER BY created_at, outbox_id
Before(j, k) ==
  \/ outbox[j].created < outbox[k].created
  \/ outbox[j].created = outbox[k].created /\ id[j] <= id[k]

Swept(now) ==
  [k \in Keys |->
     IF Exhausted(outbox[k], now) THEN Buried(outbox[k]) ELSE outbox[k]]

Candidates(now) == {k \in Keys : Claimable(Swept(now)[k], now)}

Grant(d, k, now, seconds) ==
  /\ outbox' = [Swept(now) EXCEPT ![k] = Granted(@, d, now, seconds)]
  /\ lease' = [lease EXCEPT ![d] =
                 [key |-> k, version |-> outbox'[k].version,
                  expires |-> now + seconds, at |-> clock, sent |-> FALSE]]

ClaimNextOutbox(d) ==
  /\ \E now \in Readings, seconds \in LeaseSeconds :
       \/ /\ Candidates(now) = {}
          /\ outbox' = Swept(now)
          /\ UNCHANGED lease
       \/ \E k \in Candidates(now) :
            /\ \A j \in Candidates(now) : Before(k, j)
            /\ Grant(d, k, now, seconds)
  /\ UNCHANGED <<clock, id, deliveries>>

AssertOutboxFence(d) ==
  /\ lease[d] # NoLease
  /\ FenceHolds(outbox[lease[d].key], d, lease[d].version, clock)

\* IdempotentReceiver.send: not fenced, and unknown to the database.
Send(d) ==
  /\ lease[d] # NoLease
  /\ ~lease[d].sent
  /\ deliveries' = [deliveries EXCEPT ![lease[d].key] = @ + 1]
  /\ lease' = [lease EXCEPT ![d].sent = TRUE]
  /\ UNCHANGED <<clock, outbox, id>>

\* Dispatchers acknowledge what they have sent.
AckDispatched(d) ==
  /\ AssertOutboxFence(d)
  /\ lease[d].sent
  /\ outbox' = [outbox EXCEPT ![lease[d].key] = Finalized(@)]
  /\ lease' = [lease EXCEPT ![d] = NoLease]
  /\ UNCHANGED <<clock, id, deliveries>>

FailDispatch(d) ==
  /\ AssertOutboxFence(d)
  /\ \E now \in LeaseReadings(d), backoff \in Backoffs :
       outbox' = [outbox EXCEPT ![lease[d].key] = Failed(@, now, backoff)]
  /\ lease' = [lease EXCEPT ![d] = NoLease]
  /\ UNCHANGED <<clock, id, deliveries>>

HeartbeatOutbox(d) ==
  /\ clock < Horizon
  /\ AssertOutboxFence(d)
  /\ \E now \in LeaseReadings(d), seconds \in LeaseSeconds :
       /\ outbox' = [outbox EXCEPT ![lease[d].key] = Extended(@, now, seconds)]
       /\ lease' = [lease EXCEPT ![d].expires = now + seconds, ![d].at = clock]
  /\ UNCHANGED <<clock, id, deliveries>>

\* The dispatcher dies, before or after sending; its row stays leased.
Crash(d) ==
  /\ lease[d] # NoLease
  /\ lease' = [lease EXCEPT ![d] = NoLease]
  /\ UNCHANGED <<clock, outbox, id, deliveries>>

Next ==
  \/ Tick
  \/ \E k \in Keys : EnqueueOutbox(k)
  \/ \E d \in Workers : \/ ClaimNextOutbox(d)
                        \/ Send(d)
                        \/ AckDispatched(d)
                        \/ FailDispatch(d)
                        \/ HeartbeatOutbox(d)
                        \/ Crash(d)

Spec == Init /\ [][Next]_vars

-----------------------------------------------------------------------------
(* INV-033.  The receiver is sent a key at most once per attempt, so never *)
(* more often than the row's budget, however dispatchers crash, stall past *)
(* their lease or send after they were overtaken.                          *)
BoundedDelivery ==
  \A k \in Keys :
    /\ deliveries[k] <= outbox[k].attempts
    /\ outbox[k].attempts <= outbox[k].budget

(* Seen without clocks and dispatchers, the outbox is a fenced work table. *)
Phase(r) ==
  CASE r.status = "ABSENT"      -> "absent"
    [] r.status \in Waiting     -> "open"
    [] r.status = "SENDING"     -> "held"
    [] r.status = "DISPATCHED"  -> "done"
    [] r.status = "DEAD_LETTER" -> "dead"

Seen(r) == [phase |-> Phase(r), gen |-> r.version, budget |-> r.budget]

Work == INSTANCE FencedWork WITH
  Items <- Keys,
  item <- [k \in Keys |-> Seen(outbox[k])]

ImplementsFencedWork == Work!Spec
=============================================================================
