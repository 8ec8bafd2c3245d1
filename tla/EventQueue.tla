----------------------------- MODULE EventQueue -----------------------------
(***************************************************************************)
(* The multi-worker event log (src/aodsl/multiworker.py): workers claim    *)
(* events under a lease, and commit, fail or renew them behind a fence.    *)
(*                                                                         *)
(* Every operation opens BEGIN IMMEDIATE, so its SQL is one atomic step.   *)
(* Its `now`, however, is read before the write lock is taken: a step uses *)
(* some reading taken at most LockWait ago, while the fence reads the      *)
(* clock again inside the transaction.                                     *)
(***************************************************************************)
EXTENDS Integers

CONSTANTS
  Events,        \* event ids; their order is the tie-break of the claim
  Workers,       \* worker ids
  NoWorker,      \* lease_owner IS NULL
  NoLease,       \* a worker that holds no EventLease
  LeaseSeconds,  \* values passed as lease_seconds
  Backoffs,      \* values passed as backoff_seconds
  Budgets,       \* values passed as max_attempts
  LockWait,      \* how old a clock reading may be when its statement runs
  Horizon,       \* the clock runs freely up to Horizon
  RunOn          \* and beyond it, if RunOn, while a deadline is ahead

ASSUME EventsAssumption    == Events \subseteq Nat
ASSUME NoWorkerAssumption  == NoWorker \notin Workers
ASSUME DurationsAssumption == /\ LeaseSeconds \subseteq Nat \ {0}
                              /\ Backoffs \subseteq Nat
                              /\ Budgets \subseteq Nat \ {0}
ASSUME BoundsAssumption    == /\ LockWait \in Nat /\ Horizon \in Nat
                              /\ RunOn \in BOOLEAN

VARIABLES
  clock,   \* what self.clock() returns
  log,     \* event_log, by event id
  lease    \* the EventLease each worker holds

vars == <<clock, log, lease>>

INSTANCE LeaseRow WITH Active <- "PROCESSING", Final <- "COMMITTED"

Lease == [event : Events, version : Nat, expires : Int, at : Nat]
ASSUME NoLeaseAssumption == NoLease \notin Lease

TypeOK ==
  /\ clock \in Nat
  /\ log \in [Events -> Row]
  /\ lease \in [Workers -> Lease \cup {NoLease}]

Init ==
  /\ clock = 0
  /\ log = [e \in Events |-> NoRow]
  /\ lease = [w \in Workers |-> NoLease]

-----------------------------------------------------------------------------
\* Clock readings a call may still be carrying when it gets the write lock.
Readings == {t \in 0..clock : t >= clock - LockWait}

\* Some deadline has not yet been passed by every reading in flight.
Pending ==
  \E e \in Events :
    log[e].expires + LockWait > clock \/ log[e].next + LockWait > clock

Tick ==
  /\ clock < Horizon \/ (RunOn /\ Pending)
  /\ clock' = clock + 1
  /\ UNCHANGED <<log, lease>>

AppendEvent(e) ==
  \E now \in Readings, budget \in Budgets :
    /\ log' = [log EXCEPT ![e] = Inserted(@, now, budget)]
    /\ UNCHANGED <<clock, lease>>

\* ORDER BY created_at, event_id
Before(e, f) ==
  \/ log[e].created < log[f].created
  \/ log[e].created = log[f].created /\ e <= f

\* event_log after the dead-letter UPDATE that opens a claim.
Swept(now) ==
  [e \in Events |-> IF Exhausted(log[e], now) THEN Buried(log[e]) ELSE log[e]]

\* Rows the SELECT may return.  The sweep removes none of them.
Candidates(now) == {e \in Events : Claimable(Swept(now)[e], now)}

Grant(w, e, now, seconds) ==
  /\ log' = [Swept(now) EXCEPT ![e] = Granted(@, w, now, seconds)]
  /\ lease' = [lease EXCEPT ![w] =
                 [event |-> e, version |-> log'[e].version,
                  expires |-> now + seconds, at |-> clock]]

\* Nothing is claimable: the call returns None, but its sweep is committed.
SweepOnly(now) ==
  /\ log' = Swept(now)
  /\ UNCHANGED lease

ClaimNextEvent(w) ==
  /\ \E now \in Readings, seconds \in LeaseSeconds :
       \/ Candidates(now) = {} /\ SweepOnly(now)
       \/ \E e \in Candidates(now) :
            /\ \A f \in Candidates(now) : Before(e, f)
            /\ Grant(w, e, now, seconds)
  /\ UNCHANGED clock

AssertFence(w) ==
  /\ lease[w] # NoLease
  /\ FenceHolds(log[lease[w].event], w, lease[w].version, clock)

\* A call that the fence rejects (AODSL-R410) is rolled back: no step.
CommitEvent(w) ==
  /\ AssertFence(w)
  /\ log' = [log EXCEPT ![lease[w].event] = Finalized(@)]
  /\ lease' = [lease EXCEPT ![w] = NoLease]
  /\ UNCHANGED clock

\* A reading taken by a call that was made after the lease was obtained.
LeaseReadings(w) == {t \in Readings : t >= lease[w].at}

FailEvent(w) ==
  /\ AssertFence(w)
  /\ \E now \in LeaseReadings(w), backoff \in Backoffs :
       log' = [log EXCEPT ![lease[w].event] = Failed(@, now, backoff)]
  /\ lease' = [lease EXCEPT ![w] = NoLease]
  /\ UNCHANGED clock

\* Renewal keeps the generation; bounded by Horizon, a worker may renew for ever.
Heartbeat(w) ==
  /\ clock < Horizon
  /\ AssertFence(w)
  /\ \E now \in LeaseReadings(w), seconds \in LeaseSeconds :
       /\ log' = [log EXCEPT ![lease[w].event] = Extended(@, now, seconds)]
       /\ lease' = [lease EXCEPT ![w].expires = now + seconds, ![w].at = clock]
  /\ UNCHANGED clock

\* The worker dies or gives up without reporting; its row stays leased.
Crash(w) ==
  /\ lease[w] # NoLease
  /\ lease' = [lease EXCEPT ![w] = NoLease]
  /\ UNCHANGED <<clock, log>>

Next ==
  \/ Tick
  \/ \E e \in Events : AppendEvent(e)
  \/ \E w \in Workers : \/ ClaimNextEvent(w)
                        \/ CommitEvent(w)
                        \/ FailEvent(w)
                        \/ Heartbeat(w)
                        \/ Crash(w)

Spec == Init /\ [][Next]_vars

-----------------------------------------------------------------------------
(* INV-026.  No two workers hold unexpired leases on one event, although   *)
(* claims and heartbeats compute expiries from readings older than the     *)
(* transaction that stores them.                                           *)
ExclusiveLease ==
  \A v, w \in Workers :
    /\ v # w
    /\ lease[v] # NoLease /\ lease[w] # NoLease
    /\ lease[v].event = lease[w].event
    => lease[v].expires <= clock \/ lease[w].expires <= clock

(* What a worker believes of its lease is what the log says, until the     *)
(* event moves on to a newer generation; once it has, the worker's own     *)
(* expiry has passed.                                                      *)
ViewSound(w) ==
  lease[w] # NoLease =>
    LET r == log[lease[w].event] IN
    IF lease[w].version = r.version
      THEN \/ r.status = "PROCESSING" /\ r.owner = w
              /\ r.expires = lease[w].expires
           \/ r.status = "DEAD_LETTER" /\ lease[w].expires <= clock
      ELSE lease[w].version < r.version /\ lease[w].expires <= clock

LeaseViewSound == \A w \in Workers : ViewSound(w)

(* INV-029.  Every generation costs one attempt, and no event is attempted *)
(* more often than its budget.                                             *)
BoundedAttempts ==
  \A e \in Events : /\ log[e].attempts <= log[e].budget
                    /\ log[e].attempts = log[e].version

(* What the columns of a row say of each other, at every status.  In       *)
(* particular a row that waits for a worker always has an attempt left, so *)
(* only rows under an expired lease are ever swept.                        *)
RowSound(r) ==
  /\ r.attempts = r.version /\ r.attempts <= r.budget
  /\ r.status = "ABSENT" => r.attempts = 0
  /\ r.status # "ABSENT" => r.budget \in Budgets
  /\ r.status \in Waiting => r.attempts < r.budget
  /\ r.status \in {"PROCESSING", "COMMITTED"} => r.attempts > 0
  /\ r.status = "DEAD_LETTER" => r.attempts = r.budget
  /\ IF r.status = "PROCESSING" THEN r.owner \in Workers /\ r.expires >= 0
                                ELSE r.owner = NoWorker /\ r.expires = NoTime

RowsSound == \A e \in Events : RowSound(log[e])

(* INV-028.  An event is committed or failed only by a worker whose lease  *)
(* is the newest generation and unexpired at that moment.                  *)
FencedFinalization ==
  [][\A e \in Events :
       log[e].status = "PROCESSING" /\ log'[e].status \in {"COMMITTED", "FAILED"}
       => \E w \in Workers : /\ lease[w] # NoLease
                             /\ lease[w].event = e
                             /\ lease[w].version = log[e].version
                             /\ lease[w].expires > clock]_vars

(* Nothing is dead-lettered early: an event is buried only with its budget *)
(* spent, and never under a live lease except by the worker holding it.    *)
NoEarlyBurial ==
  [][\A e \in Events :
       log[e].status # "DEAD_LETTER" /\ log'[e].status = "DEAD_LETTER"
       => /\ log[e].attempts = log[e].budget
          /\ log[e].expires > clock =>
               \E w \in Workers : /\ lease[w] # NoLease
                                  /\ lease[w].event = e
                                  /\ lease'[w] = NoLease]_vars

(* A failed event is not handed out again before its backoff has elapsed   *)
(* on the real clock.                                                      *)
BackoffRespected ==
  [][\A e \in Events :
       log'[e].version # log[e].version /\ log[e].status = "FAILED"
       => log[e].next <= clock]_vars

(* COMMITTED and DEAD_LETTER rows never change again, whatever is appended *)
(* or claimed later.                                                       *)
TerminalIsFinal ==
  [][\A e \in Events :
       log[e].status \in Terminal => log'[e] = log[e]]_vars

(* Seen without clocks and owners, the event log is a fenced work table:   *)
(* claims, failures and commits are its Take, Return and Finish.           *)
Phase(r) ==
  CASE r.status = "ABSENT"      -> "absent"
    [] r.status \in Waiting     -> "open"
    [] r.status = "PROCESSING"  -> "held"
    [] r.status = "COMMITTED"   -> "done"
    [] r.status = "DEAD_LETTER" -> "dead"

Seen(r) == [phase |-> Phase(r), gen |-> r.version, budget |-> r.budget]

Work == INSTANCE FencedWork WITH
  Items <- Events,
  item <- [e \in Events |-> Seen(log[e])]

ImplementsFencedWork == Work!Spec

(* INV-027.  Every appended event is eventually committed or dead-lettered *)
(* whatever its workers do: a crashed worker's event is recovered, and one *)
(* that keeps failing runs out of attempts.                                *)
EventuallyResolved ==
  \A e \in Events :
    log[e].status # "ABSENT" ~> log[e].status \in Terminal
=============================================================================
