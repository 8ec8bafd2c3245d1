--------------------------- MODULE EndToEnd_proofs --------------------------
(***************************************************************************)
(* Proofs about the whole store and about the event queue it extends, for  *)
(* any events, keys, workers, dispatchers, durations, budgets, lock wait   *)
(* and horizon.                                                            *)
(*                                                                         *)
(* The first part is about EventQueue alone, whose specification is Spec;  *)
(* the outbox side has its proofs in SpecialistDispatch_proofs.  In part 2 *)
(* every step of the composition, whose specification is E2ESpec, is seen  *)
(* as a step of one side, of both (the plan commits the event and inserts  *)
(* the row), or as time passing over both.  P is the outbox side with its  *)
(* lemmas.                                                                 *)
(***************************************************************************)
EXTENDS EndToEnd, TLAPS

-----------------------------------------------------------------------------
(* The statements on one row.                                              *)

LEMMA StatusTypes ==
  /\ "PENDING" \in Statuses /\ "FAILED" \in Statuses
  /\ "PROCESSING" \in Statuses /\ "COMMITTED" \in Statuses
  /\ "DEAD_LETTER" \in Statuses /\ "ABSENT" \in Statuses
  /\ NoTime \in Int
  BY DEF Statuses, Waiting, Terminal, NoTime

(* Every statement keeps a row a row.                                      *)
LEMMA RowOperations ==
  ASSUME NEW r \in Row, NEW w \in Workers, NEW now \in Nat, NEW n \in Nat
  PROVE  /\ Inserted(r, now, n) \in Row
         /\ Buried(r) \in Row
         /\ Granted(r, w, now, n) \in Row
         /\ Finalized(r) \in Row
         /\ Failed(r, now, n) \in Row
         /\ Extended(r, now, n) \in Row
<1>1. Inserted(r, now, n) \in Row
  BY StatusTypes DEF Row, Inserted, Fresh
<1>2. Buried(r) \in Row
  BY StatusTypes DEF Row, Buried
<1>3. Granted(r, w, now, n) \in Row
  <2> DEFINE x == now + n
             v == r.version + 1
             a == r.attempts + 1
  <2>1. x \in Int /\ v \in Nat /\ a \in Nat
    BY DEF Row
  <2>2. Granted(r, w, now, n) =
          [r EXCEPT !.status = "PROCESSING", !.owner = w, !.expires = x,
                    !.version = v, !.attempts = a]
    BY DEF Granted
  <2> HIDE DEF x, v, a
  <2> QED  BY <2>1, <2>2, StatusTypes DEF Row
<1>4. Finalized(r) \in Row
  BY StatusTypes DEF Row, Finalized
<1>5. Failed(r, now, n) \in Row
  <2> DEFINE s == IF r.attempts >= r.budget THEN "DEAD_LETTER" ELSE "FAILED"
  <2>1. s \in Statuses
    BY StatusTypes
  <2>2. now + n \in Nat
    OBVIOUS
  <2>3. Failed(r, now, n) = [r EXCEPT !.status = s, !.next = now + n,
                                      !.owner = NoWorker, !.expires = NoTime]
    BY DEF Failed
  <2> HIDE DEF s
  <2> QED  BY <2>1, <2>2, <2>3, StatusTypes DEF Row
<1>6. Extended(r, now, n) \in Row
  BY DEF Row, Extended
<1> QED  BY <1>1, <1>2, <1>3, <1>4, <1>5, <1>6

-----------------------------------------------------------------------------
(* What one step may do to one row.                                        *)

IsAppend(e) ==
  \E now \in Readings, budget \in Budgets :
    log'[e] = Inserted(log[e], now, budget)

IsBurial(e) ==
  \E now \in Readings : Exhausted(log[e], now) /\ log'[e] = Buried(log[e])

IsGrant(e) ==
  \E w \in Workers, now \in Readings, seconds \in LeaseSeconds :
    /\ Claimable(log[e], now)
    /\ log'[e] = Granted(log[e], w, now, seconds)

IsFinish(e) ==
  \E w \in Workers :
    /\ AssertFence(w) /\ lease[w].event = e /\ lease'[w] = NoLease
    /\ \/ log'[e] = Finalized(log[e])
       \/ \E now \in Readings, backoff \in Backoffs :
            log'[e] = Failed(log[e], now, backoff)

IsRenewal(e) ==
  \E w \in Workers, now \in Readings, seconds \in LeaseSeconds :
    /\ AssertFence(w) /\ lease[w].event = e
    /\ log'[e] = Extended(log[e], now, seconds)
    /\ lease'[w] = [lease[w] EXCEPT !.expires = now + seconds, !.at = clock]

RowStep(e) ==
  \/ log'[e] = log[e]
  \/ IsAppend(e) \/ IsBurial(e) \/ IsGrant(e) \/ IsFinish(e) \/ IsRenewal(e)

LEMMA ReadingsAreTimes ==
  ASSUME TypeOK
  PROVE  /\ \A t \in Readings : t \in Nat /\ t <= clock
         /\ \A w \in Workers : LeaseReadings(w) \subseteq Readings
  BY DEF TypeOK, Readings, LeaseReadings

(* The sweep buries exhausted rows, leaves the others alone, and offers    *)
(* nothing it has buried to the claim that follows.                        *)
LEMMA Sweep ==
  ASSUME TypeOK, NEW now \in Readings
  PROVE  /\ Swept(now) \in [Events -> Row]
         /\ \A e \in Events :
              \/ Swept(now)[e] = log[e]
              \/ Exhausted(log[e], now) /\ Swept(now)[e] = Buried(log[e])
         /\ \A e \in Candidates(now) :
              e \in Events /\ Swept(now)[e] = log[e] /\ Claimable(log[e], now)
<1>1. ASSUME NEW e \in Events
      PROVE  /\ Swept(now)[e] \in Row
             /\ \/ Swept(now)[e] = log[e]
                \/ Exhausted(log[e], now) /\ Swept(now)[e] = Buried(log[e])
  <2>1. log[e] \in Row
    BY DEF TypeOK
  <2>2. Buried(log[e]) \in Row
    BY <2>1, StatusTypes DEF Row, Buried
  <2> QED  BY <2>1, <2>2 DEF Swept
<1>2. ASSUME NEW e \in Candidates(now)
      PROVE  e \in Events /\ Swept(now)[e] = log[e] /\ Claimable(log[e], now)
  <2>1. e \in Events /\ Claimable(Swept(now)[e], now)
    BY DEF Candidates
  <2>2. log[e] \in Row
    BY <2>1 DEF TypeOK
  <2>3. Buried(log[e]).status = "DEAD_LETTER"
    BY <2>2 DEF Row, Buried
  <2>4. ~Claimable(Buried(log[e]), now)
    BY <2>3 DEF Claimable, Waiting
  <2> QED  BY <2>1, <2>4, <1>1
<1> QED  BY <1>1, <1>2 DEF Swept

(* A claim, row by row.                                                    *)
LEMMA ClaimRows ==
  ASSUME TypeOK, NEW w \in Workers, ClaimNextEvent(w), NEW e \in Events
  PROVE  log'[e] = log[e] \/ IsBurial(e) \/ IsGrant(e)
<1>1. PICK now \in Readings, seconds \in LeaseSeconds :
        \/ SweepOnly(now)
        \/ \E f \in Candidates(now) : Grant(w, f, now, seconds)
  BY DEF ClaimNextEvent
<1>2. CASE SweepOnly(now)
  <2>1. log'[e] = Swept(now)[e]
    BY <1>2 DEF SweepOnly
  <2> QED  BY <2>1, Sweep DEF IsBurial
<1>3. ASSUME NEW f \in Candidates(now), Grant(w, f, now, seconds)
      PROVE  log'[e] = log[e] \/ IsBurial(e) \/ IsGrant(e)
  <2>1. log' = [Swept(now) EXCEPT ![f] = Granted(Swept(now)[f], w, now, seconds)]
    BY <1>3 DEF Grant
  <2>2. CASE e = f
    <3>1. log'[e] = Granted(log[e], w, now, seconds) /\ Claimable(log[e], now)
      BY <2>1, <2>2, Sweep
    <3> QED  BY <3>1 DEF IsGrant
  <2>3. CASE e # f
    <3>1. log'[e] = Swept(now)[e]
      BY <2>1, <2>3, Sweep
    <3> QED  BY <3>1, Sweep DEF IsBurial
  <2> QED  BY <2>2, <2>3
<1> QED  BY <1>1, <1>2, <1>3

LEMMA EveryRowStep ==
  ASSUME TypeOK, [Next]_vars, NEW e \in Events
  PROVE  RowStep(e)
<1>1. CASE UNCHANGED vars \/ Tick
  BY <1>1 DEF vars, Tick, RowStep
<1>2. ASSUME NEW f \in Events, AppendEvent(f)
      PROVE  RowStep(e)
  BY <1>2 DEF AppendEvent, RowStep, IsAppend, TypeOK
<1>3. ASSUME NEW w \in Workers, ClaimNextEvent(w)
      PROVE  RowStep(e)
  BY <1>3, ClaimRows DEF RowStep
<1>4. ASSUME NEW w \in Workers, CommitEvent(w) \/ FailEvent(w)
      PROVE  RowStep(e)
  <2>1. AssertFence(w) /\ lease'[w] = NoLease
    BY <1>4 DEF CommitEvent, FailEvent, TypeOK
  <2>2. CASE lease[w].event = e
    <3>1. \/ log'[e] = Finalized(log[e])
          \/ \E now \in Readings, backoff \in Backoffs :
               log'[e] = Failed(log[e], now, backoff)
      BY <1>4, <2>2, ReadingsAreTimes DEF CommitEvent, FailEvent, TypeOK
    <3> QED  BY <2>1, <2>2, <3>1 DEF RowStep, IsFinish
  <2>3. CASE lease[w].event # e
    BY <1>4, <2>3 DEF CommitEvent, FailEvent, TypeOK, RowStep
  <2> QED  BY <2>2, <2>3
<1>5. ASSUME NEW w \in Workers, Heartbeat(w)
      PROVE  RowStep(e)
  <2>1. PICK now \in LeaseReadings(w), seconds \in LeaseSeconds :
          /\ log' = [log EXCEPT ![lease[w].event] =
                       Extended(log[lease[w].event], now, seconds)]
          /\ lease'[w] = [lease[w] EXCEPT !.expires = now + seconds,
                                          !.at = clock]
    BY <1>5 DEF Heartbeat, TypeOK
  <2>2. AssertFence(w) /\ now \in Readings
    BY <1>5, ReadingsAreTimes DEF Heartbeat
  <2>3. CASE lease[w].event = e
    <3>1. log'[e] = Extended(log[e], now, seconds)
      BY <2>1, <2>3 DEF TypeOK
    <3>2. IsRenewal(e)
      BY <2>1, <2>2, <2>3, <3>1 DEF IsRenewal
    <3> QED  BY <3>2 DEF RowStep
  <2>4. CASE lease[w].event # e
    BY <2>1, <2>4 DEF RowStep, TypeOK
  <2> QED  BY <2>3, <2>4
<1>6. ASSUME NEW w \in Workers, Crash(w)
      PROVE  RowStep(e)
  BY <1>6 DEF Crash, RowStep
<1> QED  BY <1>1, <1>2, <1>3, <1>4, <1>5, <1>6 DEF Next

-----------------------------------------------------------------------------
(* Type correctness.                                                       *)

LEMMA TypeInit == Init => TypeOK
<1>1. NoRow \in Row
  BY StatusTypes DEF NoRow, Row
<1> QED  BY <1>1 DEF Init, TypeOK

LEMMA RowType ==
  ASSUME TypeOK, NEW e \in Events, RowStep(e)
  PROVE  log'[e] \in Row
<1>1. log[e] \in Row
  BY DEF TypeOK
<1>2. /\ \A now \in Readings : now \in Nat
      /\ \A seconds \in LeaseSeconds : seconds \in Nat
      /\ \A backoff \in Backoffs : backoff \in Nat
      /\ \A budget \in Budgets : budget \in Nat
  BY ReadingsAreTimes, DurationsAssumption
<1>3. CASE IsAppend(e)
  BY <1>1, <1>2, <1>3, StatusTypes DEF IsAppend, Inserted, Fresh, Row
<1>4. CASE IsBurial(e)
  BY <1>1, <1>4, StatusTypes DEF IsBurial, Buried, Row
<1>5. CASE IsGrant(e) \/ IsFinish(e) \/ IsRenewal(e)
  <2>1. PICK w \in Workers, now \in Nat, n \in Nat :
          \/ log'[e] = Granted(log[e], w, now, n)
          \/ log'[e] = Finalized(log[e])
          \/ log'[e] = Failed(log[e], now, n)
          \/ log'[e] = Extended(log[e], now, n)
    BY <1>2, <1>5 DEF IsGrant, IsFinish, IsRenewal
  <2> QED  BY <1>1, <2>1, RowOperations
<1> QED  BY <1>1, <1>3, <1>4, <1>5 DEF RowStep

(* What one step may do to the lease one worker holds.                     *)
IsNewLease(w) ==
  \E e \in Events, now \in Readings, seconds \in LeaseSeconds :
    /\ Claimable(log[e], now)
    /\ log'[e] = Granted(log[e], w, now, seconds)
    /\ lease'[w] = [event |-> e, version |-> log'[e].version,
                    expires |-> now + seconds, at |-> clock]

IsRenewedLease(w) ==
  \E now \in Readings, seconds \in LeaseSeconds :
    /\ AssertFence(w)
    /\ log'[lease[w].event] = Extended(log[lease[w].event], now, seconds)
    /\ lease'[w] = [lease[w] EXCEPT !.expires = now + seconds, !.at = clock]

LeaseStep(w) ==
  \/ lease'[w] = lease[w]
  \/ lease'[w] = NoLease
  \/ IsNewLease(w)
  \/ IsRenewedLease(w)

LEMMA EveryLeaseStep ==
  ASSUME TypeOK, [Next]_vars, NEW u \in Workers
  PROVE  LeaseStep(u)
<1>1. CASE UNCHANGED vars \/ Tick \/ \E e \in Events : AppendEvent(e)
  BY <1>1 DEF vars, Tick, AppendEvent, LeaseStep
<1>2. ASSUME NEW w \in Workers, ClaimNextEvent(w)
      PROVE  LeaseStep(u)
  <2>1. PICK now \in Readings, seconds \in LeaseSeconds :
          \/ SweepOnly(now)
          \/ \E f \in Candidates(now) : Grant(w, f, now, seconds)
    BY <1>2 DEF ClaimNextEvent
  <2>2. CASE SweepOnly(now)
    BY <2>2 DEF SweepOnly, LeaseStep
  <2>3. ASSUME NEW f \in Candidates(now), Grant(w, f, now, seconds)
        PROVE  LeaseStep(u)
    <3>1. CASE u # w
      BY <2>3, <3>1 DEF Grant, LeaseStep, TypeOK
    <3>2. CASE u = w
      <4>1. /\ f \in Events /\ Claimable(log[f], now)
            /\ log'[f] = Granted(log[f], w, now, seconds)
        BY <2>3, Sweep DEF Grant
      <4>2. lease'[w] = [event |-> f, version |-> log'[f].version,
                         expires |-> now + seconds, at |-> clock]
        BY <2>3 DEF Grant, TypeOK
      <4> QED  BY <3>2, <4>1, <4>2 DEF LeaseStep, IsNewLease
    <3> QED  BY <3>1, <3>2
  <2> QED  BY <2>1, <2>2, <2>3
<1>3. ASSUME NEW w \in Workers, CommitEvent(w) \/ FailEvent(w) \/ Crash(w)
      PROVE  LeaseStep(u)
  BY <1>3 DEF CommitEvent, FailEvent, Crash, LeaseStep, TypeOK
<1>4. ASSUME NEW w \in Workers, Heartbeat(w)
      PROVE  LeaseStep(u)
  <2>1. PICK now \in LeaseReadings(w), seconds \in LeaseSeconds :
          /\ log' = [log EXCEPT ![lease[w].event] =
                       Extended(log[lease[w].event], now, seconds)]
          /\ lease' = [lease EXCEPT ![w].expires = now + seconds,
                                    ![w].at = clock]
    BY <1>4 DEF Heartbeat
  <2>2. AssertFence(w) /\ now \in Readings
    BY <1>4, ReadingsAreTimes DEF Heartbeat
  <2>3. CASE u # w
    BY <2>1, <2>3 DEF LeaseStep, TypeOK
  <2>4. CASE u = w
    <3>1. lease[w].event \in Events
      BY <2>2 DEF AssertFence, TypeOK, Lease
    <3>2. lease'[w] = [lease[w] EXCEPT !.expires = now + seconds, !.at = clock]
      BY <2>1 DEF TypeOK
    <3>3. log'[lease[w].event] = Extended(log[lease[w].event], now, seconds)
      BY <2>1, <3>1 DEF TypeOK
    <3> QED  BY <2>2, <2>4, <3>2, <3>3 DEF LeaseStep, IsRenewedLease
  <2> QED  BY <2>3, <2>4
<1> QED  BY <1>1, <1>2, <1>3, <1>4 DEF Next

LEMMA ClockStep ==
  ASSUME TypeOK, [Next]_vars
  PROVE  clock' \in Nat /\ clock <= clock'
<1>1. CASE UNCHANGED vars
  BY <1>1 DEF vars, TypeOK
<1>2. CASE Tick
  BY <1>2 DEF Tick, TypeOK
<1>3. CASE \E e \in Events : AppendEvent(e)
  BY <1>3 DEF AppendEvent, TypeOK
<1>4. ASSUME NEW w \in Workers,
             \/ ClaimNextEvent(w) \/ CommitEvent(w) \/ FailEvent(w)
             \/ Heartbeat(w) \/ Crash(w)
      PROVE  clock' \in Nat /\ clock <= clock'
  BY <1>4 DEF ClaimNextEvent, CommitEvent, FailEvent, Heartbeat, Crash, TypeOK
<1> QED  BY <1>1, <1>2, <1>3, <1>4 DEF Next

LEMMA TypeStep ==
  ASSUME TypeOK, [Next]_vars
  PROVE  TypeOK'
<1>1. ASSUME NEW e \in Events
      PROVE  log'[e] \in Row
  BY EveryRowStep, RowType
<1>2. ASSUME NEW w \in Workers
      PROVE  lease'[w] \in Lease \cup {NoLease}
  <2>1. CASE lease'[w] = lease[w] \/ lease'[w] = NoLease
    BY <2>1 DEF TypeOK
  <2>2. CASE IsNewLease(w)
    <3>1. PICK e \in Events, now \in Readings, seconds \in LeaseSeconds :
            lease'[w] = [event |-> e, version |-> log'[e].version,
                         expires |-> now + seconds, at |-> clock]
      BY <2>2 DEF IsNewLease
    <3>2. log'[e].version \in Nat
      BY <1>1 DEF Row
    <3>3. now + seconds \in Int /\ clock \in Nat
      BY ReadingsAreTimes, DurationsAssumption DEF TypeOK
    <3> QED  BY <3>1, <3>2, <3>3 DEF Lease
  <2>3. CASE IsRenewedLease(w)
    <3>1. PICK now \in Readings, seconds \in LeaseSeconds :
            lease'[w] = [lease[w] EXCEPT !.expires = now + seconds, !.at = clock]
      BY <2>3 DEF IsRenewedLease
    <3>2. lease[w] \in Lease
      BY <2>3 DEF IsRenewedLease, AssertFence, TypeOK
    <3>3. now + seconds \in Int /\ clock \in Nat
      BY ReadingsAreTimes, DurationsAssumption DEF TypeOK
    <3> QED  BY <3>1, <3>2, <3>3 DEF Lease
  <2> QED  BY <2>1, <2>2, <2>3, EveryLeaseStep DEF LeaseStep
<1>3. /\ DOMAIN log' = Events /\ log' = [e \in Events |-> log'[e]]
      /\ DOMAIN lease' = Workers /\ lease' = [w \in Workers |-> lease'[w]]
  <2>1. CASE UNCHANGED vars \/ Tick
    BY <2>1 DEF vars, Tick, TypeOK
  <2>2. CASE \E e \in Events : AppendEvent(e)
    BY <2>2 DEF AppendEvent, TypeOK
  <2>3. ASSUME NEW w \in Workers, ClaimNextEvent(w)
        PROVE  <1>3
    BY <2>3, Sweep DEF ClaimNextEvent, SweepOnly, Grant, TypeOK
  <2>4. ASSUME NEW w \in Workers,
               CommitEvent(w) \/ FailEvent(w) \/ Heartbeat(w) \/ Crash(w)
        PROVE  <1>3
    BY <2>4 DEF CommitEvent, FailEvent, Heartbeat, Crash, TypeOK
  <2> QED  BY <2>1, <2>2, <2>3, <2>4 DEF Next
<1> QED  BY <1>1, <1>2, <1>3, ClockStep DEF TypeOK

(* Spec keeps the log, the leases and the clock well typed.                *)
THEOREM TypeCorrect == Spec => []TypeOK
<1>1. TypeOK /\ [Next]_vars => TypeOK'
  BY TypeStep
<1> QED  BY <1>1, TypeInit, PTL DEF Spec

-----------------------------------------------------------------------------
(* The columns of a row agree with its status.                             *)

LEMMA RowSoundStep ==
  ASSUME TypeOK, NEW e \in Events, RowSound(log[e]), RowStep(e)
  PROVE  RowSound(log'[e])
<1> DEFINE r == log[e]
<1>1. r \in Row /\ RowSound(r) /\ clock \in Nat
  BY DEF TypeOK
<1>2. /\ \A now \in Readings : now \in Nat
      /\ \A seconds \in LeaseSeconds : seconds \in Nat
      /\ \A budget \in Budgets : budget \in Nat /\ budget > 0
  BY ReadingsAreTimes, DurationsAssumption
<1>3. CASE IsAppend(e)
  BY <1>1, <1>2, <1>3
  DEF IsAppend, Inserted, Fresh, RowSound, Waiting, NoTime
<1>4. CASE IsBurial(e)
  <2>1. PICK now \in Readings : Exhausted(r, now) /\ log'[e] = Buried(r)
    BY <1>4 DEF IsBurial
  <2>2. r.status # "ABSENT" /\ r.attempts = r.budget
    BY <1>1, <2>1 DEF Exhausted, RowSound, Waiting, Row
  <2> QED  BY <1>1, <2>1, <2>2 DEF Buried, RowSound, Waiting, Row
<1>5. CASE IsGrant(e)
  <2>1. PICK w \in Workers, now \in Readings, seconds \in LeaseSeconds :
          Claimable(r, now) /\ log'[e] = Granted(r, w, now, seconds)
    BY <1>5 DEF IsGrant
  <2>2. r.status # "ABSENT" /\ r.attempts < r.budget
    BY <2>1 DEF Claimable, Waiting
  <2>3. now + seconds >= 0
    BY <1>2
  <2> QED  BY <1>1, <2>1, <2>2, <2>3 DEF Granted, RowSound, Waiting, Row
<1>6. CASE IsFinish(e)
  <2>1. r.status = "PROCESSING"
    BY <1>6 DEF IsFinish, AssertFence, FenceHolds
  <2>2. CASE log'[e] = Finalized(r)
    BY <1>1, <2>1, <2>2 DEF Finalized, RowSound, Waiting, Row
  <2>3. ASSUME NEW now \in Readings, NEW b \in Backoffs,
               log'[e] = Failed(r, now, b)
        PROVE  RowSound(log'[e])
    BY <1>1, <2>1, <2>3 DEF Failed, RowSound, Waiting, Row
  <2> QED  BY <1>6, <2>2, <2>3 DEF IsFinish
<1>7. CASE IsRenewal(e)
  <2>1. PICK now \in Readings, seconds \in LeaseSeconds :
          log'[e] = Extended(r, now, seconds)
    BY <1>7 DEF IsRenewal
  <2>2. r.status = "PROCESSING"
    BY <1>7 DEF IsRenewal, AssertFence, FenceHolds
  <2>3. now + seconds >= 0
    BY <1>2
  <2> QED  BY <1>1, <2>1, <2>2, <2>3 DEF Extended, RowSound, Waiting, Row
<1> QED  BY <1>1, <1>3, <1>4, <1>5, <1>6, <1>7 DEF RowStep

RowInv == TypeOK /\ RowsSound

LEMMA RowInvariant == Spec => []RowInv
<1>1. Init => RowInv
  BY TypeInit DEF Init, RowInv, RowsSound, RowSound, NoRow, Waiting
<1>2. RowInv /\ [Next]_vars => RowInv'
  BY TypeStep, EveryRowStep, RowSoundStep DEF RowInv, RowsSound
<1> QED  BY <1>1, <1>2, PTL DEF Spec

(* The columns of every row agree with each other; in particular a row     *)
(* that waits for a worker always has an attempt left.                     *)
THEOREM RowsStaySound == Spec => []RowsSound
<1>1. RowInv => RowsSound
  BY DEF RowInv
<1> QED  BY <1>1, RowInvariant, PTL

(* No event is attempted more often than its budget, and each attempt is a *)
(* generation of its own (INV-029).                                        *)
THEOREM AttemptsBounded == Spec => []BoundedAttempts
<1>1. RowInv => BoundedAttempts
  BY DEF RowInv, RowsSound, RowSound, BoundedAttempts
<1> QED  BY <1>1, RowInvariant, PTL

-----------------------------------------------------------------------------
(* Workers' views of their leases, and exclusivity.                        *)

(* A worker whose lease is not touched by the step.                        *)
LEMMA BystanderView ==
  ASSUME TypeOK, RowsSound, [Next]_vars, NEW u \in Workers, ViewSound(u),
         lease'[u] = lease[u]
  PROVE  ViewSound(u)'
<1> SUFFICES ASSUME lease[u] # NoLease
             PROVE  ViewSound(u)'
  BY DEF ViewSound
<1> DEFINE l == lease[u]
           e == l.event
           r == log[e]
<1>1. /\ l \in Lease /\ e \in Events /\ r \in Row /\ RowSound(r)
      /\ clock \in Nat /\ clock' \in Nat /\ clock <= clock'
  BY ClockStep DEF TypeOK, RowsSound, Lease
<1>2. /\ l.version \in Nat /\ l.expires \in Int
      /\ r.version \in Nat /\ r.expires \in Int /\ r.attempts \in Nat
  BY <1>1 DEF Lease, Row
<1>3. IF l.version = r.version
        THEN \/ r.status = "PROCESSING" /\ r.owner = u /\ r.expires = l.expires
             \/ r.status = "DEAD_LETTER" /\ l.expires <= clock
        ELSE l.version < r.version /\ l.expires <= clock
  BY DEF ViewSound
<1> DEFINE Goal == IF l.version = log'[e].version
                     THEN \/ /\ log'[e].status = "PROCESSING"
                             /\ log'[e].owner = u /\ log'[e].expires = l.expires
                          \/ /\ log'[e].status = "DEAD_LETTER"
                             /\ l.expires <= clock'
                     ELSE l.version < log'[e].version /\ l.expires <= clock'
<1> SUFFICES Goal
  BY DEF ViewSound
<1>4. CASE log'[e] = r
  BY <1>1, <1>2, <1>3, <1>4
<1>5. CASE IsAppend(e)
  <2>1. r.status # "ABSENT"
    BY <1>1, <1>2, <1>3 DEF RowSound
  <2> QED  BY <1>4, <1>5, <2>1 DEF IsAppend, Inserted
<1>6. CASE IsBurial(e)
  <2>1. PICK now \in Readings : Exhausted(r, now) /\ log'[e] = Buried(r)
    BY <1>6 DEF IsBurial
  <2>2. now \in Nat /\ now <= clock
    BY ReadingsAreTimes
  <2>3. log'[e].version = r.version /\ log'[e].status = "DEAD_LETTER"
    BY <1>1, <2>1 DEF Buried, Row
  <2>4. l.expires <= clock'
    BY <1>1, <1>2, <1>3, <2>1, <2>2 DEF Exhausted, NoTime
  <2> QED  BY <1>2, <1>3, <2>3, <2>4
<1>7. CASE IsGrant(e)
  <2>1. PICK w \in Workers, now \in Readings, seconds \in LeaseSeconds :
          Claimable(r, now) /\ log'[e] = Granted(r, w, now, seconds)
    BY <1>7 DEF IsGrant
  <2>2. now \in Nat /\ now <= clock
    BY ReadingsAreTimes
  <2>3. log'[e].version = r.version + 1
    BY <1>1, <2>1 DEF Granted, Row
  <2>4. l.version < log'[e].version
    BY <1>2, <1>3, <2>3
  <2>5. l.expires <= clock'
    BY <1>1, <1>2, <1>3, <2>1, <2>2 DEF Claimable, Waiting
  <2> QED  BY <1>2, <2>4, <2>5
<1>8. CASE IsFinish(e)
  <2>1. PICK w \in Workers :
          /\ AssertFence(w) /\ lease[w].event = e /\ lease'[w] = NoLease
          /\ \/ log'[e] = Finalized(r)
             \/ \E now \in Readings, b \in Backoffs : log'[e] = Failed(r, now, b)
    BY <1>8 DEF IsFinish
  <2>2. log'[e].version = r.version
    BY <1>1, <2>1 DEF Finalized, Failed, Row
  <2>3. r.status = "PROCESSING" /\ r.owner = w /\ w # u
    BY <2>1 DEF AssertFence, FenceHolds
  <2> QED  BY <1>1, <1>2, <1>3, <2>2, <2>3
<1>9. CASE IsRenewal(e)
  <2>1. PICK w \in Workers, now \in Readings, seconds \in LeaseSeconds :
          /\ AssertFence(w) /\ lease[w].event = e
          /\ log'[e] = Extended(r, now, seconds)
          /\ lease'[w] = [lease[w] EXCEPT !.expires = now + seconds, !.at = clock]
    BY <1>9 DEF IsRenewal
  <2>2. /\ log'[e].version = r.version /\ log'[e].status = r.status
        /\ log'[e].owner = r.owner /\ log'[e].expires = now + seconds
    BY <1>1, <2>1 DEF Extended, Row
  <2>3. /\ r.status = "PROCESSING" /\ r.owner = w
        /\ lease[w].version = r.version
    BY <2>1 DEF AssertFence, FenceHolds
  <2>4. CASE w = u
    <3>1. l.expires = now + seconds
      BY <1>1, <2>1, <2>4 DEF Lease
    <3> QED  BY <2>2, <2>3, <2>4, <3>1
  <2>5. CASE w # u
    BY <1>1, <1>2, <1>3, <2>2, <2>3, <2>5
  <2> QED  BY <2>4, <2>5
<1> QED  BY <1>1, <1>4, <1>5, <1>6, <1>7, <1>8, <1>9, EveryRowStep DEF RowStep

LEMMA ViewStep ==
  ASSUME TypeOK, RowsSound, [Next]_vars, NEW u \in Workers, ViewSound(u)
  PROVE  ViewSound(u)'
<1>1. CASE lease'[u] = lease[u]
  BY <1>1, BystanderView
<1>2. CASE lease'[u] = NoLease
  BY <1>2 DEF ViewSound
<1>3. CASE IsNewLease(u)
  <2>1. PICK e \in Events, now \in Readings, seconds \in LeaseSeconds :
          /\ log'[e] = Granted(log[e], u, now, seconds)
          /\ lease'[u] = [event |-> e, version |-> log'[e].version,
                          expires |-> now + seconds, at |-> clock]
    BY <1>3 DEF IsNewLease
  <2>2. log[e] \in Row
    BY DEF TypeOK
  <2>3. /\ log'[e].status = "PROCESSING" /\ log'[e].owner = u
        /\ log'[e].expires = now + seconds
    BY <2>1, <2>2 DEF Granted, Row
  <2> QED  BY <2>1, <2>3 DEF ViewSound
<1>4. CASE IsRenewedLease(u)
  <2>1. PICK now \in Readings, seconds \in LeaseSeconds :
          /\ AssertFence(u)
          /\ log'[lease[u].event] = Extended(log[lease[u].event], now, seconds)
          /\ lease'[u] = [lease[u] EXCEPT !.expires = now + seconds, !.at = clock]
    BY <1>4 DEF IsRenewedLease
  <2>2. lease[u] \in Lease /\ log[lease[u].event] \in Row
    BY <2>1 DEF AssertFence, TypeOK, Lease
  <2>3. /\ lease'[u].event = lease[u].event
        /\ lease'[u].version = lease[u].version
        /\ lease'[u].expires = now + seconds
    BY <2>1, <2>2 DEF Lease
  <2> DEFINE r == log'[lease[u].event]
  <2>4. /\ r.status = "PROCESSING" /\ r.owner = u
        /\ r.version = lease[u].version /\ r.expires = now + seconds
    BY <2>1, <2>2 DEF AssertFence, FenceHolds, Extended, Row
  <2> QED  BY <2>3, <2>4 DEF ViewSound
<1> QED  BY <1>1, <1>2, <1>3, <1>4, EveryLeaseStep DEF LeaseStep

(* The inductive invariant.                                                *)
IInv == TypeOK /\ RowsSound /\ LeaseViewSound

LEMMA Invariance == Spec => []IInv
<1>1. Init => LeaseViewSound
  BY DEF Init, LeaseViewSound, ViewSound
<1>2. IInv /\ [Next]_vars => LeaseViewSound'
  BY ViewStep DEF IInv, LeaseViewSound
<1>3. IInv <=> RowInv /\ LeaseViewSound
  BY DEF IInv, RowInv
<1> QED  BY <1>1, <1>2, <1>3, RowInvariant, PTL DEF Spec

(* What a worker believes of its lease is true until it is overtaken, and  *)
(* when it is overtaken its own expiry has passed.                         *)
THEOREM ViewsAreSound == Spec => []LeaseViewSound
<1>1. IInv => LeaseViewSound
  BY DEF IInv
<1> QED  BY <1>1, Invariance, PTL

(* No two workers hold unexpired leases on one event (INV-026).            *)
THEOREM Exclusive == Spec => []ExclusiveLease
<1>1. IInv => ExclusiveLease
  <2> SUFFICES ASSUME IInv, NEW v \in Workers, NEW w \in Workers, v # w,
                      lease[v] # NoLease, lease[w] # NoLease,
                      lease[v].event = lease[w].event,
                      ~(lease[v].expires <= clock), ~(lease[w].expires <= clock)
               PROVE  FALSE
    BY DEF ExclusiveLease
  <2>1. log[lease[v].event].owner = v /\ log[lease[w].event].owner = w
    BY DEF IInv, LeaseViewSound, ViewSound
  <2> QED  BY <2>1
<1> QED  BY <1>1, Invariance, PTL

-----------------------------------------------------------------------------
(* What a step may never do.                                               *)

(* An event is committed or failed only under the newest generation, by    *)
(* the worker that holds it, before it expires (INV-028).                  *)
THEOREM Fenced == Spec => FencedFinalization
<1> DEFINE Ok(e) ==
      log[e].status = "PROCESSING" /\ log'[e].status \in {"COMMITTED", "FAILED"}
      => \E w \in Workers : /\ lease[w] # NoLease
                            /\ lease[w].event = e
                            /\ lease[w].version = log[e].version
                            /\ lease[w].expires > clock
<1>1. ASSUME IInv, [Next]_vars, NEW e \in Events
      PROVE  Ok(e)
  <2> SUFFICES ASSUME log[e].status = "PROCESSING",
                      log'[e].status \in {"COMMITTED", "FAILED"}
               PROVE  \E w \in Workers : /\ lease[w] # NoLease
                                         /\ lease[w].event = e
                                         /\ lease[w].version = log[e].version
                                         /\ lease[w].expires > clock
    OBVIOUS
  <2>1. log[e] \in Row
    BY <1>1 DEF IInv, TypeOK
  <2>2. RowStep(e)
    BY <1>1, EveryRowStep DEF IInv
  <2>3. /\ log'[e] # log[e] /\ ~IsAppend(e)
        /\ ~IsBurial(e) /\ ~IsGrant(e) /\ ~IsRenewal(e)
    BY <2>1 DEF IsAppend, IsBurial, IsGrant, IsRenewal, Inserted, Buried,
                Granted, Extended, Row
  <2>4. PICK w \in Workers : AssertFence(w) /\ lease[w].event = e
    BY <2>2, <2>3 DEF RowStep, IsFinish
  <2>5. lease[w] # NoLease /\ lease[w].version = log[e].version
    BY <2>4 DEF AssertFence, FenceHolds
  <2>6. lease[w].expires = log[e].expires /\ log[e].expires > clock
    BY <1>1, <2>4, <2>5 DEF IInv, LeaseViewSound, ViewSound, AssertFence, FenceHolds
  <2> QED  BY <2>4, <2>5, <2>6
<1>2. IInv /\ [Next]_vars => [\A e \in Events : Ok(e)]_vars
  BY <1>1
<1> QED  BY <1>2, Invariance, PTL DEF Spec, FencedFinalization

(* COMMITTED and DEAD_LETTER are final, whatever is appended or claimed.   *)
THEOREM TerminalStays == Spec => TerminalIsFinal
<1>1. ASSUME TypeOK, [Next]_vars, NEW e \in Events, log[e].status \in Terminal
      PROVE  log'[e] = log[e]
  <2>1. RowStep(e)
    BY <1>1, EveryRowStep
  <2> QED
    BY <1>1, <2>1
    DEF RowStep, IsAppend, IsBurial, IsGrant, IsFinish, IsRenewal, Inserted,
        Exhausted, Claimable, AssertFence, FenceHolds, Terminal, Waiting
<1>2. TypeOK /\ [Next]_vars
      => [\A e \in Events : log[e].status \in Terminal => log'[e] = log[e]]_vars
  BY <1>1
<1> QED  BY <1>2, TypeCorrect, PTL DEF Spec, TerminalIsFinal

(* No event is handed out before its backoff has elapsed.                  *)
THEOREM BackoffKept == Spec => BackoffRespected
<1> DEFINE Ok(e) ==
      log'[e].version # log[e].version /\ log[e].status = "FAILED"
      => log[e].next <= clock
<1>1. ASSUME TypeOK, [Next]_vars, NEW e \in Events
      PROVE  Ok(e)
  <2>1. log[e] \in Row /\ clock \in Nat
    BY <1>1 DEF TypeOK
  <2>2. RowStep(e)
    BY <1>1, EveryRowStep
  <2>3. CASE IsGrant(e)
    <3>1. PICK now \in Readings : Claimable(log[e], now)
      BY <2>3 DEF IsGrant
    <3>2. now \in Nat /\ now <= clock
      BY <1>1, ReadingsAreTimes
    <3> QED  BY <2>1, <3>1, <3>2 DEF Claimable, Row
  <2>4. CASE ~IsGrant(e)
    BY <2>1, <2>2, <2>4
    DEF RowStep, IsAppend, IsBurial, IsFinish, IsRenewal, Inserted, Buried,
        Finalized, Failed, Extended, Row
  <2> QED  BY <2>3, <2>4
<1>2. TypeOK /\ [Next]_vars => [\A e \in Events : Ok(e)]_vars
  BY <1>1
<1> QED  BY <1>2, TypeCorrect, PTL DEF Spec, BackoffRespected

(* Nothing is dead-lettered early, or under the live lease of another.     *)
THEOREM BuriedInTime == Spec => NoEarlyBurial
<1> DEFINE Ok(e) ==
      log[e].status # "DEAD_LETTER" /\ log'[e].status = "DEAD_LETTER"
      => /\ log[e].attempts = log[e].budget
         /\ log[e].expires > clock =>
              \E w \in Workers : /\ lease[w] # NoLease
                                 /\ lease[w].event = e
                                 /\ lease'[w] = NoLease
<1>1. ASSUME RowInv, [Next]_vars, NEW e \in Events
      PROVE  Ok(e)
  <2> DEFINE r == log[e]
  <2> SUFFICES ASSUME r.status # "DEAD_LETTER", log'[e].status = "DEAD_LETTER"
               PROVE  /\ r.attempts = r.budget
                      /\ r.expires > clock =>
                           \E w \in Workers : /\ lease[w] # NoLease
                                              /\ lease[w].event = e
                                              /\ lease'[w] = NoLease
    OBVIOUS
  <2>1. r \in Row /\ RowSound(r) /\ clock \in Nat
    BY <1>1 DEF RowInv, RowsSound, TypeOK
  <2>2. RowStep(e)
    BY <1>1, EveryRowStep DEF RowInv
  <2>3. /\ log'[e] # r /\ ~IsAppend(e)
        /\ ~IsGrant(e) /\ ~IsRenewal(e)
    <3>1. \A now \in Readings, budget \in Budgets :
            Inserted(r, now, budget).status # "DEAD_LETTER"
      <4>1. \A now \in Readings, budget \in Budgets :
              Fresh(now, budget).status = "PENDING"
        BY DEF Fresh
      <4> QED  BY <4>1 DEF Inserted
    <3>a. ~IsAppend(e)
      BY <3>1 DEF IsAppend
    <3>2. ~IsGrant(e)
      BY <2>1 DEF IsGrant, Granted, Row
    <3>3. ~IsRenewal(e)
      BY <2>1 DEF IsRenewal, Extended, Row
    <3>4. log'[e] # r
      OBVIOUS
    <3> QED  BY <3>a, <3>2, <3>3, <3>4
  <2>4. CASE IsBurial(e)
    <3>1. PICK now \in Readings : Exhausted(r, now)
      BY <2>4 DEF IsBurial
    <3>2. now \in Nat /\ now <= clock
      BY <1>1, ReadingsAreTimes DEF RowInv
    <3>3. r.attempts = r.budget /\ r.status = "PROCESSING"
      BY <2>1, <3>1 DEF Exhausted, RowSound, Row
    <3>4. ~(r.expires > clock)
      BY <2>1, <3>1, <3>2, <3>3 DEF Exhausted, NoTime, Row
    <3> QED  BY <3>3, <3>4
  <2>5. CASE IsFinish(e)
    <3>1. PICK w \in Workers :
            /\ AssertFence(w) /\ lease[w].event = e /\ lease'[w] = NoLease
            /\ \/ log'[e] = Finalized(r)
               \/ \E now \in Readings, b \in Backoffs : log'[e] = Failed(r, now, b)
      BY <2>5 DEF IsFinish
    <3>2. \E now \in Readings, b \in Backoffs : log'[e] = Failed(r, now, b)
      BY <2>1, <3>1 DEF Finalized, Row
    <3>3. r.attempts >= r.budget
      BY <2>1, <3>2 DEF Failed, Row
    <3>4. r.attempts = r.budget
      BY <2>1, <3>3 DEF RowSound, Row
    <3> QED  BY <3>1, <3>4 DEF AssertFence
  <2> QED  BY <2>2, <2>3, <2>4, <2>5 DEF RowStep
<1>2. RowInv /\ [Next]_vars => [\A e \in Events : Ok(e)]_vars
  BY <1>1
<1> QED  BY <1>2, RowInvariant, PTL DEF Spec, NoEarlyBurial

-----------------------------------------------------------------------------
(* The event log implements the fenced work table.                         *)

LEMMA SeenMoves ==
  ASSUME TypeOK, NEW e \in Events, RowSound(log[e]), RowStep(e)
  PROVE  Work!Moves(Seen(log[e]), Seen(log'[e]))
<1> DEFINE r == log[e]
<1> USE DEF Seen, Phase, Work!Moves
<1>1. r \in Row /\ RowSound(r)
  BY DEF TypeOK
<1>2. CASE log'[e] = r
  BY <1>2
<1>3. CASE IsAppend(e)
  <2>1. PICK now \in Readings, budget \in Budgets : log'[e] = Inserted(r, now, budget)
    BY <1>3 DEF IsAppend
  <2>2. CASE r.status = "ABSENT"
    <3>1. budget > 0
      BY DurationsAssumption
    <3> QED
      BY <2>1, <2>2, <3>1 DEF Inserted, Fresh, Work!Add, Waiting
  <2>3. CASE r.status # "ABSENT"
    BY <1>2, <2>1, <2>3 DEF Inserted
  <2> QED  BY <2>2, <2>3
<1>4. CASE IsBurial(e)
  <2>1. PICK now \in Readings : Exhausted(r, now) /\ log'[e] = Buried(r)
    BY <1>4 DEF IsBurial
  <2>2. r.status = "PROCESSING" /\ r.version = r.budget
    BY <1>1, <2>1 DEF Exhausted, RowSound, Row
  <2>3. /\ log'[e].status = "DEAD_LETTER" /\ log'[e].version = r.version
        /\ log'[e].budget = r.budget
    BY <1>1, <2>1 DEF Buried, Row
  <2> QED  BY <2>2, <2>3 DEF Work!GiveUp, Work!Keeps, Waiting
<1>5. CASE IsGrant(e)
  <2>1. PICK w \in Workers, now \in Readings, seconds \in LeaseSeconds :
          Claimable(r, now) /\ log'[e] = Granted(r, w, now, seconds)
    BY <1>5 DEF IsGrant
  <2>2. r.status \in Waiting \cup {"PROCESSING"} /\ r.version < r.budget
    BY <1>1, <2>1 DEF Claimable, RowSound
  <2>3. /\ log'[e].status = "PROCESSING" /\ log'[e].version = r.version + 1
        /\ log'[e].budget = r.budget
    BY <1>1, <2>1 DEF Granted, Row
  <2> QED  BY <2>2, <2>3 DEF Work!Take, Waiting
<1>6. CASE IsFinish(e)
  <2>1. r.status = "PROCESSING"
    BY <1>6 DEF IsFinish, AssertFence, FenceHolds
  <2>2. CASE log'[e] = Finalized(r)
    <3>1. /\ log'[e].status = "COMMITTED" /\ log'[e].version = r.version
          /\ log'[e].budget = r.budget
      BY <1>1, <2>2 DEF Finalized, Row
    <3> QED  BY <2>1, <3>1 DEF Work!Finish, Work!Keeps, Waiting
  <2>3. ASSUME NEW now \in Readings, NEW b \in Backoffs, log'[e] = Failed(r, now, b)
        PROVE  Work!Moves(Seen(r), Seen(log'[e]))
    <3>1. /\ log'[e].version = r.version /\ log'[e].budget = r.budget
          /\ log'[e].status = IF r.attempts >= r.budget THEN "DEAD_LETTER"
                                                        ELSE "FAILED"
      BY <1>1, <2>3 DEF Failed, Row
    <3>2. CASE r.attempts >= r.budget
      <4>1. r.version = r.budget
        BY <1>1, <3>2 DEF RowSound, Row
      <4> QED
        BY <2>1, <3>1, <3>2, <4>1 DEF Work!GiveUp, Work!Keeps, Waiting
    <3>3. CASE ~(r.attempts >= r.budget)
      <4>1. r.version < r.budget
        BY <1>1, <3>3 DEF RowSound, Row
      <4> QED
        BY <2>1, <3>1, <3>3, <4>1 DEF Work!Return, Work!Keeps, Waiting
    <3> QED  BY <3>2, <3>3
  <2> QED  BY <1>6, <2>2, <2>3 DEF IsFinish
<1>7. CASE IsRenewal(e)
  <2>1. PICK now \in Readings, seconds \in LeaseSeconds :
          log'[e] = Extended(r, now, seconds)
    BY <1>7 DEF IsRenewal
  <2>2. /\ log'[e].status = r.status /\ log'[e].version = r.version
        /\ log'[e].budget = r.budget
    BY <1>1, <2>1 DEF Extended, Row
  <2> QED  BY <2>2
<1> QED  BY <1>2, <1>3, <1>4, <1>5, <1>6, <1>7 DEF RowStep

(* A step serves at most one event: the one that is claimed, or the one    *)
(* whose lease is finalized.                                               *)
Serves(e) == Work!Served(Seen(log[e]), Seen(log'[e]))

LEMMA ServesOnlyLive ==
  ASSUME TypeOK, NEW e \in Events, Serves(e)
  PROVE  /\ log'[e] # log[e]
         /\ ~IsAppend(e) /\ ~IsBurial(e)
<1>1. log[e] \in Row
  BY DEF TypeOK
<1>2. log'[e] # log[e]
  <2> SUFFICES ASSUME log'[e] = log[e] PROVE FALSE
    OBVIOUS
  <2>1. CASE Work!Take(Seen(log[e]), Seen(log'[e]))
    <3>1. Seen(log'[e]).gen = Seen(log[e]).gen + 1
      BY <2>1 DEF Work!Take
    <3>2. log[e].version = log[e].version + 1
      BY <3>1 DEF Seen
    <3> QED  BY <1>1, <3>2 DEF Row
  <2>2. CASE Work!Finish(Seen(log[e]), Seen(log'[e]))
    BY <2>2 DEF Work!Finish
  <2> QED  BY <2>1, <2>2 DEF Serves, Work!Served
<1>3. ~IsAppend(e)
  BY <1>1, <1>2 DEF IsAppend, Inserted, Fresh, Serves, Work!Served, Work!Take,
                    Work!Finish, Seen, Phase, Waiting
<1>4. ~IsBurial(e)
  <2> SUFFICES ASSUME IsBurial(e) PROVE FALSE
    OBVIOUS
  <2>1. log'[e].status = "DEAD_LETTER"
    BY <1>1 DEF IsBurial, Buried, Row
  <2> QED  BY <2>1 DEF Serves, Work!Served, Work!Take, Work!Finish, Seen, Phase,
                       Waiting
<1> QED  BY <1>2, <1>3, <1>4

LEMMA ServesOne ==
  ASSUME TypeOK, [Next]_vars, NEW e \in Events, NEW f \in Events,
         Serves(e), Serves(f)
  PROVE  e = f
<1>1. CASE UNCHANGED vars \/ Tick
  BY <1>1, ServesOnlyLive DEF vars, Tick
<1>2. ASSUME NEW g \in Events, AppendEvent(g)
      PROVE  e = f
  <2>1. e = g /\ f = g
    BY <1>2, ServesOnlyLive DEF AppendEvent, TypeOK
  <2> QED  BY <2>1
<1>3. ASSUME NEW w \in Workers, ClaimNextEvent(w)
      PROVE  e = f
  <2>1. PICK now \in Readings, seconds \in LeaseSeconds :
          \/ SweepOnly(now)
          \/ \E g \in Candidates(now) : Grant(w, g, now, seconds)
    BY <1>3 DEF ClaimNextEvent
  <2>2. ASSUME NEW h \in Events, log'[h] = Swept(now)[h]
        PROVE  ~Serves(h)
    BY <2>2, Sweep, ServesOnlyLive DEF IsBurial
  <2>3. CASE SweepOnly(now)
    BY <2>2, <2>3 DEF SweepOnly
  <2>4. ASSUME NEW g \in Candidates(now), Grant(w, g, now, seconds)
        PROVE  e = f
    <3>1. \A h \in Events : h # g => log'[h] = Swept(now)[h]
      BY <2>4, Sweep DEF Grant
    <3>2. e = g /\ f = g
      BY <2>2, <3>1
    <3> QED  BY <3>2
  <2> QED  BY <2>1, <2>3, <2>4
<1>4. ASSUME NEW w \in Workers,
             CommitEvent(w) \/ FailEvent(w) \/ Heartbeat(w) \/ Crash(w)
      PROVE  e = f
  <2>1. \A h \in Events : h # lease[w].event => log'[h] = log[h]
    BY <1>4 DEF CommitEvent, FailEvent, Heartbeat, Crash, TypeOK
  <2>2. e = lease[w].event /\ f = lease[w].event
    BY <2>1, ServesOnlyLive
  <2> QED  BY <2>2
<1> QED  BY <1>1, <1>2, <1>3, <1>4 DEF Next

LEMMA WorkStep ==
  ASSUME RowInv, [Next]_vars
  PROVE  Work!Next
<1>1. \A e \in Events : Work!Moves(Seen(log[e]), Seen(log'[e]))
  BY SeenMoves, EveryRowStep DEF RowInv, RowsSound
<1>2. \A e, f \in Events : Serves(e) /\ Serves(f) => e = f
  BY ServesOne DEF RowInv
<1> QED  BY <1>1, <1>2 DEF Work!Next, Serves

(* Claims, failures and commits, whatever their interleaving and whatever  *)
(* clock readings they carry, are the steps of the abstract work table.    *)
THEOREM Implements == Spec => ImplementsFencedWork
<1>1. Init => Work!Init
  <2>1. Seen(NoRow) = [phase |-> "absent", gen |-> 0, budget |-> 0]
    <3>1. /\ NoRow.status = "ABSENT" /\ NoRow.version = 0
          /\ NoRow.budget = 0
      BY DEF NoRow
    <3> QED  BY <3>1 DEF Seen, Phase, Waiting
  <2>2. Init => [e \in Events |-> Seen(log[e])]
                = [e \in Events |-> [phase |-> "absent", gen |-> 0, budget |-> 0]]
    BY <2>1 DEF Init
  <2> QED  BY <2>2 DEF Work!Init
<1>2. RowInv /\ [Next]_vars
      => [Work!Next]_([e \in Events |-> Seen(log[e])])
  BY WorkStep
<1> QED  BY <1>1, <1>2, RowInvariant, PTL DEF Spec, ImplementsFencedWork, Work!Spec

-----------------------------------------------------------------------------
(* The store as a whole.                                                   *)

(* The lemmas about the outbox; the coordinator that SpecialistDispatch     *)
(* puts on top of it has no part here.                                     *)
P == INSTANCE SpecialistDispatch_proofs WITH
       Workers <- Dispatchers, lease <- holding,
       ResultIds <- {}, NoResult <- 0, Raised <- 1, Unknown <- 2,
       results <- <<>>, outcome <- <<>>

\* What Outbox assumes of its constants.
OutboxConstants ==
  /\ P!KeysAssumption /\ P!NoWorkerAssumption /\ P!DurationsAssumption
  /\ P!BoundsAssumption /\ P!NoLeaseAssumption /\ P!OutcomesAssumption

LEMMA ConstantsFit == OutboxConstants
BY DispatchersAssumption, NoHoldingAssumption, DurationsAssumption,
   BoundsAssumption
DEF OutboxConstants, P!KeysAssumption, P!NoWorkerAssumption,
    P!DurationsAssumption, P!BoundsAssumption, P!NoLeaseAssumption,
    P!OutcomesAssumption, O!Lease, P!Lease, IsFiniteSet, P!IsFiniteSet

-----------------------------------------------------------------------------
(* The steps of each side.                                                 *)

LEMMA DispatchIsOutbox ==
  ASSUME NEW d \in Dispatchers, DispatchStep(d)
  PROVE  P!DispatcherStep(d) /\ UNCHANGED <<log, lease, planned, clock>>
<1>1. O!ClaimNextOutbox(d) <=> P!ClaimNextOutbox(d)
  BY DEF O!ClaimNextOutbox, O!Readings, O!Candidates, O!Swept, O!Exhausted,
         O!Buried, O!Claimable, O!Waiting, O!NoTime, O!Before, O!Grant, O!Granted,
         P!ClaimNextOutbox, P!Readings, P!Candidates, P!Swept, P!Exhausted,
         P!Buried, P!Claimable, P!Waiting, P!NoTime, P!Before, P!Grant, P!Granted
<1>2. O!Send(d) <=> P!Send(d)
  BY DEF O!Send, P!Send
<1>3. O!AckDispatched(d) <=> P!AckDispatched(d)
  BY DEF O!AckDispatched, O!AssertOutboxFence, O!FenceHolds, O!NoTime,
         O!Finalized, P!AckDispatched, P!AssertOutboxFence, P!FenceHolds,
         P!NoTime, P!Finalized
<1>4. O!FailDispatch(d) <=> P!FailDispatch(d)
  BY DEF O!FailDispatch, O!AssertOutboxFence, O!FenceHolds, O!NoTime,
         O!LeaseReadings, O!Readings, O!Failed, P!FailDispatch,
         P!AssertOutboxFence, P!FenceHolds, P!NoTime, P!LeaseReadings,
         P!Readings, P!Failed
<1>5. O!HeartbeatOutbox(d) <=> P!HeartbeatOutbox(d)
  BY DEF O!HeartbeatOutbox, O!AssertOutboxFence, O!FenceHolds, O!NoTime,
         O!LeaseReadings, O!Readings, O!Extended, P!HeartbeatOutbox,
         P!AssertOutboxFence, P!FenceHolds, P!NoTime, P!LeaseReadings,
         P!Readings, P!Extended
<1>6. O!Crash(d) <=> P!Crash(d)
  BY DEF O!Crash, P!Crash
<1>7. P!DispatcherStep(d)
  BY <1>1, <1>2, <1>3, <1>4, <1>5, <1>6 DEF DispatchStep, P!DispatcherStep
<1>8. UNCHANGED clock
  BY DEF DispatchStep, O!ClaimNextOutbox, O!Send, O!AckDispatched,
         O!FailDispatch, O!HeartbeatOutbox, O!Crash
<1> QED BY <1>7, <1>8 DEF DispatchStep

LEMMA DispatcherIsNext ==
  ASSUME NEW d \in Dispatchers, P!DispatcherStep(d)
  PROVE  P!Next
BY DEF P!DispatcherStep, P!Next

(* The INSERT of a plan, or of a repeated enqueue, is enqueue_outbox.      *)
LEMMA InsertIsEnqueue ==
  ASSUME NEW k \in Keys, NEW now \in Readings, NEW budget \in Budgets,
         O!Insert(k, now, budget), UNCHANGED <<clock, holding, deliveries>>
  PROVE  P!EnqueueOutbox(k)
BY DEF Readings, O!Insert, O!Inserted, O!Fresh, O!NoTime, O!NextId,
       P!EnqueueOutbox, P!Readings, P!Insert, P!Inserted, P!Fresh, P!NoTime,
       P!NextId, O!Cardinality, P!Cardinality

LEMMA PlanIsBoth ==
  ASSUME TypeOK, NEW w \in Workers, CommitDispatchPlan(w)
  PROVE  /\ lease[w].event \in Events /\ CommitEvent(w)
         /\ P!EnqueueOutbox(KeyOf[lease[w].event])
         /\ planned' = planned \cup {lease[w].event}
         /\ UNCHANGED <<clock, holding, deliveries>>
<1>1. lease[w] # NoLease /\ lease[w].event \in Events
  BY DEF CommitDispatchPlan, AssertFence, TypeOK, Lease
<1>2. KeyOf[lease[w].event] \in Keys
  BY <1>1, KeyOfAssumption
<1>3. PICK now \in LeaseReadings(w), budget \in Budgets :
        O!Insert(KeyOf[lease[w].event], now, budget)
  BY DEF CommitDispatchPlan
<1>4. now \in Readings
  BY ReadingsAreTimes
<1>5. UNCHANGED <<clock, holding, deliveries>>
  BY DEF CommitDispatchPlan
<1>6. P!EnqueueOutbox(KeyOf[lease[w].event])
  BY <1>2, <1>3, <1>4, <1>5, InsertIsEnqueue
<1> QED BY <1>1, <1>5, <1>6 DEF CommitDispatchPlan, CommitEvent

LEMMA ReEnqueueIsEnqueue ==
  ASSUME NEW e \in Events, ReEnqueue(e)
  PROVE  /\ KeyOf[e] \in Keys /\ P!EnqueueOutbox(KeyOf[e])
         /\ e \in planned /\ UNCHANGED <<clock, log, lease, planned>>
<1>1. KeyOf[e] \in Keys
  BY KeyOfAssumption
<1>2. PICK now \in O!Readings, budget \in Budgets :
        O!Insert(KeyOf[e], now, budget)
  BY DEF ReEnqueue, O!EnqueueOutbox
<1>3. UNCHANGED <<clock, holding, deliveries>>
  BY DEF ReEnqueue, O!EnqueueOutbox
<1>4. now \in Readings
  BY DEF O!Readings, Readings
<1> QED BY <1>1, <1>2, <1>3, <1>4, InsertIsEnqueue DEF ReEnqueue

-----------------------------------------------------------------------------
(* Either side sees its own steps, or none.                                *)

Passes == clock' = clock + 1 /\ UNCHANGED <<log, lease, outboxVars, planned>>

LEMMA EventSide ==
  ASSUME TypeOK, [E2ENext]_allVars
  PROVE  Passes \/ [Next]_vars
<1>1. CASE UNCHANGED allVars
  BY <1>1 DEF allVars, vars
<1>2. CASE Time
  BY <1>2 DEF Time, Passes
<1>3. ASSUME NEW e \in Events, AppendEvent(e) PROVE Next
  BY <1>3 DEF Next
<1>4. ASSUME NEW e \in Events, ReEnqueue(e) PROVE UNCHANGED vars
  BY <1>4, ReEnqueueIsEnqueue DEF vars
<1>5. ASSUME NEW w \in Workers, EventStep(w) PROVE Next
  BY <1>5 DEF EventStep, Next
<1>6. ASSUME NEW w \in Workers, CommitDispatchPlan(w) PROVE Next
  BY <1>6, PlanIsBoth DEF Next
<1>7. ASSUME NEW d \in Dispatchers, DispatchStep(d) PROVE UNCHANGED vars
  BY <1>7, DispatchIsOutbox DEF vars
<1> QED BY <1>1, <1>2, <1>3, <1>4, <1>5, <1>6, <1>7 DEF E2ENext

LEMMA OutboxSide ==
  ASSUME TypeOK, [E2ENext]_allVars
  PROVE  \/ UNCHANGED outboxVars
         \/ P!Next
<1>1. CASE UNCHANGED allVars
  BY <1>1 DEF allVars, outboxVars
<1>2. CASE Time
  BY <1>2 DEF Time
<1>3. ASSUME NEW e \in Events, ReEnqueue(e) PROVE P!Next
  BY <1>3, ReEnqueueIsEnqueue DEF P!Next
<1>4. ASSUME NEW w \in Workers, EventStep(w) PROVE UNCHANGED outboxVars
  BY <1>4 DEF EventStep
<1>5. ASSUME NEW w \in Workers, CommitDispatchPlan(w) PROVE P!Next
  <2>1. KeyOf[lease[w].event] \in Keys
    BY <1>5, PlanIsBoth, KeyOfAssumption
  <2> QED BY <1>5, <2>1, PlanIsBoth DEF P!Next
<1>6. ASSUME NEW d \in Dispatchers, DispatchStep(d) PROVE P!Next
  BY <1>6, DispatchIsOutbox, DispatcherIsNext
<1> QED BY <1>1, <1>2, <1>3, <1>4, <1>5, <1>6 DEF E2ENext

Sides == TypeOK /\ P!RowInv /\ P!SendsLeft

LEMMA SidesInitially == E2EInit => Sides
<1>1. O!Init <=> P!Init
  BY DEF O!Init, P!Init, O!NoRow, P!NoRow, O!NoTime, P!NoTime
<1>2. P!Init => P!RowInv /\ P!SendsLeft
  BY ConstantsFit, P!Initially, P!SendsInitially DEF OutboxConstants
<1> QED BY <1>1, <1>2, TypeInit DEF E2EInit, Sides

LEMMA SidesStep ==
  ASSUME Sides, [E2ENext]_allVars
  PROVE  Sides'
<1> USE DEF Sides
<1>1. TypeOK'
  <2>1. CASE Passes
    BY <2>1 DEF Passes, TypeOK
  <2> QED BY <2>1, EventSide, TypeStep
<1>2. CASE UNCHANGED outboxVars
  BY <1>1, <1>2 DEF outboxVars, TypeOK, P!RowInv, P!TypeOK, P!RowsSound,
                    P!SendsLeft, P!Unsent
<1>3. CASE P!Next
  <2>1. P!RowInv'
    BY <1>3, ConstantsFit, P!RowStep DEF OutboxConstants
  <2>2. P!SendsLeft'
    BY <1>3, ConstantsFit, P!SendStep DEF OutboxConstants
  <2> QED BY <1>1, <2>1, <2>2
<1> QED BY <1>2, <1>3, OutboxSide

LEMMA SidesHold == E2ESpec => []Sides
<1>1. Sides /\ [E2ENext]_allVars => Sides'
  BY SidesStep
<1> QED BY SidesInitially, <1>1, PTL DEF E2ESpec

(* The receiver is sent no key more often than its row's budget, however   *)
(* workers and dispatchers are overtaken or die (INV-033).                 *)
THEOREM Delivered == E2ESpec => []BoundedDelivery
<1>1. Sides => BoundedDelivery
  <2>1. Sides => P!BoundedDelivery
    BY ConstantsFit, P!SendsBound DEF OutboxConstants, Sides
  <2>2. P!BoundedDelivery <=> BoundedDelivery
    BY DEF BoundedDelivery, O!BoundedDelivery, P!BoundedDelivery
  <2> QED BY <2>1, <2>2
<1> QED BY <1>1, SidesHold, PTL

-----------------------------------------------------------------------------
(* The outbox fed by both callers of enqueue_outbox and by time that runs  *)
(* for the event side too is still a fenced work table (INV-030, INV-032). *)
THEOREM OutboxStaysFenced == E2ESpec => OutboxImplementsFencedWork
<1> USE DEF O!Seen, O!Phase, O!Waiting, P!Seen, P!Phase, P!Waiting
<1>1. E2EInit => O!Work!Init
  <2>1. ASSUME E2EInit PROVE P!Init
    BY <2>1 DEF E2EInit, O!Init, P!Init, O!NoRow, P!NoRow, O!NoTime, P!NoTime
  <2>2. P!Init => P!Work!Init
    BY ConstantsFit, P!WorkInitially DEF OutboxConstants
  <2>3. P!Work!Init <=> O!Work!Init
    BY DEF P!Work!Init, O!Work!Init
  <2> QED BY <2>1, <2>2, <2>3
<1>2. Sides /\ [E2ENext]_allVars
      => [O!Work!Next]_([k \in Keys |-> O!Seen(outbox[k])])
  <2> SUFFICES ASSUME Sides, P!Next PROVE O!Work!Next
    BY OutboxSide DEF Sides, outboxVars
  <2>1. P!Work!Next
    BY ConstantsFit, P!RowsMove, P!WorkStep
    DEF OutboxConstants, Sides, P!RowInv
  <2>2. P!Work!Next <=> O!Work!Next
    BY DEF P!Work!Next, O!Work!Next, P!Work!Moves, O!Work!Moves,
           P!Work!Served, O!Work!Served, P!Work!Add, O!Work!Add,
           P!Work!Take, O!Work!Take, P!Work!Finish, O!Work!Finish,
           P!Work!Return, O!Work!Return, P!Work!GiveUp, O!Work!GiveUp,
           P!Work!Keeps, O!Work!Keeps
  <2> QED BY <2>1, <2>2
<1> QED BY <1>1, <1>2, SidesHold, PTL
        DEF E2ESpec, OutboxImplementsFencedWork, O!ImplementsFencedWork,
            O!Work!Spec

-----------------------------------------------------------------------------
(* The hand-over.  Beyond the two sides, a dispatcher holds leases only on *)
(* rows that exist: that is why a send implies a plan.                     *)

HoldingsOpen == \A d \in Dispatchers : P!HoldsOpen(d)
HandoffInv   == Sides /\ HoldingsOpen /\ AtomicHandoff

Opened(k) == outbox[k].status # "ABSENT"

LEMMA EnqueueEffect ==
  ASSUME Sides, NEW k \in Keys, P!EnqueueOutbox(k)
  PROVE  /\ Opened(k)' /\ \A j \in Keys \ {k} : outbox'[j] = outbox[j]
         /\ UNCHANGED <<holding, deliveries>>
<1>1. /\ P!Opens(outbox[k], outbox'[k]) /\ UNCHANGED <<holding, deliveries>>
      /\ \A j \in Keys \ {k} : outbox'[j] = outbox[j]
  BY ConstantsFit, P!Enqueueing DEF OutboxConstants, Sides, P!RowInv
<1>2. outbox'[k].status # "ABSENT"
  BY <1>1 DEF P!Opens, P!Inserted, P!Fresh
<1> QED BY <1>1, <1>2 DEF Opened

LEMMA HoldingsStep ==
  ASSUME Sides, HoldingsOpen, [E2ENext]_allVars
  PROVE  HoldingsOpen'
<1> SUFFICES ASSUME NEW d \in Dispatchers PROVE P!HoldsOpen(d)'
  BY DEF HoldingsOpen
<1>0. P!HoldsOpen(d) /\ (holding[d] # NoLease => holding[d].key \in Keys)
  BY DEF HoldingsOpen, Sides, P!RowInv, P!TypeOK, P!Lease
<1>1. CASE UNCHANGED outboxVars
  BY <1>0, <1>1 DEF outboxVars, P!HoldsOpen
<1>2. ASSUME NEW k \in Keys, P!EnqueueOutbox(k) PROVE P!HoldsOpen(d)'
  BY <1>0, <1>2, EnqueueEffect DEF P!HoldsOpen, Opened
<1>3. ASSUME NEW f \in Dispatchers, P!DispatcherStep(f)
      PROVE  P!HoldsOpen(d)'
  BY <1>0, <1>3, ConstantsFit, P!DispatchersOpenNothing
  DEF OutboxConstants, Sides, P!RowInv
<1>4. CASE P!Tick
  BY <1>0, <1>4 DEF P!Tick, P!HoldsOpen
<1>5. P!Next => \/ P!Tick \/ \E k \in Keys : P!EnqueueOutbox(k)
               \/ \E f \in Dispatchers : P!DispatcherStep(f)
  BY DEF P!Next, P!DispatcherStep
<1> QED BY <1>1, <1>2, <1>3, <1>4, <1>5, OutboxSide DEF Sides

(* A committed event stays committed.                                      *)
LEMMA CommittedStays ==
  ASSUME TypeOK, [E2ENext]_allVars, NEW e \in Events,
         log[e].status = "COMMITTED"
  PROVE  log'[e].status = "COMMITTED"
<1>1. CASE Passes
  BY <1>1 DEF Passes
<1>2. CASE [Next]_vars
  <2>1. RowStep(e)
    BY <1>2, EveryRowStep
  <2> QED BY <2>1
    DEF RowStep, IsAppend, IsBurial, IsGrant, IsFinish, IsRenewal, Inserted,
        Exhausted, Claimable, AssertFence, FenceHolds, Waiting
<1> QED BY <1>1, <1>2, EventSide

Handed(e) ==
  /\ Opened(KeyOf[e]) <=> e \in planned
  /\ e \in planned => log[e].status = "COMMITTED"
  /\ deliveries[KeyOf[e]] > 0 => e \in planned

LEMMA HandedStep ==
  ASSUME HandoffInv, [E2ENext]_allVars, NEW e \in Events
  PROVE  Handed(e)'
<1> DEFINE k == KeyOf[e]
<1>0. /\ k \in Keys /\ TypeOK /\ Sides /\ Handed(e)
      /\ log[e].status = "COMMITTED" => log'[e].status = "COMMITTED"
  BY KeyOfAssumption, CommittedStays
  DEF HandoffInv, Sides, AtomicHandoff, Handed, Opened
<1>1. CASE UNCHANGED outboxVars /\ UNCHANGED planned
  BY <1>0, <1>1 DEF outboxVars, Handed, Opened
<1>2. ASSUME NEW d \in Dispatchers, DispatchStep(d) PROVE Handed(e)'
  <2>1. P!DispatcherStep(d) /\ UNCHANGED planned
    BY <1>2, DispatchIsOutbox
  <2>2. /\ Opened(k)' <=> Opened(k)
        /\ deliveries'[k] # deliveries[k]
             => holding[d] # NoLease /\ holding[d].key = k
    BY <1>0, <2>1, ConstantsFit, P!DispatchersOpenNothing
    DEF OutboxConstants, Sides, P!RowInv, Opened
  <2>3. deliveries'[k] # deliveries[k] => Opened(k)
    BY <2>2 DEF HandoffInv, HoldingsOpen, P!HoldsOpen, Opened
  <2> QED BY <1>0, <2>1, <2>2, <2>3 DEF Handed
<1>3. ASSUME NEW f \in Events, ReEnqueue(f) PROVE Handed(e)'
  <2>1. /\ KeyOf[f] \in Keys /\ f \in planned /\ UNCHANGED planned
        /\ Opened(KeyOf[f])' /\ UNCHANGED deliveries
        /\ \A j \in Keys \ {KeyOf[f]} : outbox'[j] = outbox[j]
    BY <1>0, <1>3, ReEnqueueIsEnqueue, EnqueueEffect
  <2>2. KeyOf[f] = k => f = e
    BY KeyOfAssumption
  <2> QED BY <1>0, <2>1, <2>2 DEF Handed, Opened
<1>4. ASSUME NEW w \in Workers, CommitDispatchPlan(w) PROVE Handed(e)'
  <2>1. PICK f \in Events :
        /\ f = lease[w].event /\ P!EnqueueOutbox(KeyOf[f]) /\ CommitEvent(w)
        /\ planned' = planned \cup {f} /\ UNCHANGED deliveries
    BY <1>0, <1>4, PlanIsBoth
  <2>2. KeyOf[f] \in Keys /\ (KeyOf[f] = k => f = e)
    BY <2>1, KeyOfAssumption
  <2>3. /\ Opened(KeyOf[f])'
        /\ \A j \in Keys \ {KeyOf[f]} : outbox'[j] = outbox[j]
    BY <1>0, <2>1, <2>2, EnqueueEffect
  <2>4. log'[f].status = "COMMITTED"
    <3>1. log' = [log EXCEPT ![f] = Finalized(log[f])] /\ log[f] \in Row
      BY <1>0, <2>1 DEF CommitEvent, TypeOK
    <3>2. log'[f] = Finalized(log[f])
      BY <1>0, <2>1, <3>1 DEF TypeOK
    <3> QED BY <3>1, <3>2 DEF Finalized, Row
  <2>5. CASE f = e
    BY <1>0, <2>1, <2>3, <2>4, <2>5 DEF Handed
  <2>6. CASE f # e
    BY <1>0, <2>1, <2>2, <2>3, <2>6 DEF Handed, Opened
  <2> QED BY <2>5, <2>6
<1>5. CASE UNCHANGED allVars \/ Time
  BY <1>1, <1>5 DEF allVars, Time, outboxVars
<1>6. ASSUME NEW f \in Events, AppendEvent(f) /\ UNCHANGED <<outboxVars, planned>>
      PROVE  Handed(e)'
  BY <1>1, <1>6
<1>7. ASSUME NEW w \in Workers, EventStep(w) PROVE Handed(e)'
  BY <1>1, <1>7 DEF EventStep
<1> QED BY <1>2, <1>3, <1>4, <1>5, <1>6, <1>7 DEF E2ENext

(* At every moment an event has an outbox row exactly if it was committed  *)
(* with a plan, and nothing is sent for any other (INV-034, 036, 037).     *)
THEOREM HandoffIsAtomic == E2ESpec => []AtomicHandoff
<1>1. E2EInit => HoldingsOpen /\ AtomicHandoff
  BY KeyOfAssumption
  DEF E2EInit, O!Init, O!NoRow, HoldingsOpen, P!HoldsOpen, AtomicHandoff
<1>2. HandoffInv /\ [E2ENext]_allVars => HandoffInv'
  <2>1. ASSUME HandoffInv, [E2ENext]_allVars PROVE AtomicHandoff'
    BY <2>1, HandedStep DEF AtomicHandoff, Handed, Opened
  <2> QED BY <2>1, SidesStep, HoldingsStep DEF HandoffInv
<1>3. HandoffInv => AtomicHandoff
  BY DEF HandoffInv
<1> QED BY <1>1, <1>2, <1>3, SidesInitially, PTL DEF E2ESpec, HandoffInv
=============================================================================
