----------------------- MODULE SpecialistDispatch_proofs ----------------------
(***************************************************************************)
(* Proofs about the outbox and about the coordinator that runs it, for any *)
(* sets of keys, dispatchers and result ids, any durations and budgets,    *)
(* any lock wait and any horizon.                                          *)
(*                                                                         *)
(* The outbox first.  Everything the table promises follows from what one  *)
(* statement may make of one row (Becomes); that a key is not sent more    *)
(* often than it was attempted follows from counting: each attempt hands   *)
(* out one lease, and a lease is sent once.                                *)
(*                                                                         *)
(* Then the coordinator runs the outbox protocol and nothing else, and the *)
(* results it stores are those of the rows it closes.  That refinement is  *)
(* not step by step obvious: the outbox protocol closes a row only after a *)
(* send, and the coordinator never checks that it has sent.  Answers says  *)
(* why it has: a result in hand under a lease is the outcome of the        *)
(* execution under this very lease.                                        *)
(***************************************************************************)
EXTENDS SpecialistDispatch, FiniteSetTheorems, TLAPS

-----------------------------------------------------------------------------
(* The statements on one row r, which becomes s.                           *)

Opens(r, s)  == \E now \in Nat, budget \in Budgets : s = Inserted(r, now, budget)
Buries(r, s) == \E now \in Nat : Exhausted(r, now) /\ s = Buried(r)
Grants(r, s) ==
  \E d \in Workers, now \in Nat, seconds \in Nat :
    Claimable(r, now) /\ s = Granted(r, d, now, seconds)
Closes(r, s) ==
  /\ r.status = "SENDING"
  /\ \/ s = Finalized(r)
     \/ \E now \in Nat, backoff \in Nat : s = Failed(r, now, backoff)
Extends(r, s) ==
  /\ r.status = "SENDING"
  /\ \E now \in Nat, seconds \in Nat : s = Extended(r, now, seconds)

Becomes(r, s) ==
  s = r \/ Opens(r, s) \/ Buries(r, s) \/ Grants(r, s) \/ Closes(r, s)
  \/ Extends(r, s)

(* The columns of a row agree: each attempt is a generation, none exceeds  *)
(* the budget, and a row that waits has an attempt left.                   *)
RowSound(r) ==
  /\ r.version = r.attempts /\ r.attempts <= r.budget
  /\ IF r.status = "ABSENT" THEN r.budget = 0 ELSE r.budget > 0
  /\ r.status \in Waiting => r.attempts < r.budget

LEMMA StatusTypes ==
  /\ "PENDING" \in Statuses /\ "FAILED" \in Statuses
  /\ "SENDING" \in Statuses /\ "DISPATCHED" \in Statuses
  /\ "DEAD_LETTER" \in Statuses /\ "ABSENT" \in Statuses
  /\ NoTime \in Int
BY DEF Statuses, Waiting, Terminal, NoTime

(* What a statement keeps, and what it does in the eyes of FencedWork.     *)
LEMMA RowChange ==
  ASSUME NEW r \in Row, RowSound(r), NEW s, Becomes(r, s)
  PROVE  /\ s \in Row /\ RowSound(s)
         /\ r.attempts <= s.attempts
         /\ r.status = "DISPATCHED" => s = r
         /\ r.status # "ABSENT" => s.status # "ABSENT"
         /\ Work!Moves(Seen(r), Seen(s))
<1>0. /\ r.version \in Nat /\ r.attempts \in Nat /\ r.budget \in Nat
  BY DEF Row
<1>1. CASE s = r
  BY <1>0, <1>1 DEF Work!Moves
<1> USE DEF Seen, Phase, Waiting, RowSound
<1>2. CASE Opens(r, s) /\ s # r
  <2>1. PICK now \in Nat, budget \in Budgets : s = Inserted(r, now, budget)
    BY <1>2 DEF Opens
  <2>2. r.status = "ABSENT" /\ s = Fresh(now, budget)
    BY <1>2, <2>1 DEF Inserted
  <2>3. budget \in Nat /\ budget > 0
    BY DurationsAssumption
  <2>4. /\ s \in Row /\ s.status = "PENDING" /\ s.version = 0
        /\ s.attempts = 0 /\ s.budget = budget
    <3>1. Fresh(now, budget) \in Row
      BY <2>3, StatusTypes DEF Fresh, Row
    <3> QED BY <2>2, <3>1 DEF Fresh
  <2>5. Work!Add(Seen(r), Seen(s))
    BY <2>2, <2>3, <2>4 DEF Work!Add
  <2> QED BY <1>0, <2>2, <2>3, <2>4, <2>5 DEF Work!Moves
<1>3. CASE Buries(r, s)
  <2>1. PICK now \in Nat : Exhausted(r, now) /\ s = Buried(r)
    BY <1>3 DEF Buries
  <2>2. r.status = "SENDING" /\ r.attempts = r.budget
    BY <1>0, <2>1 DEF Exhausted
  <2>3. /\ s \in Row /\ s.status = "DEAD_LETTER" /\ s.version = r.version
        /\ s.attempts = r.attempts /\ s.budget = r.budget
    BY <2>1, StatusTypes DEF Buried, Row
  <2>4. Work!GiveUp(Seen(r), Seen(s))
    BY <2>2, <2>3 DEF Work!GiveUp, Work!Keeps
  <2> QED BY <1>0, <2>2, <2>3, <2>4 DEF Work!Moves
<1>4. CASE Grants(r, s)
  <2>1. PICK d \in Workers, now \in Nat, seconds \in Nat :
          Claimable(r, now) /\ s = Granted(r, d, now, seconds)
    BY <1>4 DEF Grants
  <2>2. r.status \in Waiting \cup {"SENDING"} /\ r.attempts < r.budget
    BY <2>1 DEF Claimable
  <2>3. /\ s \in Row /\ s.status = "SENDING" /\ s.version = r.version + 1
        /\ s.attempts = r.attempts + 1 /\ s.budget = r.budget
    <3> DEFINE x == now + seconds
               v == r.version + 1
               a == r.attempts + 1
    <3>1. x \in Int /\ v \in Nat /\ a \in Nat
      BY <1>0
    <3>2. s = [r EXCEPT !.status = "SENDING", !.owner = d, !.expires = x,
                        !.version = v, !.attempts = a]
      BY <2>1 DEF Granted
    <3> HIDE DEF x, v, a
    <3>3. /\ s \in Row /\ s.status = "SENDING" /\ s.version = v
          /\ s.attempts = a /\ s.budget = r.budget
      BY <3>1, <3>2, StatusTypes DEF Row
    <3> QED BY <3>3 DEF v, a
  <2>4. Work!Take(Seen(r), Seen(s))
    BY <2>2, <2>3 DEF Work!Take
  <2> QED BY <1>0, <2>2, <2>3, <2>4 DEF Work!Moves
<1>5. CASE Closes(r, s) /\ s = Finalized(r)
  <2>1. r.status = "SENDING"
    BY <1>5 DEF Closes
  <2>2. /\ s \in Row /\ s.status = "DISPATCHED" /\ s.version = r.version
        /\ s.attempts = r.attempts /\ s.budget = r.budget
    BY <1>5, StatusTypes DEF Finalized, Row
  <2>3. Work!Finish(Seen(r), Seen(s))
    BY <2>1, <2>2 DEF Work!Finish, Work!Keeps
  <2> QED BY <1>0, <2>1, <2>2, <2>3 DEF Work!Moves
<1>6. CASE Closes(r, s) /\ s # Finalized(r)
  <2>1. PICK now \in Nat, backoff \in Nat : s = Failed(r, now, backoff)
    BY <1>6 DEF Closes
  <2>2. r.status = "SENDING"
    BY <1>6 DEF Closes
  <2>3. /\ s \in Row /\ s.version = r.version
        /\ s.status = IF r.attempts >= r.budget THEN "DEAD_LETTER" ELSE "FAILED"
        /\ s.attempts = r.attempts /\ s.budget = r.budget
    <3> DEFINE status == IF r.attempts >= r.budget THEN "DEAD_LETTER" ELSE "FAILED"
    <3>1. status \in Statuses /\ now + backoff \in Nat
      BY StatusTypes
    <3>2. s = [r EXCEPT !.status = status, !.next = now + backoff,
                        !.owner = NoWorker, !.expires = NoTime]
      BY <2>1 DEF Failed
    <3> HIDE DEF status
    <3>3. /\ s \in Row /\ s.version = r.version /\ s.status = status
          /\ s.attempts = r.attempts /\ s.budget = r.budget
      BY <3>1, <3>2, StatusTypes DEF Row
    <3> QED BY <3>3 DEF status
  <2>4. CASE r.attempts >= r.budget
    <3>1. Work!GiveUp(Seen(r), Seen(s))
      BY <1>0, <2>2, <2>3, <2>4 DEF Work!GiveUp, Work!Keeps
    <3> QED BY <1>0, <2>2, <2>3, <2>4, <3>1 DEF Work!Moves
  <2>5. CASE ~(r.attempts >= r.budget)
    <3>1. Work!Return(Seen(r), Seen(s))
      BY <1>0, <2>2, <2>3, <2>5 DEF Work!Return, Work!Keeps
    <3> QED BY <1>0, <2>2, <2>3, <2>5, <3>1 DEF Work!Moves
  <2> QED BY <2>4, <2>5
<1>7. CASE Extends(r, s)
  <2>1. PICK now \in Nat, seconds \in Nat : s = Extended(r, now, seconds)
    BY <1>7 DEF Extends
  <2>2. r.status = "SENDING"
    BY <1>7 DEF Extends
  <2>3. /\ s \in Row /\ s.status = r.status /\ s.version = r.version
        /\ s.attempts = r.attempts /\ s.budget = r.budget
    BY <2>1 DEF Extended, Row
  <2> QED BY <1>0, <2>2, <2>3 DEF Work!Moves
<1> QED BY <1>1, <1>2, <1>3, <1>4, <1>5, <1>6, <1>7 DEF Becomes

-----------------------------------------------------------------------------
TypeOK ==
  /\ clock \in Nat
  /\ outbox \in [Keys -> Row]
  /\ lease \in [Workers -> Lease \cup {NoLease}]
  /\ deliveries \in [Keys -> Nat]
RowsSound == \A k \in Keys : RowSound(outbox[k])
RowInv    == TypeOK /\ RowsSound

LEMMA ReadingsAreTimes ==
  ASSUME TypeOK
  PROVE  /\ \A t \in Readings : t \in Nat
         /\ \A d \in Workers : LeaseReadings(d) \subseteq Readings
         /\ LeaseSeconds \subseteq Nat /\ Backoffs \subseteq Nat
BY DurationsAssumption DEF TypeOK, Readings, LeaseReadings

(* The sweep buries exhausted rows and offers none of them to the claim.   *)
LEMMA Sweep ==
  ASSUME TypeOK, NEW now \in Readings
  PROVE  /\ Swept(now) \in [Keys -> Row]
         /\ \A k \in Keys : \/ Swept(now)[k] = outbox[k]
                            \/ Buries(outbox[k], Swept(now)[k])
         /\ \A k \in Candidates(now) :
              k \in Keys /\ Swept(now)[k] = outbox[k] /\ Claimable(outbox[k], now)
<1>1. ASSUME NEW k \in Keys
      PROVE  /\ Swept(now)[k] \in Row
             /\ \/ Swept(now)[k] = outbox[k]
                \/ /\ Exhausted(outbox[k], now)
                   /\ Swept(now)[k] = Buried(outbox[k])
  <2>1. outbox[k] \in Row
    BY DEF TypeOK
  <2>2. Buried(outbox[k]) \in Row
    BY <2>1, StatusTypes DEF Row, Buried
  <2> QED BY <2>1, <2>2 DEF Swept
<1>2. ASSUME NEW k \in Candidates(now)
      PROVE  k \in Keys /\ Swept(now)[k] = outbox[k] /\ Claimable(outbox[k], now)
  <2>1. k \in Keys /\ Claimable(Swept(now)[k], now)
    BY DEF Candidates
  <2>2. outbox[k] \in Row
    BY <2>1 DEF TypeOK
  <2>3. Buried(outbox[k]).status = "DEAD_LETTER"
    BY <2>2 DEF Row, Buried
  <2>4. ~Claimable(Buried(outbox[k]), now)
    BY <2>3 DEF Claimable, Waiting
  <2> QED BY <1>1, <2>1, <2>4
<1>3. now \in Nat
  BY ReadingsAreTimes
<1> QED BY <1>1, <1>2, <1>3 DEF Swept, Buries

(* A row in a step that neither changes nor only buries it.                *)
Served(k) == /\ outbox'[k] # outbox[k]
             /\ ~Buries(outbox[k], outbox'[k])

(* What a claim does: the sweep, and at most one lease.                    *)
Swipes(now) == outbox' = Swept(now) /\ UNCHANGED lease

LEMMA Granting ==
  ASSUME TypeOK, NEW d \in Workers, NEW now \in Readings,
         NEW seconds \in LeaseSeconds, NEW k \in Candidates(now),
         Grant(d, k, now, seconds)
  PROVE  /\ k \in Keys /\ outbox' \in [Keys -> Row]
         /\ Grants(outbox[k], outbox'[k])
         /\ outbox'[k].attempts = outbox[k].attempts + 1
         /\ \A j \in Keys \ {k} : ~Served(j)
         /\ lease'[d].key = k /\ ~lease'[d].sent
         /\ \A e \in Workers \ {d} : lease'[e] = lease[e]
         /\ lease' \in [Workers -> Lease \cup {NoLease}]
<1>1. /\ k \in Keys /\ Swept(now)[k] = outbox[k] /\ Claimable(outbox[k], now)
      /\ Swept(now) \in [Keys -> Row]
  BY Sweep
<1>2. outbox' = [Swept(now) EXCEPT ![k] = Granted(outbox[k], d, now, seconds)]
  BY <1>1 DEF Grant
<1>3. now \in Nat /\ seconds \in Nat /\ clock \in Nat
  BY ReadingsAreTimes DEF TypeOK
<1>4. outbox[k] \in Row
  BY <1>1 DEF TypeOK
<1>5. /\ Granted(outbox[k], d, now, seconds) \in Row
      /\ Granted(outbox[k], d, now, seconds).attempts = outbox[k].attempts + 1
  <2> DEFINE x == now + seconds
             v == outbox[k].version + 1
             a == outbox[k].attempts + 1
  <2>1. x \in Int /\ v \in Nat /\ a \in Nat
    BY <1>3, <1>4 DEF Row
  <2>2. Granted(outbox[k], d, now, seconds) =
          [outbox[k] EXCEPT !.status = "SENDING", !.owner = d, !.expires = x,
                            !.version = v, !.attempts = a]
    BY DEF Granted
  <2> HIDE DEF x, v, a
  <2>3. /\ Granted(outbox[k], d, now, seconds) \in Row
        /\ Granted(outbox[k], d, now, seconds).attempts = a
    BY <1>4, <2>1, <2>2, StatusTypes DEF Row
  <2> QED BY <2>3 DEF a
<1>6. outbox'[k] = Granted(outbox[k], d, now, seconds)
  BY <1>1, <1>2
<1>7. \A j \in Keys \ {k} : ~Served(j)
  <2>1. \A j \in Keys \ {k} : outbox'[j] = Swept(now)[j]
    BY <1>1, <1>2
  <2> QED BY <2>1, Sweep DEF Served
<1>8. lease' = [lease EXCEPT ![d] =
                  [key |-> k, version |-> outbox'[k].version,
                   expires |-> now + seconds, at |-> clock, sent |-> FALSE]]
  BY DEF Grant
<1>9. outbox'[k].version \in Nat
  BY <1>5, <1>6 DEF Row
<1>10. [key |-> k, version |-> outbox'[k].version, expires |-> now + seconds,
        at |-> clock, sent |-> FALSE] \in Lease
  BY <1>1, <1>3, <1>9 DEF Lease
<1>11. /\ outbox' \in [Keys -> Row] /\ Grants(outbox[k], outbox'[k])
       /\ outbox'[k].attempts = outbox[k].attempts + 1
  BY <1>1, <1>2, <1>3, <1>5, <1>6 DEF Grants
<1>12. /\ lease'[d].key = k /\ ~lease'[d].sent
       /\ \A e \in Workers \ {d} : lease'[e] = lease[e]
       /\ lease' \in [Workers -> Lease \cup {NoLease}]
  BY <1>8, <1>10 DEF TypeOK
<1> QED BY <1>1, <1>7, <1>11, <1>12

LEMMA Claiming ==
  ASSUME TypeOK, NEW d \in Workers, ClaimNextOutbox(d)
  PROVE  /\ UNCHANGED <<clock, id, deliveries>>
         /\ \E now \in Readings, seconds \in LeaseSeconds :
              \/ Swipes(now)
              \/ \E k \in Candidates(now) : Grant(d, k, now, seconds)
BY DEF ClaimNextOutbox, Swipes

LEMMA Swiping ==
  ASSUME TypeOK, NEW now \in Readings, Swipes(now)
  PROVE  outbox' \in [Keys -> Row] /\ \A k \in Keys : ~Served(k)
BY Sweep DEF Swipes, Served

(* The three statements behind the fence.                                  *)
LEMMA Closing ==
  ASSUME TypeOK, NEW d \in Workers,
         AckDispatched(d) \/ FailDispatch(d) \/ HeartbeatOutbox(d)
  PROVE  /\ lease[d] \in Lease /\ lease[d].key \in Keys
         /\ outbox' \in [Keys -> Row]
         /\ \A k \in Keys \ {lease[d].key} : outbox'[k] = outbox[k]
         /\ \/ Closes(outbox[lease[d].key], outbox'[lease[d].key])
            \/ Extends(outbox[lease[d].key], outbox'[lease[d].key])
         /\ lease' \in [Workers -> Lease \cup {NoLease}]
         /\ \A e \in Workers : \/ lease'[e] = lease[e] \/ lease'[e] = NoLease
                               \/ /\ lease[e] # NoLease
                                  /\ lease'[e].key = lease[e].key
                                  /\ lease'[e].sent = lease[e].sent
         /\ UNCHANGED <<clock, deliveries>>
<1> DEFINE k == lease[d].key
           r == outbox[k]
<1>1. lease[d] # NoLease /\ lease[d] \in Lease /\ k \in Keys /\ r \in Row
  BY DEF AckDispatched, FailDispatch, HeartbeatOutbox, AssertOutboxFence,
     TypeOK, Lease
<1>2. r.status = "SENDING"
  BY DEF AckDispatched, FailDispatch, HeartbeatOutbox, AssertOutboxFence,
     FenceHolds
<1>3. CASE AckDispatched(d)
  <2>1. Finalized(r) \in Row
    BY <1>1, StatusTypes DEF Finalized, Row
  <2>2. outbox' = [outbox EXCEPT ![k] = Finalized(r)]
        /\ lease' = [lease EXCEPT ![d] = NoLease]
        /\ UNCHANGED <<clock, deliveries>>
    BY <1>3 DEF AckDispatched
  <2> QED BY <1>1, <1>2, <2>1, <2>2 DEF TypeOK, Closes
<1>4. CASE FailDispatch(d)
  <2>1. PICK now \in LeaseReadings(d), backoff \in Backoffs :
          outbox' = [outbox EXCEPT ![k] = Failed(r, now, backoff)]
    BY <1>4 DEF FailDispatch
  <2>2. now \in Nat /\ backoff \in Nat
    BY ReadingsAreTimes
  <2>3. Failed(r, now, backoff) \in Row
    <3> DEFINE status == IF r.attempts >= r.budget THEN "DEAD_LETTER" ELSE "FAILED"
    <3>1. status \in Statuses /\ now + backoff \in Nat
      BY <2>2, StatusTypes
    <3>2. Failed(r, now, backoff) =
            [r EXCEPT !.status = status, !.next = now + backoff,
                      !.owner = NoWorker, !.expires = NoTime]
      BY DEF Failed
    <3> HIDE DEF status
    <3> QED BY <1>1, <3>1, <3>2, StatusTypes DEF Row
  <2>4. lease' = [lease EXCEPT ![d] = NoLease] /\ UNCHANGED <<clock, deliveries>>
    BY <1>4 DEF FailDispatch
  <2>5. outbox'[k] = Failed(r, now, backoff)
    BY <1>1, <2>1 DEF TypeOK
  <2>6. Closes(r, outbox'[k])
    BY <1>2, <2>2, <2>5 DEF Closes
  <2> QED BY <1>1, <2>1, <2>3, <2>4, <2>6 DEF TypeOK
<1>5. CASE HeartbeatOutbox(d)
  <2>1. PICK now \in LeaseReadings(d), seconds \in LeaseSeconds :
          /\ outbox' = [outbox EXCEPT ![k] = Extended(r, now, seconds)]
          /\ lease' = [lease EXCEPT ![d].expires = now + seconds, ![d].at = clock]
    BY <1>5 DEF HeartbeatOutbox
  <2>2. now \in Nat /\ seconds \in Nat /\ clock \in Nat
    BY ReadingsAreTimes DEF TypeOK
  <2>3. Extended(r, now, seconds) \in Row
    BY <1>1, <2>2 DEF Extended, Row
  <2> DEFINE x == now + seconds
             l == [lease[d] EXCEPT !.expires = x, !.at = clock]
  <2>4. lease' = [lease EXCEPT ![d] = l]
    BY <2>1 DEF TypeOK
  <2>5. l \in Lease /\ l.key = lease[d].key /\ l.sent = lease[d].sent
    <3>1. x \in Int /\ clock \in Nat /\ lease[d] \in Lease
      BY <1>1, <2>2
    <3> HIDE DEF x
    <3> QED BY <3>1 DEF Lease
  <2> HIDE DEF l
  <2>6. /\ lease' \in [Workers -> Lease \cup {NoLease}]
        /\ lease'[d] = l /\ \A e \in Workers \ {d} : lease'[e] = lease[e]
    BY <2>4, <2>5 DEF TypeOK
  <2>7. UNCHANGED <<clock, deliveries>>
    BY <1>5 DEF HeartbeatOutbox
  <2>8. outbox'[k] = Extended(r, now, seconds) /\ outbox' \in [Keys -> Row]
        /\ \A j \in Keys \ {k} : outbox'[j] = outbox[j]
    BY <1>1, <2>1, <2>3 DEF TypeOK
  <2>9. Extends(r, outbox'[k])
    BY <1>2, <2>2, <2>8 DEF Extends
  <2> QED BY <1>1, <2>5, <2>6, <2>7, <2>8, <2>9
<1> QED BY <1>3, <1>4, <1>5

LEMMA Sending ==
  ASSUME TypeOK, NEW d \in Workers, Send(d)
  PROVE  /\ lease[d] \in Lease /\ lease[d].key \in Keys
         /\ lease[d] # NoLease /\ ~lease[d].sent
         /\ deliveries' = [deliveries EXCEPT ![lease[d].key] = @ + 1]
         /\ lease'[d].sent
         /\ \A e \in Workers \ {d} : lease'[e] = lease[e]
         /\ lease' \in [Workers -> Lease \cup {NoLease}]
         /\ UNCHANGED <<clock, outbox>>
<1>1. /\ lease[d] # NoLease /\ ~lease[d].sent /\ UNCHANGED <<clock, outbox>>
      /\ deliveries' = [deliveries EXCEPT ![lease[d].key] = @ + 1]
      /\ lease' = [lease EXCEPT ![d].sent = TRUE]
  BY DEF Send
<1>2. lease[d] \in Lease /\ lease[d].key \in Keys
  BY <1>1 DEF TypeOK, Lease
<1>3. /\ lease'[d] = [lease[d] EXCEPT !.sent = TRUE]
      /\ \A e \in Workers \ {d} : lease'[e] = lease[e]
      /\ lease' = [e \in Workers |-> lease'[e]]
  BY <1>1 DEF TypeOK
<1>4. lease'[d] \in Lease /\ lease'[d].sent
  BY <1>2, <1>3 DEF Lease
<1>5. lease' \in [Workers -> Lease \cup {NoLease}]
  BY <1>3, <1>4 DEF TypeOK
<1> QED BY <1>1, <1>2, <1>3, <1>4, <1>5

LEMMA Enqueueing ==
  ASSUME TypeOK, NEW k \in Keys, EnqueueOutbox(k)
  PROVE  /\ outbox' \in [Keys -> Row] /\ Opens(outbox[k], outbox'[k])
         /\ \A j \in Keys \ {k} : outbox'[j] = outbox[j]
         /\ UNCHANGED <<clock, lease, deliveries>>
<1>1. PICK now \in Readings, budget \in Budgets :
        outbox' = [outbox EXCEPT ![k] = Inserted(outbox[k], now, budget)]
  BY DEF EnqueueOutbox, Insert
<1>2. now \in Nat /\ budget \in Nat
  BY ReadingsAreTimes, DurationsAssumption
<1>3. outbox[k] \in Row
  BY DEF TypeOK
<1>4. Inserted(outbox[k], now, budget) \in Row
  BY <1>2, <1>3, StatusTypes DEF Inserted, Fresh, Row
<1>5. UNCHANGED <<clock, lease, deliveries>>
  BY DEF EnqueueOutbox
<1>6. outbox'[k] = Inserted(outbox[k], now, budget)
  BY <1>1 DEF TypeOK
<1> QED BY <1>1, <1>2, <1>4, <1>5, <1>6 DEF TypeOK, Opens

-----------------------------------------------------------------------------
(* Each row moves by one statement, and at most one row is served.         *)

MovesByRow ==
  /\ outbox' \in [Keys -> Row]
  /\ \A k \in Keys : Becomes(outbox[k], outbox'[k])
  /\ \A j, k \in Keys : Served(j) /\ Served(k) => j = k

LEMMA RowsMove ==
  ASSUME TypeOK, [Next]_vars
  PROVE  MovesByRow
<1> USE DEF MovesByRow
<1>0. \A k \in Keys : ~Served(k) => Becomes(outbox[k], outbox'[k])
  BY DEF Served, Becomes
<1>1. CASE UNCHANGED outbox
  BY <1>1 DEF TypeOK, Served, Becomes
<1>2. ASSUME NEW k \in Keys, EnqueueOutbox(k) PROVE MovesByRow
  BY <1>2, Enqueueing DEF Served, Becomes
<1>3. ASSUME NEW d \in Workers, ClaimNextOutbox(d) PROVE MovesByRow
  <2>1. PICK now \in Readings, seconds \in LeaseSeconds :
          \/ Swipes(now)
          \/ \E k \in Candidates(now) : Grant(d, k, now, seconds)
    BY <1>3, Claiming
  <2>2. CASE Swipes(now)
    BY <1>0, <2>2, Swiping
  <2>3. ASSUME NEW k \in Candidates(now), Grant(d, k, now, seconds)
        PROVE  MovesByRow
    <3>1. /\ k \in Keys /\ outbox' \in [Keys -> Row]
          /\ Grants(outbox[k], outbox'[k])
          /\ \A j \in Keys \ {k} : ~Served(j)
      BY <2>3, Granting
    <3>2. Becomes(outbox[k], outbox'[k])
      BY <3>1 DEF Becomes
    <3> QED BY <1>0, <3>1, <3>2
  <2> QED BY <2>1, <2>2, <2>3
<1>4. ASSUME NEW d \in Workers,
             AckDispatched(d) \/ FailDispatch(d) \/ HeartbeatOutbox(d)
      PROVE  MovesByRow
  BY <1>4, Closing DEF Served, Becomes
<1>5. ASSUME NEW d \in Workers, Send(d) \/ Crash(d) PROVE UNCHANGED outbox
  BY <1>5 DEF Send, Crash
<1>6. CASE UNCHANGED vars \/ Tick
  BY <1>1, <1>6 DEF vars, Tick
<1> QED BY <1>1, <1>2, <1>3, <1>4, <1>5, <1>6 DEF Next

LEMMA TypeStep ==
  ASSUME TypeOK, [Next]_vars
  PROVE  TypeOK'
<1>1. outbox' \in [Keys -> Row]
  BY RowsMove DEF MovesByRow
<1>2. CASE UNCHANGED vars \/ Tick
  BY <1>1, <1>2 DEF vars, Tick, TypeOK
<1>3. ASSUME NEW k \in Keys, EnqueueOutbox(k) PROVE TypeOK'
  BY <1>1, <1>3, Enqueueing DEF TypeOK
<1>4. ASSUME NEW d \in Workers, ClaimNextOutbox(d) PROVE TypeOK'
  <2>1. PICK now \in Readings, seconds \in LeaseSeconds :
          \/ Swipes(now)
          \/ \E k \in Candidates(now) : Grant(d, k, now, seconds)
    BY <1>4, Claiming
  <2>2. lease' \in [Workers -> Lease \cup {NoLease}]
    <3>1. CASE Swipes(now)
      BY <3>1 DEF Swipes, TypeOK
    <3>2. CASE \E k \in Candidates(now) : Grant(d, k, now, seconds)
      BY <3>2, Granting
    <3> QED BY <2>1, <3>1, <3>2
  <2> QED BY <1>1, <1>4, <2>2, Claiming DEF TypeOK
<1>5. ASSUME NEW d \in Workers,
             AckDispatched(d) \/ FailDispatch(d) \/ HeartbeatOutbox(d)
      PROVE  TypeOK'
  BY <1>1, <1>5, Closing DEF TypeOK
<1>6. ASSUME NEW d \in Workers, Send(d) PROVE TypeOK'
  BY <1>1, <1>6, Sending DEF TypeOK
<1>7. ASSUME NEW d \in Workers, Crash(d) PROVE TypeOK'
  BY <1>1, <1>7 DEF Crash, TypeOK
<1> QED BY <1>2, <1>3, <1>4, <1>5, <1>6, <1>7 DEF Next

LEMMA Initially == Init => RowInv
<1>1. NoRow \in Row /\ RowSound(NoRow)
  BY StatusTypes DEF NoRow, Row, RowSound, Waiting
<1> QED BY <1>1 DEF Init, RowInv, RowsSound, TypeOK

LEMMA RowStep ==
  ASSUME RowInv, [Next]_vars
  PROVE  RowInv'
<1>1. ASSUME NEW k \in Keys PROVE RowSound(outbox'[k])
  BY RowsMove, RowChange DEF MovesByRow, RowInv, RowsSound, TypeOK
<1> QED BY <1>1, TypeStep DEF RowInv, RowsSound

(* The columns of the outbox agree with each other and with its status:    *)
(* every attempt is a generation, within the budget of the row.            *)
THEOREM RowsStaySound == Spec => []RowInv
BY Initially, RowStep, PTL DEF Spec

-----------------------------------------------------------------------------
(* Claims, failures, acknowledgements and renewals, whatever their         *)
(* interleaving and whatever clock readings they carry, are the steps of   *)
(* the abstract work table (INV-030, INV-032).                             *)
LEMMA ServesIsServed ==
  ASSUME RowInv, NEW k \in Keys, Work!Served(Seen(outbox[k]), Seen(outbox'[k]))
  PROVE  Served(k)
<1>1. outbox[k] \in Row
  BY DEF RowInv, TypeOK
<1>2. outbox'[k] # outbox[k]
  <2> SUFFICES ASSUME outbox'[k] = outbox[k] PROVE FALSE
    OBVIOUS
  <2>1. CASE Work!Take(Seen(outbox[k]), Seen(outbox'[k]))
    <3>1. Seen(outbox'[k]).gen = Seen(outbox[k]).gen + 1
      BY <2>1 DEF Work!Take
    <3>2. outbox[k].version = outbox[k].version + 1
      BY <3>1 DEF Seen
    <3> QED BY <1>1, <3>2 DEF Row
  <2>2. CASE Work!Finish(Seen(outbox[k]), Seen(outbox'[k]))
    BY <2>2 DEF Work!Finish
  <2> QED BY <2>1, <2>2 DEF Work!Served
<1>3. ~Buries(outbox[k], outbox'[k])
  <2> SUFFICES ASSUME Buries(outbox[k], outbox'[k]) PROVE FALSE
    OBVIOUS
  <2>1. outbox'[k].status = "DEAD_LETTER"
    BY <1>1 DEF Buries, Buried, Row
  <2> QED BY <2>1 DEF Work!Served, Work!Take, Work!Finish, Seen, Phase, Waiting
<1> QED BY <1>2, <1>3 DEF Served

LEMMA WorkInitially == Init => Work!Init
<1>1. Seen(NoRow) = [phase |-> "absent", gen |-> 0, budget |-> 0]
  <2>1. NoRow.status = "ABSENT" /\ NoRow.version = 0 /\ NoRow.budget = 0
    BY DEF NoRow
  <2> QED BY <2>1 DEF Seen, Phase, Waiting
<1>2. Init => [k \in Keys |-> Seen(outbox[k])]
              = [k \in Keys |-> [phase |-> "absent", gen |-> 0, budget |-> 0]]
  BY <1>1 DEF Init
<1> QED BY <1>2 DEF Work!Init

LEMMA WorkStep ==
  ASSUME RowInv, MovesByRow
  PROVE  Work!Next
<1>1. ASSUME NEW k \in Keys
      PROVE  Work!Moves(Seen(outbox[k]), Seen(outbox'[k]))
  BY RowChange DEF MovesByRow, RowInv, RowsSound, TypeOK
<1>2. \A j, k \in Keys :
        /\ Work!Served(Seen(outbox[j]), Seen(outbox'[j]))
        /\ Work!Served(Seen(outbox[k]), Seen(outbox'[k]))
        => j = k
  BY ServesIsServed DEF MovesByRow
<1> QED BY <1>1, <1>2 DEF Work!Next

THEOREM Implements == Spec => ImplementsFencedWork
<1>1. RowInv /\ [Next]_vars
      => [Work!Next]_([k \in Keys |-> Seen(outbox[k])])
  BY RowsMove, WorkStep DEF RowInv
<1> QED BY WorkInitially, <1>1, RowsStaySound, PTL
    DEF Spec, ImplementsFencedWork, Work!Spec

-----------------------------------------------------------------------------
(* Sends and attempts.                                                     *)

(* The dispatchers that still have to send k under the lease they hold.    *)
Unsent(k) == {d \in Workers : /\ lease[d] # NoLease
                              /\ lease[d].key = k /\ ~lease[d].sent}

SendsLeft ==
  \A k \in Keys :
    /\ IsFiniteSet(Unsent(k))
    /\ deliveries[k] + Cardinality(Unsent(k)) <= outbox[k].attempts

(* A step that sends nothing and hands out no lease on k.                  *)
LEMMA NoSend ==
  ASSUME RowInv, SendsLeft, NEW k \in Keys, deliveries'[k] = deliveries[k],
         Unsent(k)' \subseteq Unsent(k),
         outbox[k].attempts <= outbox'[k].attempts,
         outbox'[k].attempts \in Nat
  PROVE  /\ IsFiniteSet(Unsent(k)')
         /\ deliveries'[k] + Cardinality(Unsent(k)') <= outbox'[k].attempts
<1>1. /\ IsFiniteSet(Unsent(k))
      /\ deliveries[k] + Cardinality(Unsent(k)) <= outbox[k].attempts
      /\ deliveries[k] \in Nat /\ outbox[k].attempts \in Nat
  BY DEF SendsLeft, RowInv, TypeOK, Row
<1> DEFINE a == Unsent(k)
           b == Unsent(k)'
<1>2. IsFiniteSet(a) /\ b \in SUBSET a
  BY <1>1
<1> HIDE DEF a, b
<1>3. IsFiniteSet(b) /\ Cardinality(b) <= Cardinality(a)
      /\ Cardinality(a) \in Nat /\ Cardinality(b) \in Nat
  BY <1>2, FS_Subset, FS_CardinalityType
<1>4. deliveries[k] + Cardinality(a) <= outbox[k].attempts
  BY <1>1 DEF a
<1>5. IsFiniteSet(b) /\ deliveries'[k] + Cardinality(b) <= outbox'[k].attempts
  BY <1>1, <1>3, <1>4
<1> QED BY <1>5 DEF b

LEMMA SendStep ==
  ASSUME RowInv, SendsLeft, [Next]_vars
  PROVE  SendsLeft'
<1> SUFFICES ASSUME NEW k \in Keys
             PROVE  /\ IsFiniteSet(Unsent(k)')
                    /\ deliveries'[k] + Cardinality(Unsent(k)')
                         <= outbox'[k].attempts
  BY DEF SendsLeft
<1> DEFINE Goal == /\ IsFiniteSet(Unsent(k)')
                   /\ deliveries'[k] + Cardinality(Unsent(k)')
                        <= outbox'[k].attempts
<1>0. /\ outbox[k].attempts <= outbox'[k].attempts
      /\ outbox'[k].attempts \in Nat /\ outbox[k].attempts \in Nat
      /\ TypeOK /\ deliveries[k] \in Nat
  <2>1. MovesByRow /\ outbox[k] \in Row /\ RowSound(outbox[k])
    BY RowsMove DEF RowInv, RowsSound, TypeOK
  <2>2. outbox'[k] \in Row /\ outbox[k].attempts <= outbox'[k].attempts
    BY <2>1, RowChange DEF MovesByRow
  <2> QED BY <2>1, <2>2 DEF Row, RowInv, TypeOK
<1>1. CASE UNCHANGED <<lease, deliveries>>
  <2>1. Unsent(k)' \subseteq Unsent(k)
    BY <1>1 DEF Unsent
  <2> QED BY <1>0, <1>1, <2>1, NoSend
<1>2. ASSUME NEW d \in Workers, ClaimNextOutbox(d) PROVE Goal
  <2>1. PICK now \in Readings, seconds \in LeaseSeconds :
          \/ Swipes(now)
          \/ \E j \in Candidates(now) : Grant(d, j, now, seconds)
    BY <1>0, <1>2, Claiming
  <2>2. UNCHANGED deliveries
    BY <1>0, <1>2, Claiming
  <2>3. CASE Swipes(now)
    BY <1>1, <2>2, <2>3 DEF Swipes
  <2>4. ASSUME NEW j \in Candidates(now), Grant(d, j, now, seconds)
        PROVE  Goal
    <3>1. /\ outbox'[j].attempts = outbox[j].attempts + 1
          /\ lease'[d].key = j
          /\ \A e \in Workers \ {d} : lease'[e] = lease[e]
      BY <1>0, <2>4, Granting
    <3>2. CASE k # j
      <4>1. Unsent(k)' \subseteq Unsent(k)
        BY <3>1, <3>2 DEF Unsent
      <4> QED BY <1>0, <2>2, <4>1, NoSend
    <3>3. CASE k = j
      <4> DEFINE a == Unsent(k)
                 b == Unsent(k)'
      <4>1. b \subseteq a \cup {d}
        BY <3>1 DEF Unsent
      <4>2. IsFiniteSet(a) /\ deliveries[k] + Cardinality(a) <= outbox[k].attempts
        BY DEF SendsLeft
      <4> HIDE DEF a, b
      <4>3. /\ IsFiniteSet(a \cup {d}) /\ Cardinality(a) \in Nat
            /\ Cardinality(a \cup {d}) <= Cardinality(a) + 1
        <5>1. IsFiniteSet(a) /\ Cardinality(a) \in Nat
          BY <4>2, FS_CardinalityType
        <5>2. CASE d \in a
          <6>1. /\ IsFiniteSet(a \cup {d})
                /\ Cardinality(a \cup {d}) = Cardinality(a)
            BY <5>1, <5>2, FS_AddElement
          <6> QED BY <5>1, <6>1
        <5>3. CASE d \notin a
          <6>1. /\ IsFiniteSet(a \cup {d})
                /\ Cardinality(a \cup {d}) = Cardinality(a) + 1
            BY <5>1, <5>3, FS_AddElement
          <6> QED BY <5>1, <6>1
        <5> QED BY <5>2, <5>3
      <4>4. /\ IsFiniteSet(b) /\ Cardinality(b) \in Nat
            /\ Cardinality(b) <= Cardinality(a \cup {d})
        BY <4>1, <4>3, FS_Subset, FS_CardinalityType
      <4>5. Cardinality(a \cup {d}) \in Nat
        BY <4>3, FS_CardinalityType
      <4>6. deliveries'[k] + Cardinality(b) <= outbox'[k].attempts
        BY <1>0, <2>2, <3>1, <3>3, <4>2, <4>3, <4>4, <4>5
      <4> QED BY <4>4, <4>6 DEF b
    <3> QED BY <3>2, <3>3
  <2> QED BY <2>1, <2>3, <2>4
<1>3. ASSUME NEW d \in Workers,
             AckDispatched(d) \/ FailDispatch(d) \/ HeartbeatOutbox(d)
      PROVE  Goal
  <2>1. /\ UNCHANGED deliveries
        /\ \A e \in Workers : \/ lease'[e] = lease[e] \/ lease'[e] = NoLease
                              \/ /\ lease[e] # NoLease
                                 /\ lease'[e].key = lease[e].key
                                 /\ lease'[e].sent = lease[e].sent
    BY <1>0, <1>3, Closing
  <2>2. Unsent(k)' \subseteq Unsent(k)
    BY <2>1 DEF Unsent
  <2> QED BY <1>0, <2>1, <2>2, NoSend
<1>4. ASSUME NEW d \in Workers, Crash(d) PROVE Goal
  <2>1. UNCHANGED deliveries /\ lease' = [lease EXCEPT ![d] = NoLease]
    BY <1>4 DEF Crash
  <2>2. Unsent(k)' \subseteq Unsent(k)
    BY <1>0, <2>1 DEF Unsent, TypeOK
  <2> QED BY <1>0, <2>1, <2>2, NoSend
<1>5. ASSUME NEW d \in Workers, Send(d) PROVE Goal
  <2>1. /\ lease[d] # NoLease /\ ~lease[d].sent /\ lease[d].key \in Keys
        /\ deliveries' = [deliveries EXCEPT ![lease[d].key] = @ + 1]
        /\ lease'[d].sent /\ UNCHANGED outbox
        /\ \A e \in Workers \ {d} : lease'[e] = lease[e]
    BY <1>0, <1>5, Sending
  <2>2. CASE k # lease[d].key
    <3>1. Unsent(k)' \subseteq Unsent(k) /\ deliveries'[k] = deliveries[k]
      BY <1>0, <2>1, <2>2 DEF Unsent, TypeOK
    <3> QED BY <1>0, <3>1, NoSend
  <2>3. CASE k = lease[d].key
    <3> DEFINE a == Unsent(k)
               b == Unsent(k)'
    <3>1. b \subseteq a \ {d} /\ d \in a /\ deliveries'[k] = deliveries[k] + 1
      BY <1>0, <2>1, <2>3 DEF Unsent, TypeOK
    <3>2. IsFiniteSet(a) /\ deliveries[k] + Cardinality(a) <= outbox[k].attempts
      BY DEF SendsLeft
    <3> HIDE DEF a, b
    <3>3. /\ IsFiniteSet(a \ {d}) /\ Cardinality(a) \in Nat
          /\ Cardinality(a \ {d}) = Cardinality(a) - 1
      BY <3>1, <3>2, FS_RemoveElement, FS_CardinalityType
    <3>4. /\ IsFiniteSet(b) /\ Cardinality(b) \in Nat
          /\ Cardinality(b) <= Cardinality(a \ {d})
      BY <3>1, <3>3, FS_Subset, FS_CardinalityType
    <3>5. deliveries'[k] + Cardinality(b) <= outbox'[k].attempts
      BY <1>0, <2>1, <3>1, <3>2, <3>3, <3>4
    <3> QED BY <3>4, <3>5 DEF b
  <2> QED BY <2>2, <2>3
<1>6. CASE UNCHANGED vars \/ Tick \/ \E j \in Keys : EnqueueOutbox(j)
  <2>1. UNCHANGED <<lease, deliveries>>
    BY <1>6 DEF vars, Tick, EnqueueOutbox
  <2> QED BY <1>1, <2>1
<1> QED BY <1>2, <1>3, <1>4, <1>5, <1>6 DEF Next

LEMMA SendsInitially == Init => SendsLeft
<1> SUFFICES ASSUME Init, NEW k \in Keys
             PROVE  /\ IsFiniteSet(Unsent(k))
                    /\ deliveries[k] + Cardinality(Unsent(k))
                         <= outbox[k].attempts
  BY DEF SendsLeft
<1>1. Unsent(k) = {}
  BY DEF Init, Unsent
<1>2. deliveries[k] = 0 /\ outbox[k].attempts = 0
  BY DEF Init, NoRow
<1> QED BY <1>1, <1>2, FS_EmptySet

LEMMA SendsBound ==
  ASSUME RowInv, SendsLeft
  PROVE  BoundedDelivery
<1> SUFFICES ASSUME NEW k \in Keys
             PROVE  /\ deliveries[k] <= outbox[k].attempts
                    /\ outbox[k].attempts <= outbox[k].budget
  BY DEF BoundedDelivery
<1> DEFINE n == Cardinality(Unsent(k))
<1>1. n \in Nat /\ deliveries[k] + n <= outbox[k].attempts
  BY FS_CardinalityType DEF SendsLeft
<1> HIDE DEF n
<1>2. /\ deliveries[k] \in Nat /\ outbox[k].attempts \in Nat
      /\ outbox[k].attempts <= outbox[k].budget
  BY DEF RowInv, RowsSound, RowSound, TypeOK, Row
<1> QED BY <1>1, <1>2

(* A key is sent at most once per attempt, and so at most as often as its  *)
(* budget, however many dispatchers were overtaken or died (INV-033).      *)
THEOREM Delivered == Spec => []BoundedDelivery
<1>1. RowInv /\ SendsLeft /\ [Next]_vars => SendsLeft'
  BY SendStep
<1>2. RowInv /\ SendsLeft => BoundedDelivery
  BY SendsBound
<1> QED BY SendsInitially, <1>1, <1>2, RowsStaySound, PTL DEF Spec

-----------------------------------------------------------------------------
(* What dispatchers leave to the callers of enqueue_outbox: they open no   *)
(* row, and hold and send only rows that are open.                         *)

DispatcherStep(d) ==
  \/ ClaimNextOutbox(d) \/ Send(d) \/ AckDispatched(d)
  \/ FailDispatch(d) \/ HeartbeatOutbox(d) \/ Crash(d)

LEMMA OpensNothing ==
  ASSUME NEW r \in Row, NEW s,
         s = r \/ Buries(r, s) \/ Grants(r, s) \/ Closes(r, s) \/ Extends(r, s)
  PROVE  s.status = "ABSENT" <=> r.status = "ABSENT"
<1>1. CASE Buries(r, s)
  BY <1>1 DEF Buries, Exhausted, Buried, Waiting, Row
<1>2. CASE Grants(r, s)
  BY <1>2 DEF Grants, Claimable, Granted, Waiting, Row
<1>3. CASE Closes(r, s)
  BY <1>3 DEF Closes, Finalized, Failed, Row
<1>4. CASE Extends(r, s)
  BY <1>4 DEF Extends, Extended, Row
<1> QED BY <1>1, <1>2, <1>3, <1>4

HoldsOpen(e) == lease[e] # NoLease => outbox[lease[e].key].status # "ABSENT"

LEMMA DispatchersOpenNothing ==
  ASSUME TypeOK, NEW d \in Workers, DispatcherStep(d)
  PROVE  /\ \A k \in Keys :
              outbox'[k].status = "ABSENT" <=> outbox[k].status = "ABSENT"
         /\ \A e \in Workers : HoldsOpen(e) => HoldsOpen(e)'
         /\ \A k \in Keys : deliveries'[k] # deliveries[k] =>
              lease[d] # NoLease /\ lease[d].key = k
<1> DEFINE Same == \A k \in Keys :
                     outbox'[k].status = "ABSENT" <=> outbox[k].status = "ABSENT"
<1>0. \A e \in Workers : lease[e] # NoLease => lease[e].key \in Keys
  BY DEF TypeOK, Lease
<1>1. CASE ClaimNextOutbox(d)
  <2>1. PICK now \in Readings, seconds \in LeaseSeconds :
          \/ Swipes(now)
          \/ \E k \in Candidates(now) : Grant(d, k, now, seconds)
    BY <1>1, Claiming
  <2>2. \A k \in Keys : ~Served(k) \/ Grants(outbox[k], outbox'[k])
    BY <2>1, Granting, Swiping
  <2>3. Same
    BY <2>2, OpensNothing DEF Served, TypeOK
  <2>4. UNCHANGED deliveries
    BY <1>1, Claiming
  <2>5. CASE Swipes(now)
    BY <1>0, <2>3, <2>4, <2>5 DEF Swipes, HoldsOpen
  <2>6. ASSUME NEW k \in Candidates(now), Grant(d, k, now, seconds)
        PROVE  \A e \in Workers : HoldsOpen(e) => HoldsOpen(e)'
    <3>1. /\ k \in Keys /\ Grants(outbox[k], outbox'[k]) /\ lease'[d].key = k
          /\ \A e \in Workers \ {d} : lease'[e] = lease[e]
      BY <2>6, Granting
    <3>2. outbox'[k].status # "ABSENT"
      BY <3>1 DEF Grants, Granted, TypeOK, Row
    <3> QED BY <1>0, <2>3, <3>1, <3>2 DEF HoldsOpen
  <2> QED BY <2>1, <2>3, <2>4, <2>5, <2>6
<1>2. CASE AckDispatched(d) \/ FailDispatch(d) \/ HeartbeatOutbox(d)
  <2>1. /\ lease[d].key \in Keys /\ UNCHANGED deliveries
        /\ \A k \in Keys : \/ outbox'[k] = outbox[k]
                            \/ Closes(outbox[k], outbox'[k])
                            \/ Extends(outbox[k], outbox'[k])
        /\ \A e \in Workers : \/ lease'[e] = lease[e] \/ lease'[e] = NoLease
                              \/ /\ lease[e] # NoLease
                                 /\ lease'[e].key = lease[e].key
    BY <1>2, Closing
  <2>2. Same
    BY <2>1, OpensNothing DEF TypeOK
  <2> QED BY <1>0, <2>1, <2>2 DEF HoldsOpen
<1>3. CASE Send(d)
  <2>1. /\ lease[d] # NoLease /\ lease[d].key \in Keys /\ UNCHANGED outbox
        /\ deliveries' = [deliveries EXCEPT ![lease[d].key] = @ + 1]
        /\ \A e \in Workers \ {d} : lease'[e] = lease[e]
    BY <1>3, Sending
  <2>2. lease'[d].key = lease[d].key
    <3>1. lease'[d] = [lease[d] EXCEPT !.sent = TRUE] /\ lease[d] \in Lease
      BY <1>3, Sending DEF Send, TypeOK
    <3> QED BY <3>1 DEF Lease
  <2>3. \A k \in Keys : k # lease[d].key => deliveries'[k] = deliveries[k]
    BY <2>1 DEF TypeOK
  <2> QED BY <2>1, <2>2, <2>3 DEF HoldsOpen
<1>4. CASE Crash(d)
  BY <1>4 DEF Crash, HoldsOpen, TypeOK
<1> QED BY <1>1, <1>2, <1>3, <1>4 DEF DispatcherStep

-----------------------------------------------------------------------------
(* The coordinator.                                                        *)

Answers ==
  /\ results \in [Keys -> ResultIds \cup {NoResult}]
  /\ outcome \in [Workers -> ResultIds \cup {Raised, Unknown}]
  /\ \A d \in Workers :
       /\ outcome[d] # Unknown => lease[d] # NoLease
       /\ outcome[d] \in ResultIds => lease[d].sent

DispatchInv == TypeOK /\ Answers

-----------------------------------------------------------------------------
LEMMA SentLease ==
  ASSUME NEW l \in Lease
  PROVE  [l EXCEPT !.sent = TRUE] \in Lease
BY DEF Lease

LEMMA DispatchInitially ==
  DispatchInit => DispatchInv /\ ResultIffDispatched
<1>1. ASSUME DispatchInit PROVE TypeOK
  BY <1>1, Initially DEF DispatchInit, RowInv
<1>2. ASSUME DispatchInit PROVE Answers
  BY <1>2, OutcomesAssumption DEF DispatchInit, Answers
<1>3. ASSUME DispatchInit PROVE ResultIffDispatched
  <2>1. \A k \in Keys : outbox[k].status = "ABSENT" /\ results[k] = NoResult
    BY <1>3 DEF DispatchInit, Init, NoRow
  <2> QED BY <2>1 DEF ResultIffDispatched
<1> QED BY <1>1, <1>2, <1>3 DEF DispatchInv

(* Abandoning a call is, for the outbox, the death of the dispatcher.      *)
LEMMA Abandoning ==
  ASSUME NEW d \in Workers, lease[d] # NoLease, Abandon(d)
  PROVE  Crash(d)
BY DEF Abandon, Crash

LEMMA Persisting ==
  ASSUME DispatchInv, NEW d \in Workers, PersistResultAndAck(d)
  PROVE  \/ /\ CanPersist(d) /\ AckDispatched(d)
            /\ results' = [results EXCEPT ![lease[d].key] = outcome[d]]
            /\ outcome' = [outcome EXCEPT ![d] = Unknown]
         \/ Abandon(d) /\ Crash(d)
<1>1. lease[d] # NoLease /\ outcome[d] \in ResultIds /\ lease[d].sent
  BY DEF PersistResultAndAck, DispatchInv, Answers
<1>2. CASE ~CanPersist(d) /\ Abandon(d)
  BY <1>1, <1>2, Abandoning
<1>3. CASE /\ CanPersist(d)
           /\ results' = [results EXCEPT ![lease[d].key] = outcome[d]]
           /\ outbox' = [outbox EXCEPT ![lease[d].key] = Finalized(@)]
           /\ lease' = [lease EXCEPT ![d] = NoLease]
           /\ outcome' = [outcome EXCEPT ![d] = Unknown]
           /\ UNCHANGED <<clock, id, deliveries>>
  BY <1>1, <1>3 DEF CanPersist, AckDispatched
<1> QED BY <1>2, <1>3 DEF PersistResultAndAck

LEMMA OutboxStep ==
  ASSUME DispatchInv, [DispatchNext]_dispatchVars
  PROVE  [Next]_vars
<1>1. CASE UNCHANGED dispatchVars
  BY <1>1 DEF dispatchVars, vars
<1>2. CASE Environment
  BY <1>2 DEF Environment, Next
<1>3. ASSUME NEW d \in Workers, Claim(d) PROVE Next
  BY <1>3 DEF Claim, Next
<1>4. ASSUME NEW d \in Workers, BindingFails(d) PROVE UNCHANGED vars
  BY <1>4 DEF BindingFails, vars
<1>5. ASSUME NEW d \in Workers, Execute(d) PROVE Next
  BY <1>5 DEF Execute, Next
<1>6. ASSUME NEW d \in Workers, ReportFailure(d) PROVE Next
  BY <1>6, Abandoning DEF ReportFailure, Next
<1>7. ASSUME NEW d \in Workers, PersistResultAndAck(d) PROVE Next
  BY <1>7, Persisting DEF Next
<1>8. ASSUME NEW d \in Workers, Die(d) PROVE Next
  BY <1>8, Abandoning DEF Die, Next
<1> QED BY <1>1, <1>2, <1>3, <1>4, <1>5, <1>6, <1>7, <1>8
        DEF DispatchNext, DispatchOnce

-----------------------------------------------------------------------------
(* A call that ends forgets its outcome with its lease.                    *)
LEMMA CallEnds ==
  ASSUME DispatchInv, NEW d \in Workers,
         lease' = [lease EXCEPT ![d] = NoLease],
         outcome' = [outcome EXCEPT ![d] = Unknown],
         results' \in [Keys -> ResultIds \cup {NoResult}]
  PROVE  Answers'
<1>1. /\ outcome' \in [Workers -> ResultIds \cup {Raised, Unknown}]
      /\ outcome'[d] = Unknown
      /\ \A e \in Workers \ {d} : outcome'[e] = outcome[e] /\ lease'[e] = lease[e]
  BY DEF DispatchInv, TypeOK, Answers
<1> QED BY <1>1, OutcomesAssumption DEF DispatchInv, Answers

LEMMA AnswersStep ==
  ASSUME DispatchInv, [DispatchNext]_dispatchVars
  PROVE  Answers'
<1> USE DEF DispatchInv
<1>1. CASE UNCHANGED <<lease, results, outcome>>
  BY <1>1 DEF Answers
<1>2. CASE Environment
  BY <1>1, <1>2 DEF Environment, Tick, EnqueueOutbox
<1>3. ASSUME NEW d \in Workers, Claim(d) PROVE Answers'
  <2>1. outcome[d] = Unknown /\ UNCHANGED <<results, outcome>>
    BY <1>3 DEF Claim, Answers
  <2>2. \A e \in Workers \ {d} : lease'[e] = lease[e]
    <3>1. PICK now \in Readings, seconds \in LeaseSeconds :
            \/ Swipes(now)
            \/ \E k \in Candidates(now) : Grant(d, k, now, seconds)
      BY <1>3, Claiming DEF Claim
    <3> QED BY <3>1, Granting DEF Swipes
  <2> QED BY <2>1, <2>2, OutcomesAssumption DEF Answers
<1>4. ASSUME NEW d \in Workers, BindingFails(d) PROVE Answers'
  <2>1. /\ lease[d] # NoLease /\ UNCHANGED <<lease, results>>
        /\ outcome' = [outcome EXCEPT ![d] = Raised]
    BY <1>4 DEF BindingFails
  <2>2. /\ outcome' \in [Workers -> ResultIds \cup {Raised, Unknown}]
        /\ outcome'[d] = Raised
        /\ \A e \in Workers \ {d} : outcome'[e] = outcome[e]
    BY <2>1 DEF Answers
  <2>3. Raised \notin ResultIds
    BY OutcomesAssumption
  <2> QED BY <2>1, <2>2, <2>3 DEF Answers
<1>5. ASSUME NEW d \in Workers, Execute(d) PROVE Answers'
  <2>1. /\ lease'[d].sent /\ \A e \in Workers \ {d} : lease'[e] = lease[e]
        /\ lease'[d] # NoLease
    <3>1. /\ lease[d] # NoLease /\ lease[d] \in Lease
          /\ lease' = [lease EXCEPT ![d].sent = TRUE]
      BY <1>5, Sending DEF Execute, Send
    <3>2. lease'[d] = [lease[d] EXCEPT !.sent = TRUE]
      BY <3>1 DEF TypeOK
    <3>3. lease'[d] \in Lease
      BY <3>1, <3>2, SentLease
    <3> QED BY <1>5, <3>3, Sending, NoLeaseAssumption DEF Execute
  <2>2. PICK r \in ResultIds \cup {Raised} :
          outcome' = [outcome EXCEPT ![d] = r]
    BY <1>5 DEF Execute
  <2>3. /\ outcome' \in [Workers -> ResultIds \cup {Raised, Unknown}]
        /\ \A e \in Workers \ {d} : outcome'[e] = outcome[e]
    BY <2>2 DEF Answers
  <2>4. UNCHANGED results
    BY <1>5 DEF Execute
  <2> QED BY <2>1, <2>3, <2>4 DEF Answers
<1>6. ASSUME NEW d \in Workers, Abandon(d) PROVE Answers'
  <2>1. results' \in [Keys -> ResultIds \cup {NoResult}]
    BY <1>6 DEF Abandon, Answers
  <2> QED BY <1>6, <2>1, CallEnds DEF Abandon
<1>7. ASSUME NEW d \in Workers, ReportFailure(d) PROVE Answers'
  <2>1. CASE Abandon(d)
    BY <1>6, <2>1
  <2>2. CASE /\ FailDispatch(d) /\ UNCHANGED results
             /\ outcome' = [outcome EXCEPT ![d] = Unknown]
    <3>1. lease' = [lease EXCEPT ![d] = NoLease]
          /\ results' \in [Keys -> ResultIds \cup {NoResult}]
      BY <2>2 DEF FailDispatch, Answers
    <3> QED BY <2>2, <3>1, CallEnds
  <2> QED BY <1>7, <2>1, <2>2 DEF ReportFailure
<1>8. ASSUME NEW d \in Workers, PersistResultAndAck(d) PROVE Answers'
  <2>1. CASE Abandon(d)
    BY <1>6, <2>1
  <2>2. CASE /\ AckDispatched(d)
             /\ results' = [results EXCEPT ![lease[d].key] = outcome[d]]
             /\ outcome' = [outcome EXCEPT ![d] = Unknown]
    <3>1. lease' = [lease EXCEPT ![d] = NoLease] /\ outcome[d] \in ResultIds
      BY <1>8, <2>2 DEF AckDispatched, PersistResultAndAck
    <3>2. results' \in [Keys -> ResultIds \cup {NoResult}]
      BY <2>2, <3>1 DEF Answers
    <3> QED BY <2>2, <3>1, <3>2, CallEnds
  <2> QED BY <1>8, <2>1, <2>2, Persisting
<1>9. CASE UNCHANGED dispatchVars
  BY <1>1, <1>9 DEF dispatchVars
<1> QED BY <1>2, <1>3, <1>4, <1>5, <1>6, <1>7, <1>8, <1>9
        DEF DispatchNext, DispatchOnce, Die

LEMMA DispatchStep ==
  ASSUME DispatchInv, [DispatchNext]_dispatchVars
  PROVE  DispatchInv'
BY OutboxStep, AnswersStep, TypeStep DEF DispatchInv

(* Every step of the coordinator, over any number of dispatchers, is a     *)
(* step of the outbox protocol or changes nothing of it: whatever holds of *)
(* the outbox holds under the coordinator.                                 *)
THEOREM CoordinatorRunsOutbox == DispatchSpec => ImplementsOutbox
<1>1. DispatchInit => DispatchInv /\ Init
  BY DispatchInitially DEF DispatchInit
<1>2. DispatchInv /\ [DispatchNext]_dispatchVars => DispatchInv'
  BY DispatchStep
<1>3. DispatchInv /\ [DispatchNext]_dispatchVars => [Next]_vars
  BY OutboxStep
<1> QED BY <1>1, <1>2, <1>3, PTL DEF DispatchSpec, ImplementsOutbox, Spec

-----------------------------------------------------------------------------
(* The only statement that closes a row is the one that stores its result. *)

SameClosed ==
  \A k \in Keys :
    outbox'[k].status = "DISPATCHED" <=> outbox[k].status = "DISPATCHED"

LEMMA KeepsClosed ==
  ASSUME ResultIffDispatched, SameClosed, UNCHANGED results
  PROVE  ResultIffDispatched'
BY DEF ResultIffDispatched, SameClosed

(* Inserting, burying, granting and failing close no row and reopen none.  *)
LEMMA NotClosing ==
  ASSUME NEW r \in Row, NEW s,
         s = r \/ Opens(r, s) \/ Buries(r, s) \/ Grants(r, s)
         \/ (/\ r.status = "SENDING"
             /\ \E now, backoff : s = Failed(r, now, backoff))
  PROVE  s.status = "DISPATCHED" <=> r.status = "DISPATCHED"
<1>1. CASE Opens(r, s)
  BY <1>1 DEF Opens, Inserted, Fresh
<1>2. CASE Buries(r, s)
  BY <1>2 DEF Buries, Exhausted, Buried, Waiting, Row
<1>3. CASE Grants(r, s)
  BY <1>3 DEF Grants, Claimable, Granted, Waiting, Row
<1>4. CASE /\ r.status = "SENDING"
           /\ \E now, backoff : s = Failed(r, now, backoff)
  BY <1>4 DEF Failed, Row
<1> QED BY <1>1, <1>2, <1>3, <1>4

LEMMA OthersKeepClosed ==
  ASSUME TypeOK, NEW d \in Workers,
         \/ Tick \/ Send(d) \/ Crash(d) \/ UNCHANGED outbox
         \/ ClaimNextOutbox(d) \/ FailDispatch(d)
         \/ \E k \in Keys : EnqueueOutbox(k)
  PROVE  SameClosed
<1> SUFFICES ASSUME NEW k \in Keys
             PROVE  outbox'[k].status = "DISPATCHED"
                      <=> outbox[k].status = "DISPATCHED"
  BY DEF SameClosed
<1>0. outbox[k] \in Row
  BY DEF TypeOK
<1>1. CASE Tick \/ Send(d) \/ Crash(d) \/ UNCHANGED outbox
  BY <1>1 DEF Tick, Send, Crash
<1>2. CASE ClaimNextOutbox(d)
  <2>1. PICK now \in Readings, seconds \in LeaseSeconds :
          \/ Swipes(now)
          \/ \E j \in Candidates(now) : Grant(d, j, now, seconds)
    BY <1>2, Claiming
  <2>2. ~Served(k) \/ Grants(outbox[k], outbox'[k])
    BY <2>1, Granting, Swiping
  <2> QED BY <1>0, <2>2, NotClosing DEF Served
<1>3. CASE FailDispatch(d)
  <2>1. /\ lease[d].key \in Keys
        /\ \A j \in Keys \ {lease[d].key} : outbox'[j] = outbox[j]
    BY <1>3, Closing
  <2>2. PICK now \in LeaseReadings(d), backoff \in Backoffs :
          outbox' = [outbox EXCEPT ![lease[d].key] = Failed(@, now, backoff)]
    BY <1>3 DEF FailDispatch
  <2>3. CASE k = lease[d].key
    <3>1. outbox[k].status = "SENDING"
      BY <1>3, <2>3 DEF FailDispatch, AssertOutboxFence, FenceHolds
    <3>2. outbox'[k] = Failed(outbox[k], now, backoff)
      BY <2>2, <2>3 DEF TypeOK
    <3> QED BY <1>0, <3>1, <3>2, NotClosing
  <2> QED BY <2>1, <2>3
<1>4. CASE \E j \in Keys : EnqueueOutbox(j)
  <2>1. outbox'[k] = outbox[k] \/ Opens(outbox[k], outbox'[k])
    BY <1>4, Enqueueing
  <2> QED BY <1>0, <2>1, NotClosing
<1> QED BY <1>1, <1>2, <1>3, <1>4

LEMMA PersistKeepsMatch ==
  ASSUME DispatchInv, ResultIffDispatched, NEW d \in Workers,
         CanPersist(d), AckDispatched(d), outcome[d] \in ResultIds,
         results' = [results EXCEPT ![lease[d].key] = outcome[d]]
  PROVE  ResultIffDispatched'
<1> DEFINE key == lease[d].key
<1>1. key \in Keys /\ lease[d] # NoLease
  BY Closing DEF DispatchInv, AckDispatched, AssertOutboxFence
<1>2. /\ results'[key] = outcome[d] /\ outcome[d] # NoResult
      /\ \A j \in Keys \ {key} : results'[j] = results[j]
      /\ \A j \in Keys : results[j] # outcome[d]
  BY <1>1, OutcomesAssumption DEF DispatchInv, Answers, CanPersist
<1>3. outbox' = [outbox EXCEPT ![key] = Finalized(outbox[key])]
  BY DEF AckDispatched
<1>4. Finalized(outbox[key]).status = "DISPATCHED"
  <2>1. outbox[key] \in Row
    BY <1>1 DEF DispatchInv, TypeOK
  <2> QED BY <2>1 DEF Finalized, Row
<1>5. /\ outbox'[key].status = "DISPATCHED"
      /\ \A j \in Keys \ {key} : outbox'[j] = outbox[j]
  BY <1>1, <1>3, <1>4 DEF DispatchInv, TypeOK
<1> HIDE DEF key
<1> QED BY <1>1, <1>2, <1>5 DEF ResultIffDispatched

LEMMA MatchStep ==
  ASSUME DispatchInv, ResultIffDispatched, [DispatchNext]_dispatchVars
  PROVE  ResultIffDispatched'
<1> USE DEF DispatchInv
<1>1. CASE UNCHANGED dispatchVars
  <2>1. SameClosed /\ UNCHANGED results
    BY <1>1 DEF dispatchVars, SameClosed
  <2> QED BY <2>1, KeepsClosed
<1>2. CASE Environment
  <2>1. UNCHANGED results
    BY <1>2 DEF Environment
  <2>2. SameClosed
    <3>1. CASE Tick
      BY <3>1 DEF Tick, SameClosed
    <3>2. ASSUME NEW j \in Keys, EnqueueOutbox(j) PROVE SameClosed
      BY <3>2, Enqueueing, NotClosing DEF SameClosed, TypeOK
    <3> QED BY <1>2, <3>1, <3>2 DEF Environment
  <2> QED BY <2>1, <2>2, KeepsClosed
<1>3. ASSUME NEW d \in Workers,
             \/ Claim(d) \/ BindingFails(d) \/ Execute(d) \/ Abandon(d)
             \/ FailDispatch(d) /\ UNCHANGED results
      PROVE  ResultIffDispatched'
  <2>1. UNCHANGED results
    BY <1>3 DEF Claim, BindingFails, Execute, Abandon
  <2>2. SameClosed
    BY <1>3, OthersKeepClosed DEF Claim, BindingFails, Execute, Abandon
  <2> QED BY <2>1, <2>2, KeepsClosed
<1>4. ASSUME NEW d \in Workers, PersistResultAndAck(d)
      PROVE  ResultIffDispatched'
  <2>1. outcome[d] \in ResultIds
    BY <1>4 DEF PersistResultAndAck
  <2> QED BY <1>3, <1>4, <2>1, Persisting, PersistKeepsMatch
<1> QED BY <1>1, <1>2, <1>3, <1>4
        DEF DispatchNext, DispatchOnce, ReportFailure, Die

(* At every moment the stored results are those of the closed rows, and no *)
(* two rows share one, although an agent may answer with an id that is     *)
(* taken and dispatchers are overtaken between executing and storing.      *)
THEOREM ResultsAreRows == DispatchSpec => []ResultIffDispatched
<1>1. DispatchInv /\ [DispatchNext]_dispatchVars => DispatchInv'
  BY DispatchStep
<1>2. DispatchInv /\ ResultIffDispatched /\ [DispatchNext]_dispatchVars
        => ResultIffDispatched'
  BY MatchStep
<1> QED BY DispatchInitially, <1>1, <1>2, PTL DEF DispatchSpec
=============================================================================
