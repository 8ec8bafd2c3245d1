--------------------------- MODULE GracefulHandoff --------------------------
(***************************************************************************)
(* The lease runtime with graceful shutdown (src/aodsl/graceful.py).  A    *)
(* draining worker claims nothing new, may still finish what it validly    *)
(* holds, and hands the rest back: relinquish_all first collects the       *)
(* worker's tokens under the lock and then relinquishes them one by one,   *)
(* so claims and finalizations of others, and its own, interleave.         *)
(*                                                                         *)
(* Any token ever issued may be presented again at any time.  The callers  *)
(* pass the time; the model gives them a common clock.                     *)
(***************************************************************************)
EXTENDS Integers

CONSTANTS
  Items,         \* work ids, in the order the runtime was given them
  Kind,          \* "event" or "outbox", for each work id
  Workers,
  NoWorker,      \* owner is None
  LeaseSeconds,
  MaxVersion,    \* bound: no claim takes a lease_version past it
  Horizon        \* bound on the clock

ASSUME KindAssumption   == Kind \in [Items -> {"event", "outbox"}]
ASSUME ItemsAssumption  == Items \subseteq Nat
ASSUME WorkerAssumption == NoWorker \notin Workers
ASSUME BoundAssumption  == /\ LeaseSeconds \subseteq Nat \ {0}
                           /\ MaxVersion \in Nat /\ Horizon \in Nat

VARIABLES
  clock,
  work,       \* the Work records
  draining,   \* _draining
  issued,     \* every Lease that claim has returned
  returned,   \* tokens a relinquish has given back (history)
  calling,    \* per worker, whether it is inside relinquish_all, and since when
  releasing,  \* per worker, the tokens its call has yet to relinquish
  drained     \* workers whose relinquish_all, called while draining, returned
              \* (history)

vars == <<clock, work, draining, issued, returned, calling, releasing,
          drained>>

NoTime == -1
Active(i) == IF Kind[i] = "event" THEN "PROCESSING" ELSE "SENDING"
Final(i)  == IF Kind[i] = "event" THEN "COMMITTED" ELSE "DISPATCHED"

Token == [item : Items, owner : Workers, version : Nat]

Work == [status  : {"PENDING", "PROCESSING", "SENDING", "COMMITTED",
                    "DISPATCHED"},
         owner   : Workers \cup {NoWorker},
         version : Nat,
         expires : Int]

Init ==
  /\ clock = 0
  /\ work = [i \in Items |-> [status |-> "PENDING", owner |-> NoWorker,
                              version |-> 0, expires |-> NoTime]]
  /\ draining = {} /\ drained = {}
  /\ calling = [w \in Workers |-> "no"]
  /\ issued = {} /\ returned = {}
  /\ releasing = [w \in Workers |-> {}]

-----------------------------------------------------------------------------
Tick ==
  /\ clock < Horizon
  /\ clock' = clock + 1
  /\ UNCHANGED <<work, draining, issued, returned, calling, releasing, drained>>

BeginShutdown(w) ==
  /\ draining' = draining \cup {w}
  /\ UNCHANGED <<clock, work, issued, returned, calling, releasing, drained>>

Eligible(i) ==
  \/ work[i].status = "PENDING"
  \/ /\ work[i].status = Active(i)
     /\ work[i].expires # NoTime /\ work[i].expires <= clock

Take(w, i) ==
  /\ work[i].version < MaxVersion
  /\ \E seconds \in LeaseSeconds :
       work' = [work EXCEPT ![i] =
                  [status |-> Active(i), owner |-> w,
                   version |-> @.version + 1, expires |-> clock + seconds]]
  /\ issued' = issued \cup {[item |-> i, owner |-> w,
                             version |-> work[i].version + 1]}
  /\ UNCHANGED <<clock, draining, returned, calling, releasing, drained>>

FaultyClaim(w) ==
  \E i \in Items :
    /\ Eligible(i)
    /\ \A j \in Items : Kind[j] = Kind[i] /\ Eligible(j) => i <= j
    /\ Take(w, i)

\* The first eligible work of a kind; nothing for a draining worker.
Claim(w) ==
  /\ w \notin draining
  /\ \E i \in Items :
       /\ Eligible(i)
       /\ \A j \in Items : Kind[j] = Kind[i] /\ Eligible(j) => i <= j
       /\ Take(w, i)

FaultyHolds(t) == work[t.item].status = Active(t.item)

\* The token is that of the present owner and generation.
Holds(t) ==
  /\ work[t.item].status = Active(t.item)
  /\ work[t.item].owner = t.owner
  /\ work[t.item].version = t.version

Finalize(t) ==
  /\ Holds(t)
  /\ work[t.item].expires # NoTime /\ work[t.item].expires > clock
  /\ work' = [work EXCEPT ![t.item].status = Final(t.item),
                          ![t.item].owner = NoWorker,
                          ![t.item].expires = NoTime]
  /\ UNCHANGED <<clock, draining, issued, returned, calling, releasing, drained>>

FaultyGiveBack(t) ==
  IF Holds(t)
    THEN /\ work' = [work EXCEPT ![t.item] =
                       [status |-> "PENDING", owner |-> NoWorker,
                        version |-> @.version, expires |-> NoTime]]
         /\ returned' = returned \cup {t}
    ELSE UNCHANGED <<work, returned>>

\* relinquish: compare-and-swap, whether or not the lease has expired.  The
\* generation is advanced; False, and no change, for a token that is stale.
GiveBack(t) ==
  IF Holds(t)
    THEN /\ work' = [work EXCEPT ![t.item] =
                       [status |-> "PENDING", owner |-> NoWorker,
                        version |-> @.version + 1, expires |-> NoTime]]
         /\ returned' = returned \cup {t}
    ELSE UNCHANGED <<work, returned>>

Relinquish(t) ==
  /\ GiveBack(t)
  /\ UNCHANGED <<clock, draining, issued, calling, releasing, drained>>

FaultyOwned(w) ==
  {[item |-> i, owner |-> w, version |-> work[i].version] :
     i \in {j \in Items : work[j].owner = w /\ work[j].expires > clock}}

\* The tokens relinquish_all collects in its critical section.
Owned(w) ==
  {[item |-> i, owner |-> w, version |-> work[i].version] :
     i \in {j \in Items : work[j].owner = w /\ work[j].expires # NoTime}}

BeginRelinquishAll(w) ==
  /\ calling[w] = "no"
  /\ calling' = [calling EXCEPT ![w] =
                   IF w \in draining THEN "draining" ELSE "serving"]
  /\ releasing' = [releasing EXCEPT ![w] = Owned(w)]
  /\ UNCHANGED <<clock, work, draining, issued, returned, drained>>

\* The lock has been released in between: each token is a step of its own.
RelinquishNext(w) ==
  /\ \E t \in releasing[w] :
       /\ GiveBack(t)
       /\ releasing' = [releasing EXCEPT ![w] = @ \ {t}]
  /\ UNCHANGED <<clock, draining, issued, calling, drained>>

EndRelinquishAll(w) ==
  /\ calling[w] # "no" /\ releasing[w] = {}
  /\ calling' = [calling EXCEPT ![w] = "no"]
  /\ drained' = IF calling[w] = "draining" THEN drained \cup {w} ELSE drained
  /\ UNCHANGED <<clock, work, draining, issued, returned, releasing>>

Next ==
  \/ Tick
  \/ \E w \in Workers : \/ BeginShutdown(w)
                        \/ Claim(w)
                        \/ BeginRelinquishAll(w)
                        \/ RelinquishNext(w)
                        \/ EndRelinquishAll(w)
  \/ \E t \in issued : Finalize(t) \/ Relinquish(t)

Spec == Init /\ [][Next]_vars

\* A worker that has begun its shutdown goes through with it.  The clock is
\* not fair: hand-off does not wait for leases to expire.
Fairness ==
  \A w \in Workers :
    /\ WF_vars(w \in draining /\ w \notin drained /\ BeginRelinquishAll(w))
    /\ WF_vars(RelinquishNext(w) \/ EndRelinquishAll(w))

FairSpec == Spec /\ Fairness

-----------------------------------------------------------------------------
(* INV-046.1 and its consequence.  A draining worker never becomes the     *)
(* owner of anything, and once its relinquish_all has returned it owns     *)
(* nothing, whatever happened between collecting and relinquishing.        *)
DrainedOwnsNothing ==
  \A w \in drained, i \in Items : work[i].owner # w

(* INV-046.4.  Every token given back is older than its work's generation, *)
(* so it can never finalize or relinquish again; and of all tokens issued  *)
(* for one work item at most one is current.                               *)
ReturnedTokensFenced ==
  /\ \A t \in returned : t.version < work[t.item].version
  /\ \A s, t \in issued :
       s.item = t.item /\ Holds(s) /\ Holds(t) => s = t

(* A lease is taken away from a worker only by its own relinquish or after *)
(* it expired; another worker's shutdown never touches it.                 *)
NotRobbed ==
  [][\A i \in Items, w \in Workers :
       work[i].owner = w /\ work'[i].owner # w
       => \/ work[i].expires <= clock
          \/ work'[i].status = Final(i)
          \/ [item |-> i, owner |-> w, version |-> work[i].version] \in returned'
     ]_vars

(* INV-046.3.  What a draining worker holds is handed over without waiting *)
(* for the lease to expire.                                                *)
HandoffWithoutExpiry ==
  \A w \in Workers, i \in Items :
    w \in draining /\ work[i].owner = w ~> work[i].owner # w
=============================================================================
