---------------------- MODULE GracefulHandoff_proofs -----------------------
(***************************************************************************)
(* A worker whose relinquish_all has returned owns nothing, although the   *)
(* lock is released between collecting its tokens and relinquishing them;  *)
(* a returned token stays stale; and a lease is taken only from an owner   *)
(* that let it expire.                                                     *)
(*                                                                         *)
(* What makes the first inductive: while the call is on, whatever the      *)
(* worker still owns is among the tokens that the call has left, because a *)
(* draining worker gets nothing new and no other step changes a generation *)
(* without changing the owner.                                             *)
(***************************************************************************)
EXTENDS GracefulHandoff, TLAPS

TypeOK ==
  /\ clock \in Nat
  /\ work \in [Items -> Work]
  /\ draining \subseteq Workers /\ drained \subseteq draining
  /\ issued \subseteq Token /\ returned \subseteq Token
  /\ calling \in [Workers -> {"no", "serving", "draining"}]
  /\ releasing \in [Workers -> SUBSET Token]

(* Owned work is active and has an expiry.                                 *)
OwnedIsActive ==
  \A i \in Items : work[i].owner # NoWorker =>
    work[i].status = Active(i) /\ work[i].expires # NoTime

TokenOf(i, w) == [item |-> i, owner |-> w, version |-> work[i].version]

(* What a draining call has not yet given back is still to be given back.  *)
LeftToRelease ==
  \A w \in Workers : calling[w] = "draining" =>
    /\ w \in draining
    /\ \A i \in Items : work[i].owner = w => TokenOf(i, w) \in releasing[w]

ReturnedAreOld == \A t \in returned : t.version < work[t.item].version

IInv == /\ TypeOK /\ OwnedIsActive /\ LeftToRelease
        /\ DrainedOwnsNothing /\ ReturnedAreOld

-----------------------------------------------------------------------------
(* The three ways in which the row of a work item changes.                 *)

TakenBy(w, i) ==
  \E seconds \in LeaseSeconds :
    work' = [work EXCEPT ![i] = [status |-> Active(i), owner |-> w,
                                 version |-> work[i].version + 1,
                                 expires |-> clock + seconds]]
FreedAs(i, status, version) ==
  work' = [work EXCEPT ![i] = [status |-> status, owner |-> NoWorker,
                               version |-> version, expires |-> NoTime]]

LEMMA StatusesDiffer ==
  ASSUME NEW i \in Items
  PROVE  /\ Active(i) \in {"PROCESSING", "SENDING"}
         /\ Final(i) \in {"COMMITTED", "DISPATCHED"}
BY KindAssumption DEF Active, Final

LEMMA TakenRow ==
  ASSUME TypeOK, NEW w \in Workers, NEW i \in Items, TakenBy(w, i)
  PROVE  /\ work' \in [Items -> Work]
         /\ \A j \in Items \ {i} : work'[j] = work[j]
         /\ work'[i].status = Active(i) /\ work'[i].owner = w
         /\ work'[i].version = work[i].version + 1
         /\ work'[i].expires # NoTime
<1>1. PICK seconds \in LeaseSeconds :
        work' = [work EXCEPT ![i] = [status |-> Active(i), owner |-> w,
                                     version |-> work[i].version + 1,
                                     expires |-> clock + seconds]]
  BY DEF TakenBy
<1>2. work[i].version \in Nat /\ clock \in Nat /\ seconds \in Nat
  BY BoundAssumption DEF TypeOK, Work
<1>3. [status |-> Active(i), owner |-> w, version |-> work[i].version + 1,
       expires |-> clock + seconds] \in Work
  BY <1>2, StatusesDiffer DEF Work
<1>4. clock + seconds # NoTime
  BY <1>2 DEF NoTime
<1> QED BY <1>1, <1>3, <1>4 DEF TypeOK

LEMMA FreedRow ==
  ASSUME TypeOK, NEW i \in Items,
         NEW status \in {"PENDING", "COMMITTED", "DISPATCHED"},
         NEW version \in Nat, FreedAs(i, status, version)
  PROVE  /\ work' \in [Items -> Work]
         /\ \A j \in Items \ {i} : work'[j] = work[j]
         /\ work'[i].status = status /\ work'[i].owner = NoWorker
         /\ work'[i].version = version
<1>1. [status |-> status, owner |-> NoWorker, version |-> version,
       expires |-> NoTime] \in Work
  BY DEF Work, NoTime
<1> QED BY <1>1 DEF TypeOK, FreedAs

(* relinquish: the row is freed with the next generation, or nothing is.   *)
LEMMA GivenBack ==
  ASSUME TypeOK, NEW t \in Token, GiveBack(t)
  PROVE  \/ /\ Holds(t) /\ returned' = returned \cup {t}
            /\ FreedAs(t.item, "PENDING", t.version + 1)
         \/ ~Holds(t) /\ UNCHANGED <<work, returned>>
<1>1. t.item \in Items
  BY DEF Token
<1>2. CASE Holds(t)
  BY <1>1, <1>2 DEF GiveBack, FreedAs, Holds, TypeOK
<1>3. CASE ~Holds(t)
  BY <1>3 DEF GiveBack
<1> QED BY <1>2, <1>3

-----------------------------------------------------------------------------
(* The rest of the invariant depends on rows only through these.           *)

LEMMA TakeKeeps ==
  ASSUME IInv, NEW w \in Workers \ draining, NEW i \in Items, Take(w, i)
  PROVE  IInv'
<1> DEFINE t == [item |-> i, owner |-> w, version |-> work[i].version + 1]
<1>1. TakenBy(w, i) /\ issued' = issued \cup {t}
  BY DEF Take, TakenBy, IInv, TypeOK
<1>2. UNCHANGED <<clock, draining, returned, calling, releasing, drained>>
  BY DEF Take
<1>3. /\ work' \in [Items -> Work]
      /\ \A j \in Items \ {i} : work'[j] = work[j]
      /\ work'[i].status = Active(i) /\ work'[i].owner = w
      /\ work'[i].version = work[i].version + 1
      /\ work'[i].expires # NoTime
  BY <1>1, TakenRow DEF IInv
<1>4. \A j \in Items : work[j].version \in Nat
  BY DEF IInv, TypeOK, Work
<1>5. TypeOK'
  BY <1>1, <1>2, <1>3, <1>4 DEF IInv, TypeOK, Token
<1>6. OwnedIsActive'
  BY <1>3 DEF IInv, OwnedIsActive, Active
<1>7. LeftToRelease'
  <2> SUFFICES ASSUME NEW v \in Workers, calling[v] = "draining"
               PROVE  /\ v \in draining
                      /\ \A j \in Items : work'[j].owner = v =>
                           [item |-> j, owner |-> v, version |-> work'[j].version]
                             \in releasing[v]
    BY <1>2 DEF LeftToRelease, TokenOf
  <2>1. v \in draining
    BY DEF IInv, LeftToRelease
  <2>2. ASSUME NEW j \in Items, work'[j].owner = v PROVE j # i
    BY <1>3, <2>1, <2>2
  <2> QED BY <1>3, <2>1, <2>2 DEF IInv, LeftToRelease, TokenOf
<1>8. DrainedOwnsNothing'
  BY <1>2, <1>3 DEF IInv, DrainedOwnsNothing, TypeOK
<1>9. ReturnedAreOld'
  <2> SUFFICES ASSUME NEW s \in returned PROVE s.version < work'[s.item].version
    BY <1>2 DEF ReturnedAreOld
  <2>1. s.item \in Items /\ s.version \in Nat
    BY DEF IInv, TypeOK, Token
  <2>2. s.version < work[s.item].version
    BY DEF IInv, ReturnedAreOld
  <2> QED BY <1>3, <1>4, <2>1, <2>2
<1> QED BY <1>5, <1>6, <1>7, <1>8, <1>9 DEF IInv

(* Freeing a row disturbs nobody who does not own it.                      *)
LEMMA FreeKeeps ==
  ASSUME IInv, NEW i \in Items,
         NEW status \in {"PENDING", "COMMITTED", "DISPATCHED"},
         NEW version \in Nat, FreedAs(i, status, version),
         work[i].version <= version,
         UNCHANGED <<draining, drained, calling>>,
         \A w \in Workers : \A j \in Items \ {i} :
           TokenOf(j, w) \in releasing[w] => TokenOf(j, w) \in releasing'[w]
  PROVE  OwnedIsActive' /\ LeftToRelease' /\ DrainedOwnsNothing'
         /\ \A s \in returned : s.version < work'[s.item].version
<1>1. /\ work' \in [Items -> Work]
      /\ \A j \in Items \ {i} : work'[j] = work[j]
      /\ work'[i].status = status /\ work'[i].owner = NoWorker
      /\ work'[i].version = version
  BY FreedRow DEF IInv
<1>2. OwnedIsActive'
  BY <1>1 DEF IInv, OwnedIsActive, Active
<1>3. LeftToRelease'
  <2> SUFFICES ASSUME NEW w \in Workers, calling[w] = "draining"
               PROVE  /\ w \in draining
                      /\ \A j \in Items : work'[j].owner = w =>
                           [item |-> j, owner |-> w, version |-> work'[j].version]
                             \in releasing'[w]
    BY DEF LeftToRelease, TokenOf
  <2>1. w \in draining
    BY DEF IInv, LeftToRelease
  <2>2. ASSUME NEW j \in Items, work'[j].owner = w
        PROVE  [item |-> j, owner |-> w, version |-> work'[j].version]
                 \in releasing'[w]
    <3>1. j # i
      BY <1>1, <2>2, WorkerAssumption
    <3>2. work'[j] = work[j]
      BY <1>1, <3>1
    <3>3. TokenOf(j, w) \in releasing[w]
      BY <2>2, <3>2 DEF IInv, LeftToRelease
    <3>4. TokenOf(j, w) \in releasing'[w]
      BY <3>1, <3>3
    <3> QED BY <3>2, <3>4 DEF TokenOf
  <2> QED BY <2>1, <2>2
<1>4. DrainedOwnsNothing'
  BY <1>1, WorkerAssumption DEF IInv, DrainedOwnsNothing, TypeOK
<1>5. ASSUME NEW s \in returned PROVE s.version < work'[s.item].version
  <2>1. s.item \in Items /\ s.version \in Nat
    BY DEF IInv, TypeOK, Token
  <2>2. s.version < work[s.item].version /\ work[s.item].version \in Nat
    BY <2>1 DEF IInv, ReturnedAreOld, TypeOK, Work
  <2> QED BY <1>1, <2>1, <2>2
<1> QED BY <1>2, <1>3, <1>4, <1>5

(* relinquish of any token, inside relinquish_all by w or from outside.    *)
LEMMA GiveBackKeeps ==
  ASSUME IInv, NEW t \in Token, GiveBack(t),
         UNCHANGED <<clock, draining, issued, calling, drained>>,
         releasing' \in [Workers -> SUBSET Token],
         \A w \in Workers : releasing[w] \ {t} \subseteq releasing'[w]
  PROVE  IInv'
<1> USE DEF IInv
<1>1. t.item \in Items /\ t.version \in Nat
  BY DEF Token
<1>2. \A w \in Workers, j \in Items :
        TokenOf(j, w) = t => j = t.item /\ w = t.owner /\ work[j].version = t.version
  BY DEF TokenOf
<1>3. CASE Holds(t)
  <2>1. FreedAs(t.item, "PENDING", t.version + 1) /\ returned' = returned \cup {t}
    BY <1>3, GivenBack
  <2>2. t.version + 1 \in Nat /\ work[t.item].version <= t.version + 1
    BY <1>1, <1>3 DEF Holds
  <2>3. \A w \in Workers : \A j \in Items \ {t.item} :
          TokenOf(j, w) \in releasing[w] => TokenOf(j, w) \in releasing'[w]
    BY <1>2
  <2>4. /\ OwnedIsActive' /\ LeftToRelease' /\ DrainedOwnsNothing'
        /\ \A s \in returned : s.version < work'[s.item].version
    BY <1>1, <2>1, <2>2, <2>3, FreeKeeps
  <2>5. work' \in [Items -> Work] /\ work'[t.item].version = t.version + 1
    BY <1>1, <2>1, <2>2, FreedRow
  <2>6. TypeOK'
    BY <2>1, <2>5 DEF TypeOK
  <2>7. ReturnedAreOld'
    <3>1. t.version < work'[t.item].version
      BY <1>1, <2>5
    <3> QED BY <2>1, <2>4, <3>1 DEF ReturnedAreOld
  <2> QED BY <2>4, <2>6, <2>7
<1>4. CASE ~Holds(t)
  <2>1. UNCHANGED <<work, returned>>
    BY <1>4, GivenBack
  <2>2. LeftToRelease'
    <3> SUFFICES ASSUME NEW w \in Workers, calling[w] = "draining"
                 PROVE  /\ w \in draining
                        /\ \A j \in Items : work[j].owner = w =>
                             TokenOf(j, w) \in releasing'[w]
      BY <2>1 DEF LeftToRelease, TokenOf
    <3>1. ASSUME NEW j \in Items, work[j].owner = w PROVE TokenOf(j, w) # t
      <4>1. work[j].status = Active(j)
        BY <3>1, WorkerAssumption DEF OwnedIsActive
      <4> QED BY <1>2, <1>4, <3>1, <4>1 DEF Holds
    <3> QED BY <3>1 DEF LeftToRelease
  <2>3. TypeOK' /\ OwnedIsActive' /\ DrainedOwnsNothing' /\ ReturnedAreOld'
    BY <2>1 DEF TypeOK, OwnedIsActive, DrainedOwnsNothing, ReturnedAreOld, Active
  <2> QED BY <2>2, <2>3
<1> QED BY <1>3, <1>4

LEMMA FinalizeKeeps ==
  ASSUME IInv, NEW t \in issued, Finalize(t)
  PROVE  IInv'
<1> USE DEF IInv
<1>1. t \in Token /\ t.item \in Items /\ work[t.item].version \in Nat
  BY DEF TypeOK, Token, Work
<1>2. FreedAs(t.item, Final(t.item), work[t.item].version)
  BY <1>1 DEF Finalize, FreedAs, TypeOK, Work
<1>3. Final(t.item) \in {"PENDING", "COMMITTED", "DISPATCHED"}
  BY <1>1, StatusesDiffer
<1>4. UNCHANGED <<clock, draining, issued, returned, calling, releasing, drained>>
  BY DEF Finalize
<1>5. /\ OwnedIsActive' /\ LeftToRelease' /\ DrainedOwnsNothing'
      /\ \A s \in returned : s.version < work'[s.item].version
  BY <1>1, <1>2, <1>3, <1>4, FreeKeeps
<1>6. TypeOK'
  BY <1>1, <1>2, <1>3, <1>4, FreedRow DEF TypeOK
<1> QED BY <1>4, <1>5, <1>6 DEF ReturnedAreOld

-----------------------------------------------------------------------------
LEMMA Initially == Init => IInv
BY BoundAssumption DEF Init, IInv, TypeOK, Work, OwnedIsActive, LeftToRelease,
   DrainedOwnsNothing, ReturnedAreOld, NoTime

LEMMA Inductive == IInv /\ [Next]_vars => IInv'
<1> SUFFICES ASSUME IInv, [Next]_vars PROVE IInv'
  OBVIOUS
<1> USE DEF IInv
<1>1. CASE Tick
  BY <1>1, BoundAssumption DEF Tick, TypeOK, OwnedIsActive, LeftToRelease,
     TokenOf, DrainedOwnsNothing, ReturnedAreOld, Active
<1>2. ASSUME NEW w \in Workers, BeginShutdown(w) PROVE IInv'
  BY <1>2 DEF BeginShutdown, TypeOK, OwnedIsActive, LeftToRelease,
     TokenOf, DrainedOwnsNothing, ReturnedAreOld, Active
<1>3. ASSUME NEW w \in Workers, Claim(w) PROVE IInv'
  BY <1>3, TakeKeeps DEF Claim
<1>4. ASSUME NEW w \in Workers, BeginRelinquishAll(w) PROVE IInv'
  <2>1. Owned(w) \subseteq Token
    BY DEF Owned, Token, TypeOK, Work
  <2>2. releasing' = [releasing EXCEPT ![w] = Owned(w)]
        /\ calling' = [calling EXCEPT ![w] = IF w \in draining THEN "draining"
                                             ELSE "serving"]
        /\ UNCHANGED <<clock, work, draining, issued, returned, drained>>
    BY <1>4 DEF BeginRelinquishAll
  <2>3. TypeOK'
    BY <2>1, <2>2 DEF TypeOK
  <2>4. \A i \in Items : work[i].owner = w => TokenOf(i, w) \in Owned(w)
    BY WorkerAssumption DEF OwnedIsActive, Owned, TokenOf
  <2>5. LeftToRelease'
    <3> SUFFICES ASSUME NEW v \in Workers, calling'[v] = "draining"
                 PROVE  /\ v \in draining
                        /\ \A i \in Items : work[i].owner = v =>
                             TokenOf(i, v) \in releasing'[v]
      BY <2>2 DEF LeftToRelease, TokenOf
    <3>1. CASE v = w
      BY <2>2, <2>4, <3>1 DEF TypeOK
    <3>2. CASE v # w
      BY <2>2, <3>2 DEF TypeOK, LeftToRelease
    <3> QED BY <3>1, <3>2
  <2> QED BY <2>2, <2>3, <2>5 DEF OwnedIsActive, DrainedOwnsNothing,
         ReturnedAreOld, Active
<1>5. ASSUME NEW w \in Workers, RelinquishNext(w) PROVE IInv'
  <2>1. PICK t \in releasing[w] :
          GiveBack(t) /\ releasing' = [releasing EXCEPT ![w] = @ \ {t}]
    BY <1>5 DEF RelinquishNext
  <2>2. t \in Token
    BY DEF TypeOK
  <2>3. UNCHANGED <<clock, draining, issued, calling, drained>>
    BY <1>5 DEF RelinquishNext
  <2>4. /\ releasing' \in [Workers -> SUBSET Token]
        /\ \A v \in Workers : releasing[v] \ {t} \subseteq releasing'[v]
    BY <2>1 DEF TypeOK
  <2> QED BY <2>1, <2>2, <2>3, <2>4, GiveBackKeeps
<1>6. ASSUME NEW w \in Workers, EndRelinquishAll(w) PROVE IInv'
  <2>1. /\ releasing[w] = {} /\ calling' = [calling EXCEPT ![w] = "no"]
        /\ drained' = IF calling[w] = "draining" THEN drained \cup {w} ELSE drained
        /\ UNCHANGED <<clock, work, draining, issued, returned, releasing>>
    BY <1>6 DEF EndRelinquishAll
  <2>2. calling[w] = "draining" =>
          w \in draining /\ \A i \in Items : work[i].owner # w
    BY <2>1 DEF LeftToRelease
  <2>3. TypeOK'
    BY <2>1, <2>2 DEF TypeOK
  <2>4. DrainedOwnsNothing'
    BY <2>1, <2>2 DEF DrainedOwnsNothing
  <2>5. LeftToRelease'
    BY <2>1 DEF LeftToRelease, TokenOf, TypeOK
  <2> QED BY <2>1, <2>3, <2>4, <2>5 DEF OwnedIsActive, ReturnedAreOld, Active
<1>7. ASSUME NEW t \in issued, Finalize(t) PROVE IInv'
  BY <1>7, FinalizeKeeps
<1>8. ASSUME NEW t \in issued, Relinquish(t) PROVE IInv'
  BY <1>8, GiveBackKeeps DEF Relinquish, TypeOK
<1>9. CASE UNCHANGED vars
  BY <1>9 DEF vars, TypeOK, OwnedIsActive, LeftToRelease, TokenOf,
     DrainedOwnsNothing, ReturnedAreOld, Active
<1> QED BY <1>1, <1>2, <1>3, <1>4, <1>5, <1>6, <1>7, <1>8, <1>9 DEF Next

LEMMA Invariance == Spec => []IInv
BY Initially, Inductive, PTL DEF Spec

-----------------------------------------------------------------------------
(* A worker owns nothing once the relinquish_all of its shutdown has       *)
(* returned, and never again (INV-046.1).                                  *)
THEOREM DrainedIsFree == Spec => []DrainedOwnsNothing
<1>1. IInv => DrainedOwnsNothing
  BY DEF IInv
<1> QED BY <1>1, Invariance, PTL

(* A token that was given back is fenced for ever, and two tokens that are *)
(* both current for one work item are the same (INV-046.4).                *)
THEOREM ReturnedStayFenced == Spec => []ReturnedTokensFenced
<1>1. IInv => ReturnedTokensFenced
  <2> SUFFICES ASSUME IInv PROVE ReturnedTokensFenced
    OBVIOUS
  <2>1. \A t \in returned : t.version < work[t.item].version
    BY DEF IInv, ReturnedAreOld
  <2>2. ASSUME NEW s \in issued, NEW t \in issued,
               s.item = t.item, Holds(s), Holds(t)
        PROVE  s = t
    <3>1. s \in Token /\ t \in Token
      BY DEF IInv, TypeOK
    <3>2. s.owner = t.owner /\ s.version = t.version
      BY <2>2 DEF Holds
    <3> QED BY <2>2, <3>1, <3>2 DEF Token
  <2> QED BY <2>1, <2>2 DEF ReturnedTokensFenced
<1> QED BY <1>1, Invariance, PTL

(* What a worker owns is taken from it only after its lease has expired,   *)
(* by its own finalization, or by a relinquish with its own token.         *)
THEOREM NobodyIsRobbed == Spec => NotRobbed
<1> DEFINE Kept ==
      \A i \in Items, w \in Workers :
        work[i].owner = w /\ work'[i].owner # w
        => \/ work[i].expires <= clock
           \/ work'[i].status = Final(i)
           \/ [item |-> i, owner |-> w, version |-> work[i].version] \in returned'
<1>1. IInv /\ [Next]_vars => [Kept]_vars
  <2> SUFFICES ASSUME IInv, Next, NEW i \in Items, NEW w \in Workers,
                      work[i].owner = w, work'[i].owner # w
               PROVE  \/ work[i].expires <= clock
                      \/ work'[i].status = Final(i)
                      \/ TokenOf(i, w) \in returned'
    BY DEF TokenOf
  <2> USE DEF IInv
  <2>1. ASSUME NEW t \in Token, GiveBack(t) PROVE TokenOf(i, w) \in returned'
    <3>1. /\ Holds(t) /\ returned' = returned \cup {t}
          /\ FreedAs(t.item, "PENDING", t.version + 1)
      BY <2>1, GivenBack
    <3>2. t.item \in Items /\ t.version + 1 \in Nat
      BY DEF Token
    <3>3. t.item = i
      BY <3>1, <3>2, FreedRow
    <3>4. t = [item |-> t.item, owner |-> t.owner, version |-> t.version]
      BY DEF Token
    <3> QED BY <3>1, <3>3, <3>4 DEF Holds, TokenOf
  <2>2. ASSUME NEW v \in Workers, Claim(v) PROVE work[i].expires <= clock
    <3>1. PICK j \in Items : Eligible(j) /\ Take(v, j)
      BY <2>2 DEF Claim
    <3>2. TakenBy(v, j)
      BY <3>1 DEF Take, TakenBy, TypeOK
    <3>3. i = j
      BY <3>2, TakenRow
    <3>4. work[i].status # "PENDING"
      BY WorkerAssumption, StatusesDiffer DEF OwnedIsActive
    <3> QED BY <3>1, <3>3, <3>4 DEF Eligible
  <2>3. ASSUME NEW t \in issued, Finalize(t) PROVE work'[i].status = Final(i)
    <3>1. t.item \in Items /\ work[t.item].version \in Nat
      BY DEF TypeOK, Token, Work
    <3>2. FreedAs(t.item, Final(t.item), work[t.item].version)
      BY <2>3, <3>1 DEF Finalize, FreedAs, TypeOK, Work
    <3>3. Final(t.item) \in {"PENDING", "COMMITTED", "DISPATCHED"}
      BY <3>1, StatusesDiffer
    <3>4. t.item = i
      BY <3>1, <3>2, <3>3, FreedRow
    <3> QED BY <3>1, <3>2, <3>3, <3>4, FreedRow
  <2>4. ASSUME NEW t \in issued, Relinquish(t) PROVE TokenOf(i, w) \in returned'
    BY <2>1, <2>4 DEF Relinquish, TypeOK
  <2>5. ASSUME NEW v \in Workers, RelinquishNext(v)
        PROVE  TokenOf(i, w) \in returned'
    BY <2>1, <2>5 DEF RelinquishNext, TypeOK
  <2>6. ~Tick
    BY DEF Tick
  <2>7. \A v \in Workers : /\ ~BeginShutdown(v) /\ ~BeginRelinquishAll(v)
                           /\ ~EndRelinquishAll(v)
    BY DEF BeginShutdown, BeginRelinquishAll, EndRelinquishAll
  <2> QED BY <2>2, <2>3, <2>4, <2>5, <2>6, <2>7 DEF Next
<1>2. NotRobbed <=> [][Kept]_vars
  BY DEF NotRobbed
<1> QED BY <1>1, <1>2, Invariance, PTL DEF Spec
=============================================================================
