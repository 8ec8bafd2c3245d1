------------------------- MODULE CausalRuntime_proofs ------------------------
(***************************************************************************)
(* Chains are bounded, and cut only at their limit, and every rule that    *)
(* changes the graph leaves exactly one generated event, for any callers,  *)
(* any events they emit, any graphs, any depth and cycle limit, any number *)
(* of emits and any number of faults.                                      *)
(*                                                                         *)
(* What makes the bound inductive is a count of two things together: the   *)
(* live rows of one event in one chain, and the callers that have counted  *)
(* them below the limit and have not inserted theirs yet (Bounded).  A     *)
(* caller that joins the race counts fewer rows than the limit; one that   *)
(* leaves it by inserting moves from the second count to the first.        *)
(*                                                                         *)
(* The generated rows are followed by what names them (Generation, at the  *)
(* end): a row made by a commit has a parent with a rule that generates,   *)
(* and an event that may still be claimed has no rule yet, so that no      *)
(* event is committed twice.                                               *)
(***************************************************************************)
EXTENDS CausalRuntime, FiniteSetTheorems, TLAPS

Fields == {"event", "parent", "root", "depth", "status", "by", "rule"}
IsRow(r) == r = [x \in Fields |-> r[x]]

Log    == \E S : event_log \in Seq(S)
RowsOK == \A i \in Indices : /\ IsRow(event_log[i])
                             /\ event_log[i].root \in Indices
                             /\ event_log[i].depth \in Nat

(* The event in process was claimed open, and nothing buries it since.     *)
ProcessOK ==
  /\ "at" \in DOMAIN process
  /\ process.at = "claimed" => process.event \in Indices /\ Live(process.event)

(* What a caller has counted is at most what there is.                     *)
EmittingOK ==
  /\ emitting = [m \in Emitters |-> emitting[m]]
  /\ \A m \in Emitters : emitting[m] # Quiet =>
       /\ emitting[m].parent \in Indices /\ emitting[m].prior \in Nat
       /\ emitting[m].prior
            <= Repeats(event_log[emitting[m].parent].root, emitting[m].event)

Same(root, e)    == {i \in Indices : /\ event_log[i].root = root
                                     /\ event_log[i].event = e}
Running(root, e) == {i \in Same(root, e) : Live(i)}
Racing(root, e)  == {m \in Emitters :
                       /\ emitting[m] # Quiet
                       /\ event_log[emitting[m].parent].root = root
                       /\ emitting[m].event = e
                       /\ emitting[m].prior < CycleLimit}

BoundedAt(root, e) ==
  Cardinality(Running(root, e)) + Cardinality(Racing(root, e))
    <= CycleLimit + Cardinality(Emitters)
Bounded == \A root, e : BoundedAt(root, e)

ShallowAreLive == \A i \in Indices : Live(i) => event_log[i].depth <= MaxDepth

IInv == /\ Log /\ RowsOK /\ ProcessOK /\ EmittingOK
        /\ Bounded /\ ShallowAreLive /\ CutOnlyAtTheLimit

-----------------------------------------------------------------------------
(* How the log changes: rows keep what matters, and at most one is added.  *)

RowKept(i) ==
  /\ i \in Indices' /\ IsRow(event_log'[i])
  /\ event_log'[i].root = event_log[i].root
  /\ event_log'[i].event = event_log[i].event
  /\ event_log'[i].depth = event_log[i].depth
  /\ Live(i)' <=> Live(i)

AllKept == Log' /\ \A i \in Indices : RowKept(i)
Still   == AllKept /\ Indices' = Indices

Next1 == Len(event_log) + 1
Grows(r) ==
  /\ AllKept /\ Indices' = Indices \cup {Next1}
  /\ IsRow(event_log'[Next1])
  /\ event_log'[Next1].root = r.root
  /\ event_log'[Next1].event = r.event
  /\ event_log'[Next1].depth = r.depth
  /\ event_log'[Next1].status = "DEAD_LETTER" <=> r.status = "DEAD_LETTER"

LEMMA LogShape ==
  ASSUME Log
  PROVE  /\ Len(event_log) \in Nat /\ Indices = 1..Len(event_log)
         /\ Next1 \in Nat /\ Next1 \notin Indices
         /\ Indices \subseteq Nat /\ IsFiniteSet(Indices)
         /\ \A root, e : /\ IsFiniteSet(Same(root, e))
                         /\ IsFiniteSet(Running(root, e))
<1>1. PICK S : event_log \in Seq(S)
  BY DEF Log
<1>2. Len(event_log) \in Nat /\ Indices = 1..Len(event_log)
  BY <1>1 DEF Indices
<1>3. IsFiniteSet(1..Len(event_log))
  BY <1>2, FS_Interval
<1>4. \A root, e : Same(root, e) \in SUBSET Indices
                   /\ Running(root, e) \in SUBSET Indices
  BY DEF Same, Running
<1>5. IsFiniteSet(Indices)
  BY <1>2, <1>3
<1> QED BY <1>2, <1>4, <1>5, FS_Subset DEF Next1

LEMMA Appending ==
  ASSUME Log, RowsOK, NEW r, IsRow(r), event_log' = Append(event_log, r)
  PROVE  Grows(r)
<1>0. PICK R : event_log \in Seq(R)
  BY DEF Log
<1> DEFINE S == R \cup {r}
<1>1. event_log \in Seq(S) /\ r \in S
  BY <1>0
<1> HIDE DEF S
<1>2. /\ event_log' \in Seq(S) /\ Len(event_log') = Next1
      /\ event_log'[Next1] = r
      /\ \A i \in 1..Len(event_log) : event_log'[i] = event_log[i]
  BY <1>1 DEF Next1
<1>3. /\ Indices = 1..Len(event_log) /\ Indices' = 1..Len(event_log')
      /\ Len(event_log) \in Nat
  BY <1>1, <1>2 DEF Indices
<1>4. Indices' = Indices \cup {Next1}
  BY <1>2, <1>3 DEF Next1
<1>5. Log'
  BY <1>2, <1>3 DEF Log
<1>6. \A i \in Indices : RowKept(i)
  BY <1>2, <1>3, <1>4 DEF RowKept, RowsOK, Live
<1> QED BY <1>2, <1>4, <1>5, <1>6 DEF Grows, AllKept

(* Marking a row with another status, or with its rule.                    *)
LEMMA MarkedRow ==
  ASSUME NEW r, IsRow(r), NEW status, NEW q, q = [r EXCEPT !.status = status]
  PROVE  /\ IsRow(q) /\ q.root = r.root /\ q.event = r.event
         /\ q.depth = r.depth /\ q.status = status
BY DEF IsRow, Fields

LEMMA RuledRow ==
  ASSUME NEW r, IsRow(r), NEW rule, NEW q, q = [r EXCEPT !.rule = rule]
  PROVE  /\ IsRow(q) /\ q.root = r.root /\ q.event = r.event
         /\ q.depth = r.depth /\ q.status = r.status
BY DEF IsRow, Fields

LEMMA Resolving ==
  ASSUME Log, RowsOK, NEW k \in Indices, Live(k), NEW status,
         status # "DEAD_LETTER",
         event_log' = [event_log EXCEPT ![k].status = status]
  PROVE  Still
<1> DEFINE r == event_log[k]
           q == [r EXCEPT !.status = status]
<1>1. PICK S : event_log \in Seq(S)
  BY DEF Log
<1>2. Len(event_log) \in Nat /\ Indices = 1..Len(event_log)
  BY LogShape
<1>3. event_log' = [event_log EXCEPT ![k] = q]
  OBVIOUS
<1>4. /\ IsRow(q) /\ q.root = r.root /\ q.event = r.event
      /\ q.depth = r.depth /\ q.status = status
  <2>1. IsRow(r) /\ q = [r EXCEPT !.status = status]
    BY DEF RowsOK
  <2> HIDE DEF r, q
  <2> QED BY <2>1, MarkedRow
<1> HIDE DEF q
<1>5. /\ event_log' \in Seq(S \cup {q}) /\ Indices' = Indices
      /\ event_log'[k] = q
      /\ \A i \in Indices : i # k => event_log'[i] = event_log[i]
  BY <1>1, <1>2, <1>3 DEF Indices
<1>6. Log'
  BY <1>5 DEF Log
<1> QED BY <1>4, <1>5, <1>6 DEF Still, AllKept, RowKept, Live, RowsOK

(* The claimed event is committed, after its child was inserted or not.    *)
LEMMA Completing ==
  ASSUME RowsOK, NEW S, NEW log, log \in Seq(S),
         process.event \in Indices, Live(process.event),
         Indices \subseteq 1..Len(log),
         \A i \in Indices : log[i] = event_log[i],
         event_log' = Completed(log)
  PROVE  /\ AllKept /\ Indices' = 1..Len(log)
         /\ \A i \in 1..Len(log) : i \notin Indices => event_log'[i] = log[i]
<1> DEFINE k == process.event
           r == event_log[k]
           p == [r EXCEPT !.status = "COMMITTED"]
           q == [p EXCEPT !.rule = Decided]
<1>1. k \in Indices /\ k \in 1..Len(log) /\ log[k] = r
  OBVIOUS
<1>2. event_log' = [log EXCEPT ![k] = q]
  BY <1>1 DEF Completed
<1>3. /\ IsRow(p) /\ p.root = r.root /\ p.event = r.event
      /\ p.depth = r.depth /\ p.status = "COMMITTED"
  <2>1. IsRow(r) /\ p = [r EXCEPT !.status = "COMMITTED"]
    BY <1>1 DEF RowsOK
  <2> HIDE DEF r, p
  <2> QED BY <2>1, MarkedRow
<1>4. /\ IsRow(q) /\ q.root = r.root /\ q.event = r.event
      /\ q.depth = r.depth /\ q.status = "COMMITTED"
  <2>1. q = [p EXCEPT !.rule = Decided]
    OBVIOUS
  <2> HIDE DEF p, q
  <2> QED BY <1>3, <2>1, RuledRow
<1> HIDE DEF p, q
<1>5. /\ event_log' \in Seq(S \cup {q}) /\ Indices' = 1..Len(log)
      /\ event_log'[k] = q
      /\ \A i \in 1..Len(log) : i # k => event_log'[i] = log[i]
  BY <1>1, <1>2 DEF Indices
<1>6. \A i \in Indices : RowKept(i)
  BY <1>1, <1>4, <1>5 DEF RowKept, Live, RowsOK
<1>7. Log'
  BY <1>5 DEF Log
<1> QED BY <1>1, <1>5, <1>6, <1>7 DEF AllKept

LEMMA ChildRow ==
  ASSUME RowsOK, NEW p \in Indices, NEW e, NEW prior \in Nat, NEW by,
         NEW r, r = Child(p, e, prior, by)
  PROVE  /\ IsRow(r) /\ r.root = event_log[p].root /\ r.event = e
         /\ r.depth \in Nat /\ r.status = Status(r.depth, prior)
<1>1. event_log[p].depth + 1 \in Nat
  BY DEF RowsOK
<1> QED BY <1>1 DEF Child, Row, IsRow, Fields

(* A new row of the chain of p.                                            *)
NewChild(r, p, prior) ==
  /\ Grows(r) /\ r.root = event_log[p].root /\ r.depth \in Nat
  /\ r.status = Status(r.depth, prior)

LEMMA Counted ==
  ASSUME Log, NEW root, NEW e
  PROVE  Repeats(root, e) = Cardinality(Same(root, e)) /\ Repeats(root, e) \in Nat
<1>1. Repeats(root, e) = Cardinality(Same(root, e))
  BY DEF Repeats, Same
<1>2. IsFiniteSet(Same(root, e))
  BY LogShape
<1> QED BY <1>1, <1>2, FS_CardinalityType

LEMMA Committing ==
  ASSUME IInv, CommitPlan
  PROVE  \/ Still
         \/ \E r : NewChild(r, process.event,
                           Repeats(event_log[process.event].root, r.event))
<1> DEFINE k == process.event
           e == Outcome.events[1]
           n == Repeats(event_log[k].root, e)
           r == Child(k, e, n, "commit")
<1>1. k \in Indices /\ Live(k) /\ Log /\ RowsOK
  BY DEF CommitPlan, IInv, ProcessOK
<1>2. PICK S : event_log \in Seq(S)
  BY <1>1 DEF Log
<1>3. Len(event_log) \in Nat /\ Indices = 1..Len(event_log)
  BY <1>1, LogShape
<1>4. CASE Outcome.events = <<>>
  <2>1. event_log' = Completed(event_log)
    BY <1>4 DEF CommitPlan, Propagated
  <2>2. AllKept /\ Indices' = 1..Len(event_log)
    BY <1>1, <1>2, <1>3, <2>1, Completing
  <2> QED BY <1>3, <2>2 DEF Still
<1>5. CASE Outcome.events # <<>>
  <2> DEFINE log == Append(event_log, r)
  <2>1. event_log' = Completed(log)
    BY <1>5 DEF CommitPlan, Propagated
  <2>2. /\ IsRow(r) /\ r.root = event_log[k].root /\ r.event = e
        /\ r.depth \in Nat /\ r.status = Status(r.depth, n)
    <3>1. n \in Nat
      BY <1>1, Counted
    <3>2. r = Child(k, e, n, "commit")
      OBVIOUS
    <3> HIDE DEF k, e, n, r
    <3> QED BY <1>1, <3>1, <3>2, ChildRow
  <2> HIDE DEF r
  <2>3. /\ log \in Seq(S \cup {r}) /\ Len(log) = Next1 /\ log[Next1] = r
        /\ \A i \in Indices : log[i] = event_log[i]
    BY <1>2, <1>3 DEF Next1
  <2> HIDE DEF log
  <2>4. /\ Indices \subseteq 1..Len(log) /\ Next1 \notin Indices
        /\ 1..Len(log) = Indices \cup {Next1}
    BY <1>3, <2>3 DEF Next1
  <2>5. /\ AllKept /\ Indices' = 1..Len(log)
        /\ \A i \in 1..Len(log) : i \notin Indices => event_log'[i] = log[i]
    BY <1>1, <2>1, <2>3, <2>4, Completing
  <2>6. event_log'[Next1] = r
    BY <2>3, <2>4, <2>5
  <2>7. Grows(r)
    BY <2>2, <2>4, <2>5, <2>6 DEF Grows
  <2> QED BY <2>2, <2>7 DEF NewChild
<1> QED BY <1>4, <1>5

-----------------------------------------------------------------------------
(* What follows for the sets that are counted.                             *)

LEMMA SameStays ==
  ASSUME Log, RowsOK, Still, NEW root, NEW e
  PROVE  Same(root, e)' = Same(root, e) /\ Running(root, e)' = Running(root, e)
BY DEF Still, AllKept, RowKept, Same, Running

LEMMA SameGrows ==
  ASSUME Log, RowsOK, NEW r, Grows(r), NEW root, NEW e
  PROVE  /\ Same(root, e) \subseteq Same(root, e)'
         /\ Running(root, e)' \subseteq Running(root, e) \cup {Next1}
         /\ \/ Running(root, e)' = Running(root, e)
            \/ /\ r.root = root /\ r.event = e /\ r.status # "DEAD_LETTER"
               /\ Running(root, e)' = Running(root, e) \cup {Next1}
               /\ Next1 \notin Running(root, e)
<1>1. Next1 \notin Indices
  BY LogShape
<1>2. /\ Indices' = Indices \cup {Next1} /\ \A i \in Indices : RowKept(i)
      /\ event_log'[Next1].root = r.root /\ event_log'[Next1].event = r.event
      /\ event_log'[Next1].status = "DEAD_LETTER" <=> r.status = "DEAD_LETTER"
  BY DEF Grows, AllKept
<1> DEFINE n == Next1
<1>3. n \notin Indices /\ Indices' = Indices \cup {n}
  BY <1>1, <1>2
<1>4. /\ event_log'[n].root = r.root /\ event_log'[n].event = r.event
      /\ event_log'[n].status = "DEAD_LETTER" <=> r.status = "DEAD_LETTER"
  BY <1>2
<1> HIDE DEF n
<1>5. Same(root, e) \subseteq Same(root, e)'
  BY <1>2 DEF Same, RowKept
<1>6. \A i \in Indices : i \in Running(root, e)' <=> i \in Running(root, e)
  BY <1>2 DEF Running, Same, RowKept
<1>7. n \in Running(root, e)'
        <=> r.root = root /\ r.event = e /\ r.status # "DEAD_LETTER"
  BY <1>3, <1>4 DEF Running, Same, Live
<1>8. Running(root, e) \subseteq Indices /\ Running(root, e)' \subseteq Indices'
  BY DEF Running, Same
<1>9. /\ Running(root, e)' \subseteq Running(root, e) \cup {n}
      /\ \/ Running(root, e)' = Running(root, e)
         \/ /\ r.root = root /\ r.event = e /\ r.status # "DEAD_LETTER"
            /\ Running(root, e)' = Running(root, e) \cup {n}
            /\ n \notin Running(root, e)
  BY <1>3, <1>6, <1>7, <1>8
<1> QED BY <1>5, <1>9 DEF n

LEMMA CountKept ==
  ASSUME Log, Log', RowsOK, Still \/ (\E r : Grows(r)), NEW root, NEW e
  PROVE  /\ Repeats(root, e) \in Nat /\ Repeats(root, e)' \in Nat
         /\ Repeats(root, e) <= Repeats(root, e)'
<1> DEFINE a == Same(root, e)
           b == Same(root, e)'
<1>1. a \subseteq b
  BY SameStays, SameGrows
<1>2. /\ Repeats(root, e) = Cardinality(a) /\ Repeats(root, e) \in Nat
  BY Counted
<1>3. IsFiniteSet(b)
  <2>1. IsFiniteSet(Indices)
    BY LogShape
  <2>2. IsFiniteSet(Indices \cup {Next1})
    BY <2>1, FS_AddElement
  <2>3. b \subseteq Indices \/ b \subseteq Indices \cup {Next1}
    BY DEF Still, Grows, Same
  <2> HIDE DEF b
  <2> QED BY <2>1, <2>2, <2>3, FS_Subset
<1>4. Repeats(root, e)' = Cardinality(b)
  BY DEF Repeats, Same
<1> HIDE DEF a, b
<1>5. Cardinality(a) <= Cardinality(b) /\ Cardinality(b) \in Nat
  BY <1>1, <1>3, FS_Subset, FS_CardinalityType
<1> QED BY <1>2, <1>4, <1>5

-----------------------------------------------------------------------------
(* The parts of the invariant, for either kind of step.                    *)

AtLimit(i) ==
  \/ event_log[i].depth > MaxDepth
  \/ Cardinality({j \in 1..(i - 1) :
                    /\ event_log[j].root = event_log[i].root
                    /\ event_log[j].event = event_log[i].event}) >= CycleLimit

LEMMA StillKeepsRows ==
  ASSUME Log, RowsOK, ShallowAreLive, CutOnlyAtTheLimit, Still
  PROVE  RowsOK' /\ ShallowAreLive' /\ CutOnlyAtTheLimit'
<1>1. Indices' = Indices /\ \A i \in Indices : RowKept(i)
  BY DEF Still, AllKept
<1>2. RowsOK' /\ ShallowAreLive'
  BY <1>1 DEF RowsOK, ShallowAreLive, RowKept
<1>3. ASSUME NEW i \in Indices, ~Live(i)'
      PROVE  AtLimit(i)'
  <2>1. \A j \in 1..(i - 1) : j \in Indices
    BY LogShape
  <2>2. {j \in 1..(i - 1) : /\ event_log'[j].root = event_log'[i].root
                            /\ event_log'[j].event = event_log'[i].event}
      = {j \in 1..(i - 1) : /\ event_log[j].root = event_log[i].root
                            /\ event_log[j].event = event_log[i].event}
    BY <1>1, <2>1 DEF RowKept
  <2>3. ~Live(i) /\ event_log'[i].depth = event_log[i].depth
    BY <1>1, <1>3 DEF RowKept
  <2>4. AtLimit(i)
    BY <2>3 DEF CutOnlyAtTheLimit, AtLimit
  <2> QED BY <2>2, <2>3, <2>4 DEF AtLimit
<1>4. \A i \in Indices' : ~Live(i)' => AtLimit(i)'
  BY <1>1, <1>3
<1> QED BY <1>2, <1>4 DEF CutOnlyAtTheLimit, AtLimit

(* A new row is within the limits if it is live, at them if it is dead.    *)
WellPlaced(r) ==
  /\ r.root \in Indices \cup {Next1} /\ r.depth \in Nat
  /\ r.status # "DEAD_LETTER" => r.depth <= MaxDepth
  /\ r.status = "DEAD_LETTER" =>
       r.depth > MaxDepth \/ Cardinality(Same(r.root, r.event)) >= CycleLimit

LEMMA GrowsKeepsRows ==
  ASSUME Log, RowsOK, ShallowAreLive, CutOnlyAtTheLimit,
         NEW r, Grows(r), WellPlaced(r)
  PROVE  RowsOK' /\ ShallowAreLive' /\ CutOnlyAtTheLimit'
<1>0. Next1 \in Nat /\ Next1 \notin Indices /\ Indices = 1..(Next1 - 1)
  BY LogShape DEF Next1
<1> PICK n : n = Next1
  OBVIOUS
<1>1. /\ n \in Nat /\ n \notin Indices /\ Indices = 1..(n - 1)
      /\ Indices' = Indices \cup {n} /\ \A i \in Indices : RowKept(i)
      /\ IsRow(event_log'[n]) /\ event_log'[n].root = r.root
      /\ event_log'[n].event = r.event /\ event_log'[n].depth = r.depth
      /\ (event_log'[n].status = "DEAD_LETTER" <=> r.status = "DEAD_LETTER")
      /\ r.root \in Indices \cup {n} /\ r.depth \in Nat
      /\ (r.status # "DEAD_LETTER" => r.depth <= MaxDepth)
  BY <1>0 DEF Grows, AllKept, WellPlaced
<1>2. RowsOK' /\ ShallowAreLive'
  BY <1>1 DEF RowsOK, ShallowAreLive, RowKept, Live
<1>3. ASSUME NEW i \in Indices, ~Live(i)'
      PROVE  AtLimit(i)'
  <2>1. \A j \in 1..(i - 1) : j \in Indices
    BY <1>1
  <2>2. {j \in 1..(i - 1) : /\ event_log'[j].root = event_log'[i].root
                            /\ event_log'[j].event = event_log'[i].event}
      = {j \in 1..(i - 1) : /\ event_log[j].root = event_log[i].root
                            /\ event_log[j].event = event_log[i].event}
    BY <1>1, <2>1 DEF RowKept
  <2>3. ~Live(i) /\ event_log'[i].depth = event_log[i].depth
    BY <1>1, <1>3 DEF RowKept
  <2>4. AtLimit(i)
    BY <2>3 DEF CutOnlyAtTheLimit, AtLimit
  <2> QED BY <2>2, <2>3, <2>4 DEF AtLimit
<1>4. ASSUME ~Live(n)'
      PROVE  AtLimit(n)'
  <2>1. r.depth > MaxDepth \/ Cardinality(Same(r.root, r.event)) >= CycleLimit
    <3>1. event_log'[n].status = "DEAD_LETTER"
      BY <1>4 DEF Live
    <3> QED BY <1>1, <3>1 DEF WellPlaced
  <2>2. {j \in 1..(n - 1) : /\ event_log'[j].root = event_log'[n].root
                            /\ event_log'[j].event = event_log'[n].event}
      = Same(r.root, r.event)
    BY <1>1 DEF RowKept, Same
  <2> QED BY <1>1, <2>1, <2>2 DEF AtLimit
<1>5. \A i \in Indices' : ~Live(i)' => AtLimit(i)'
  BY <1>1, <1>3, <1>4
<1> QED BY <1>2, <1>5 DEF CutOnlyAtTheLimit, AtLimit

(* Callers that go on or finish: none joins the race.                      *)
NobodyJoins ==
  /\ emitting' = [m \in Emitters |-> emitting'[m]]
  /\ \A m \in Emitters : emitting'[m] \in {emitting[m], Quiet}

LEMMA CallersStay ==
  ASSUME Log, Log', RowsOK, EmittingOK, NobodyJoins, Still \/ (\E r : Grows(r))
  PROVE  /\ EmittingOK'
         /\ \A root, e : Racing(root, e)' \subseteq Racing(root, e)
<1>1. \A i \in Indices : RowKept(i)
  BY DEF Still, Grows, AllKept
<1>2. ASSUME NEW m \in Emitters, emitting'[m] # Quiet
      PROVE  /\ emitting'[m] = emitting[m] /\ emitting[m] # Quiet
             /\ emitting[m].parent \in Indices' /\ emitting[m].prior \in Nat
             /\ event_log'[emitting[m].parent].root
                  = event_log[emitting[m].parent].root
             /\ emitting[m].prior
                 <= Repeats(event_log[emitting[m].parent].root,
                            emitting[m].event)'
  <2>1. emitting'[m] = emitting[m] /\ emitting[m] # Quiet
    BY <1>2 DEF NobodyJoins
  <2> DEFINE p == emitting[m].parent
             e == emitting[m].event
             q == emitting[m].prior
  <2>2. /\ p \in Indices /\ q \in Nat
        /\ q <= Repeats(event_log[p].root, e)
    BY <2>1 DEF EmittingOK
  <2>3. p \in Indices' /\ event_log'[p].root = event_log[p].root
    BY <1>1, <2>2 DEF RowKept
  <2> QED BY <2>1, <2>2, <2>3, CountKept
<1> QED BY <1>2 DEF EmittingOK, Racing, NobodyJoins

-----------------------------------------------------------------------------
(* The counts.                                                             *)

LEMMA RacersAreFew ==
  ASSUME NEW R \in SUBSET Emitters
  PROVE  /\ IsFiniteSet(R) /\ Cardinality(R) \in Nat
         /\ Cardinality(Emitters) \in Nat
         /\ Cardinality(R) <= Cardinality(Emitters)
BY EmittersAssumption, FS_Subset, FS_CardinalityType

LEMMA AtMostOneMore ==
  ASSUME NEW a, NEW b, NEW n, IsFiniteSet(a), b \subseteq a \cup {n}
  PROVE  /\ IsFiniteSet(b) /\ Cardinality(a) \in Nat /\ Cardinality(b) \in Nat
         /\ Cardinality(b) <= Cardinality(a) + 1
<1>1. /\ IsFiniteSet(a \cup {n}) /\ Cardinality(a) \in Nat
      /\ Cardinality(a \cup {n})
           = IF n \in a THEN Cardinality(a) ELSE Cardinality(a) + 1
  BY FS_AddElement, FS_CardinalityType
<1>2. /\ IsFiniteSet(b) /\ Cardinality(b) <= Cardinality(a \cup {n})
      /\ Cardinality(b) \in Nat
  BY <1>1, FS_Subset, FS_CardinalityType
<1> QED BY <1>1, <1>2

(* Nothing is added to either count.                                       *)
LEMMA BoundKept ==
  ASSUME Log, Bounded, NEW root, NEW e,
         Running(root, e)' \subseteq Running(root, e),
         Racing(root, e)' \subseteq Racing(root, e)
  PROVE  BoundedAt(root, e)'
<1> DEFINE a == Running(root, e)
           b == Running(root, e)'
           c == Racing(root, e)
           d == Racing(root, e)'
<1>1. /\ IsFiniteSet(a) /\ b \subseteq a /\ d \subseteq c
      /\ Cardinality(a) + Cardinality(c) <= CycleLimit + Cardinality(Emitters)
  BY LogShape DEF Bounded, BoundedAt
<1>2. c \in SUBSET Emitters
  BY DEF Racing
<1> HIDE DEF a, b, c, d
<1>3. Cardinality(b) <= Cardinality(a) /\ Cardinality(a) \in Nat
      /\ Cardinality(b) \in Nat
  BY <1>1, FS_Subset, FS_CardinalityType
<1>4. Cardinality(d) <= Cardinality(c) /\ Cardinality(c) \in Nat
      /\ Cardinality(d) \in Nat /\ Cardinality(Emitters) \in Nat
  BY <1>1, <1>2, RacersAreFew, FS_Subset, FS_CardinalityType
<1>5. Cardinality(b) + Cardinality(d) <= CycleLimit + Cardinality(Emitters)
  BY <1>1, <1>3, <1>4, LimitsAssumption
<1> QED BY <1>5 DEF b, d, BoundedAt

(* Fewer rows than the limit run: one more is no matter, whoever races.    *)
LEMMA BoundFresh ==
  ASSUME Log, NEW root, NEW e, NEW n,
         Cardinality(Running(root, e)) < CycleLimit,
         Running(root, e)' \subseteq Running(root, e) \cup {n}
  PROVE  BoundedAt(root, e)'
<1> DEFINE a == Running(root, e)
           b == Running(root, e)'
           d == Racing(root, e)'
<1>1. IsFiniteSet(a) /\ b \subseteq a \cup {n} /\ Cardinality(a) < CycleLimit
  BY LogShape
<1>2. d \in SUBSET Emitters
  BY DEF Racing
<1> HIDE DEF a, b, d
<1>3. /\ Cardinality(b) <= Cardinality(a) + 1
      /\ Cardinality(a) \in Nat /\ Cardinality(b) \in Nat
  BY <1>1, AtMostOneMore
<1>4. /\ Cardinality(d) \in Nat /\ Cardinality(Emitters) \in Nat
      /\ Cardinality(d) <= Cardinality(Emitters)
  BY <1>2, RacersAreFew
<1>5. Cardinality(b) + Cardinality(d) <= CycleLimit + Cardinality(Emitters)
  BY <1>1, <1>3, <1>4, LimitsAssumption
<1> QED BY <1>5 DEF b, d, BoundedAt

(* A caller leaves the race with its row.                                  *)
LEMMA BoundMoved ==
  ASSUME Log, Bounded, NEW root, NEW e, NEW n,
         NEW m \in Racing(root, e),
         Running(root, e)' \subseteq Running(root, e) \cup {n},
         Racing(root, e)' \subseteq Racing(root, e) \ {m}
  PROVE  BoundedAt(root, e)'
<1> DEFINE a == Running(root, e)
           b == Running(root, e)'
           c == Racing(root, e)
           d == Racing(root, e)'
<1>1. /\ IsFiniteSet(a) /\ b \subseteq a \cup {n} /\ d \subseteq c \ {m}
      /\ Cardinality(a) + Cardinality(c) <= CycleLimit + Cardinality(Emitters)
      /\ m \in c
  BY LogShape DEF Bounded, BoundedAt
<1>2. c \in SUBSET Emitters
  BY DEF Racing
<1> HIDE DEF a, b, c, d
<1>3. /\ Cardinality(b) <= Cardinality(a) + 1
      /\ Cardinality(a) \in Nat /\ Cardinality(b) \in Nat
  BY <1>1, AtMostOneMore
<1>4. /\ IsFiniteSet(c) /\ Cardinality(c) \in Nat
      /\ Cardinality(Emitters) \in Nat
  BY <1>2, RacersAreFew
<1>5. IsFiniteSet(c \ {m}) /\ Cardinality(c \ {m}) = Cardinality(c) - 1
  BY <1>1, <1>4, FS_RemoveElement
<1>6. Cardinality(d) <= Cardinality(c \ {m}) /\ Cardinality(d) \in Nat
  BY <1>1, <1>5, FS_Subset, FS_CardinalityType
<1>7. Cardinality(b) + Cardinality(d) <= CycleLimit + Cardinality(Emitters)
  BY <1>1, <1>3, <1>4, <1>5, <1>6, LimitsAssumption
<1> QED BY <1>7 DEF b, d, BoundedAt

LEMMA RunningAreCounted ==
  ASSUME Log, NEW root, NEW e
  PROVE  /\ Cardinality(Running(root, e)) <= Repeats(root, e)
         /\ Cardinality(Running(root, e)) \in Nat
<1>1. Running(root, e) \subseteq Same(root, e)
  BY DEF Running
<1>2. IsFiniteSet(Same(root, e)) /\ IsFiniteSet(Running(root, e))
  BY LogShape
<1> QED BY <1>1, <1>2, Counted, FS_Subset, FS_CardinalityType

-----------------------------------------------------------------------------
(* The steps.                                                              *)

LEMMA StillStep ==
  ASSUME IInv, Still, NobodyJoins, ProcessOK'
  PROVE  IInv'
<1>1. Log /\ Log' /\ RowsOK /\ Bounded
  BY DEF IInv, Still, AllKept
<1>2. RowsOK' /\ ShallowAreLive' /\ CutOnlyAtTheLimit'
  BY StillKeepsRows DEF IInv
<1>3. EmittingOK' /\ \A root, e : Racing(root, e)' \subseteq Racing(root, e)
  BY CallersStay DEF IInv, Still, AllKept
<1>4. ASSUME NEW root, NEW e PROVE BoundedAt(root, e)'
  <2>1. Running(root, e)' \subseteq Running(root, e)
    BY <1>1, SameStays
  <2> QED BY <1>1, <1>3, <2>1, BoundKept
<1> QED BY <1>1, <1>2, <1>3, <1>4 DEF IInv, Bounded

LEMMA UnchangedIsStill ==
  ASSUME Log, RowsOK, UNCHANGED event_log
  PROVE  Still
BY DEF Still, AllKept, RowKept, Log, Indices, RowsOK, Live

(* An event that grows the log, and what it does to the count of its own   *)
(* chain.                                                                  *)
LEMMA GrowsStep ==
  ASSUME IInv, NEW r, Grows(r), WellPlaced(r), NobodyJoins, ProcessOK',
         r.status # "DEAD_LETTER" => BoundedAt(r.root, r.event)'
  PROVE  IInv'
<1>1. Log /\ Log' /\ RowsOK /\ Bounded
  BY DEF IInv, Grows, AllKept
<1>2. RowsOK' /\ ShallowAreLive' /\ CutOnlyAtTheLimit'
  BY GrowsKeepsRows DEF IInv
<1>3. EmittingOK' /\ \A root, e : Racing(root, e)' \subseteq Racing(root, e)
  BY <1>1, CallersStay DEF IInv
<1>4. ASSUME NEW root, NEW e PROVE BoundedAt(root, e)'
  <2>1. CASE Running(root, e)' = Running(root, e)
    BY <1>1, <1>3, <2>1, BoundKept
  <2>2. CASE r.root = root /\ r.event = e /\ r.status # "DEAD_LETTER"
    BY <2>2
  <2> QED BY <1>1, <2>1, <2>2, SameGrows
<1> QED BY <1>1, <1>2, <1>3, <1>4 DEF IInv, Bounded

LEMMA ChildIsWellPlaced ==
  ASSUME Log, RowsOK, NEW p \in Indices, NEW prior \in Nat,
         NEW r, NewChild(r, p, prior), prior <= Repeats(r.root, r.event)
  PROVE  /\ WellPlaced(r)
         /\ r.status # "DEAD_LETTER" => prior < CycleLimit
<1>1. r.root \in Indices
  BY DEF NewChild, RowsOK
<1>2. /\ Repeats(r.root, r.event) = Cardinality(Same(r.root, r.event))
      /\ Repeats(r.root, r.event) \in Nat
  BY Counted
<1>3. r.depth \in Nat /\ r.status = Status(r.depth, prior)
  BY DEF NewChild
<1> QED BY <1>1, <1>2, <1>3, LimitsAssumption DEF WellPlaced, Status

(* The claimed event stays claimed while its row is only kept.             *)
LEMMA ProcessStays ==
  ASSUME ProcessOK, UNCHANGED process, Still \/ (\E r : Grows(r))
  PROVE  ProcessOK'
BY DEF ProcessOK, Still, Grows, AllKept, RowKept

LEMMA CallersUnchanged ==
  ASSUME EmittingOK, UNCHANGED emitting
  PROVE  NobodyJoins
BY DEF EmittingOK, NobodyJoins

LEMMA IdleIsOK ==
  ASSUME process' = Idle \/ process' = Down
  PROVE  ProcessOK'
BY DEF ProcessOK, Idle, Down

-----------------------------------------------------------------------------
LEMMA InvInitially == Init => IInv
<1> SUFFICES ASSUME Init PROVE IInv
  OBVIOUS
<1>1. event_log = <<>> /\ Indices = {}
  BY DEF Init, Indices
<1>2. Log
  <2>1. event_log \in Seq({})
    BY <1>1
  <2> QED BY <2>1 DEF Log
<1>3. RowsOK /\ ShallowAreLive /\ CutOnlyAtTheLimit
  BY <1>1 DEF RowsOK, ShallowAreLive, CutOnlyAtTheLimit
<1>4. ProcessOK
  BY DEF Init, ProcessOK, Idle
<1>5. EmittingOK
  BY DEF Init, EmittingOK
<1>6. ASSUME NEW root, NEW e PROVE BoundedAt(root, e)
  <2>1. Running(root, e) = {} /\ Racing(root, e) = {}
    BY <1>1 DEF Init, Running, Same, Racing
  <2>2. Cardinality({}) = 0 /\ Cardinality(Emitters) \in Nat
    BY FS_EmptySet, EmittersAssumption, FS_CardinalityType
  <2> QED BY <2>1, <2>2, LimitsAssumption DEF BoundedAt
<1> QED BY <1>2, <1>3, <1>4, <1>5, <1>6 DEF IInv, Bounded

(* A root starts a chain no event of which runs yet.                       *)
LEMMA EmitRootStep ==
  ASSUME IInv, EmitRoot
  PROVE  IInv'
<1>1. Log /\ RowsOK /\ EmittingOK /\ ProcessOK
  BY DEF IInv
<1>2. PICK e \in Inputs : event_log' = Append(event_log, Root(e))
  BY DEF EmitRoot
<1> PICK r : r = Root(e)
  OBVIOUS
<1>3. /\ IsRow(r) /\ r.root = Next1 /\ r.depth = 0 /\ r.status = "PENDING"
      /\ r.event = e
  BY DEF Root, Row, IsRow, Fields, Next1
<1>4. Grows(r)
  BY <1>1, <1>2, <1>3, Appending
<1>5. WellPlaced(r)
  BY <1>3, LimitsAssumption DEF WellPlaced
<1>6. NobodyJoins /\ ProcessOK'
  BY <1>1, <1>4, CallersUnchanged, ProcessStays DEF EmitRoot
<1>7. BoundedAt(r.root, r.event)'
  <2>1. Running(r.root, r.event) = {}
    <3>1. Next1 \notin Indices
      BY <1>1, LogShape
    <3> QED BY <1>1, <1>3, <3>1 DEF Running, Same, RowsOK
  <2>2. Cardinality(Running(r.root, r.event)) < CycleLimit
    BY <2>1, FS_EmptySet, LimitsAssumption
  <2> QED BY <1>1, <1>4, <2>2, SameGrows, BoundFresh
<1> QED BY <1>4, <1>5, <1>6, <1>7, GrowsStep

(* A caller that joins the race counts fewer rows than the limit.          *)
LEMMA CountRepeatsStep ==
  ASSUME IInv, NEW m \in Emitters, CountRepeats(m)
  PROVE  IInv'
<1>1. Log /\ RowsOK /\ EmittingOK /\ ProcessOK /\ Bounded
  BY DEF IInv
<1>2. Still /\ Log'
  BY <1>1, UnchangedIsStill DEF CountRepeats, Still, AllKept
<1>3. RowsOK' /\ ShallowAreLive' /\ CutOnlyAtTheLimit' /\ ProcessOK'
  BY <1>2, StillKeepsRows, ProcessStays DEF IInv, CountRepeats
<1>4. PICK i \in Indices, e \in Inputs :
        emitting' = [emitting EXCEPT ![m] =
                       [parent |-> i, event |-> e,
                        prior |-> Repeats(event_log[i].root, e)]]
  BY DEF CountRepeats
<1> PICK c : c = [parent |-> i, event |-> e,
                  prior |-> Repeats(event_log[i].root, e)]
  OBVIOUS
<1>5. /\ emitting' = [x \in Emitters |-> emitting'[x]] /\ emitting'[m] = c
      /\ \A x \in Emitters : x # m => emitting'[x] = emitting[x]
  BY <1>1, <1>4 DEF EmittingOK
<1>6. /\ event_log' = event_log /\ Indices' = Indices
      /\ \A root, f : Repeats(root, f)' = Repeats(root, f)
  BY DEF CountRepeats, Indices, Repeats
<1>7. EmittingOK'
  <2>1. /\ c.parent \in Indices /\ c.prior \in Nat
        /\ c.prior = Repeats(event_log[c.parent].root, c.event)
    BY <1>1, Counted
  <2> QED BY <1>1, <1>5, <1>6, <2>1 DEF EmittingOK
<1>8. ASSUME NEW root, NEW f PROVE BoundedAt(root, f)'
  <2>1. Running(root, f)' = Running(root, f)
    BY <1>1, <1>2, SameStays
  <2>2. CASE Racing(root, f)' \subseteq Racing(root, f)
    BY <1>1, <2>1, <2>2, BoundKept
  <2>3. CASE ~(Racing(root, f)' \subseteq Racing(root, f))
    <3>1. PICK x \in Racing(root, f)' : x \notin Racing(root, f)
      BY <2>3
    <3>2. x = m
      BY <1>5, <1>6, <3>1 DEF Racing
    <3>3. /\ event_log[c.parent].root = root /\ c.event = f
          /\ c.prior < CycleLimit
      BY <1>5, <1>6, <3>1, <3>2 DEF Racing
    <3>4. Repeats(root, f) < CycleLimit
      BY <3>3
    <3>5. Cardinality(Running(root, f)) < CycleLimit
      BY <1>1, <3>4, RunningAreCounted, Counted, LimitsAssumption
    <3> QED BY <1>1, <2>1, <3>5, BoundFresh
  <2> QED BY <2>2, <2>3
<1> QED BY <1>2, <1>3, <1>7, <1>8 DEF IInv, Bounded

(* Its insert takes it from one count to the other.                        *)
LEMMA EmitChildStep ==
  ASSUME IInv, NEW m \in Emitters, EmitChild(m)
  PROVE  IInv'
<1>1. Log /\ RowsOK /\ EmittingOK /\ ProcessOK /\ Bounded
  BY DEF IInv
<1> PICK c : c = emitting[m]
  OBVIOUS
<1>2. /\ c # Quiet /\ c.parent \in Indices /\ c.prior \in Nat
      /\ c.prior <= Repeats(event_log[c.parent].root, c.event)
  BY <1>1 DEF EmitChild, EmittingOK
<1> PICK r : r = Child(c.parent, c.event, c.prior, "caller")
  OBVIOUS
<1>3. /\ IsRow(r) /\ r.root = event_log[c.parent].root /\ r.event = c.event
      /\ r.depth \in Nat /\ r.status = Status(r.depth, c.prior)
  BY <1>1, <1>2, ChildRow
<1>4. Grows(r)
  <2>1. event_log' = Append(event_log, r)
    BY DEF EmitChild
  <2> QED BY <1>1, <1>3, <2>1, Appending
<1>5. /\ WellPlaced(r) /\ (r.status # "DEAD_LETTER" => c.prior < CycleLimit)
  <2>1. NewChild(r, c.parent, c.prior)
    BY <1>3, <1>4 DEF NewChild
  <2>2. c.prior <= Repeats(r.root, r.event)
    BY <1>2, <1>3
  <2> QED BY <1>1, <1>2, <2>1, <2>2, ChildIsWellPlaced
<1>6. /\ emitting' = [x \in Emitters |-> emitting'[x]] /\ emitting'[m] = Quiet
      /\ \A x \in Emitters : x # m => emitting'[x] = emitting[x]
  BY <1>1 DEF EmittingOK, EmitChild
<1>7. NobodyJoins /\ ProcessOK'
  BY <1>1, <1>4, <1>6, ProcessStays DEF NobodyJoins, EmitChild
<1>8. ASSUME r.status # "DEAD_LETTER"
      PROVE  BoundedAt(r.root, r.event)'
  <2> PICK root, e, n : root = r.root /\ e = r.event /\ n = Next1
    OBVIOUS
  <2>1. m \in Racing(root, e)
    BY <1>2, <1>3, <1>5, <1>8 DEF Racing
  <2>2. Racing(root, e)' \subseteq Racing(root, e) \ {m}
    <3>1. Racing(root, e)' \subseteq Racing(root, e)
      <4>1. Log'
        BY <1>4 DEF Grows, AllKept
      <4> QED BY <1>1, <1>4, <1>7, <4>1, CallersStay
    <3>2. m \notin Racing(root, e)'
      BY <1>6 DEF Racing
    <3> QED BY <3>1, <3>2
  <2>3. Running(root, e)' \subseteq Running(root, e) \cup {n}
    BY <1>1, <1>4, SameGrows
  <2>4. BoundedAt(root, e)'
    BY <1>1, <2>1, <2>2, <2>3, BoundMoved
  <2> QED BY <2>4
<1> QED BY <1>4, <1>5, <1>7, <1>8, GrowsStep

LEMMA ClaimStep ==
  ASSUME IInv, ClaimNextCausalEvent
  PROVE  IInv'
<1>1. Log /\ RowsOK /\ EmittingOK
  BY DEF IInv
<1>2. PICK i, seen :
        /\ i \in Claimable
        /\ event_log' = [event_log EXCEPT ![i].status = "PROCESSING"]
        /\ process' = [at |-> "claimed", event |-> i, base |-> graph,
                       seen |-> seen, next |-> None,
                       decision |-> Decision(event_log[i].event.type, seen)]
  BY DEF ClaimNextCausalEvent
<1>3. i \in Indices /\ Live(i)
  BY <1>2 DEF Claimable, Open, Live
<1>4. Still
  BY <1>1, <1>2, <1>3, Resolving
<1>5. ProcessOK'
  <2>1. "at" \in DOMAIN process' /\ process'.event = i
    BY <1>2
  <2>2. i \in Indices' /\ Live(i)'
    BY <1>3, <1>4 DEF Still, AllKept, RowKept
  <2> QED BY <2>1, <2>2 DEF ProcessOK
<1>6. NobodyJoins
  BY <1>1, CallersUnchanged DEF ClaimNextCausalEvent
<1> QED BY <1>4, <1>5, <1>6, StillStep

LEMMA ResolveStep ==
  ASSUME IInv, process.at = "claimed", NEW status, status # "DEAD_LETTER",
         Resolve(status)
  PROVE  IInv'
<1>1. /\ Log /\ RowsOK /\ EmittingOK
      /\ process.event \in Indices /\ Live(process.event)
  BY DEF IInv, ProcessOK
<1>2. Still
  BY <1>1, Resolving DEF Resolve
<1>3. NobodyJoins /\ ProcessOK'
  BY <1>1, CallersUnchanged, IdleIsOK DEF Resolve
<1> QED BY <1>2, <1>3, StillStep

(* The generated event is counted and inserted at once: it does not race.  *)
LEMMA CommitStep ==
  ASSUME IInv, CommitPlan
  PROVE  IInv'
<1>1. Log /\ RowsOK /\ EmittingOK /\ ProcessOK /\ process.event \in Indices
  BY DEF IInv, ProcessOK, CommitPlan
<1>2. NobodyJoins
  BY <1>1, CallersUnchanged DEF CommitPlan
<1>3. ProcessOK'
  <2>1. "at" \in DOMAIN process' /\ process'.at = "committed"
    BY <1>1 DEF CommitPlan, ProcessOK
  <2> QED BY <2>1 DEF ProcessOK
<1>4. CASE Still
  BY <1>2, <1>3, <1>4, StillStep
<1>5. ASSUME NEW r,
             NewChild(r, process.event,
                      Repeats(event_log[process.event].root, r.event))
      PROVE  IInv'
  <2> PICK n : n = Repeats(event_log[process.event].root, r.event)
    OBVIOUS
  <2>1. Grows(r) /\ r.root = event_log[process.event].root
    BY <1>5 DEF NewChild
  <2>2. n = Repeats(r.root, r.event) /\ n \in Nat
    BY <1>1, <2>1, Counted
  <2>3. WellPlaced(r) /\ (r.status # "DEAD_LETTER" => n < CycleLimit)
    <3>1. NewChild(r, process.event, n) /\ n <= Repeats(r.root, r.event)
      BY <1>5, <2>2
    <3> QED BY <1>1, <2>2, <3>1, ChildIsWellPlaced
  <2>4. ASSUME r.status # "DEAD_LETTER"
        PROVE  BoundedAt(r.root, r.event)'
    <3>1. Cardinality(Running(r.root, r.event)) < CycleLimit
      BY <1>1, <2>2, <2>3, <2>4, RunningAreCounted, LimitsAssumption
    <3> QED BY <1>1, <2>1, <3>1, SameGrows, BoundFresh
  <2> QED BY <1>2, <1>3, <2>1, <2>3, <2>4, GrowsStep
<1> QED BY <1>4, <1>5, Committing

(* Steps that leave the log and the callers alone.                         *)
LEMMA QuietStep ==
  ASSUME IInv, UNCHANGED <<event_log, emitting>>, ProcessOK'
  PROVE  IInv'
BY StillStep, UnchangedIsStill, CallersUnchanged DEF IInv

LEMMA InvStep == IInv /\ [Next]_vars => IInv'
<1> SUFFICES ASSUME IInv, [Next]_vars PROVE IInv'
  OBVIOUS
<1>1. CASE EmitRoot
  BY <1>1, EmitRootStep
<1>2. ASSUME NEW m \in Emitters, CountRepeats(m) PROVE IInv'
  BY <1>2, CountRepeatsStep
<1>3. ASSUME NEW m \in Emitters, EmitChild(m) PROVE IInv'
  BY <1>3, EmitChildStep
<1>4. CASE ClaimNextCausalEvent
  BY <1>4, ClaimStep
<1>5. CASE NoMatch
  BY <1>5, ResolveStep DEF NoMatch
<1>6. CASE Fail
  BY <1>6, ResolveStep DEF Fail
<1>7. CASE CommitPlan
  BY <1>7, CommitStep
<1>8. CASE Publish
  BY <1>8, QuietStep, IdleIsOK DEF Publish
<1>9. CASE TransactionFails
  BY <1>9, ResolveStep DEF TransactionFails
<1>10. CASE Crash
  BY <1>10, QuietStep, IdleIsOK DEF Crash
<1>11. CASE Restart
  BY <1>11, QuietStep, IdleIsOK DEF Restart
<1>12. CASE UNCHANGED vars
  <2>1. UNCHANGED <<event_log, emitting, process>>
    BY <1>12 DEF vars
  <2>2. ProcessOK'
    <3>1. Log /\ RowsOK /\ ProcessOK
      BY DEF IInv
    <3>2. Still
      BY <2>1, <3>1, UnchangedIsStill
    <3> QED BY <2>1, <3>1, <3>2, ProcessStays
  <2> QED BY <2>1, <2>2, QuietStep
<1> QED BY <1>1, <1>2, <1>3, <1>4, <1>5, <1>6, <1>7, <1>8, <1>9, <1>10,
           <1>11, <1>12 DEF Next, ProcessNext, Poll

LEMMA InvBounds == IInv => PropagationBounded
<1> SUFFICES ASSUME IInv PROVE PropagationBounded
  OBVIOUS
<1>1. ASSUME NEW i \in Indices, Live(i)
      PROVE  /\ event_log[i].depth <= MaxDepth
             /\ Cardinality({j \in Indices :
                               /\ Live(j)
                               /\ event_log[j].root = event_log[i].root
                               /\ event_log[j].event = event_log[i].event})
                  <= CycleLimit + Cardinality(Emitters)
  <2> PICK root, e : root = event_log[i].root /\ e = event_log[i].event
    OBVIOUS
  <2>1. {j \in Indices : /\ Live(j) /\ event_log[j].root = root
                         /\ event_log[j].event = e}
          = Running(root, e)
    BY DEF Running, Same
  <2>2. /\ Cardinality(Running(root, e)) \in Nat
        /\ Cardinality(Racing(root, e)) \in Nat
        /\ Cardinality(Emitters) \in Nat
    BY RunningAreCounted, RacersAreFew DEF Racing, IInv
  <2>3. Cardinality(Running(root, e)) + Cardinality(Racing(root, e))
          <= CycleLimit + Cardinality(Emitters)
    BY DEF IInv, Bounded, BoundedAt
  <2>4. Cardinality(Running(root, e)) <= CycleLimit + Cardinality(Emitters)
    BY <2>2, <2>3, LimitsAssumption
  <2>5. event_log[i].depth <= MaxDepth
    BY <1>1 DEF IInv, ShallowAreLive
  <2> QED BY <2>1, <2>4, <2>5
<1> QED BY <1>1 DEF PropagationBounded, CutAtTheLimit, IInv

(* INV-021.  No event runs deeper than max_depth or, in its chain, more    *)
(* often than cycle_repeat_limit and one for each caller between its count *)
(* and its insert; and no chain is cut before it is at a limit, whoever    *)
(* emits, whatever the rules generate and whenever the process dies        *)
(* (fingerprint_count, emit_child and commit_plan).                        *)
THEOREM PropagationIsBounded == Spec => []PropagationBounded
<1>1. Spec => []IInv
  BY InvInitially, InvStep, PTL DEF Spec
<1> QED BY <1>1, InvBounds, PTL

-----------------------------------------------------------------------------
(* What the rules generate.  A row made by a commit names the one event it *)
(* was made for, and that event carries the rule it was committed with; an *)
(* event that may still be claimed carries none.                           *)

Changing == {"R001", "R006", "R008"}
RuleIds  == Changing \cup {"R002", "R003", "R004", "R005", "R007"}

ByCommit(j, i) == event_log[j].by = "commit" /\ event_log[j].parent = i

GeneratedOK ==
  /\ \A j \in Indices : event_log[j].by = "commit" =>
       LET i == event_log[j].parent
       IN /\ i \in Indices /\ event_log[i].rule \in Changing
          /\ \A l \in Indices : ByCommit(l, i) => l = j
  /\ \A i \in Indices : event_log[i].rule \in Changing =>
       \E j \in Indices : ByCommit(j, i)

UnruledOK ==
  \A i \in Indices : event_log[i].status \in Open => event_log[i].rule = None

DecidedOK ==
  process.at = "claimed" =>
    /\ event_log[process.event].rule = None
    /\ Decided \in RuleIds \cup {"NO_MATCH", "R401"}

Generation == GeneratedOK /\ UnruledOK /\ DecidedOK

LEMMA GenerationIsWhole ==
  ASSUME GeneratedOK, Log
  PROVE  NothingVanishes
<1> DEFINE generated(i) == {j \in Indices : /\ event_log[j].parent = i
                                            /\ event_log[j].by = "commit"}
<1> SUFFICES ASSUME NEW i \in Indices
             PROVE  Cardinality(generated(i)) =
                      IF event_log[i].rule \in Changing THEN 1 ELSE 0
  BY DEF NothingVanishes, Changing
<1>1. \A j \in generated(i) : /\ event_log[i].rule \in Changing
                              /\ \A l \in generated(i) : l = j
  BY DEF GeneratedOK, ByCommit
<1>2. CASE event_log[i].rule \notin Changing
  <2>1. generated(i) = {}
    BY <1>1, <1>2
  <2> QED BY <1>2, <2>1, FS_EmptySet
<1>3. CASE event_log[i].rule \in Changing
  <2>1. PICK j \in Indices : ByCommit(j, i)
    BY <1>3 DEF GeneratedOK
  <2>2. generated(i) = {j}
    BY <1>1, <2>1 DEF ByCommit
  <2> QED BY <1>3, <2>2, FS_Singleton
<1> QED BY <1>2, <1>3

(* A rule that changes the graph generates an event, any other none.       *)
LEMMA EightRules ==
  DOMAIN Rules = 1..8 /\ \A i \in 1..8 : Rules[i].id \in RuleIds
BY DEF Rules, Rule, RuleIds, Changing

LEMMA DecisionRange ==
  ASSUME NEW trigger, NEW ctx
  PROVE  Decision(trigger, ctx) \in RuleIds \cup {"NO_MATCH", "R401"}
<1> DEFINE S == {i \in DOMAIN Rules : /\ Rules[i].trigger = trigger
                                      /\ AllOf(Rules[i].when, ctx) # "FALSE"}
           first == CHOOSE j \in S : \A k \in S : j <= k
<1>1. S \subseteq 1..8
  BY EightRules
<1>2. CASE S = {}
  BY <1>2 DEF Decision
<1>3. CASE S # {}
  <2>1. Decision(trigger, ctx) = IF AllOf(Rules[first].when, ctx) = "UNKNOWN"
                                 THEN "R401" ELSE Rules[first].id
    BY <1>3 DEF Decision
  <2>2. \E i \in S : \A k \in S : i <= k
    <3>0. PICK x \in S : TRUE
      BY <1>3
    <3> HIDE DEF S
    <3>1. 1 \in S \/ 2 \in S \/ 3 \in S \/ 4 \in S \/ 5 \in S \/ 6 \in S
          \/ 7 \in S \/ 8 \in S
      BY <1>1, <3>0
    <3>2. \E i \in S : \A k \in S : i <= k
      BY <1>1, <3>1
    <3> QED BY <3>2 DEF S
  <2>3. first \in 1..8
    BY <1>1, <2>2
  <2> QED BY <2>1, <2>3, EightRules
<1> QED BY <1>2, <1>3

LEMMA ChangingGenerate ==
  ASSUME NEW g, NEW rule \in RuleIds, NEW ctx, NEW a,
         a = Applied(g, Planned(rule, ctx)), a.ok
  PROVE  a.events = <<>> <=> rule \notin Changing
<1> DEFINE action == Planned(rule, ctx)
<1>1. \A e : <<e>> # <<>>
  OBVIOUS
<1>2. CASE rule = "R001"
  BY <1>1, <1>2 DEF Planned, Applied, Changing
<1>3. CASE rule = "R006"
  BY <1>1, <1>3 DEF Planned, Applied, Changing
<1>4. CASE rule = "R008"
  BY <1>1, <1>4 DEF Planned, Applied, Changing
<1>5. CASE rule \notin Changing
  <2>1. action.type = "DISPATCH"
    BY <1>5 DEF Planned, RuleIds
  <2> HIDE DEF action
  <2>2. a = Applied(g, action)
    BY DEF action
  <2>3. \/ a = [ok |-> TRUE, graph |-> g, dispatch |-> TRUE, events |-> <<>>]
        \/ a = [ok |-> FALSE, graph |-> g, dispatch |-> FALSE, events |-> <<>>]
    BY <2>1, <2>2 DEF Applied
  <2> QED BY <1>5, <2>3
<1> QED BY <1>2, <1>3, <1>4, <1>5 DEF Changing

(* Rows keep their origin and their rule; new rows have none from a commit.*)
OriginKept(i) ==
  /\ event_log'[i].by = event_log[i].by
  /\ event_log'[i].parent = event_log[i].parent
  /\ event_log'[i].rule = event_log[i].rule

NothingGenerated ==
  /\ Indices \subseteq Indices'
  /\ \A i \in Indices : /\ OriginKept(i)
                        /\ event_log'[i].status \in Open =>
                             event_log[i].rule = None
  /\ \A i \in Indices' \ Indices : /\ event_log'[i].by # "commit"
                                   /\ event_log'[i].rule = None

LEMMA GenerationKept ==
  ASSUME GeneratedOK, NothingGenerated
  PROVE  GeneratedOK' /\ UnruledOK'
<1>1. \A i \in Indices' : i \notin Indices =>
        event_log'[i].by # "commit" /\ event_log'[i].rule = None
  BY DEF NothingGenerated
<1>2. \A i \in Indices : OriginKept(i) /\ i \in Indices'
  BY DEF NothingGenerated
<1>3. ASSUME NEW j \in Indices', event_log'[j].by = "commit",
             NEW i, i = event_log'[j].parent
      PROVE  /\ i \in Indices' /\ event_log'[i].rule \in Changing
             /\ \A l \in Indices' : ByCommit(l, i)' => l = j
  <2>1. /\ j \in Indices /\ event_log[j].by = "commit"
        /\ event_log[j].parent = i
    BY <1>1, <1>2, <1>3 DEF OriginKept
  <2>2. /\ i \in Indices /\ event_log[i].rule \in Changing
        /\ \A l \in Indices : ByCommit(l, i) => l = j
    BY <2>1 DEF GeneratedOK
  <2>3. \A l \in Indices' : ByCommit(l, i)' => l \in Indices /\ ByCommit(l, i)
    BY <1>1, <1>2 DEF ByCommit, OriginKept
  <2> QED BY <1>2, <2>2, <2>3 DEF OriginKept
<1>4. ASSUME NEW i \in Indices', event_log'[i].rule \in Changing
      PROVE  \E j \in Indices' : ByCommit(j, i)'
  <2>1. i \in Indices /\ event_log[i].rule \in Changing
    BY <1>1, <1>2, <1>4, NoneAssumption DEF OriginKept, Changing
  <2>2. PICK j \in Indices : ByCommit(j, i)
    BY <2>1 DEF GeneratedOK
  <2>3. j \in Indices' /\ ByCommit(j, i)'
    BY <1>2, <2>2 DEF ByCommit, OriginKept
  <2> QED BY <2>3
<1>5. GeneratedOK'
  BY <1>3, <1>4 DEF GeneratedOK
<1>6. UnruledOK'
  BY <1>1, <1>2 DEF NothingGenerated, UnruledOK, OriginKept
<1> QED BY <1>5, <1>6

LEMMA Updating ==
  ASSUME Log, NEW k \in Indices, NEW q, event_log' = [event_log EXCEPT ![k] = q]
  PROVE  /\ Indices' = Indices /\ event_log'[k] = q
         /\ \A i \in Indices : i # k => event_log'[i] = event_log[i]
<1>1. PICK S : event_log \in Seq(S)
  BY DEF Log
<1>2. Len(event_log) \in Nat /\ Indices = 1..Len(event_log)
  BY LogShape
<1> QED BY <1>1, <1>2 DEF Indices

LEMMA Adding ==
  ASSUME Log, NEW r, event_log' = Append(event_log, r)
  PROVE  /\ Indices' = Indices \cup {Next1} /\ event_log'[Next1] = r
         /\ \A i \in Indices : event_log'[i] = event_log[i]
<1>1. PICK R : event_log \in Seq(R)
  BY DEF Log
<1> DEFINE S == R \cup {r}
<1>2. event_log \in Seq(S) /\ r \in S
  BY <1>1
<1> HIDE DEF S
<1>3. /\ Len(event_log') = Next1 /\ event_log' \in Seq(S)
      /\ event_log'[Next1] = r
      /\ \A i \in 1..Len(event_log) : event_log'[i] = event_log[i]
  BY <1>2 DEF Next1
<1>4. Len(event_log) \in Nat /\ Indices = 1..Len(event_log)
  BY LogShape
<1>5. Indices' = 1..Next1
  BY <1>3 DEF Indices
<1> QED BY <1>3, <1>4, <1>5 DEF Next1

LEMMA MarkedGenerates ==
  ASSUME Log, RowsOK, UnruledOK, NEW k \in Indices, NEW status,
         event_log[k].rule = None,
         event_log' = [event_log EXCEPT ![k].status = status]
  PROVE  NothingGenerated
<1>1. PICK r, q : r = event_log[k] /\ q = [r EXCEPT !.status = status]
  OBVIOUS
<1>2. IsRow(r)
  BY <1>1 DEF RowsOK
<1>3. /\ q.by = r.by /\ q.parent = r.parent /\ q.rule = r.rule
  BY <1>1, <1>2 DEF IsRow, Fields
<1>4. event_log' = [event_log EXCEPT ![k] = q]
  BY <1>1
<1>5. /\ Indices' = Indices /\ event_log'[k] = q
      /\ \A i \in Indices : i # k => event_log'[i] = event_log[i]
  BY <1>4, Updating
<1>6. \A i \in Indices : OriginKept(i)
  BY <1>1, <1>3, <1>5 DEF OriginKept
<1>7. \A i \in Indices : event_log'[i].status \in Open => event_log[i].rule = None
  BY <1>5 DEF UnruledOK
<1> QED BY <1>5, <1>6, <1>7 DEF NothingGenerated

LEMMA EmittedGenerates ==
  ASSUME Log, UnruledOK, NEW r, r.by # "commit", r.rule = None,
         event_log' = Append(event_log, r)
  PROVE  NothingGenerated
<1>0. PICK n : n = Next1
  OBVIOUS
<1>1. /\ Indices' = Indices \cup {n} /\ event_log'[n] = r
      /\ \A i \in Indices : event_log'[i] = event_log[i]
  BY <1>0, Adding
<1>2. \A i \in Indices : /\ OriginKept(i)
                         /\ event_log'[i].status \in Open =>
                              event_log[i].rule = None
  BY <1>1 DEF OriginKept, UnruledOK
<1>3. \A i \in Indices' \ Indices : event_log'[i] = r
  BY <1>1
<1>4. ASSUME NEW i \in Indices' \ Indices
      PROVE  event_log'[i].by # "commit" /\ event_log'[i].rule = None
  <2>1. PICK q : q = event_log'[i]
    OBVIOUS
  <2>2. q = r
    BY <1>3, <2>1
  <2>3. q.by # "commit" /\ q.rule = None
    BY <2>2
  <2> QED BY <2>1, <2>3
<1> QED BY <1>1, <1>2, <1>4 DEF NothingGenerated

LEMMA SameGenerates ==
  ASSUME UnruledOK, UNCHANGED event_log
  PROVE  NothingGenerated
BY DEF NothingGenerated, OriginKept, UnruledOK, Indices

(* The commit gives the event its rule and makes the one row it owes.      *)
Generates(k, rule) ==
  /\ Indices \subseteq Indices'
  /\ \A i \in Indices : i # k => event_log'[i] = event_log[i]
  /\ event_log'[k].by = event_log[k].by
  /\ event_log'[k].parent = event_log[k].parent
  /\ event_log'[k].rule = rule /\ event_log'[k].status \notin Open
  /\ IF rule \in Changing
     THEN \E n : /\ n \notin Indices /\ Indices' = Indices \cup {n}
                 /\ ByCommit(n, k)' /\ event_log'[n].rule = None
     ELSE Indices' = Indices

LEMMA CommitGenerates ==
  ASSUME IInv, Generation, CommitPlan
  PROVE  \E k \in Indices : \E rule :
           event_log[k].rule = None /\ Generates(k, rule)
<1>1. PICK k, rule, a : k = process.event /\ rule = Decided /\ a = Outcome
  OBVIOUS
<1>2. /\ k \in Indices /\ Log /\ RowsOK /\ process.at = "claimed"
      /\ event_log[k].rule = None
  BY <1>1 DEF CommitPlan, IInv, ProcessOK, Generation, DecidedOK
<1>3. rule \in RuleIds /\ a.ok /\ a = Applied(graph, Planned(rule, process.seen))
  BY <1>1, <1>2 DEF CommitPlan, Matched, Generation, DecidedOK, Outcome
<1>4. a.events = <<>> <=> rule \notin Changing
  BY <1>3, ChangingGenerate
<1>5. event_log' = Completed(Propagated(event_log, a.events))
  BY <1>1 DEF CommitPlan
<1>6. PICK s, p, q : /\ s = event_log[k]
                     /\ p = [s EXCEPT !.status = "COMMITTED"]
                     /\ q = [p EXCEPT !.rule = rule]
  OBVIOUS
<1>7. /\ q.by = s.by /\ q.parent = s.parent /\ q.rule = rule
      /\ q.status = "COMMITTED"
  <2>1. IsRow(s)
    BY <1>2, <1>6 DEF RowsOK
  <2>2. IsRow(p) /\ p.by = s.by /\ p.parent = s.parent /\ p.status = "COMMITTED"
    BY <1>6, <2>1 DEF IsRow, Fields
  <2> QED BY <1>6, <2>2 DEF IsRow, Fields
<1>8. CASE rule \notin Changing
  <2>1. event_log' = [event_log EXCEPT ![k] = q]
    BY <1>1, <1>4, <1>5, <1>6, <1>8 DEF Propagated, Completed
  <2>2. /\ Indices' = Indices /\ event_log'[k] = q
        /\ \A i \in Indices : i # k => event_log'[i] = event_log[i]
    BY <1>2, <2>1, Updating
  <2>3. event_log'[k].status \notin Open
    BY <1>7, <2>2 DEF Open
  <2>4. event_log'[k].by = event_log[k].by /\ event_log'[k].parent = event_log[k].parent
    BY <1>6, <1>7, <2>2
  <2>5. Generates(k, rule)
    BY <1>7, <1>8, <2>2, <2>3, <2>4 DEF Generates
  <2> QED BY <1>2, <2>5
<1>9. CASE rule \in Changing
  <2>1. PICK r, n : /\ r = Child(k, a.events[1],
                                 Repeats(event_log[k].root, a.events[1]), "commit")
                    /\ n = Next1
    OBVIOUS
  <2>2. PICK log : log = Append(event_log, r)
    OBVIOUS
  <2>3. r.by = "commit" /\ r.parent = k /\ r.rule = None
    BY <2>1 DEF Child, Row
  <2>4. event_log' = Completed(log)
    BY <1>1, <1>4, <1>5, <1>9, <2>1, <2>2 DEF Propagated
  <2>5. PICK R : event_log \in Seq(R)
    BY <1>2 DEF Log
  <2>6. /\ n \in Nat /\ n \notin Indices /\ Indices = 1..Len(event_log)
        /\ n = Len(event_log) + 1 /\ Len(event_log) \in Nat
    BY <1>2, <2>1, LogShape DEF Next1
  <2>7. /\ log \in Seq(R \cup {r}) /\ Len(log) = n /\ log[n] = r
        /\ \A i \in 1..Len(event_log) : log[i] = event_log[i]
    <3>1. event_log \in Seq(R \cup {r}) /\ r \in R \cup {r}
      BY <2>5
    <3> QED BY <2>2, <2>6, <3>1
  <2>8. DOMAIN log = Indices \cup {n} /\ \A i \in Indices : log[i] = event_log[i]
    BY <2>6, <2>7
  <2>9. event_log' = [log EXCEPT ![k] = q]
    BY <1>1, <1>2, <1>6, <2>4, <2>8 DEF Completed
  <2>10. /\ Indices' = Indices \cup {n} /\ event_log'[k] = q
         /\ event_log'[n] = r
         /\ \A i \in Indices : i # k => event_log'[i] = event_log[i]
    BY <1>2, <2>6, <2>7, <2>8, <2>9 DEF Indices
  <2>11. /\ event_log'[k].by = event_log[k].by /\ event_log'[k].rule = rule
         /\ event_log'[k].parent = event_log[k].parent
         /\ event_log'[k].status \notin Open
    BY <1>6, <1>7, <2>10 DEF Open
  <2>12. ByCommit(n, k)' /\ event_log'[n].rule = None
    BY <2>3, <2>10 DEF ByCommit
  <2>13. Generates(k, rule)
    BY <1>9, <2>6, <2>10, <2>11, <2>12 DEF Generates
  <2> QED BY <1>2, <2>13
<1> QED BY <1>2, <1>8, <1>9

LEMMA GenerationGrows ==
  ASSUME GeneratedOK, UnruledOK, NEW k \in Indices, NEW rule,
         event_log[k].rule = None, Generates(k, rule)
  PROVE  GeneratedOK' /\ UnruledOK'
<1>1. \A j \in Indices : /\ event_log'[j].by = event_log[j].by
                         /\ event_log'[j].parent = event_log[j].parent
  BY DEF Generates
<1>2. \A i \in Indices : i # k => event_log'[i].rule = event_log[i].rule
  BY DEF Generates
<1>3. \A j \in Indices : ~ByCommit(j, k)
  BY NoneAssumption DEF GeneratedOK, ByCommit, Changing
<1>4. \A j, i : j \in Indices => (ByCommit(j, i)' <=> ByCommit(j, i))
  BY <1>1 DEF ByCommit
<1>5. \A j \in Indices' : j \notin Indices =>
        /\ rule \in Changing /\ ByCommit(j, k)' /\ event_log'[j].rule = None
        /\ \A l \in Indices' : l \notin Indices => l = j
  BY DEF Generates
<1>6. ASSUME NEW j \in Indices', event_log'[j].by = "commit",
             NEW i, i = event_log'[j].parent
      PROVE  /\ i \in Indices' /\ event_log'[i].rule \in Changing
             /\ \A l \in Indices' : ByCommit(l, i)' => l = j
  <2>1. CASE j \in Indices
    <3>1. event_log[j].by = "commit" /\ event_log[j].parent = i
      BY <1>1, <1>6, <2>1
    <3>2. /\ i \in Indices /\ event_log[i].rule \in Changing
          /\ \A l \in Indices : ByCommit(l, i) => l = j
      BY <2>1, <3>1 DEF GeneratedOK
    <3>3. i # k
      BY <3>2, NoneAssumption DEF Changing
    <3>4. \A l \in Indices' : l \notin Indices => ~ByCommit(l, i)'
      BY <1>5, <3>3 DEF ByCommit
    <3>5. i \in Indices' /\ event_log'[i].rule \in Changing
      BY <1>2, <3>2, <3>3 DEF Generates
    <3> QED BY <1>4, <3>2, <3>4, <3>5
  <2>2. CASE j \notin Indices
    <3>1. i = k /\ rule \in Changing
      BY <1>5, <1>6, <2>2 DEF ByCommit
    <3>2. \A l \in Indices' : ByCommit(l, k)' => l = j
      BY <1>3, <1>4, <1>5, <2>2
    <3>3. k \in Indices' /\ event_log'[k].rule = rule
      BY DEF Generates
    <3> QED BY <3>1, <3>2, <3>3
  <2> QED BY <2>1, <2>2
<1>7. ASSUME NEW i \in Indices', event_log'[i].rule \in Changing
      PROVE  \E j \in Indices' : ByCommit(j, i)'
  <2>1. CASE i = k
    BY <1>7, <2>1 DEF Generates
  <2>2. CASE i # k
    <3>1. i \in Indices /\ event_log[i].rule \in Changing
      BY <1>2, <1>5, <1>7, <2>2, NoneAssumption DEF Changing
    <3>2. PICK j \in Indices : ByCommit(j, i)
      BY <3>1 DEF GeneratedOK
    <3>3. j \in Indices' /\ ByCommit(j, i)'
      BY <1>4, <3>2 DEF Generates
    <3> QED BY <3>3
  <2> QED BY <2>1, <2>2
<1>8. GeneratedOK'
  BY <1>6, <1>7 DEF GeneratedOK
<1>9. UnruledOK'
  BY <1>5 DEF Generates, UnruledOK
<1> QED BY <1>8, <1>9

LEMMA DecisionStays ==
  ASSUME ProcessOK, DecidedOK, NothingGenerated, UNCHANGED process
  PROVE  DecidedOK'
BY DEF ProcessOK, DecidedOK, NothingGenerated, OriginKept, Decided

LEMMA NothingDecided ==
  ASSUME process' = Idle \/ process' = Down \/ process'.at = "committed"
  PROVE  DecidedOK'
BY DEF DecidedOK, Idle, Down

LEMMA ResolvedGenerates ==
  ASSUME IInv, Generation, process.at = "claimed", NEW status, Resolve(status)
  PROVE  Generation'
<1>1. PICK k : k = process.event
  OBVIOUS
<1>2. k \in Indices /\ event_log[k].rule = None /\ Log /\ RowsOK
  BY <1>1 DEF IInv, ProcessOK, Generation, DecidedOK
<1>3. event_log' = [event_log EXCEPT ![k].status = status] /\ process' = Idle
  BY <1>1 DEF Resolve
<1>4. NothingGenerated
  BY <1>2, <1>3, MarkedGenerates DEF Generation
<1> QED BY <1>3, <1>4, GenerationKept, NothingDecided DEF Generation

LEMMA GenerationStep ==
  ASSUME IInv, Generation, [Next]_vars
  PROVE  Generation'
<1>1. Log /\ RowsOK /\ ProcessOK /\ GeneratedOK /\ UnruledOK /\ DecidedOK
  BY DEF IInv, Generation
<1>2. ASSUME UNCHANGED process, NothingGenerated PROVE Generation'
  BY <1>1, <1>2, DecisionStays, GenerationKept DEF Generation
<1>3. ASSUME UNCHANGED event_log, process' = Idle \/ process' = Down
      PROVE  Generation'
  BY <1>1, <1>3, SameGenerates, NothingDecided, GenerationKept DEF Generation
<1>4. CASE EmitRoot
  <2>1. PICK e : event_log' = Append(event_log, Root(e))
    BY <1>4 DEF EmitRoot
  <2>2. PICK r : r = Root(e)
    OBVIOUS
  <2>3. r.by # "commit" /\ r.rule = None
    BY <2>2 DEF Root, Row
  <2>4. NothingGenerated
    BY <1>1, <2>1, <2>2, <2>3, EmittedGenerates
  <2> QED BY <1>2, <1>4, <2>4 DEF EmitRoot
<1>5. ASSUME NEW m \in Emitters, CountRepeats(m) PROVE Generation'
  BY <1>1, <1>2, <1>5, SameGenerates DEF CountRepeats
<1>6. ASSUME NEW m \in Emitters, EmitChild(m) PROVE Generation'
  <2>1. PICK r : r = Child(emitting[m].parent, emitting[m].event,
                           emitting[m].prior, "caller")
    OBVIOUS
  <2>2. r.by # "commit" /\ r.rule = None
    BY <2>1 DEF Child, Row
  <2>3. event_log' = Append(event_log, r)
    BY <1>6, <2>1 DEF EmitChild
  <2>4. NothingGenerated
    BY <1>1, <2>2, <2>3, EmittedGenerates
  <2> QED BY <1>2, <1>6, <2>4 DEF EmitChild
<1>7. CASE ClaimNextCausalEvent
  <2>1. PICK i, seen :
          /\ i \in Claimable
          /\ event_log' = [event_log EXCEPT ![i].status = "PROCESSING"]
          /\ process' = [at |-> "claimed", event |-> i, base |-> graph,
                         seen |-> seen, next |-> None,
                         decision |-> Decision(event_log[i].event.type, seen)]
    BY <1>7 DEF ClaimNextCausalEvent
  <2>2. i \in Indices /\ event_log[i].rule = None
    BY <1>1, <2>1 DEF Claimable, UnruledOK
  <2>3. NothingGenerated
    BY <1>1, <2>1, <2>2, MarkedGenerates
  <2>4. PICK d : d = Decision(event_log[i].event.type, seen)
    OBVIOUS
  <2>5. d \in RuleIds \cup {"NO_MATCH", "R401"}
    BY <2>4, DecisionRange
  <2>6. process'.event = i /\ process'.decision = d
    BY <2>1, <2>4
  <2>7. event_log'[i].rule = None
    BY <2>2, <2>3 DEF NothingGenerated, OriginKept
  <2>8. DecidedOK'
    BY <2>5, <2>6, <2>7 DEF DecidedOK, Decided
  <2> QED BY <1>1, <2>3, <2>8, GenerationKept DEF Generation
<1>8. CASE NoMatch \/ Fail \/ TransactionFails
  BY <1>8, ResolvedGenerates DEF NoMatch, Fail, TransactionFails
<1>9. CASE CommitPlan
  <2>1. PICK k \in Indices : \E rule : /\ event_log[k].rule = None
                                       /\ Generates(k, rule)
    BY <1>9, CommitGenerates
  <2>2. GeneratedOK' /\ UnruledOK'
    BY <1>1, <2>1, GenerationGrows
  <2>3. process'.at = "committed"
    BY <1>1, <1>9 DEF CommitPlan, ProcessOK
  <2> QED BY <2>2, <2>3, NothingDecided DEF Generation
<1>10. CASE Publish \/ Crash \/ Restart
  BY <1>3, <1>10 DEF Publish, Crash, Restart
<1>11. CASE UNCHANGED vars
  BY <1>1, <1>2, <1>11, SameGenerates DEF vars
<1> QED BY <1>4, <1>5, <1>6, <1>7, <1>8, <1>9, <1>10, <1>11
        DEF Next, ProcessNext, Poll

(* INV-021, INV-006.  Whoever emits, wherever the process dies: a rule     *)
(* that changes the graph has exactly one generated event on record, a     *)
(* dead one if the chain is at its limit; every other row of a commit      *)
(* would be one too many (commit_plan counts and inserts the child and     *)
(* marks the event COMMITTED in one transaction).                          *)
THEOREM GenerationIsComplete == Spec => []NothingVanishes
<1>1. Init => IInv /\ Generation
  <2>1. Init => Generation
    BY DEF Init, Generation, GeneratedOK, UnruledOK, DecidedOK, Indices, Idle
  <2> QED BY <2>1, InvInitially
<1>2. IInv /\ Generation /\ [Next]_vars => (IInv /\ Generation)'
  BY InvStep, GenerationStep
<1>3. IInv /\ Generation => NothingVanishes
  BY GenerationIsWhole DEF IInv, Generation
<1> QED BY <1>1, <1>2, <1>3, PTL DEF Spec
=============================================================================
