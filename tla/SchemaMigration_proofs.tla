----------------------- MODULE SchemaMigration_proofs -----------------------
(***************************************************************************)
(* Whatever processes race, crash or disagree, schema_migrations records   *)
(* exactly what has been executed, in one lineage, and no process that     *)
(* owns the migration executes what another one has committed; and no row  *)
(* that a program of any release stores is refused by a later migration.   *)
(*                                                                         *)
(* What makes it inductive: only the owner of the lock migrates; what its  *)
(* transaction sees extends the committed history; and a plan that was     *)
(* made before the lock is still right about the part of the history it    *)
(* was made from, so a plan that is out of date is refused by the          *)
(* statements that were executed meanwhile.                                *)
(*                                                                         *)
(* The rows need two things: that the lists of the 22 migrations go on     *)
(* accepting what earlier releases write (LaterListsFit), and that a       *)
(* program that writes is of a release the database has reached (Served).  *)
(***************************************************************************)
EXTENDS SchemaMigration, SequenceTheorems, FiniteSetTheorems, TLAPS

Lineages == {"canonical", "altered"}
Entry    == Nat \X Lineages
Log      == Seq(Entry)

(* The entry of migration v in the lineage l.                              *)
Stamp(l, v) == IF l = "altered" /\ v >= AlteredFrom THEN <<v, "altered">>
               ELSE <<v, "canonical">>
Follows(log, l) == \A i \in 1 .. Len(log) : log[i] = Stamp(l, i)

Typed ==
  /\ history \in Log
  /\ release \in [Procs -> Nat]
  /\ lineage \in [Procs -> Lineages]
  /\ next \in [Procs -> Nat]
  /\ work \in [Procs -> [history : Log, physical : Log]]
  /\ pc \in [Procs -> Statuses]
  /\ error \in [Procs -> Errors]
  /\ lock \in Procs \cup {NoProc}
  /\ manager \in Managers

Recorded == history = physical
OneRoot  == \E l \in Lineages : Follows(history, l)
Owner    == \A p \in Procs : lock = p <=> pc[p] = "migrating"

(* What an open transaction sees.                                          *)
Extended(p) ==
  /\ work[p].history = work[p].physical
  /\ Len(history) <= Len(work[p].history)
  /\ \A i \in 1 .. Len(history) : work[p].history[i] = history[i]
Planned(p, log) == next[p] = Len(log) + 1 /\ Follows(log, lineage[p])
Opened ==
  \A p \in Procs : pc[p] = "migrating" =>
    /\ Extended(p)
    /\ manager # "versioned" \/ work[p].history # history
         => Planned(p, work[p].history)

(* A plan made without the lock was right about what it was made from.     *)
Foreseen(p) ==
  /\ next[p] \in 1 .. Len(history) + 1
  /\ \A i \in 1 .. next[p] - 1 : history[i] = Stamp(lineage[p], i)
Prepared ==
  \A p \in Procs :
    manager = "versioned"
      /\ (pc[p] = "waiting" \/ (pc[p] = "migrating" /\ work[p].history = history))
    => Foreseen(p)

NoRerun == manager # "versioned" => \A p \in Procs : error[p] # "exists"

IInv == /\ Typed /\ Recorded /\ OneRoot /\ Owner
        /\ Opened /\ Prepared /\ NoRerun

-----------------------------------------------------------------------------
(* The entry of a migration names it.                                      *)
LEMMA StampNames ==
  ASSUME NEW l, NEW v \in Nat
  PROVE  Stamp(l, v) \in Entry /\ Stamp(l, v)[1] = v
BY DEF Stamp, Entry, Lineages

LEMMA ChecksumIsStamp ==
  ASSUME NEW p, NEW v PROVE Checksum(p, v) = Stamp(lineage[p], v)
BY DEF Checksum, Stamp

(* What the pending migrations append continues the lineage.               *)
LEMMA AppliedFollows ==
  ASSUME Typed, NEW p \in Procs, NEW log \in Log, Planned(p, log),
         Cardinality(Pending(p)) \in Nat
  PROVE  /\ Applied(p, log) \in Log
         /\ Len(Applied(p, log)) = Len(log) + Cardinality(Pending(p))
         /\ Follows(Applied(p, log), lineage[p])
         /\ \A i \in 1 .. Len(log) : Applied(p, log)[i] = log[i]
<1> DEFINE k == Cardinality(Pending(p))
           new == [i \in 1 .. k |-> Checksum(p, next[p] + i - 1)]
<1>1. Len(log) \in Nat /\ next[p] = Len(log) + 1 /\ Follows(log, lineage[p])
  BY DEF Planned, Log
<1>2. \A i \in 1 .. k : Checksum(p, next[p] + i - 1) \in Entry
  BY <1>1, ChecksumIsStamp, StampNames
<1>3. new \in Seq(Entry) /\ Len(new) = k
  BY <1>2
<1>4. Applied(p, log) = log \o new
  BY DEF Applied
<1>5. /\ log \o new \in Seq(Entry)
      /\ Len(log \o new) = Len(log) + k
      /\ \A i \in 1 .. Len(log) + k :
           (log \o new)[i] = IF i <= Len(log) THEN log[i] ELSE new[i - Len(log)]
  BY <1>3, ConcatProperties DEF Log
<1>6. \A i \in 1 .. Len(log) + k :
        (log \o new)[i] = Stamp(lineage[p], i)
  <2> SUFFICES ASSUME NEW i \in 1 .. Len(log) + k
               PROVE  (log \o new)[i] = Stamp(lineage[p], i)
    OBVIOUS
  <2>1. CASE i <= Len(log)
    BY <1>1, <1>5, <2>1 DEF Follows
  <2>2. CASE i > Len(log)
    <3>1. i - Len(log) \in 1 .. k /\ next[p] + (i - Len(log)) - 1 = i
      BY <1>1, <2>2
    <3>2. new[i - Len(log)] = Checksum(p, i)
      BY <3>1
    <3> QED BY <1>1, <1>5, <2>2, <3>2, ChecksumIsStamp
  <2> QED BY <1>1, <2>1, <2>2
<1>7. Applied(p, log) \in Log
  BY <1>4, <1>5 DEF Log
<1>8. Len(Applied(p, log)) = Len(log) + k
  BY <1>4, <1>5
<1>9. Follows(Applied(p, log), lineage[p])
  BY <1>4, <1>6, <1>8 DEF Follows
<1>10. \A i \in 1 .. Len(log) : Applied(p, log)[i] = log[i]
  BY <1>1, <1>4, <1>5
<1> QED BY <1>7, <1>8, <1>9, <1>10

(* How many migrations are pending.                                        *)
LEMMA PendingCounts ==
  ASSUME Typed, NEW p \in Procs
  PROVE  /\ Cardinality(Pending(p)) \in Nat
         /\ manager = "versioned" => Cardinality(Pending(p)) = 1
         /\ Pending(p) # {} => Cardinality(Pending(p)) > 0
<1>1. next[p] \in Nat /\ release[p] \in Nat
  BY DEF Typed
<1>2. CASE manager = "versioned"
  <2>1. Pending(p) = {next[p]}
    BY <1>2 DEF Pending
  <2>2. Cardinality({next[p]}) = 1
    BY FS_Singleton
  <2> QED BY <2>1, <2>2
<1>3. CASE manager # "versioned"
  <2>1. Pending(p) = next[p] .. release[p]
    BY <1>3 DEF Pending
  <2>2. Cardinality(next[p] .. release[p])
          = IF next[p] > release[p] THEN 0 ELSE release[p] - next[p] + 1
    <3>1. next[p] \in Int /\ release[p] \in Int
      BY <1>1
    <3> HIDE DEF Typed
    <3> QED BY <3>1, FS_Interval
  <2> QED BY <1>1, <1>3, <2>1, <2>2
<1> QED BY <1>2, <1>3

(* A log of one lineage numbers its migrations.                            *)
LEMMA FollowsNames ==
  ASSUME NEW log \in Log, NEW l, Follows(log, l)
  PROVE  \A i \in 1 .. Len(log) : log[i][1] = i
BY StampNames DEF Follows, Log

(* What validation lets through is a log of the process's own lineage.     *)
LEMMA VerdictFollows ==
  ASSUME NEW p \in Procs, NEW log \in Log
  PROVE  /\ Verdict(p, log) \in {"", "newer", "checksum"}
         /\ Verdict(p, log) = "" => Follows(log, lineage[p])
BY ChecksumIsStamp DEF Verdict, Follows

-----------------------------------------------------------------------------
LEMMA InitIInv == Init => IInv
<1> SUFFICES ASSUME Init PROVE IInv
  OBVIOUS
<1>1. <<>> \in Log /\ Len(<<>>) = 0
  BY DEF Log
<1>2. Typed
  BY <1>1 DEF Init, Typed, Lineages, Statuses, Errors
<1>3. OneRoot
  <2>1. Len(history) = 0
    BY <1>1 DEF Init
  <2>2. Follows(history, "canonical")
    BY <2>1 DEF Follows
  <2>3. "canonical" \in Lineages
    BY DEF Lineages
  <2> QED BY <2>2, <2>3 DEF OneRoot
<1>4. Recorded /\ Owner /\ Opened /\ Prepared /\ NoRerun
  BY ProcAssumption DEF Init, Recorded, Owner, Opened, Prepared, NoRerun
<1> QED BY <1>2, <1>3, <1>4 DEF IInv

(* A process that stops, is refused or crashes leaves nothing behind.      *)
LEMMA LeavesStep ==
  ASSUME IInv, NEW p \in Procs, NEW status \in {"down", "failed"},
         Leaves(p, status), UNCHANGED <<manager, history, physical>>,
         \/ UNCHANGED error
         \/ \E why \in Errors : /\ error' = [error EXCEPT ![p] = why]
                                /\ manager # "versioned" => why # "exists"
  PROVE  IInv'
<1> USE DEF IInv
<1>1. Idle \in [history : Log, physical : Log]
  BY DEF Idle, Log
<1>2. Typed'
  BY <1>1 DEF Typed, Leaves, Statuses, Lineages
<1>3. Recorded' /\ OneRoot'
  BY DEF Recorded, OneRoot, Follows, Stamp
<1>4. Owner'
  BY ProcAssumption DEF Owner, Leaves, Typed
<1>5. \A q \in Procs : q # p =>
        /\ pc'[q] = pc[q] /\ work'[q] = work[q] /\ next'[q] = next[q]
        /\ lineage'[q] = lineage[q]
  BY DEF Leaves, Typed
<1>6. pc'[p] = status
  BY DEF Leaves, Typed
<1>7. Opened'
  BY <1>5, <1>6 DEF Opened, Extended, Planned, Follows, Stamp
<1>8. Prepared'
  BY <1>5, <1>6 DEF Prepared, Foreseen, Stamp
<1>9. NoRerun'
  BY DEF NoRerun, Typed
<1> QED BY <1>2, <1>3, <1>4, <1>7, <1>8, <1>9

LEMMA FailsStep ==
  ASSUME IInv, NEW p \in Procs, NEW why \in Errors, Fails(p, why),
         manager # "versioned" => why # "exists"
  PROVE  IInv'
<1>1. Leaves(p, "failed") /\ UNCHANGED <<manager, history, physical>>
      /\ error' = [error EXCEPT ![p] = why]
  BY DEF Fails, db
<1> QED BY <1>1, LeavesStep

LEMMA StopStep ==
  ASSUME IInv, NEW p \in Procs, Stop(p) \/ Crash(p) PROVE IInv'
<1>1. Leaves(p, "down") /\ UNCHANGED <<manager, history, physical, error>>
  BY DEF Stop, Crash, db
<1> QED BY <1>1, LeavesStep

LEMMA StartStep == ASSUME IInv, NEW p \in Procs, Start(p) PROVE IInv'
<1> USE DEF IInv
<1>1. PICK r \in Releases[manager], l \in Lineages :
        /\ release' = [release EXCEPT ![p] = r]
        /\ lineage' = [lineage EXCEPT ![p] = l]
  BY DEF Start, Lineages
<1>2. /\ pc[p] \in {"down", "failed"}
      /\ pc' = [pc EXCEPT ![p] = IF manager = "versioned" THEN "reading"
                                 ELSE "waiting"]
      /\ error' = [error EXCEPT ![p] = ""]
      /\ UNCHANGED <<manager, history, physical, lock, next, work>>
  BY DEF Start, db
<1>3. r \in Nat
  BY ReleaseAssumption DEF Typed
<1>4. Typed'
  BY <1>1, <1>2, <1>3 DEF Typed, Statuses, Errors
<1>5. Recorded' /\ OneRoot'
  BY <1>2 DEF Recorded, OneRoot, Follows, Stamp
<1>6. Owner'
  BY <1>2 DEF Owner, Typed
<1>7. \A q \in Procs : q # p => pc'[q] = pc[q] /\ lineage'[q] = lineage[q]
  BY <1>1, <1>2 DEF Typed
<1>8. /\ pc'[p] # "migrating"
      /\ manager = "versioned" => pc'[p] # "waiting"
  BY <1>2 DEF Typed
<1>9. Opened'
  BY <1>2, <1>7, <1>8 DEF Opened, Extended, Planned, Follows, Stamp
<1>10. Prepared'
  BY <1>2, <1>7, <1>8 DEF Prepared, Foreseen, Stamp
<1>11. NoRerun'
  BY <1>2 DEF NoRerun, Typed
<1> QED BY <1>4, <1>5, <1>6, <1>9, <1>10, <1>11

LEMMA ReadHistoryStep ==
  ASSUME IInv, NEW p \in Procs, ReadHistory(p) PROVE IInv'
<1> USE DEF IInv
<1>1. CASE Verdict(p, history) # ""
  <2>1. Fails(p, Verdict(p, history))
    BY <1>1 DEF ReadHistory
  <2>2. Verdict(p, history) \in Errors /\ Verdict(p, history) # "exists"
    BY VerdictFollows DEF Errors, Typed
  <2> QED BY <2>1, <2>2, FailsStep
<1>2. CASE Verdict(p, history) = ""
  <2>1. /\ pc[p] = "reading"
        /\ next' = [next EXCEPT ![p] = Len(history) + 1]
        /\ pc' = [pc EXCEPT ![p] = IF Len(history) < release[p]
                                   THEN "waiting" ELSE "up"]
        /\ UNCHANGED <<manager, history, physical, lock, release, lineage,
                       work, error>>
    BY <1>2 DEF ReadHistory, db
  <2>2. Len(history) \in Nat /\ Follows(history, lineage[p])
    <3>1. history \in Log
      BY DEF Typed
    <3>2. Follows(history, lineage[p])
      BY <1>2, <3>1, VerdictFollows
    <3> QED BY <3>1, <3>2 DEF Log
  <2>3. Typed'
    BY <2>1, <2>2 DEF Typed, Statuses
  <2>4. Recorded' /\ OneRoot' /\ NoRerun'
    BY <2>1 DEF Recorded, OneRoot, Follows, Stamp, NoRerun
  <2>5. Owner'
    BY <2>1 DEF Owner, Typed
  <2>6. \A q \in Procs : q # p => pc'[q] = pc[q] /\ next'[q] = next[q]
    BY <2>1 DEF Typed
  <2>7. pc'[p] # "migrating" /\ next'[p] = Len(history) + 1
    BY <2>1 DEF Typed
  <2>8. Opened'
    BY <2>1, <2>6, <2>7 DEF Opened, Extended, Planned, Follows, Stamp
  <2>9. Foreseen(p)'
    BY <2>1, <2>2, <2>7 DEF Foreseen, Follows, Stamp
  <2>10. Prepared'
    BY <2>1, <2>6, <2>9 DEF Prepared, Foreseen, Stamp
  <2> QED BY <2>3, <2>4, <2>5, <2>8, <2>10
<1> QED BY <1>1, <1>2

LEMMA AcquireStep ==
  ASSUME IInv, NEW p \in Procs, Acquire(p) PROVE IInv'
<1> USE DEF IInv
<1>1. CASE manager # "versioned" /\ Verdict(p, history) # ""
  <2>1. Fails(p, Verdict(p, history))
    BY <1>1 DEF Acquire
  <2>2. Verdict(p, history) \in Errors /\ Verdict(p, history) # "exists"
    BY VerdictFollows DEF Errors, Typed
  <2> QED BY <2>1, <2>2, FailsStep
<1>2. CASE ~(manager # "versioned" /\ Verdict(p, history) # "")
  <2>1. /\ pc[p] = "waiting" /\ lock = NoProc
        /\ lock' = p
        /\ pc' = [pc EXCEPT ![p] = "migrating"]
        /\ work' = [work EXCEPT ![p] = [history |-> history,
                                        physical |-> physical]]
        /\ next' = [next EXCEPT ![p] = IF manager = "versioned" THEN next[p]
                                       ELSE Len(history) + 1]
        /\ UNCHANGED <<manager, history, physical, release, lineage, error>>
    BY <1>2 DEF Acquire, db
  <2>2. Len(history) \in Nat
    BY DEF Typed, Log
  <2>3. manager # "versioned" => Follows(history, lineage[p])
    BY <1>2, VerdictFollows DEF Typed
  <2>4. Typed'
    <3>1. [history |-> history, physical |-> physical]
            \in [history : Log, physical : Log]
      BY DEF Typed, Recorded
    <3>2. work' \in [Procs -> [history : Log, physical : Log]]
      BY <2>1, <3>1 DEF Typed
    <3> QED BY <2>1, <2>2, <3>2 DEF Typed, Statuses
  <2>5. Recorded' /\ OneRoot' /\ NoRerun'
    BY <2>1 DEF Recorded, OneRoot, Follows, Stamp, NoRerun
  <2>6. Owner'
    BY <2>1, ProcAssumption DEF Owner, Typed
  <2>7. \A q \in Procs : q # p =>
          /\ pc'[q] = pc[q] /\ work'[q] = work[q] /\ next'[q] = next[q]
    BY <2>1 DEF Typed
  <2>8. /\ work'[p] = [history |-> history, physical |-> physical]
        /\ next'[p] = IF manager = "versioned" THEN next[p]
                      ELSE Len(history) + 1
    BY <2>1 DEF Typed
  <2>9. Extended(p)'
    BY <2>1, <2>2, <2>8 DEF Extended, Recorded
  <2>10. manager # "versioned" => Planned(p, work[p].history)'
    BY <2>1, <2>3, <2>8 DEF Planned, Follows, Stamp
  <2>11. Opened'
    BY <2>1, <2>7, <2>8, <2>9, <2>10
       DEF Opened, Extended, Planned, Follows, Stamp
  <2>12. Prepared'
    BY <2>1, <2>7, <2>8 DEF Prepared, Foreseen, Stamp
  <2> QED BY <2>4, <2>5, <2>6, <2>11, <2>12
<1> QED BY <1>1, <1>2

LEMMA ExecuteStep ==
  ASSUME IInv, NEW p \in Procs, Execute(p) PROVE IInv'
<1> USE DEF IInv
<1> DEFINE log == work[p].history
<1>1. /\ pc[p] = "migrating" /\ log = history /\ lock = p
      /\ work[p].physical = history /\ history \in Log
      /\ log \in Log /\ Len(history) \in Nat
  BY DEF Execute, Opened, Extended, Owner, Typed, Log
<1>2. PICK l \in Lineages : Follows(history, l)
  BY DEF OneRoot
<1>3. \A i \in 1 .. Len(history) : history[i][1] = i
  BY <1>1, <1>2, FollowsNames
(* Only an out-of-date plan collides, and only the versioned manager has   *)
(* one.                                                                    *)
<1>4. (\E v \in Pending(p) : Collides(p, v)) => manager = "versioned"
  <2> SUFFICES ASSUME NEW v \in Pending(p), Collides(p, v),
                      manager # "versioned"
               PROVE  FALSE
    OBVIOUS
  <2>1. PICK i \in DOMAIN history : history[i][1] = v
    BY <1>1 DEF Collides
  <2>2. i \in 1 .. Len(history) /\ v = i
    BY <1>1, <1>3, <2>1 DEF Log
  <2>3. next[p] = Len(history) + 1
    BY <1>1 DEF Opened, Planned
  <2>4. v \in next[p] .. release[p]
    BY DEF Pending
  <2> QED BY <1>1, <2>2, <2>3, <2>4 DEF Typed
<1>5. CASE \E v \in Pending(p) : Collides(p, v)
  <2>1. Fails(p, "exists")
    BY <1>5 DEF Execute
  <2> QED BY <1>4, <1>5, <2>1, FailsStep DEF Errors
<1>6. CASE /\ ~\E v \in Pending(p) : Collides(p, v)
           /\ \E v \in Pending(p) : RowsRefuse(v)
  <2>1. Fails(p, "rows")
    BY <1>6 DEF Execute
  <2> QED BY <2>1, FailsStep DEF Errors
<1>7. CASE /\ ~\E v \in Pending(p) : Collides(p, v)
           /\ ~\E v \in Pending(p) : RowsRefuse(v)
  <2> DEFINE k == Cardinality(Pending(p))
             more == Applied(p, history)
  <2>1. /\ Pending(p) # {}
        /\ work' = [work EXCEPT ![p].physical = Applied(p, work[p].physical),
                                ![p].history = Applied(p, work[p].history)]
        /\ next' = [next EXCEPT ![p] = next[p] + k]
        /\ UNCHANGED <<manager, history, physical, lock, pc, release,
                       lineage, error>>
    BY <1>7 DEF Execute, db
  <2>2. k \in Nat /\ k > 0
    BY <2>1, PendingCounts
  (* A plan that is out of date would have collided.                       *)
  <2>3. Planned(p, history)
    <3>1. CASE manager # "versioned"
      BY <1>1, <3>1 DEF Opened
    <3>2. CASE manager = "versioned"
      <4>1. Foreseen(p)
        BY <1>1, <3>2 DEF Prepared
      <4>2. next[p] \in Pending(p)
        BY <3>2 DEF Pending
      <4>3. ~Collides(p, next[p])
        BY <1>7, <4>2
      <4>4. next[p] \notin 1 .. Len(history)
        BY <1>1, <1>3, <4>3 DEF Collides, Log
      <4>5. next[p] = Len(history) + 1
        BY <1>1, <4>1, <4>4 DEF Foreseen
      <4> QED BY <1>1, <4>1, <4>5 DEF Foreseen, Planned, Follows
    <3> QED BY <3>1, <3>2
  <2>4. /\ more \in Log
        /\ Len(more) = Len(history) + k
        /\ Follows(more, lineage[p])
        /\ \A i \in 1 .. Len(history) : more[i] = history[i]
    BY <1>1, <2>2, <2>3, AppliedFollows
  <2>5. work'[p] = [history |-> more, physical |-> more]
    BY <1>1, <2>1 DEF Typed
  <2>6. next'[p] = Len(more) + 1
    BY <1>1, <2>1, <2>2, <2>3, <2>4 DEF Planned, Typed
  <2>7. Typed'
    <3>1. [history |-> more, physical |-> more]
            \in [history : Log, physical : Log]
      BY <2>4
    <3>2. \A q \in Procs : q # p => work'[q] = work[q]
      BY <2>1 DEF Typed
    <3>3. work' \in [Procs -> [history : Log, physical : Log]]
      <4>1. work' = [q \in Procs |-> work'[q]]
        BY <2>1 DEF Typed
      <4>2. \A q \in Procs : work'[q] \in [history : Log, physical : Log]
        BY <2>5, <3>1, <3>2 DEF Typed
      <4> QED BY <4>1, <4>2
    <3>4. next' \in [Procs -> Nat]
      BY <2>1, <2>2 DEF Typed
    <3> QED BY <2>1, <3>3, <3>4 DEF Typed
  <2>8. Recorded' /\ OneRoot' /\ Owner' /\ NoRerun'
    BY <2>1 DEF Recorded, OneRoot, Follows, Stamp, Owner, NoRerun
  <2>9. \A q \in Procs : q # p => work'[q] = work[q] /\ next'[q] = next[q]
    BY <2>1 DEF Typed
  <2>10. /\ work'[p].history = more /\ work'[p].physical = more
         /\ UNCHANGED <<manager, history, pc, lineage>>
    <3>1. UNCHANGED <<manager, history, pc, lineage>>
      BY <2>1
    <3> HIDE DEF more, k
    <3>2. work'[p].history = more /\ work'[p].physical = more
      BY <2>5
    <3> QED BY <3>1, <3>2
  <2> HIDE DEF more, k
  <2>11. Extended(p)'
    BY <1>1, <2>2, <2>4, <2>10 DEF Extended
  <2>12. Planned(p, work[p].history)'
    BY <2>1, <2>4, <2>6, <2>10 DEF Planned, Follows, Stamp
  <2>13. Opened'
    <3>1. ASSUME NEW q \in Procs, q # p, pc[q] = "migrating"
          PROVE  Extended(q)' /\ (manager # "versioned"
                   \/ work[q].history # history => Planned(q, work[q].history))'
      BY <1>1, <3>1 DEF Owner
    <3> QED BY <2>10, <2>11, <2>12, <3>1 DEF Opened
  <2>14. work'[p].history # history
    BY <1>1, <2>2, <2>4, <2>10
  <2>15. Prepared'
    <3>1. ASSUME NEW q \in Procs, q # p, manager = "versioned",
                 pc[q] = "waiting"
          PROVE  Foreseen(q)'
      <4>1. Foreseen(q)
        BY <3>1 DEF Prepared
      <4> QED BY <2>9, <2>10, <3>1, <4>1 DEF Foreseen, Stamp
    <3>2. \A q \in Procs : q # p => pc[q] # "migrating"
      BY <1>1 DEF Owner
    <3> QED BY <1>1, <2>10, <2>14, <3>1, <3>2 DEF Prepared
  <2> QED BY <2>7, <2>8, <2>13, <2>15
<1> QED BY <1>5, <1>6, <1>7

LEMMA CommitStep ==
  ASSUME IInv, NEW p \in Procs, Commit(p) PROVE IInv'
<1> USE DEF IInv
<1>1. CASE ~Attested(p)
  <2>1. Fails(p, "physical")
    BY <1>1 DEF Commit
  <2> QED BY <2>1, FailsStep DEF Errors
<1>2. CASE Attested(p)
  <2> DEFINE log == work[p].history
  <2>1. /\ pc[p] = "migrating"
        /\ manager = "versioned" => log # history
        /\ history' = log
        /\ physical' = work[p].physical
        /\ lock' = NoProc
        /\ work' = [work EXCEPT ![p] = Idle]
        /\ pc' = [pc EXCEPT ![p] = IF next[p] > release[p] THEN "up"
                                   ELSE "waiting"]
        /\ UNCHANGED <<manager, release, lineage, next, error>>
    BY <1>2 DEF Commit
  <2>2. /\ log = work[p].physical /\ log \in Log
        /\ Len(history) \in Nat /\ Len(log) \in Nat
        /\ Len(history) <= Len(log)
        /\ \A i \in 1 .. Len(history) : log[i] = history[i]
    BY <2>1 DEF Opened, Extended, Typed, Log
  <2>3. next[p] = Len(log) + 1 /\ Follows(log, lineage[p])
    BY <2>1 DEF Opened, Planned
  <2>4. lock = p /\ \A q \in Procs : q # p => pc[q] # "migrating"
    BY <2>1 DEF Owner
  <2>5. \A q \in Procs : q # p => pc'[q] = pc[q] /\ work'[q] = work[q]
    BY <2>1 DEF Typed
  <2>6. pc'[p] # "migrating"
    BY <2>1 DEF Typed
  <2>7. Typed'
    <3>1. Idle \in [history : Log, physical : Log]
      BY DEF Idle, Log
    <3>2. work' \in [Procs -> [history : Log, physical : Log]]
      BY <2>1, <3>1 DEF Typed
    <3> QED BY <2>1, <2>2, <3>2 DEF Typed, Statuses
  <2>8. Recorded' /\ NoRerun'
    BY <2>1, <2>2 DEF Recorded, NoRerun
  <2>9. OneRoot'
    <3>1. lineage[p] \in Lineages
      BY DEF Typed
    <3>2. Follows(history', lineage[p])
      BY <2>1, <2>3
    <3> QED BY <3>1, <3>2 DEF OneRoot, Follows, Stamp
  <2>10. Owner'
    BY <2>1, <2>4, <2>5, <2>6, ProcAssumption DEF Owner
  <2>11. Opened'
    BY <2>4, <2>5, <2>6 DEF Opened
  <2>12. Foreseen(p)'
    BY <2>1, <2>2, <2>3 DEF Foreseen, Follows, Stamp
  <2>13. ASSUME NEW q \in Procs, Foreseen(q) PROVE Foreseen(q)'
    <3>1. next[q] \in 1 .. Len(log) + 1
      BY <2>2, <2>13 DEF Foreseen
    <3>2. \A i \in 1 .. next[q] - 1 : log[i] = Stamp(lineage[q], i)
      <4> SUFFICES ASSUME NEW i \in 1 .. next[q] - 1
                   PROVE  log[i] = Stamp(lineage[q], i)
        OBVIOUS
      <4>1. i \in 1 .. Len(history)
        BY <2>2, <2>13 DEF Foreseen
      <4> QED BY <2>2, <2>13, <4>1 DEF Foreseen
    <3> QED BY <2>1, <3>1, <3>2 DEF Foreseen, Stamp
  <2>14. Prepared'
    BY <2>1, <2>4, <2>5, <2>6, <2>12, <2>13 DEF Prepared
  <2> QED BY <2>7, <2>8, <2>9, <2>10, <2>11, <2>14
<1> QED BY <1>1, <1>2

(* Steps that touch neither a migration nor the history.                   *)
LEMMA IdleStep ==
  ASSUME IInv, UNCHANGED <<manager, history, physical, lock, process>>
  PROVE  IInv'
BY DEF IInv, process, Typed, Recorded, OneRoot, Owner, Opened, Extended,
       Planned, Prepared, Foreseen, NoRerun, Follows, Stamp

LEMMA NextStep == ASSUME IInv, [Next]_vars PROVE IInv'
<1>1. CASE UNCHANGED vars
  BY <1>1, IdleStep DEF vars, db
<1>2. CASE Drift
  BY <1>2, IdleStep DEF Drift
<1>3. ASSUME NEW p \in Procs,
             Start(p) \/ Stop(p) \/ Crash(p) \/ StoreEdge(p) \/ Step(p)
      PROVE  IInv'
  <2>1. CASE Start(p)
    BY <2>1, StartStep
  <2>2. CASE Stop(p) \/ Crash(p)
    BY <2>2, StopStep
  <2>3. CASE StoreEdge(p)
    BY <2>3, IdleStep DEF StoreEdge
  <2>4. CASE ReadHistory(p)
    BY <2>4, ReadHistoryStep
  <2>5. CASE Acquire(p)
    BY <2>5, AcquireStep
  <2>6. CASE LockTimeout(p)
    BY <2>6, FailsStep DEF LockTimeout, Errors
  <2>7. CASE Execute(p)
    BY <2>7, ExecuteStep
  <2>8. CASE Commit(p)
    BY <2>8, CommitStep
  <2> QED BY <1>3, <2>1, <2>2, <2>3, <2>4, <2>5, <2>6, <2>7, <2>8 DEF Step
<1> QED BY <1>1, <1>2, <1>3 DEF Next

LEMMA Inductive == Spec => []IInv
<1> QED BY InitIInv, NextStep, PTL DEF Spec

-----------------------------------------------------------------------------
(* What schema_migrations records has been executed, each migration once   *)
(* and in order, under every manager and however many processes race and   *)
(* crash.                                                                  *)
THEOREM RecordedIsExecuted == Spec => []HistoryIsSchema
<1>1. IInv => HistoryIsSchema
  <2> SUFFICES ASSUME IInv PROVE HistoryIsSchema
    OBVIOUS
  <2>1. history = physical /\ history \in Log
    BY DEF IInv, Recorded, Typed
  <2>2. PICK l \in Lineages : Follows(history, l)
    BY DEF IInv, OneRoot
  <2>3. \A i \in 1 .. Len(history) : history[i][1] = i
    BY <2>1, <2>2, FollowsNames
  <2> QED BY <2>1, <2>3 DEF HistoryIsSchema, Log
<1> QED BY <1>1, Inductive, PTL

(* No history mixes two lineages, even under the versioned manager, which  *)
(* validates a history that others extend before it writes.                *)
THEOREM LineageIsOne == Spec => []OneLineage
<1>1. IInv => OneLineage
  <2> SUFFICES ASSUME IInv PROVE OneLineage
    OBVIOUS
  <2>1. DOMAIN history = 1 .. Len(history)
    BY DEF IInv, Typed, Log
  <2> QED BY <2>1 DEF IInv, OneRoot, OneLineage, Follows, Stamp, Lineages
<1> QED BY <1>1, Inductive, PTL

(* Where the lock is taken before the history is read, nobody runs what    *)
(* another process has committed.                                          *)
THEOREM LosersValidate == Spec => []LosersOnlyValidate
<1>1. IInv => LosersOnlyValidate
  <2> SUFFICES ASSUME IInv, manager # "versioned", NEW p \in Procs
               PROVE  /\ error[p] # "exists"
                      /\ pc[p] = "migrating" => next[p] > Len(history)
    BY DEF LosersOnlyValidate
  <2>1. error[p] # "exists"
    BY DEF IInv, NoRerun
  <2>2. ASSUME pc[p] = "migrating" PROVE next[p] > Len(history)
    <3>1. next[p] = Len(work[p].history) + 1
          /\ Len(history) <= Len(work[p].history)
      BY <2>2 DEF IInv, Opened, Planned, Extended
    <3>2. Len(history) \in Nat /\ Len(work[p].history) \in Nat
      BY DEF IInv, Typed, Log
    <3> QED BY <3>1, <3>2
  <2> QED BY <2>1, <2>2
<1> QED BY <1>1, Inductive, PTL

-----------------------------------------------------------------------------
(* The lineage, and which lists each of its migrations states.             *)
LEMMA LineageOf22 ==
  /\ CurrentVersion = 22
  /\ Migrations[1] = InitialSchema
  /\ Migrations[2] = EdgeCreatedAt
  /\ Migrations[3] = EdgeEndpointTypes
  /\ Migrations[4] = MetricFacts
  /\ Migrations[5] = AddMetricEvidenceEdges
  /\ Migrations[6] = MetricRevisionConstraints
  /\ Migrations[7] = CalculationFacts
  /\ Migrations[8] = CalculationInputProvenance
  /\ Migrations[9] = EstimateFacts
  /\ Migrations[10] = EstimateInputProvenance
  /\ Migrations[11] = ValuationFacts
  /\ Migrations[12] = ValuationDependencies
  /\ Migrations[13] = ForecastFacts
  /\ Migrations[14] = AddForecastComposition
  /\ Migrations[15] = CatalystFacts
  /\ Migrations[16] = CatalystAffectsEdges
  /\ Migrations[17] = CatalystImpactFacts
  /\ Migrations[18] = ExtendValuationDependencies
  /\ Migrations[19] = RecommendationFacts
  /\ Migrations[20] = RecommendationDependencies
  /\ Migrations[21] = RiskFacts
  /\ Migrations[22] = RiskAffectsEdges
BY DEF Migrations, CurrentVersion

LEMMA Says ==
  /\ DOMAIN InitialSchema = {"tables", "nodeTypes", "edgeTypes", "targets",
                              "relations", "oneSuccessor"}
  /\ DOMAIN EdgeCreatedAt = {"edgeColumns"}
  /\ DOMAIN EdgeEndpointTypes = {"edgeColumns", "relations", "targets"}
  /\ DOMAIN MetricFacts = {"tables"}
  /\ DOMAIN AddMetricEvidenceEdges = {"relations"}
  /\ DOMAIN MetricRevisionConstraints = {"oneSuccessor"}
  /\ DOMAIN CalculationFacts = {"tables"}
  /\ DOMAIN CalculationInputProvenance =
       {"edgeTypes", "targets", "relations"}
  /\ DOMAIN EstimateFacts = {"tables"}
  /\ DOMAIN EstimateInputProvenance = {"targets", "relations"}
  /\ DOMAIN ValuationFacts = {"tables"}
  /\ DOMAIN ValuationDependencies = {"edgeTypes", "targets", "relations"}
  /\ DOMAIN ForecastFacts = {"tables"}
  /\ DOMAIN AddForecastComposition = {"edgeTypes", "targets", "relations"}
  /\ DOMAIN CatalystFacts = {"tables"}
  /\ DOMAIN CatalystAffectsEdges = {"edgeTypes", "relations"}
  /\ DOMAIN CatalystImpactFacts = {"tables", "nodeTypes"}
  /\ DOMAIN ExtendValuationDependencies = {"targets", "relations"}
  /\ DOMAIN RecommendationFacts = {"tables"}
  /\ DOMAIN RecommendationDependencies = {"targets", "relations"}
  /\ DOMAIN RiskFacts = {"tables"}
  /\ DOMAIN RiskAffectsEdges = {"targets", "relations"}
BY DEF InitialSchema, EdgeCreatedAt, EdgeEndpointTypes, MetricFacts,
       AddMetricEvidenceEdges, MetricRevisionConstraints, CalculationFacts,
       CalculationInputProvenance, EstimateFacts, EstimateInputProvenance,
       ValuationFacts, ValuationDependencies, ForecastFacts,
       AddForecastComposition, CatalystFacts, CatalystAffectsEdges,
       CatalystImpactFacts, ExtendValuationDependencies, RecommendationFacts,
       RecommendationDependencies, RiskFacts, RiskAffectsEdges, Facts

(* The migrations that state the list f.                                    *)
Restated(f) == {i \in 1 .. 22 : f \in DOMAIN Migrations[i]}

LEMMA WhatIsRestated ==
  /\ Restated("nodeTypes") = {1, 17}
  /\ Restated("edgeTypes") = {1, 8, 12, 14, 16}
  /\ Restated("targets") = {1, 3, 8, 10, 12, 14, 18, 20, 22}
  /\ Restated("relations") = {1, 3, 5, 8, 10, 12, 14, 16, 18, 20, 22}
  /\ Restated("tables") = {1, 4, 7, 9, 11, 13, 15, 17, 19, 21}
BY LineageOf22, Says DEF Restated

(* From migration `first` on, the list f only grows.                       *)
Grows(f, first) ==
  /\ first \in Restated(f)
  /\ \A i, j \in Restated(f) :
       first <= i /\ i <= j => Migrations[i][f] \subseteq Migrations[j][f]

(* Every list that is restated repeats what it allowed before, but for the *)
(* endpoint types, which migrations 3 and 5 narrow.                        *)
LEMMA ListsGrow ==
  /\ Grows("nodeTypes", 1) /\ Grows("edgeTypes", 1)
  /\ Grows("targets", 3)   /\ Grows("relations", 5)
<1>1. Grows("nodeTypes", 1)
  <2>1. \A i, j \in {1, 17} : i <= j =>
          Migrations[i].nodeTypes \subseteq Migrations[j].nodeTypes
    BY LineageOf22 DEF InitialSchema, CatalystImpactFacts, NoCheck
  <2> QED BY <2>1, WhatIsRestated DEF Grows
<1>2. Grows("edgeTypes", 1)
  <2>1. \A i, j \in {1, 8, 12, 14, 16} : i <= j =>
          Migrations[i].edgeTypes \subseteq Migrations[j].edgeTypes
    BY LineageOf22
       DEF InitialSchema, CalculationInputProvenance, ValuationDependencies,
           AddForecastComposition, CatalystAffectsEdges
  <2> QED BY <2>1, WhatIsRestated DEF Grows
<1>3. Grows("targets", 3)
  <2>1. \A i, j \in {3, 8, 10, 12, 14, 18, 20, 22} : i <= j =>
          Migrations[i].targets \subseteq Migrations[j].targets
    BY LineageOf22
       DEF EdgeEndpointTypes, CalculationInputProvenance,
           EstimateInputProvenance, ValuationDependencies,
           AddForecastComposition, ExtendValuationDependencies,
           RecommendationDependencies, RiskAffectsEdges
  <2> QED BY <2>1, WhatIsRestated DEF Grows
<1>4. Grows("relations", 5)
  <2>1. \A i, j \in {5, 8, 10, 12, 14, 16, 18, 20, 22} : i <= j =>
          Migrations[i].relations \subseteq Migrations[j].relations
    BY LineageOf22
       DEF AddMetricEvidenceEdges, CalculationInputProvenance,
           EstimateInputProvenance, ValuationDependencies,
           AddForecastComposition, CatalystAffectsEdges,
           ExtendValuationDependencies, RecommendationDependencies,
           RiskAffectsEdges
  <2> QED BY <2>1, WhatIsRestated DEF Grows
<1> QED BY <1>1, <1>2, <1>3, <1>4

(* A list that was stated is in force, in its last statement.              *)
LEMMA LastStatement ==
  ASSUME NEW f, f # "tables", NEW w \in 0 .. 22, NEW i \in Restating(f, w)
  PROVE  \E k \in InForce(f, w) : i <= k
<1>1. Restating(f, w) \subseteq 1 .. 22
  BY DEF Restating
<1>2. SUFFICES ASSUME \A k \in Restating(f, w) :
                        i <= k => \E j \in Restating(f, w) : j > k
               PROVE  FALSE
  BY <1>1 DEF InForce
<1> QED BY <1>1, <1>2

(* What the surface accepts is what a statement in force says.             *)
LEMMA SurfaceLists ==
  ASSUME NEW f \in Fields, NEW v \in 0 .. 22, NEW x
  PROVE  x \in Surface[v][f] <=> \E i \in InForce(f, v) : x \in Migrations[i][f]
BY LineageOf22 DEF Surface

(* What a growing list accepts it goes on accepting.                       *)
LEMMA Survives ==
  ASSUME NEW f \in Fields \ {"tables"}, NEW first, Grows(f, first),
         NEW v \in 0 .. 22, first <= v, NEW w \in v .. 22,
         NEW x \in Surface[v][f]
  PROVE  x \in Surface[w][f]
<1>1. PICK i \in InForce(f, v) : x \in Migrations[i][f]
  BY SurfaceLists
<1>2. i \in Restated(f) /\ i <= v /\ first <= i
  BY DEF InForce, Restating, Restated, Grows
<1>3. i \in Restating(f, w)
  BY <1>2 DEF Restating, Restated
<1>4. PICK k \in InForce(f, w) : i <= k
  BY <1>3, LastStatement
<1>5. k \in Restated(f)
  BY DEF InForce, Restating, Restated
<1>6. x \in Migrations[k][f]
  BY <1>1, <1>2, <1>4, <1>5 DEF Grows
<1>7. f \in Fields /\ w \in 0 .. 22
  OBVIOUS
<1> QED BY <1>4, <1>6, <1>7, SurfaceLists

(* What every statement of a list contains is accepted from the first on.  *)
LEMMA AlwaysStated ==
  ASSUME NEW f \in Fields \ {"tables"}, 1 \in Restated(f), NEW x,
         \A k \in Restated(f) : x \in Migrations[k][f],
         NEW w \in 1 .. 22
  PROVE  x \in Surface[w][f]
<1>1. 1 \in Restating(f, w)
  BY DEF Restating, Restated
<1>2. PICK k \in InForce(f, w) : 1 <= k
  BY <1>1, LastStatement
<1>3. k \in Restated(f)
  BY DEF InForce, Restating, Restated
<1> QED BY <1>2, <1>3, SurfaceLists

(* Edges from a claim to its evidence pass every version of the lists.     *)
LEMMA ClaimEdgesAlways ==
  ASSUME NEW e \in OfClaim, NEW w \in 1 .. 22
  PROVE  Fits(Surface[w], e)
<1>1. /\ e[1] = "Claim" /\ e[2] \in {"SUPPORTED_BY", "CONTRADICTED_BY"}
      /\ e[3] = "Evidence"
  BY DEF OfClaim, Relation
<1>2. \A k \in {1, 17} : {e[1], e[3]} \subseteq Migrations[k].nodeTypes
  BY <1>1, LineageOf22 DEF InitialSchema, CatalystImpactFacts, NoCheck
<1>3. \A k \in {1, 8, 12, 14, 16} : e[2] \in Migrations[k].edgeTypes
  BY <1>1, LineageOf22
     DEF InitialSchema, CalculationInputProvenance, ValuationDependencies,
         AddForecastComposition, CatalystAffectsEdges
<1>4. \A k \in {1, 3, 8, 10, 12, 14, 18, 20, 22} :
        e[3] \in Migrations[k].targets
  BY <1>1, LineageOf22
     DEF InitialSchema, NoCheck, EdgeEndpointTypes,
         CalculationInputProvenance, EstimateInputProvenance,
         ValuationDependencies, AddForecastComposition,
         ExtendValuationDependencies, RecommendationDependencies,
         RiskAffectsEdges
<1>5. \A k \in {1, 3, 5, 8, 10, 12, 14, 16, 18, 20, 22} :
        e \in Migrations[k].relations
  <2>1. e \in AnyRelation
    BY DEF OfClaim, Relation, AnyRelation, NoCheck
  <2> QED BY <1>1, <2>1, LineageOf22
     DEF InitialSchema, EdgeEndpointTypes, AddMetricEvidenceEdges,
         CalculationInputProvenance, EstimateInputProvenance,
         ValuationDependencies, AddForecastComposition, CatalystAffectsEdges,
         ExtendValuationDependencies, RecommendationDependencies,
         RiskAffectsEdges
<1> QED BY <1>2, <1>3, <1>4, <1>5, WhatIsRestated, AlwaysStated
        DEF Fits, Fields

(* Before migration 5 programs have only tables, or are only allowed, for  *)
(* such edges, whatever the lists of migrations 1 and 3 say besides.       *)
LEMMA EarlyWrites ==
  ASSUME NEW v \in 0 .. 4, NEW e \in Writes[v]
  PROVE  v # 0 /\ e \in OfClaim
<1>1. /\ e \in RepositoryEdges /\ Fits(Surface[v], e)
      /\ FactsOf(e[1]) \in Surface[v].tables
  BY LineageOf22 DEF Writes, Accepts
<1>2. v # 0
  <2>1. e[2] \in Surface[v]["edgeTypes"]
    BY <1>1 DEF Fits
  <2>2. InForce("edgeTypes", 0) = {}
    BY DEF InForce, Restating
  <2> QED BY <2>1, <2>2, SurfaceLists DEF Fields
<1>3. e[1] \in {"Claim", "Evidence"}
  <2>1. CASE v \in {1, 2}
    <3>1. PICK i \in InForce("tables", v) : FactsOf(e[1]) \in Migrations[i].tables
      BY <1>1, SurfaceLists DEF Fields
    <3>2. i = 1
      BY <2>1, WhatIsRestated DEF InForce, Restating, Restated
    <3>3. FactsOf(e[1]) \in {"domain_nodes", "evidence_facts", "claim_facts",
                             "domain_edges"}
      BY <3>1, <3>2, LineageOf22 DEF InitialSchema
    <3>4. e[1] \in {"Claim", "Metric", "Calculation", "Estimate", "Valuation",
                    "Forecast", "Catalyst", "Recommendation", "Risk"}
      BY <1>1 DEF RepositoryEdges, OfClaim, OfMetric, OfCalculation,
         OfEstimate, OfValuation, OfImpact, OfForecast, OfCatalyst,
         OfRecommendation, OfRisk, Relation
    <3> QED BY <3>3, <3>4 DEF FactsOf
  <2>2. CASE v \in {3, 4}
    <3>1. e \in Surface[v]["relations"]
      BY <1>1 DEF Fits
    <3>2. PICK i \in InForce("relations", v) : e \in Migrations[i].relations
      BY <3>1, SurfaceLists DEF Fields
    <3>3. i = 3
      BY <2>2, WhatIsRestated DEF InForce, Restating, Restated
    <3> QED BY <3>2, <3>3, LineageOf22 DEF EdgeEndpointTypes
  <2> QED BY <1>2, <2>1, <2>2
<1>4. e \in OfClaim
  BY <1>1, <1>3 DEF RepositoryEdges, OfClaim, OfMetric, OfCalculation,
     OfEstimate, OfValuation, OfImpact, OfForecast, OfCatalyst,
     OfRecommendation, OfRisk, Relation
<1> QED BY <1>2, <1>4

(* No migration takes back an edge that a program of an earlier release    *)
(* may have written.                                                       *)
LEMMA LaterListsFit ==
  ASSUME NEW v \in 0 .. CurrentVersion, NEW w \in v .. CurrentVersion,
         NEW e \in Writes[v]
  PROVE  Fits(Surface[w], e)
<1>0. v \in 0 .. 22 /\ w \in v .. 22
  BY LineageOf22
<1>1. CASE v <= 4
  <2>1. v # 0 /\ e \in OfClaim
    BY <1>0, <1>1, EarlyWrites
  <2> QED BY <1>0, <2>1, ClaimEdgesAlways
<1>2. CASE v > 4
  <2>1. Fits(Surface[v], e)
    BY DEF Writes, Accepts
  <2>2. \A f \in {"nodeTypes", "edgeTypes", "targets", "relations"} :
          \A x \in Surface[v][f] : x \in Surface[w][f]
    BY <1>0, <1>2, ListsGrow, Survives DEF Fields
  <2> QED BY <2>1, <2>2 DEF Fits
<1> QED BY <1>0, <1>1, <1>2

(* Which columns an INSERT has to name.                                    *)
LEMMA ColumnsByVersion ==
  /\ Surface[1].edgeColumns = {} /\ Surface[2].edgeColumns = {"created_at"}
  /\ \A w \in 3 .. 22 :
       Surface[w].edgeColumns = {"created_at", "source_type", "target_type"}
<1>1. Restated("edgeColumns") = {2, 3}
  BY LineageOf22, Says DEF Restated
<1>2. \A w \in 0 .. 22 : Restating("edgeColumns", w) = {2, 3} \cap (1 .. w)
  BY <1>1, LineageOf22 DEF Restating, Restated
<1>3. /\ InForce("edgeColumns", 1) = {} /\ InForce("edgeColumns", 2) = {2}
      /\ \A w \in 3 .. 22 : InForce("edgeColumns", w) = {3}
  BY <1>2 DEF InForce
<1>4. /\ Migrations[2].edgeColumns = {"created_at"}
      /\ Migrations[3].edgeColumns = {"created_at", "source_type", "target_type"}
  BY LineageOf22 DEF EdgeCreatedAt, EdgeEndpointTypes
<1>5. \A w \in 0 .. 22 : \A x : x \in Surface[w].edgeColumns <=>
        \E i \in InForce("edgeColumns", w) : x \in Migrations[i].edgeColumns
  BY SurfaceLists DEF Fields
<1> QED BY <1>3, <1>4, <1>5

(* An edge of an older program goes through as long as its columns are all *)
(* there are: from release 3 on for ever, before it until the next one.    *)
LEMMA LaterSchemasAccept ==
  ASSUME NEW v \in 0 .. CurrentVersion, NEW w \in v .. CurrentVersion,
         NEW e \in Writes[v]
  PROVE  Accepts(Surface[w], v, e) <=> (v >= TypedEdges \/ v = w)
<1>1. v \in 1 .. 22 /\ w \in v .. 22
  BY LineageOf22, EarlyWrites
<1>2. Fits(Surface[w], e)
  BY LaterListsFit
<1>3. Surface[w].edgeColumns \subseteq Surface[v].edgeColumns
      <=> (v >= 3 \/ v = w)
  BY <1>1, ColumnsByVersion
<1> QED BY <1>2, <1>3 DEF Accepts, TypedEdges

-----------------------------------------------------------------------------
(* The advisory manager: no process leaves the lineage, a process that is  *)
(* up is not ahead of the database, and whatever is stored was written by  *)
(* a release that the database has reached.                                *)
Served ==
  manager = "advisory" =>
    /\ Len(history) <= CurrentVersion
    /\ \A p \in Procs :
         /\ release[p] <= CurrentVersion
         /\ pc[p] = "migrating" => next[p] <= release[p] + 1
         /\ pc[p] = "up" => release[p] <= Len(history)
Stored ==
  /\ edges # {} => manager = "advisory"
  /\ \A e \in edges :
       \E v \in 0 .. Len(history) : v <= CurrentVersion /\ e \in Writes[v]
NoRefusal == \A p \in Procs : error[p] # "rows"

SInv == Served /\ Stored /\ NoRefusal

LEMMA VersionIsNat == CurrentVersion \in Nat
BY LineageOf22

(* Rows are kept, and the programs that are up stay where they are, as     *)
(* long as the history does not change.                                    *)
LEMMA LeavesServed ==
  ASSUME IInv, SInv, NEW p \in Procs, NEW status \in {"down", "failed"},
         Leaves(p, status), UNCHANGED <<manager, history, edges>>,
         \/ UNCHANGED error
         \/ \E why \in Errors \ {"rows"} : error' = [error EXCEPT ![p] = why]
  PROVE  SInv'
<1>1. /\ release \in [Procs -> Nat] /\ pc \in [Procs -> Statuses]
      /\ next \in [Procs -> Nat] /\ error \in [Procs -> Errors]
  BY DEF IInv, Typed
<1>2. /\ pc' = [pc EXCEPT ![p] = status]
      /\ release' = [release EXCEPT ![p] = 0]
      /\ next' = [next EXCEPT ![p] = 0]
  BY DEF Leaves
<1>3. Served'
  BY <1>1, <1>2, VersionIsNat DEF SInv, Served
<1>4. Stored'
  BY DEF SInv, Stored
<1>5. NoRefusal'
  BY <1>1 DEF SInv, NoRefusal
<1> QED BY <1>3, <1>4, <1>5 DEF SInv

LEMMA FailsServed ==
  ASSUME IInv, SInv, NEW p \in Procs, NEW why \in Errors \ {"rows"},
         Fails(p, why)
  PROVE  SInv'
<1>1. /\ Leaves(p, "failed") /\ UNCHANGED <<manager, history, edges>>
      /\ error' = [error EXCEPT ![p] = why]
  BY DEF Fails, db
<1> QED BY <1>1, LeavesServed

(* A migration still to come accepts every stored row.                     *)
LEMMA NoRowRefuses ==
  ASSUME IInv, SInv, NEW p \in Procs, pc[p] = "migrating",
         NEW v \in Pending(p)
  PROVE  ~RowsRefuse(v)
<1>1. SUFFICES ASSUME manager = "advisory", NEW e \in edges
               PROVE  Fits(Surface[v], e)
  BY DEF RowsRefuse
<1>2. v \in next[p] .. release[p]
  BY <1>1 DEF Pending
<1>3. /\ Extended(p) /\ Planned(p, work[p].history)
  BY <1>1 DEF IInv, Opened
<1>4. /\ Len(history) \in Nat /\ next[p] \in Nat /\ release[p] \in Nat
      /\ Len(work[p].history) \in Nat
  BY DEF IInv, Typed, Log
<1>5. Len(history) < v /\ v <= CurrentVersion /\ v \in Int
  BY <1>1, <1>2, <1>3, <1>4, VersionIsNat
     DEF Extended, Planned, SInv, Served
<1>6. PICK u \in 0 .. Len(history) : u <= CurrentVersion /\ e \in Writes[u]
  BY DEF SInv, Stored
<1>7. u \in 0 .. CurrentVersion /\ v \in u .. CurrentVersion
  BY <1>4, <1>5, <1>6, VersionIsNat
<1> QED BY <1>6, <1>7, LaterListsFit

LEMMA ServedStep == ASSUME IInv, SInv, [Next]_vars PROVE SInv'
<1>1. /\ release \in [Procs -> Nat] /\ pc \in [Procs -> Statuses]
      /\ next \in [Procs -> Nat] /\ error \in [Procs -> Errors]
      /\ history \in Log /\ Len(history) \in Nat /\ manager \in Managers
  BY DEF IInv, Typed, Log
<1>2. CASE UNCHANGED vars \/ Drift
  <2>1. UNCHANGED <<manager, history, edges, pc, release, next, error>>
    BY <1>2 DEF vars, Drift, db, process
  <2> QED BY <2>1 DEF SInv, Served, Stored, NoRefusal
<1>3. ASSUME NEW p \in Procs, Start(p) PROVE SInv'
  <2>1. PICK r \in Releases[manager] : release' = [release EXCEPT ![p] = r]
    BY <1>3 DEF Start
  <2>2. /\ pc' = [pc EXCEPT ![p] = IF manager = "versioned" THEN "reading"
                                   ELSE "waiting"]
        /\ error' = [error EXCEPT ![p] = ""]
        /\ UNCHANGED <<manager, history, edges, next>>
    BY <1>3 DEF Start, db
  <2>3. manager = "advisory" => r <= CurrentVersion
    BY <1>1, ReleaseAssumption, VersionIsNat
  <2>4. Served'
    BY <1>1, <2>1, <2>2, <2>3 DEF SInv, Served
  <2> QED BY <1>1, <2>2, <2>4 DEF SInv, Stored, NoRefusal
<1>4. ASSUME NEW p \in Procs, Stop(p) \/ Crash(p) PROVE SInv'
  <2>1. Leaves(p, "down") /\ UNCHANGED <<manager, history, edges, error>>
    BY <1>4 DEF Stop, Crash, db
  <2> QED BY <2>1, LeavesServed
<1>5. ASSUME NEW p \in Procs, StoreEdge(p) PROVE SInv'
  <2>1. PICK e \in Writes[release[p]] : edges' = edges \cup {e}
    BY <1>5 DEF StoreEdge
  <2>2. /\ manager = "advisory" /\ pc[p] = "up"
        /\ UNCHANGED <<manager, history, pc, release, next, error>>
    BY <1>5 DEF StoreEdge, process
  <2>3. release[p] \in 0 .. Len(history) /\ release[p] <= CurrentVersion
    BY <1>1, <2>2 DEF SInv, Served
  <2> QED BY <2>1, <2>2, <2>3 DEF SInv, Served, Stored, NoRefusal
<1>6. ASSUME NEW p \in Procs, ReadHistory(p) PROVE SInv'
  <2>1. CASE Verdict(p, history) # ""
    <3>1. Verdict(p, history) \in Errors \ {"rows"}
      BY <1>1, VerdictFollows DEF Errors
    <3> QED BY <1>6, <2>1, <3>1, FailsServed DEF ReadHistory
  <2>2. CASE Verdict(p, history) = ""
    <3>1. /\ pc' = [pc EXCEPT ![p] = IF Len(history) < release[p]
                                     THEN "waiting" ELSE "up"]
          /\ next' = [next EXCEPT ![p] = Len(history) + 1]
          /\ UNCHANGED <<manager, history, edges, release, error>>
      BY <1>6, <2>2 DEF ReadHistory, db
    <3> QED BY <1>1, <3>1 DEF SInv, Served, Stored, NoRefusal
  <2> QED BY <2>1, <2>2
<1>7. ASSUME NEW p \in Procs, Acquire(p) PROVE SInv'
  <2>1. CASE manager # "versioned" /\ Verdict(p, history) # ""
    <3>1. Verdict(p, history) \in Errors \ {"rows"}
      BY <1>1, VerdictFollows DEF Errors
    <3> QED BY <1>7, <2>1, <3>1, FailsServed DEF Acquire
  <2>2. CASE ~(manager # "versioned" /\ Verdict(p, history) # "")
    <3>1. /\ pc' = [pc EXCEPT ![p] = "migrating"]
          /\ next' = [next EXCEPT ![p] = IF manager = "versioned" THEN next[p]
                                         ELSE Len(history) + 1]
          /\ UNCHANGED <<manager, history, edges, release, error>>
      BY <1>7, <2>2 DEF Acquire, db
    <3>2. manager = "advisory" => Len(history) <= release[p]
      BY <1>1, <2>2 DEF Verdict
    <3> QED BY <1>1, <3>1, <3>2 DEF SInv, Served, Stored, NoRefusal
  <2> QED BY <2>1, <2>2
<1>8. ASSUME NEW p \in Procs, LockTimeout(p) PROVE SInv'
  BY <1>8, FailsServed DEF LockTimeout, Errors
<1>9. ASSUME NEW p \in Procs, Execute(p) PROVE SInv'
  <2>1. pc[p] = "migrating"
    BY <1>9 DEF Execute
  <2>2. ~\E v \in Pending(p) : RowsRefuse(v)
    BY <2>1, NoRowRefuses
  <2>3. CASE \E v \in Pending(p) : Collides(p, v)
    <3>1. Fails(p, "exists")
      BY <1>9, <2>3 DEF Execute
    <3> QED BY <3>1, FailsServed DEF Errors
  <2>4. CASE ~\E v \in Pending(p) : Collides(p, v)
    <3>1. /\ next' = [next EXCEPT ![p] = next[p] + Cardinality(Pending(p))]
          /\ Pending(p) # {}
          /\ UNCHANGED <<manager, history, edges, pc, release, error>>
      BY <1>9, <2>2, <2>4 DEF Execute, db
    <3>2. manager = "advisory" =>
            next[p] + Cardinality(Pending(p)) = release[p] + 1
      <4> SUFFICES ASSUME manager = "advisory"
                   PROVE  next[p] + Cardinality(Pending(p)) = release[p] + 1
        OBVIOUS
      <4>1. Pending(p) = next[p] .. release[p]
        BY DEF Pending
      <4>2. next[p] \in Int /\ release[p] \in Int /\ next[p] <= release[p]
        BY <1>1, <3>1, <4>1
      <4>3. Cardinality(next[p] .. release[p]) = release[p] - next[p] + 1
        BY <4>2, FS_Interval
      <4> QED BY <4>1, <4>2, <4>3
    <3> QED BY <1>1, <3>1, <3>2 DEF SInv, Served, Stored, NoRefusal
  <2> QED BY <2>3, <2>4
<1>10. ASSUME NEW p \in Procs, Commit(p) PROVE SInv'
  <2>1. CASE ~Attested(p)
    <3>1. Fails(p, "physical")
      BY <1>10, <2>1 DEF Commit
    <3> QED BY <3>1, FailsServed DEF Errors
  <2>2. CASE Attested(p)
    <3> DEFINE log == work[p].history
    <3>1. /\ pc[p] = "migrating"
          /\ manager # "versioned" => next[p] > release[p]
          /\ manager = "versioned" => log # history
          /\ history' = log
          /\ pc' = [pc EXCEPT ![p] = IF next[p] > release[p] THEN "up"
                                     ELSE "waiting"]
          /\ UNCHANGED <<manager, edges, release, next, error>>
      BY <1>10, <2>2 DEF Commit
    <3>2. /\ Extended(p) /\ Planned(p, log)
      BY <3>1 DEF IInv, Opened
    <3>3. Len(log) \in Nat /\ Len(history) <= Len(log)
          /\ next[p] = Len(log) + 1
      BY <3>2 DEF IInv, Typed, Log, Extended, Planned
    <3>4. manager = "advisory" => Len(log) = release[p]
      BY <1>1, <3>1, <3>3 DEF SInv, Served
    <3> HIDE DEF log
    <3>5. Served'
      BY <1>1, <3>1, <3>3, <3>4, VersionIsNat DEF SInv, Served
    <3>6. Stored'
      BY <1>1, <3>1, <3>3 DEF SInv, Stored
    <3> QED BY <3>1, <3>5, <3>6 DEF SInv, NoRefusal
  <2> QED BY <2>1, <2>2
<1> QED BY <1>2, <1>3, <1>4, <1>5, <1>6, <1>7, <1>8, <1>9, <1>10
        DEF Next, Step

LEMMA ServedAlways == Spec => [](IInv /\ SInv)
<1>1. Init => SInv
  <2> SUFFICES ASSUME Init PROVE SInv
    OBVIOUS
  <2>1. Len(history) = 0 /\ \A p \in Procs : release[p] = 0 /\ pc[p] = "down"
    BY DEF Init
  <2>2. edges = {} /\ \A p \in Procs : error[p] = ""
    BY DEF Init
  <2>3. Served
    BY <2>1, VersionIsNat DEF Served
  <2>4. Stored
    BY <2>2 DEF Stored
  <2>5. NoRefusal
    BY <2>2 DEF NoRefusal
  <2> QED BY <2>3, <2>4, <2>5 DEF SInv
<1> QED BY <1>1, ServedStep, Inductive, PTL DEF Spec

(* No stored row ever makes a migration fail, whichever release wrote it:  *)
(* the 22 migrations restate three CHECK lists that must go on agreeing.   *)
THEOREM RowsAlwaysFit == Spec => []RowsFitEveryLaterSchema
<1>1. IInv /\ SInv => RowsFitEveryLaterSchema
  <2> SUFFICES ASSUME IInv, SInv PROVE RowsFitEveryLaterSchema
    OBVIOUS
  <2>1. history = physical /\ Len(history) \in Nat
    BY DEF IInv, Recorded, Typed, Log
  <2>2. ASSUME NEW e \in edges, NEW v \in Len(physical) .. CurrentVersion
        PROVE  Fits(Surface[v], e)
    <3>1. PICK u \in 0 .. Len(history) : u <= CurrentVersion /\ e \in Writes[u]
      BY DEF SInv, Stored
    <3>2. u \in 0 .. CurrentVersion /\ v \in u .. CurrentVersion
      BY <2>1, <3>1, VersionIsNat
    <3> QED BY <3>1, <3>2, LaterListsFit
  <2> QED BY <2>2 DEF RowsFitEveryLaterSchema, SInv, NoRefusal
<1> QED BY <1>1, ServedAlways, PTL

(* A program that is up and of release 3 or later can still store all it   *)
(* could, after others have migrated the database under it; one of release *)
(* 1 or 2 stores nothing any more.                                         *)
THEOREM OlderReleasesWrite == Spec => []OldReleasesKeepWriting
<1>1. IInv /\ SInv => OldReleasesKeepWriting
  <2> SUFFICES ASSUME IInv, SInv, manager = "advisory", NEW p \in Procs,
                      pc[p] = "up", NEW e \in Writes[release[p]]
               PROVE  Accepts(Surface[Len(physical)], release[p], e)
                      <=> (release[p] >= TypedEdges
                           \/ release[p] = Len(physical))
    BY DEF OldReleasesKeepWriting
  <2>1. /\ history = physical /\ Len(history) \in Nat /\ release[p] \in Nat
    BY DEF IInv, Recorded, Typed, Log
  <2>2. /\ release[p] \in 0 .. CurrentVersion
        /\ Len(physical) \in release[p] .. CurrentVersion
    BY <2>1, VersionIsNat DEF SInv, Served
  <2> QED BY <2>2, LaterSchemasAccept
<1> QED BY <1>1, ServedAlways, PTL
=============================================================================
