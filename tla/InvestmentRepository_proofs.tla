--------------------- MODULE InvestmentRepository_proofs ---------------------
(***************************************************************************)
(* Proofs about the statements that write, for any processes, valid        *)
(* requests and stored rows, and any number of crashes, deadlocks and rows *)
(* altered by hand.                                                        *)
(*                                                                         *)
(* Programs.  An operation is put together from parts.  Sound parts check  *)
(* a revision before they write it and skip only what a read has found;    *)
(* Still parts leave guarded sets alone, Loose ones insert edges that are  *)
(* of no guarded set, and a Locking one is the part that writes one, from  *)
(* its lock to its last read.  ProgramsFit says that every operation, with *)
(* whatever it is called, comes to this; the invariants use nothing else.  *)
(*                                                                         *)
(* Revision chains.  The database alone is not inductive: what a commit    *)
(* adds was decided before it.  Chains says that what is there together    *)
(* with what each open transaction has written is linear, and that no two  *)
(* transactions write the same row or revise the same row (Apart), which   *)
(* is what the unique indexes make them wait for.  Standing says where in  *)
(* its program a process is, and that one about to write a revision has    *)
(* found its predecessor there and older.                                  *)
(*                                                                         *)
(* Guarded sets of edges.  Alone says that the locks exclude each other,   *)
(* Covers that a transaction which has inserted edges of a guarded set     *)
(* holds the lock of its source and found the set empty, and Aligned what  *)
(* a process between its lock and its commit knows of its own set.  Hence  *)
(* whatever is committed to a guarded set is a whole set, and once.        *)
(*                                                                         *)
(* Contents.  CInv says that node, projection and digest have one form and *)
(* hang together, whatever was altered by hand.  On such a database each   *)
(* recursion of the reads ends, so what a read returns is said in one      *)
(* equation (Recursion, and UpIs to VouchedIs), and from these equations   *)
(* follow that only intact rows are served and that nothing served stands  *)
(* on what became known later.                                             *)
(*                                                                         *)
(* Reads of several statements.  Nobody removes or replaces a row          *)
(* (Grounded), so what a walk has read stays a part of the chain; RInv     *)
(* says how far each read has come and that possible already holds the     *)
(* answer of this moment (Knows).                                          *)
(***************************************************************************)
EXTENDS InvestmentRepository, FiniteSetTheorems, SequenceTheorems,
        WellFoundedInduction, TLAPS

-----------------------------------------------------------------------------
(* What all programs have in common, whatever the operations.              *)

\* A revision is written by the two statements after its check.
Appends(s) == s.do = "insert fact" /\ s.node.supersedes # NoId
RevisesFirst(program) ==
  \A i \in DOMAIN program : Appends(program[i]) =>
    /\ i > 2
    /\ program[i - 2] = Statement("revise", program[i].node)
    /\ program[i - 1].do = "insert node"

\* Where a statement that finds its work done goes on: not inside a revision.
Skips(s) == s.do \in {"fact there", "both there", "existing"}
SkipsRevisions(program) ==
  \A k \in DOMAIN program : Skips(program[k]) =>
    /\ program[k].skip \in Nat /\ k + program[k].skip < Len(program)
    /\ \A i \in DOMAIN program : Appends(program[i]) =>
         k + program[k].skip + 1 \notin {i - 1, i}

Key(s)   == <<s.node.id, s.type>>
KeyOf(e) == <<e.source, e.type>>
GuardedKeys ==
  UNION {UNION {{Key(s) : s \in {x \in ToSet(Programs[name][t]) : Guarded(x)}} :
                  t \in 1 .. MaxNow} : name \in DOMAIN Programs}

\* From the lock of the source at i, by the comparison at j, to the proof at
\* the end that the set is there: one transaction, which nothing else skips.
Block(program, i, j) ==
  LET s == program[j]
      last == j + s.skip
  IN /\ i < j /\ program[i] = Source(s.node, TRUE) /\ s.ids # {}
     /\ program[last] = [do |-> "persisted", node |-> s.node, type |-> s.type,
                         ids |-> s.ids]
     /\ \A k \in i .. last : program[k].do # "commit"
     /\ \A k \in DOMAIN program : Skips(program[k]) =>
          k = j \/ last < k \/ k + program[k].skip + 1 <= i

WritesWhole(program) ==
  /\ \A j \in DOMAIN program : Guarded(program[j]) =>
       /\ \E i \in DOMAIN program : Block(program, i, j)
       /\ \A k \in DOMAIN program :
            /\ program[k].do = "existing" => k = j
            /\ program[k].do \notin {"walk up", "candidates", "lineage"}
  /\ \A k \in DOMAIN program : program[k].do = "insert edge" =>
       LET e == program[k].edge
       IN /\ e = [x \in EdgeFields |-> e[x]]
          /\ KeyOf(e) \in GuardedKeys =>
               \E j \in DOMAIN program :
                 /\ Guarded(program[j]) /\ Key(program[j]) = KeyOf(e)
                 /\ k \in j + 1 .. j + program[j].skip - 1

-----------------------------------------------------------------------------
(* Programs are put together from parts.                                   *)

Sequence(s) == s \in Seq(ToSet(s))

LEMMA SequenceShape ==
  ASSUME NEW s, Sequence(s)
  PROVE  /\ Len(s) \in Nat /\ DOMAIN s = 1 .. Len(s)
         /\ ToSet(s) = {s[i] : i \in 1 .. Len(s)}
BY LenProperties DEF Sequence, ToSet

Is(u, s, t) == u = s \o t

LEMMA Joined ==
  ASSUME NEW s, Sequence(s), NEW t, Sequence(t), NEW u, Is(u, s, t)
  PROVE  /\ Sequence(u) /\ Len(u) = Len(s) + Len(t) /\ Len(s) \in Nat
         /\ Len(t) \in Nat
         /\ DOMAIN s = 1 .. Len(s) /\ DOMAIN t = 1 .. Len(t)
         /\ DOMAIN u = 1 .. Len(u)
         /\ ToSet(u) = ToSet(s) \cup ToSet(t)
         /\ \A i \in DOMAIN s : u[i] = s[i]
         /\ \A i \in DOMAIN t : u[Len(s) + i] = t[i]
<1> DEFINE S == ToSet(s) \cup ToSet(t)
<1>1. s \in Seq(S) /\ t \in Seq(S)
  BY SeqMonotonic DEF Sequence
<1>2. u = s \o t
  BY DEF Is
<1>3. /\ u \in Seq(S) /\ Len(u) = Len(s) + Len(t)
      /\ \A i \in 1 .. Len(s) + Len(t) :
           u[i] = IF i <= Len(s) THEN s[i] ELSE t[i - Len(s)]
  BY <1>1, <1>2, ConcatProperties
<1> HIDE DEF S
<1>4. u \in [1 .. Len(u) -> S] /\ DOMAIN u = 1 .. Len(u)
  BY <1>3, LenProperties
<1>5. /\ Len(s) \in Nat /\ Len(t) \in Nat
      /\ DOMAIN s = 1 .. Len(s) /\ DOMAIN t = 1 .. Len(t)
      /\ ToSet(s) = {s[i] : i \in 1 .. Len(s)}
      /\ ToSet(t) = {t[i] : i \in 1 .. Len(t)}
  BY SequenceShape
<1>6. /\ \A i \in 1 .. Len(s) : i \in 1 .. Len(u) /\ u[i] = s[i]
      /\ \A i \in 1 .. Len(t) : Len(s) + i \in 1 .. Len(u) /\ u[Len(s) + i] = t[i]
  BY <1>3, <1>5
<1>7. ToSet(u) = {u[i] : i \in 1 .. Len(u)}
  BY <1>4 DEF ToSet
<1>8. \A i \in 1 .. Len(u) : i \in 1 .. Len(s) \/ i - Len(s) \in 1 .. Len(t)
  BY <1>3, <1>5
<1>9. \A i \in 1 .. Len(u) : i \in 1 .. Len(s) \/ (\E j \in 1 .. Len(t) : i = Len(s) + j)
  BY <1>3, <1>5, <1>8
<1>10. ToSet(u) = ToSet(s) \cup ToSet(t)
  BY <1>5, <1>6, <1>7, <1>9
<1>11. u \in [1 .. Len(u) -> ToSet(u)]
  BY <1>4, <1>7
<1>12. u \in Seq(ToSet(u))
  <2>1. Len(u) \in Nat
    BY <1>3, <1>5
  <2> QED BY <1>11, <2>1, SeqDef
<1> QED BY <1>3, <1>4, <1>5, <1>6, <1>10, <1>12 DEF Sequence

LEMMA Tuples ==
  ASSUME NEW a, NEW b, NEW c
  PROVE  /\ Sequence(<<a>>) /\ Len(<<a>>) = 1 /\ ToSet(<<a>>) = {a}
         /\ Sequence(<<a, b>>) /\ Len(<<a, b>>) = 2 /\ ToSet(<<a, b>>) = {a, b}
         /\ Sequence(<<a, b, c>>) /\ Len(<<a, b, c>>) = 3
         /\ ToSet(<<a, b, c>>) = {a, b, c}
BY DEF Sequence, ToSet

\* Where an element of a joined sequence comes from.
LEMMA JoinedAt ==
  ASSUME NEW s, Sequence(s), NEW t, Sequence(t), NEW u, Is(u, s, t),
         NEW i \in DOMAIN u
  PROVE  \/ i \in DOMAIN s /\ u[i] = s[i]
         \/ i > Len(s) /\ i - Len(s) \in DOMAIN t /\ u[i] = t[i - Len(s)]
<1>1. /\ Len(s) \in Nat /\ DOMAIN s = 1 .. Len(s)
      /\ Len(t) \in Nat /\ DOMAIN t = 1 .. Len(t)
      /\ Len(u) = Len(s) + Len(t) /\ DOMAIN u = 1 .. Len(u)
  BY Joined
<1>2. CASE i <= Len(s)
  BY <1>1, <1>2, Joined
<1>3. CASE i > Len(s)
  <2>1. i - Len(s) \in 1 .. Len(t) /\ Len(s) + (i - Len(s)) = i
    BY <1>1, <1>3
  <2> QED BY <1>1, <1>3, <2>1, Joined
<1> QED BY <1>1, <1>2, <1>3

-----------------------------------------------------------------------------
(* Parts that may stand anywhere in a program.                             *)

\* Parts whose skips end in the part or just after it.
Sound(s) ==
  /\ Sequence(s) /\ s # <<>>
  /\ \A x \in ToSet(s) : x.do \in {"insert fact", "revise"} => IsRow(x.node)
  /\ RevisesFirst(s)
  /\ \A k \in DOMAIN s : Skips(s[k]) =>
       /\ s[k].skip \in Nat /\ k + s[k].skip <= Len(s)
       /\ \A i \in DOMAIN s : Appends(s[i]) =>
            k + s[k].skip + 1 \notin {i - 1, i}

\* Parts without aggregates that are locked, and without edges of those.
Free(s) ==
  \A x \in ToSet(s) :
    /\ ~Guarded(x)
    /\ x.do = "insert edge" => /\ x.edge = [f \in EdgeFields |-> x.edge[f]]
                               /\ KeyOf(x.edge) \notin GuardedKeys

\* Parts that do nothing to edges, and report nothing.
Quiet(s) ==
  \A x \in ToSet(s) : x.do \notin {"existing", "insert edge", "walk up",
                                   "candidates", "lineage"}

LEMMA Shifted ==
  ASSUME NEW m \in Nat, NEW k \in Int, NEW i \in Int, NEW n \in Nat,
         (k - m) + n + 1 \notin {(i - m) - 1, i - m}
  PROVE  k + n + 1 \notin {i - 1, i}
OBVIOUS

LEMMA TwoBefore ==
  ASSUME NEW n \in Nat, NEW i \in 1 .. n, i > 2
  PROVE  i - 2 \in 1 .. n /\ i - 1 \in 1 .. n
OBVIOUS

LEMMA ShiftedBack ==
  ASSUME NEW m \in Nat, NEW j \in Int, NEW h \in Nat, h = j - m, h > 2
  PROVE  m + (h - 2) = j - 2 /\ m + (h - 1) = j - 1 /\ j > 2
OBVIOUS

LEMMA JoinedSkips ==
  ASSUME NEW s, Sound(s), NEW t, Sound(t), NEW u, Is(u, s, t),
         NEW k \in DOMAIN u, Skips(u[k])
  PROVE  /\ u[k].skip \in Nat /\ k + u[k].skip <= Len(u)
         /\ \A i \in DOMAIN u : Appends(u[i]) =>
              k + u[k].skip + 1 \notin {i - 1, i}
<1>1. /\ Sequence(s) /\ Sequence(t) /\ Len(s) \in Nat /\ Len(t) \in Nat
      /\ Len(u) = Len(s) + Len(t)
      /\ DOMAIN s = 1 .. Len(s) /\ DOMAIN t = 1 .. Len(t)
      /\ DOMAIN u = 1 .. Len(u)
  <2>1. Sequence(s) /\ Sequence(t)
    BY DEF Sound
  <2> QED BY <2>1, Joined
<1>2. \A i \in DOMAIN u :
        \/ i \in DOMAIN s /\ u[i] = s[i]
        \/ i > Len(s) /\ i - Len(s) \in DOMAIN t /\ u[i] = t[i - Len(s)]
  BY <1>1, JoinedAt
<1>3. /\ \A i \in DOMAIN s : Appends(s[i]) => i > 2
      /\ \A i \in DOMAIN t : Appends(t[i]) => i > 2
  BY DEF Sound, RevisesFirst
<1>4. CASE k \in DOMAIN s /\ u[k] = s[k]
  <2>1. /\ s[k].skip \in Nat /\ k + s[k].skip <= Len(s)
        /\ \A i \in DOMAIN s : Appends(s[i]) =>
             k + s[k].skip + 1 \notin {i - 1, i}
    BY <1>4 DEF Sound
  <2>2. ASSUME NEW i \in DOMAIN u, Appends(u[i])
        PROVE  k + s[k].skip + 1 \notin {i - 1, i}
    <3>1. CASE i \in DOMAIN s /\ u[i] = s[i]
      BY <2>1, <2>2, <3>1
    <3>2. CASE i > Len(s) /\ i - Len(s) \in DOMAIN t /\ u[i] = t[i - Len(s)]
      <4>1. i - Len(s) > 2
        BY <1>3, <2>2, <3>2
      <4> QED BY <1>1, <1>4, <2>1, <4>1
    <3> QED BY <1>2, <3>1, <3>2
  <2>3. k + s[k].skip <= Len(u)
    BY <1>1, <1>4, <2>1
  <2> QED BY <1>4, <2>1, <2>2, <2>3
<1>5. CASE k > Len(s) /\ k - Len(s) \in DOMAIN t /\ u[k] = t[k - Len(s)]
  <2> DEFINE h == k - Len(s)
  <2>1. /\ t[h].skip \in Nat /\ h + t[h].skip <= Len(t)
        /\ \A i \in DOMAIN t : Appends(t[i]) =>
             h + t[h].skip + 1 \notin {i - 1, i}
    BY <1>5 DEF Sound
  <2>2. ASSUME NEW i \in DOMAIN u, Appends(u[i])
        PROVE  k + t[h].skip + 1 \notin {i - 1, i}
    <3>1. CASE i \in DOMAIN s /\ u[i] = s[i]
      BY <1>1, <1>5, <2>1, <3>1
    <3>2. CASE i > Len(s) /\ i - Len(s) \in DOMAIN t /\ u[i] = t[i - Len(s)]
      <4>1. h + t[h].skip + 1 \notin {(i - Len(s)) - 1, i - Len(s)}
        BY <2>1, <2>2, <3>2
      <4>2. k \in Int /\ i \in Int
        BY <1>1
      <4> QED BY <1>1, <2>1, <4>1, <4>2, Shifted
    <3> QED BY <1>2, <3>1, <3>2
  <2>3. k + t[h].skip <= Len(u)
    BY <1>1, <1>5, <2>1
  <2> QED BY <1>5, <2>1, <2>2, <2>3
<1> QED BY <1>2, <1>4, <1>5

LEMMA JoinedRevisions ==
  ASSUME NEW s, Sound(s), NEW t, Sound(t), NEW u, Is(u, s, t)
  PROVE  RevisesFirst(u)
<1>1. /\ Sequence(s) /\ Sequence(t) /\ Len(s) \in Nat /\ Len(t) \in Nat
      /\ DOMAIN s = 1 .. Len(s) /\ DOMAIN t = 1 .. Len(t)
      /\ DOMAIN u = 1 .. Len(s) + Len(t)
  <2>1. Sequence(s) /\ Sequence(t)
    BY DEF Sound
  <2> QED BY <2>1, Joined
<1>2. /\ \A i \in DOMAIN s : u[i] = s[i]
      /\ \A i \in DOMAIN t : u[Len(s) + i] = t[i]
  BY <1>1, Joined
<1>3. ASSUME NEW i \in DOMAIN u, Appends(u[i])
      PROVE  /\ i > 2
             /\ u[i - 2] = Statement("revise", u[i].node)
             /\ u[i - 1].do = "insert node"
  <2>0. i \in Int
    BY <1>1, <1>2
  <2>1. CASE i \in DOMAIN s /\ u[i] = s[i]
    <3>1. /\ i > 2 /\ s[i - 2] = Statement("revise", s[i].node)
          /\ s[i - 1].do = "insert node"
      BY <1>3, <2>1 DEF Sound, RevisesFirst
    <3>2. i - 2 \in 1 .. Len(s) /\ i - 1 \in 1 .. Len(s)
      BY <1>1, <2>1, <3>1, TwoBefore
    <3> QED BY <1>1, <1>2, <2>1, <3>1, <3>2
  <2>2. CASE i > Len(s) /\ i - Len(s) \in DOMAIN t /\ u[i] = t[i - Len(s)]
    <3>1. PICK h : h = i - Len(s)
      OBVIOUS
    <3>2. /\ h > 2 /\ t[h - 2] = Statement("revise", t[h].node)
          /\ t[h - 1].do = "insert node"
      BY <1>3, <2>2, <3>1 DEF Sound, RevisesFirst
    <3>3. h \in 1 .. Len(t)
      BY <1>1, <2>2, <3>1
    <3>4. h - 2 \in 1 .. Len(t) /\ h - 1 \in 1 .. Len(t)
      BY <1>1, <3>2, <3>3, TwoBefore
    <3>5. u[Len(s) + (h - 2)] = t[h - 2] /\ u[Len(s) + (h - 1)] = t[h - 1]
      BY <1>1, <1>2, <3>4
    <3>6. Len(s) + (h - 2) = i - 2 /\ Len(s) + (h - 1) = i - 1 /\ i > 2
      <4>1. h \in Nat
        BY <1>1, <3>3
      <4>2. h > 2
        BY <3>2
      <4> QED BY <1>1, <2>0, <3>1, <4>1, <4>2, ShiftedBack
    <3>7. u[i - 2] = t[h - 2] /\ u[i - 1] = t[h - 1] /\ u[i] = t[h]
      BY <2>2, <3>1, <3>5, <3>6
    <3> QED BY <3>2, <3>6, <3>7
  <2>3. \/ i \in DOMAIN s /\ u[i] = s[i]
        \/ i > Len(s) /\ i - Len(s) \in DOMAIN t /\ u[i] = t[i - Len(s)]
    BY <1>1, JoinedAt
  <2> QED BY <2>1, <2>2, <2>3
<1> QED BY <1>3 DEF RevisesFirst

LEMMA SoundJoined ==
  ASSUME NEW s, Sound(s), NEW t, Sound(t)
  PROVE  Sound(s \o t)
<1> PICK u : Is(u, s, t)
  BY DEF Is
<1>1. /\ Sequence(s) /\ Sequence(t) /\ Sequence(u) /\ Len(u) = Len(s) + Len(t)
      /\ ToSet(u) = ToSet(s) \cup ToSet(t)
  <2>1. Sequence(s) /\ Sequence(t)
    BY DEF Sound
  <2> QED BY <2>1, Joined
<1>2. u # <<>>
  <2>1. Len(s) \in Nat \ {0} /\ Len(t) \in Nat
    BY EmptySeq, SequenceShape DEF Sound, Sequence
  <2> QED BY <1>1, <2>1, EmptySeq
<1>3. \A x \in ToSet(u) : x.do \in {"insert fact", "revise"} => IsRow(x.node)
  BY <1>1 DEF Sound
<1>4. RevisesFirst(u)
  BY JoinedRevisions
<1>5. \A k \in DOMAIN u : Skips(u[k]) =>
        /\ u[k].skip \in Nat /\ k + u[k].skip <= Len(u)
        /\ \A i \in DOMAIN u : Appends(u[i]) =>
             k + u[k].skip + 1 \notin {i - 1, i}
  BY JoinedSkips
<1>6. Sound(u)
  BY <1>1, <1>2, <1>3, <1>4, <1>5 DEF Sound
<1> QED BY <1>6 DEF Is
-----------------------------------------------------------------------------
(* Parts that contain one locked aggregate.                                *)

Noted == {"existing", "insert edge", "walk up", "candidates", "lineage"}
Elsewhere(x) == x.do \notin Noted

\* The block from i by j to last is all that s does to edges.
Locked(s, i, j, last) ==
  /\ i \in DOMAIN s /\ j \in DOMAIN s /\ last \in DOMAIN s
  /\ i < j /\ j < last /\ last = j + s[j].skip
  /\ Guarded(s[j]) /\ s[j].ids # {} /\ s[i] = Source(s[j].node, TRUE)
  /\ s[last] = [do |-> "persisted", node |-> s[j].node, type |-> s[j].type,
                ids |-> s[j].ids]
  /\ \A k \in DOMAIN s :
       /\ s[k].do \in {"walk up", "candidates", "lineage"} => FALSE
       /\ s[k].do = "existing" => k = j
       /\ s[k].do = "commit" => k < i \/ k > last
       /\ Skips(s[k]) /\ k # j => last < k \/ k + s[k].skip + 1 <= i
       /\ s[k].do = "insert edge" =>
            /\ s[k].edge = [f \in EdgeFields |-> s[k].edge[f]]
            /\ KeyOf(s[k].edge) = Key(s[j])
            /\ j < k /\ k < last

Locking(s) == \E i, j, last \in DOMAIN s : Locked(s, i, j, last)

LEMMA LockingIsWhole ==
  ASSUME NEW s, Sequence(s), Locking(s),
         \A k \in DOMAIN s : Skips(s[k]) => s[k].skip \in Nat
  PROVE  WritesWhole(s)
<1>1. PICK i, j, last \in DOMAIN s : Locked(s, i, j, last)
  BY DEF Locking
<1>2. Len(s) \in Nat /\ DOMAIN s = 1 .. Len(s)
  BY SequenceShape
<1>3. /\ i \in Int /\ j \in Int /\ last \in Int
      /\ last = j + s[j].skip /\ Guarded(s[j])
  <2>1. i \in Int /\ j \in Int /\ last \in Int
    BY <1>1, <1>2
  <2>2. last = j + s[j].skip /\ Guarded(s[j])
    BY <1>1 DEF Locked
  <2> QED BY <2>1, <2>2
<1>4. Block(s, i, j)
  <2>1. /\ i < j /\ s[i] = Source(s[j].node, TRUE) /\ s[j].ids # {}
        /\ s[j + s[j].skip] = [do |-> "persisted", node |-> s[j].node,
                               type |-> s[j].type, ids |-> s[j].ids]
    BY <1>1, <1>3 DEF Locked
  <2>2. \A k \in i .. last : s[k].do # "commit"
    <3>1. \A k \in i .. last : k \in DOMAIN s /\ ~(k < i) /\ ~(k > last)
      BY <1>1, <1>2, <1>3
    <3> QED BY <1>1, <3>1 DEF Locked
  <2>3. \A k \in DOMAIN s : Skips(s[k]) =>
          k = j \/ last < k \/ k + s[k].skip + 1 <= i
    BY <1>1 DEF Locked
  <2> QED BY <1>3, <2>1, <2>2, <2>3 DEF Block
<1>5. ASSUME NEW h \in DOMAIN s, Guarded(s[h])
      PROVE  h = j
  BY <1>1, <1>5 DEF Locked, Guarded
<1>6. ASSUME NEW k \in DOMAIN s
      PROVE  /\ s[k].do = "existing" => k = j
             /\ s[k].do \notin {"walk up", "candidates", "lineage"}
  BY <1>1 DEF Locked
<1>7. ASSUME NEW k \in DOMAIN s, s[k].do = "insert edge"
      PROVE  /\ s[k].edge = [f \in EdgeFields |-> s[k].edge[f]]
             /\ Key(s[j]) = KeyOf(s[k].edge)
             /\ k \in j + 1 .. j + s[j].skip - 1
  <2>1. /\ s[k].edge = [f \in EdgeFields |-> s[k].edge[f]]
        /\ KeyOf(s[k].edge) = Key(s[j]) /\ j < k /\ k < last
    BY <1>1, <1>7 DEF Locked
  <2>2. k \in Int
    BY <1>2
  <2>3. s[j].skip \in Nat
    <3>1. Skips(s[j])
      BY <1>3 DEF Guarded, Skips
    <3> QED BY <1>1, <3>1
  <2>4. PICK n \in Nat : n = s[j].skip
    BY <2>3
  <2>5. k \in j + 1 .. j + n - 1
    BY <1>3, <2>1, <2>2, <2>4
  <2> QED BY <2>1, <2>4, <2>5
<1>8. j \in DOMAIN s /\ i \in DOMAIN s
  BY <1>1
<1> QED BY <1>3, <1>4, <1>5, <1>6, <1>7, <1>8 DEF WritesWhole

LEMMA Moved ==
  ASSUME NEW d \in Nat, NEW i \in Int, NEW k \in Int, NEW n \in Int
  PROVE  /\ i < k - d => d + i < k
         /\ k - d < i => k < d + i
         /\ (k - d) + n + 1 <= i => k + n + 1 <= d + i
OBVIOUS

\* The block moves with the part it is in.
LEMMA Placed ==
  ASSUME NEW s, NEW u, Sequence(s), Sequence(u), NEW i, NEW j, NEW last,
         Locked(s, i, j, last), NEW d \in Nat,
         \A k \in DOMAIN s : d + k \in DOMAIN u /\ u[d + k] = s[k],
         \A k \in DOMAIN s : Skips(s[k]) => s[k].skip \in Nat,
         \A k \in DOMAIN u :
           \/ k - d \in DOMAIN s
           \/ Elsewhere(u[k]) /\ k > d + last
           \/ /\ Elsewhere(u[k]) /\ k <= d
              /\ Skips(u[k]) => u[k].skip \in Nat /\ k + u[k].skip <= d
  PROVE  Locked(u, d + i, d + j, d + last)
<1>1. /\ DOMAIN s = 1 .. Len(s) /\ Len(s) \in Nat
      /\ DOMAIN u = 1 .. Len(u) /\ Len(u) \in Nat
  BY SequenceShape
<1>2. /\ i \in DOMAIN s /\ j \in DOMAIN s /\ last \in DOMAIN s
      /\ i < j /\ j < last /\ last = j + s[j].skip
      /\ Guarded(s[j]) /\ s[j].ids # {} /\ s[i] = Source(s[j].node, TRUE)
      /\ s[last] = [do |-> "persisted", node |-> s[j].node,
                    type |-> s[j].type, ids |-> s[j].ids]
  BY DEF Locked
<1>3. /\ u[d + i] = s[i] /\ u[d + j] = s[j] /\ u[d + last] = s[last]
      /\ d + i \in DOMAIN u /\ d + j \in DOMAIN u /\ d + last \in DOMAIN u
  BY <1>2
<1>4. i \in Int /\ j \in Int /\ last \in Int /\ s[j].skip \in Nat
  <2>1. i \in Int /\ j \in Int /\ last \in Int
    BY <1>1, <1>2
  <2>2. Skips(s[j])
    BY <1>2 DEF Skips, Guarded
  <2> QED BY <1>2, <2>1, <2>2
<1>5. d + i < d + j /\ d + j < d + last /\ d + last = (d + j) + u[d + j].skip
  <2>1. PICK n \in Nat : n = s[j].skip
    BY <1>4
  <2>2. last = j + n /\ u[d + j].skip = n
    BY <1>2, <1>3, <2>1
  <2> QED BY <1>2, <1>4, <2>1, <2>2
<1>6. ASSUME NEW k \in DOMAIN u
      PROVE  /\ u[k].do \in {"walk up", "candidates", "lineage"} => FALSE
             /\ u[k].do = "existing" => k = d + j
             /\ u[k].do = "commit" => k < d + i \/ k > d + last
             /\ Skips(u[k]) /\ k # d + j =>
                  d + last < k \/ k + u[k].skip + 1 <= d + i
             /\ u[k].do = "insert edge" =>
                  /\ u[k].edge = [f \in EdgeFields |-> u[k].edge[f]]
                  /\ KeyOf(u[k].edge) = Key(u[d + j])
                  /\ d + j < k /\ k < d + last
  <2>0. k \in Int
    BY <1>1
  <2>1. CASE k - d \in DOMAIN s
    <3>1. PICK h : h = k - d
      OBVIOUS
    <3>2. h \in DOMAIN s /\ h \in Int /\ k = d + h
      BY <1>1, <2>0, <2>1, <3>1
    <3>3. u[k] = s[h]
      BY <3>2
    <3>4. /\ s[h].do \in {"walk up", "candidates", "lineage"} => FALSE
          /\ s[h].do = "existing" => h = j
          /\ s[h].do = "commit" => h < i \/ h > last
          /\ Skips(s[h]) /\ h # j => last < h \/ h + s[h].skip + 1 <= i
          /\ s[h].do = "insert edge" =>
               /\ s[h].edge = [f \in EdgeFields |-> s[h].edge[f]]
               /\ KeyOf(s[h].edge) = Key(s[j])
               /\ j < h /\ h < last
      BY <3>2 DEF Locked
    <3>5. PICK n : n = s[h].skip
      OBVIOUS
    <3>6. Skips(s[h]) => n \in Nat
      BY <3>2, <3>5
    <3>7. /\ h < i => k < d + i
          /\ h > last => k > d + last
          /\ j < h => d + j < k
          /\ h < last => k < d + last
          /\ h = j <=> k = d + j
          /\ n \in Nat /\ h + n + 1 <= i => k + n + 1 <= d + i
      BY <1>4, <2>0, <3>2
    <3> QED BY <1>3, <3>3, <3>4, <3>5, <3>6, <3>7
  <2>2. CASE Elsewhere(u[k]) /\ k > d + last
    BY <2>2 DEF Elsewhere, Noted
  <2>3. CASE /\ Elsewhere(u[k]) /\ k <= d
             /\ Skips(u[k]) => u[k].skip \in Nat /\ k + u[k].skip <= d
    <3>1. k < d + i
      BY <1>1, <1>2, <1>4, <2>0, <2>3
    <3>2. PICK n : n = u[k].skip
      OBVIOUS
    <3>3. n \in Nat /\ k + n <= d => k + n + 1 <= d + i
      BY <1>1, <1>2, <1>4, <2>0
    <3> QED BY <2>3, <3>1, <3>2, <3>3 DEF Elsewhere, Noted
  <2> QED BY <2>1, <2>2, <2>3
<1> QED BY <1>2, <1>3, <1>5, <1>6 DEF Locked

LEMMA SoundSkips ==
  ASSUME NEW s, Sound(s)
  PROVE  /\ Sequence(s)
         /\ \A k \in DOMAIN s : Skips(s[k]) =>
              s[k].skip \in Nat /\ k + s[k].skip <= Len(s)
BY DEF Sound

LEMMA QuietAt ==
  ASSUME NEW s, Quiet(s), NEW k \in DOMAIN s
  PROVE  Elsewhere(s[k])
BY DEF Quiet, Elsewhere, Noted, ToSet

LEMMA LockingAfter ==
  ASSUME NEW s, Sound(s), Quiet(s), NEW t, Sound(t), Locking(t)
  PROVE  Locking(s \o t)
<1>1. PICK i, j, last \in DOMAIN t : Locked(t, i, j, last)
  BY DEF Locking
<1>2. PICK u : Is(u, s, t)
  BY DEF Is
<1>3. Sequence(s) /\ Sequence(t)
  BY SoundSkips
<1>4. /\ Sequence(u) /\ Len(s) \in Nat /\ DOMAIN s = 1 .. Len(s)
      /\ Len(t) \in Nat /\ DOMAIN t = 1 .. Len(t)
      /\ DOMAIN u = 1 .. Len(u) /\ Len(u) = Len(s) + Len(t)
      /\ \A k \in DOMAIN t : u[Len(s) + k] = t[k]
  BY <1>2, <1>3, Joined
<1>5. PICK d \in Nat : d = Len(s)
  BY <1>4
<1>6. \A k \in DOMAIN t : d + k \in DOMAIN u /\ u[d + k] = t[k]
  BY <1>4, <1>5
<1>7. \A k \in DOMAIN t : Skips(t[k]) => t[k].skip \in Nat
  BY SoundSkips
<1>8. ASSUME NEW k \in DOMAIN u
      PROVE  \/ k - d \in DOMAIN t
             \/ Elsewhere(u[k]) /\ k > d + last
             \/ /\ Elsewhere(u[k]) /\ k <= d
                /\ Skips(u[k]) => u[k].skip \in Nat /\ k + u[k].skip <= d
  <2>1. CASE k \in DOMAIN s /\ u[k] = s[k]
    <3>1. Elsewhere(s[k])
      BY <2>1, QuietAt
    <3>2. Skips(s[k]) => s[k].skip \in Nat /\ k + s[k].skip <= d
      BY <1>5, <2>1, SoundSkips
    <3>3. k <= d
      BY <1>4, <1>5, <2>1
    <3> QED BY <2>1, <3>1, <3>2, <3>3
  <2>2. CASE k > Len(s) /\ k - Len(s) \in DOMAIN t /\ u[k] = t[k - Len(s)]
    BY <1>5, <2>2
  <2>3. \/ k \in DOMAIN s /\ u[k] = s[k]
        \/ k > Len(s) /\ k - Len(s) \in DOMAIN t /\ u[k] = t[k - Len(s)]
    BY <1>2, <1>3, JoinedAt
  <2> QED BY <2>1, <2>2, <2>3
<1>9. Locked(u, d + i, d + j, d + last)
  BY <1>1, <1>3, <1>4, <1>6, <1>7, <1>8, Placed
<1>10. d + i \in DOMAIN u /\ d + j \in DOMAIN u /\ d + last \in DOMAIN u
  BY <1>6
<1> QED BY <1>2, <1>9, <1>10 DEF Locking, Is

LEMMA LockingBefore ==
  ASSUME NEW s, Sound(s), Locking(s), NEW t, Sound(t), Quiet(t)
  PROVE  Locking(s \o t)
<1>1. PICK i, j, last \in DOMAIN s : Locked(s, i, j, last)
  BY DEF Locking
<1>2. PICK u : Is(u, s, t)
  BY DEF Is
<1>3. Sequence(s) /\ Sequence(t)
  BY SoundSkips
<1>4. /\ Sequence(u) /\ Len(s) \in Nat /\ DOMAIN s = 1 .. Len(s)
      /\ Len(t) \in Nat /\ DOMAIN t = 1 .. Len(t)
      /\ DOMAIN u = 1 .. Len(u) /\ Len(u) = Len(s) + Len(t)
      /\ \A k \in DOMAIN s : u[k] = s[k]
  BY <1>2, <1>3, Joined
<1>5. \A k \in DOMAIN s : k \in Int /\ 0 + k = k /\ k - 0 = k /\ k \in DOMAIN u
  BY <1>4
<1>6. \A k \in DOMAIN s : 0 + k \in DOMAIN u /\ u[0 + k] = s[k]
  BY <1>4, <1>5
<1>7. \A k \in DOMAIN s : Skips(s[k]) => s[k].skip \in Nat
  BY SoundSkips
<1>8. ASSUME NEW k \in DOMAIN u
      PROVE  \/ k - 0 \in DOMAIN s
             \/ Elsewhere(u[k]) /\ k > 0 + last
             \/ /\ Elsewhere(u[k]) /\ k <= 0
                /\ Skips(u[k]) => u[k].skip \in Nat /\ k + u[k].skip <= 0
  <2>1. CASE k \in DOMAIN s /\ u[k] = s[k]
    BY <1>5, <2>1
  <2>2. CASE k > Len(s) /\ k - Len(s) \in DOMAIN t /\ u[k] = t[k - Len(s)]
    <3>1. Elsewhere(u[k])
      BY <2>2, QuietAt
    <3>2. k > 0 + last
      BY <1>4, <2>2
    <3> QED BY <3>1, <3>2
  <2>3. \/ k \in DOMAIN s /\ u[k] = s[k]
        \/ k > Len(s) /\ k - Len(s) \in DOMAIN t /\ u[k] = t[k - Len(s)]
    BY <1>2, <1>3, JoinedAt
  <2> QED BY <2>1, <2>2, <2>3
<1>9. Locked(u, 0 + i, 0 + j, 0 + last)
  BY <1>1, <1>3, <1>4, <1>6, <1>7, <1>8, Placed
<1>10. 0 + i \in DOMAIN u /\ 0 + j \in DOMAIN u /\ 0 + last \in DOMAIN u
  BY <1>6
<1> QED BY <1>2, <1>9, <1>10 DEF Locking, Is

LEMMA FreeIsWhole ==
  ASSUME NEW s, Free(s)
  PROVE  WritesWhole(s)
BY DEF Free, WritesWhole, ToSet

LEMMA ElementsJoined ==
  ASSUME NEW s, Sequence(s), NEW t, Sequence(t)
  PROVE  /\ ToSet(s \o t) = ToSet(s) \cup ToSet(t)
         /\ Sequence(s \o t)
<1>1. PICK u : Is(u, s, t)
  BY DEF Is
<1>2. ToSet(u) = ToSet(s) \cup ToSet(t) /\ Sequence(u)
  BY <1>1, Joined
<1> QED BY <1>1, <1>2 DEF Is

-----------------------------------------------------------------------------
(* The parts operations are made of.                                       *)

Plain(x) == x.do \notin {"insert fact", "revise", "fact there", "both there",
                         "existing"}

LEMMA PlainParts ==
  ASSUME NEW a, Plain(a), NEW b, Plain(b), NEW c, Plain(c)
  PROVE  Sound(<<a>>) /\ Sound(<<a, b>>) /\ Sound(<<a, b, c>>)
<1>1. ASSUME NEW s, Sequence(s), s # <<>>, \A x \in ToSet(s) : Plain(x)
      PROVE  Sound(s)
  <2>1. \A k \in DOMAIN s : Plain(s[k])
    BY <1>1 DEF ToSet
  <2>2. \A k \in DOMAIN s : ~Appends(s[k]) /\ ~Skips(s[k])
    BY <2>1 DEF Plain, Appends, Skips
  <2> QED BY <1>1, <2>2 DEF Sound, RevisesFirst, Plain
<1>2. /\ Sequence(<<a>>) /\ <<a>> # <<>> /\ ToSet(<<a>>) = {a}
      /\ Sequence(<<a, b>>) /\ <<a, b>> # <<>> /\ ToSet(<<a, b>>) = {a, b}
      /\ Sequence(<<a, b, c>>) /\ <<a, b, c>> # <<>>
      /\ ToSet(<<a, b, c>>) = {a, b, c}
  BY Tuples
<1> QED BY <1>1, <1>2

\* Rows that replace nothing are inserted without a check.
LEMMA FreshPart ==
  ASSUME NEW n, IsRow(n), n.supersedes = NoId, NEW there
  PROVE  Sound(WriteNode(n, there))
<1> PICK a, b : a = InsertNode(n) /\ b = InsertFact(n, there)
  OBVIOUS
<1>1. /\ a.do = "insert node" /\ b.do = "insert fact" /\ b.node = n
  BY DEF InsertNode, InsertFact, Statement
<1>2. /\ Sequence(<<a, b>>) /\ <<a, b>> # <<>> /\ ToSet(<<a, b>>) = {a, b}
  BY Tuples
<1>3. \A k \in DOMAIN <<a, b>> : <<a, b>>[k] \in {a, b}
  BY <1>2 DEF ToSet
<1>4. \A x \in {a, b} : ~Appends(x) /\ ~Skips(x)
  BY <1>1 DEF Appends, Skips
<1>5. \A x \in {a, b} : x.do \in {"insert fact", "revise"} => IsRow(x.node)
  BY <1>1
<1>6. Sound(<<a, b>>)
  BY <1>2, <1>3, <1>4, <1>5 DEF Sound, RevisesFirst
<1> QED BY <1>6 DEF WriteNode

\* Three statements, and four.
LEMMA ThreeAt ==
  ASSUME NEW a, NEW b, NEW c, NEW u, Is(u, <<a>>, <<b, c>>)
  PROVE  /\ Sequence(u) /\ DOMAIN u = 1 .. 3 /\ Len(u) = 3
         /\ u[1] = a /\ u[2] = b /\ u[3] = c /\ ToSet(u) = {a, b, c}
<1>0. PICK s, t : s = <<a>> /\ t = <<b, c>>
  OBVIOUS
<1>1. Sequence(s) /\ Sequence(t)
  BY <1>0, Tuples
<1>6. Len(s) = 1 /\ Len(t) = 2 /\ ToSet(s) = {a} /\ ToSet(t) = {b, c}
  BY <1>0, Tuples
<1>2. /\ s[1] = a /\ t[1] = b /\ t[2] = c
      /\ 1 \in 1 .. 1 /\ 1 \in 1 .. 2 /\ 2 \in 1 .. 2
  BY <1>0
<1>3. Is(u, s, t)
  BY <1>0
<1>4. /\ Sequence(u) /\ Len(u) = 3 /\ DOMAIN u = 1 .. 3
      /\ ToSet(u) = {a} \cup {b, c}
      /\ \A i \in 1 .. 1 : u[i] = s[i]
      /\ \A i \in 1 .. 2 : u[1 + i] = t[i]
  <2>1. /\ Sequence(u) /\ Len(u) = Len(s) + Len(t)
        /\ DOMAIN s = 1 .. Len(s) /\ DOMAIN t = 1 .. Len(t)
        /\ DOMAIN u = 1 .. Len(u)
    BY <1>1, <1>3, Joined
  <2>2. ToSet(u) = ToSet(s) \cup ToSet(t)
    BY <1>1, <1>3, Joined
  <2>3. /\ \A i \in DOMAIN s : u[i] = s[i]
        /\ \A i \in DOMAIN t : u[Len(s) + i] = t[i]
    BY <1>1, <1>3, Joined
  <2> QED BY <1>6, <2>1, <2>2, <2>3
<1>5. u[1] = a /\ u[2] = b /\ u[3] = c
  <2>1. u[1] = s[1] /\ u[1 + 1] = t[1] /\ u[1 + 2] = t[2]
    BY <1>2, <1>4
  <2> QED BY <1>2, <2>1
<1> QED BY <1>4, <1>5

LEMMA FourAt ==
  ASSUME NEW a, NEW b, NEW c, NEW d, NEW u, Is(u, <<a, b>>, <<c, d>>)
  PROVE  /\ Sequence(u) /\ DOMAIN u = 1 .. 4 /\ Len(u) = 4
         /\ u[1] = a /\ u[2] = b /\ u[3] = c /\ u[4] = d
         /\ ToSet(u) = {a, b, c, d}
<1>0. PICK s, t : s = <<a, b>> /\ t = <<c, d>>
  OBVIOUS
<1>1. Sequence(s) /\ Sequence(t)
  BY <1>0, Tuples
<1>6. /\ Len(s) = 2 /\ Len(t) = 2
      /\ ToSet(s) = {a, b} /\ ToSet(t) = {c, d}
  BY <1>0, Tuples
<1>2. /\ s[1] = a /\ s[2] = b /\ t[1] = c /\ t[2] = d
      /\ 1 \in 1 .. 2 /\ 2 \in 1 .. 2
  BY <1>0
<1>3. Is(u, s, t)
  BY <1>0
<1>4. /\ Sequence(u) /\ Len(u) = 4 /\ DOMAIN u = 1 .. 4
      /\ ToSet(u) = {a, b} \cup {c, d}
      /\ \A i \in 1 .. 2 : u[i] = s[i]
      /\ \A i \in 1 .. 2 : u[2 + i] = t[i]
  <2>1. /\ Sequence(u) /\ Len(u) = Len(s) + Len(t)
        /\ DOMAIN s = 1 .. Len(s) /\ DOMAIN t = 1 .. Len(t)
        /\ DOMAIN u = 1 .. Len(u)
    BY <1>1, <1>3, Joined
  <2>2. ToSet(u) = ToSet(s) \cup ToSet(t)
    BY <1>1, <1>3, Joined
  <2>3. /\ \A i \in DOMAIN s : u[i] = s[i]
        /\ \A i \in DOMAIN t : u[Len(s) + i] = t[i]
    BY <1>1, <1>3, Joined
  <2> QED BY <1>6, <2>1, <2>2, <2>3
<1>5. u[1] = a /\ u[2] = b /\ u[3] = c /\ u[4] = d
  <2>1. u[1] = s[1] /\ u[2] = s[2] /\ u[2 + 1] = t[1] /\ u[2 + 2] = t[2]
    BY <1>2, <1>4
  <2> QED BY <1>2, <2>1
<1> QED BY <1>4, <1>5

\* A revision is checked before it is inserted.
LEMMA RevisionPart ==
  ASSUME NEW n, IsRow(n), NEW there
  PROVE  Sound(<<Statement("revise", n)>> \o WriteNode(n, there))
<1> PICK a, b, c : /\ a = Statement("revise", n) /\ b = InsertNode(n)
                   /\ c = InsertFact(n, there)
  OBVIOUS
<1>1. /\ a.do = "revise" /\ a.node = n /\ b.do = "insert node"
      /\ c.do = "insert fact" /\ c.node = n
  BY DEF InsertNode, InsertFact, Statement
<1>2. PICK u : Is(u, <<a>>, <<b, c>>)
  BY DEF Is
<1>3. /\ Sequence(u) /\ DOMAIN u = 1 .. 3 /\ Len(u) = 3
      /\ u[1] = a /\ u[2] = b /\ u[3] = c /\ ToSet(u) = {a, b, c}
  BY <1>2, ThreeAt
<1>4. \A k \in DOMAIN u : k = 1 \/ k = 2 \/ k = 3
  BY <1>3
<1>5. \A k \in DOMAIN u : ~Skips(u[k])
  BY <1>1, <1>3, <1>4 DEF Skips
<1>6. \A k \in DOMAIN u : Appends(u[k]) => k = 3
  BY <1>1, <1>3, <1>4 DEF Appends
<1>7. RevisesFirst(u)
  <2>1. 3 > 2 /\ 3 - 2 = 1 /\ 3 - 1 = 2
    OBVIOUS
  <2> QED BY <1>1, <1>3, <1>6, <2>1 DEF RevisesFirst
<1>8. \A x \in ToSet(u) : x.do \in {"insert fact", "revise"} => IsRow(x.node)
  BY <1>1, <1>3
<1>9. u # <<>>
  BY <1>3, EmptySeq
<1>10. Sound(u)
  BY <1>3, <1>5, <1>7, <1>8, <1>9 DEF Sound
<1> QED BY <1>2, <1>10 DEF Is, WriteNode

LEMMA TwoReadsPart ==
  ASSUME NEW n, IsRow(n), n.supersedes = NoId, NEW there
  PROVE  Sound(<<NodeThere(n), FactThere(n)>> \o WriteNode(n, there))
<1> PICK a, b, c, d : /\ a = NodeThere(n) /\ b = FactThere(n)
                      /\ c = InsertNode(n) /\ d = InsertFact(n, there)
  OBVIOUS
<1>1. /\ a.do = "node there" /\ b.do = "fact there" /\ b.skip = 2
      /\ c.do = "insert node" /\ d.do = "insert fact" /\ d.node = n
  BY DEF NodeThere, FactThere, InsertNode, InsertFact, Statement
<1>2. PICK u : Is(u, <<a, b>>, <<c, d>>)
  BY DEF Is
<1>3. /\ Sequence(u) /\ DOMAIN u = 1 .. 4 /\ Len(u) = 4
      /\ u[1] = a /\ u[2] = b /\ u[3] = c /\ u[4] = d
      /\ ToSet(u) = {a, b, c, d}
  BY <1>2, FourAt
<1>4. \A k \in DOMAIN u : k = 1 \/ k = 2 \/ k = 3 \/ k = 4
  BY <1>3
<1>5. \A k \in DOMAIN u : Skips(u[k]) => k = 2
  BY <1>1, <1>3, <1>4 DEF Skips
<1>6. \A k \in DOMAIN u : ~Appends(u[k])
  BY <1>1, <1>3, <1>4 DEF Appends
<1>7. \A x \in ToSet(u) : x.do \in {"insert fact", "revise"} => IsRow(x.node)
  BY <1>1, <1>3
<1>8. u # <<>>
  BY <1>3, EmptySeq
<1>9. u[2].skip \in Nat /\ 2 + u[2].skip <= Len(u)
  <2>1. u[2].skip = 2 /\ Len(u) = 4
    BY <1>1, <1>3
  <2>2. 2 \in Nat /\ 2 + 2 <= 4
    OBVIOUS
  <2> QED BY <2>1, <2>2
<1>10. Sound(u)
  BY <1>3, <1>5, <1>6, <1>7, <1>8, <1>9 DEF Sound, RevisesFirst
<1> QED BY <1>2, <1>10 DEF Is, WriteNode

LEMMA OneReadPart ==
  ASSUME NEW n, IsRow(n), n.supersedes = NoId, NEW there
  PROVE  Sound(<<BothThere(n)>> \o WriteNode(n, there))
<1> PICK a, b, c : /\ a = BothThere(n) /\ b = InsertNode(n)
                   /\ c = InsertFact(n, there)
  OBVIOUS
<1>1. /\ a.do = "both there" /\ a.skip = 2 /\ b.do = "insert node"
      /\ c.do = "insert fact" /\ c.node = n
  BY DEF BothThere, InsertNode, InsertFact, Statement
<1>2. PICK u : Is(u, <<a>>, <<b, c>>)
  BY DEF Is
<1>3. /\ Sequence(u) /\ DOMAIN u = 1 .. 3 /\ Len(u) = 3
      /\ u[1] = a /\ u[2] = b /\ u[3] = c /\ ToSet(u) = {a, b, c}
  BY <1>2, ThreeAt
<1>4. \A k \in DOMAIN u : k = 1 \/ k = 2 \/ k = 3
  BY <1>3
<1>5. \A k \in DOMAIN u : Skips(u[k]) => k = 1
  BY <1>1, <1>3, <1>4 DEF Skips
<1>6. \A k \in DOMAIN u : ~Appends(u[k])
  BY <1>1, <1>3, <1>4 DEF Appends
<1>7. \A x \in ToSet(u) : x.do \in {"insert fact", "revise"} => IsRow(x.node)
  BY <1>1, <1>3
<1>8. u # <<>>
  BY <1>3, EmptySeq
<1>9. u[1].skip \in Nat /\ 1 + u[1].skip <= Len(u)
  <2>1. u[1].skip = 2 /\ Len(u) = 3
    BY <1>1, <1>3
  <2>2. 2 \in Nat /\ 1 + 2 <= 3
    OBVIOUS
  <2> QED BY <2>1, <2>2
<1>10. Sound(u)
  BY <1>3, <1>5, <1>6, <1>7, <1>8, <1>9 DEF Sound, RevisesFirst
<1> QED BY <1>2, <1>10 DEF Is, WriteNode

-----------------------------------------------------------------------------
(* Aggregates.                                                             *)

Inserted(n, type, ids, there, k) ==
  InsertEdge(EdgeRow(n.id, type, ids[k], Current), there)

LEMMA TupleShape ==
  ASSUME NEW ids, IsTuple(ids)
  PROVE  /\ Len(ids) \in Nat /\ Len(ids) >= 1 /\ DOMAIN ids = 1 .. Len(ids)
         /\ ToSet(ids) # {}
<1>1. Sequence(ids) /\ ids # <<>>
  BY DEF IsTuple, Sequence
<1>2. /\ Len(ids) \in Nat /\ DOMAIN ids = 1 .. Len(ids)
      /\ ToSet(ids) = {ids[i] : i \in 1 .. Len(ids)}
  BY <1>1, SequenceShape
<1>3. Len(ids) # 0
  BY <1>1, EmptySeq DEF Sequence
<1>4. 1 \in 1 .. Len(ids)
  BY <1>2, <1>3
<1> QED BY <1>2, <1>3, <1>4

LEMMA EdgesAt ==
  ASSUME NEW n, NEW type, NEW ids, NEW there, NEW e, IsTuple(ids),
         e = [k \in DOMAIN ids |-> Inserted(n, type, ids, there, k)]
  PROVE  /\ Sequence(e) /\ Len(e) = Len(ids) /\ DOMAIN e = 1 .. Len(ids)
         /\ \A k \in 1 .. Len(ids) : e[k] = Inserted(n, type, ids, there, k)
<1>1. Len(ids) \in Nat /\ DOMAIN ids = 1 .. Len(ids)
  BY TupleShape
<1>2. e = [k \in 1 .. Len(ids) |-> Inserted(n, type, ids, there, k)]
  BY <1>1
<1>3. \A k \in 1 .. Len(ids) : Inserted(n, type, ids, there, k) \in ToSet(e)
  BY <1>2 DEF ToSet
<1>4. e \in [1 .. Len(ids) -> ToSet(e)]
  BY <1>2, <1>3
<1>5. e \in Seq(ToSet(e)) /\ Len(e) = Len(ids)
  BY <1>1, <1>4, SeqDef, LenProperties
<1> QED BY <1>2, <1>5 DEF Sequence

LEMMA AggregateAt ==
  ASSUME NEW n, NEW type, NEW ids, NEW there, NEW u, IsTuple(ids),
         u = Aggregate(n, type, ids, there)
  PROVE  /\ Sequence(u) /\ Len(u) = Len(ids) + 2
         /\ DOMAIN u = 1 .. Len(ids) + 2
         /\ u[1] = Existing(n, type, ids)
         /\ u[Len(ids) + 2] = Persisted(n, type, ids)
         /\ \A k \in 1 .. Len(ids) : u[1 + k] = Inserted(n, type, ids, there, k)
<1>1. PICK a, e, b : /\ a = <<Existing(n, type, ids)>>
                     /\ b = <<Persisted(n, type, ids)>>
                     /\ e = [k \in DOMAIN ids |-> Inserted(n, type, ids, there, k)]
  OBVIOUS
<1>2. PICK v : Is(v, a, e)
  BY DEF Is
<1>3. Is(u, v, b)
  BY <1>1, <1>2 DEF Is, Aggregate, Inserted
<1>4. Sequence(a) /\ Sequence(b)
  BY <1>1, Tuples
<1>5. Len(a) = 1 /\ a[1] = Existing(n, type, ids)
  BY <1>1
<1>6. Len(b) = 1 /\ b[1] = Persisted(n, type, ids)
  BY <1>1
<1>7. Sequence(e)
  BY <1>1, EdgesAt
<1>8. /\ Len(e) = Len(ids) /\ DOMAIN e = 1 .. Len(ids)
      /\ \A k \in 1 .. Len(ids) : e[k] = Inserted(n, type, ids, there, k)
  BY <1>1, EdgesAt
<1>9. Sequence(v)
  BY <1>2, <1>4, <1>7, Joined
<1>10. /\ Len(v) = Len(a) + Len(e) /\ DOMAIN a = 1 .. Len(a)
       /\ DOMAIN e = 1 .. Len(e) /\ DOMAIN v = 1 .. Len(v)
  BY <1>2, <1>4, <1>7, Joined
<1>11. /\ \A i \in DOMAIN a : v[i] = a[i]
       /\ \A i \in DOMAIN e : v[Len(a) + i] = e[i]
  BY <1>2, <1>4, <1>7, Joined
<1>12. Sequence(u)
  BY <1>3, <1>4, <1>9, Joined
<1>13. /\ Len(u) = Len(v) + Len(b) /\ DOMAIN b = 1 .. Len(b)
       /\ DOMAIN u = 1 .. Len(u)
  BY <1>3, <1>4, <1>9, Joined
<1>14. /\ \A i \in DOMAIN v : u[i] = v[i]
       /\ \A i \in DOMAIN b : u[Len(v) + i] = b[i]
  BY <1>3, <1>4, <1>9, Joined
<1>15. PICK m \in Nat : m = Len(ids) /\ m >= 1
  BY TupleShape
<1>16. /\ Len(v) = m + 1 /\ Len(u) = m + 2 /\ DOMAIN v = 1 .. m + 1
       /\ DOMAIN u = 1 .. m + 2 /\ DOMAIN a = 1 .. 1 /\ DOMAIN b = 1 .. 1
       /\ DOMAIN e = 1 .. m
  BY <1>5, <1>6, <1>8, <1>10, <1>13, <1>15
<1>17. u[1] = a[1]
  <2>1. 1 \in 1 .. 1 /\ 1 \in 1 .. m + 1
    BY <1>15
  <2> QED BY <1>11, <1>14, <1>16, <2>1
<1>18. u[m + 2] = b[1]
  <2>1. 1 \in 1 .. 1 /\ (m + 1) + 1 = m + 2
    BY <1>15
  <2> QED BY <1>14, <1>16, <2>1
<1>19. ASSUME NEW k \in 1 .. m
       PROVE  u[1 + k] = e[k]
  <2>1. 1 + k \in 1 .. m + 1
    BY <1>15
  <2>2. v[1 + k] = e[k]
    BY <1>5, <1>11, <1>16
  <2> QED BY <1>14, <1>16, <2>1, <2>2
<1> QED BY <1>5, <1>6, <1>8, <1>12, <1>15, <1>16, <1>17, <1>18, <1>19

\* The statements of an aggregate, one by one.
LEMMA AggregateOf ==
  ASSUME NEW n, NEW type, NEW ids, NEW there, NEW u, NEW k \in DOMAIN u,
         IsTuple(ids), u = Aggregate(n, type, ids, there)
  PROVE  \/ k = 1 /\ u[k] = Existing(n, type, ids)
         \/ k = Len(ids) + 2 /\ u[k] = Persisted(n, type, ids)
         \/ /\ k > 1 /\ k < Len(ids) + 2
            /\ u[k] = Inserted(n, type, ids, there, k - 1)
<1>1. PICK m \in Nat : m = Len(ids)
  BY TupleShape
<1>2. /\ k \in 1 .. m + 2
      /\ u[1] = Existing(n, type, ids) /\ u[m + 2] = Persisted(n, type, ids)
      /\ \A h \in 1 .. m : u[1 + h] = Inserted(n, type, ids, there, h)
  BY <1>1, AggregateAt
<1>3. \/ k = 1 \/ k = m + 2
      \/ k > 1 /\ k < m + 2 /\ k - 1 \in 1 .. m /\ 1 + (k - 1) = k
  BY <1>1, <1>2
<1> QED BY <1>1, <1>2, <1>3

LEMMA AggregatePart ==
  ASSUME NEW n, NEW type, NEW ids, NEW there, NEW t, IsTuple(ids),
         t = Aggregate(n, type, ids, there)
  PROVE  Sound(t)
<1>0. Sequence(t) /\ Len(t) = Len(ids) + 2 /\ DOMAIN t = 1 .. Len(ids) + 2
  BY AggregateAt
<1>1. PICK m \in Nat : m = Len(ids)
  BY TupleShape
<1>2. Sequence(t) /\ Len(t) = m + 2 /\ DOMAIN t = 1 .. m + 2
  BY <1>0, <1>1
<1>3. /\ Existing(n, type, ids).do = "existing"
      /\ Existing(n, type, ids).skip = m + 1
      /\ Persisted(n, type, ids).do = "persisted"
      /\ \A k : Inserted(n, type, ids, there, k).do = "insert edge"
  BY <1>1 DEF Existing, Persisted, Inserted, InsertEdge
<1>4. ASSUME NEW k \in DOMAIN t
      PROVE  /\ t[k].do \in {"existing", "persisted", "insert edge"}
             /\ t[k].do = "existing" => k = 1
  <2>1. \/ k = 1 /\ t[k] = Existing(n, type, ids)
        \/ t[k] = Persisted(n, type, ids)
        \/ t[k] = Inserted(n, type, ids, there, k - 1)
    BY AggregateOf
  <2> QED BY <1>3, <2>1
<1>5. \A k \in DOMAIN t : ~Appends(t[k])
  BY <1>4 DEF Appends
<1>6. ASSUME NEW k \in DOMAIN t, Skips(t[k])
      PROVE  t[k].skip \in Nat /\ k + t[k].skip <= Len(t)
  <2>1. k = 1
    BY <1>4, <1>6 DEF Skips
  <2>2. t[1] = Existing(n, type, ids)
    BY AggregateAt
  <2>3. t[k].skip = m + 1
    BY <1>3, <2>1, <2>2
  <2>4. m + 1 \in Nat /\ 1 + (m + 1) <= m + 2
    OBVIOUS
  <2> QED BY <1>2, <2>1, <2>3, <2>4
<1>7. \A x \in ToSet(t) : x.do \notin {"insert fact", "revise"}
  BY <1>4 DEF ToSet
<1>8. t # <<>>
  BY <1>2, EmptySeq
<1> QED BY <1>2, <1>5, <1>6, <1>7, <1>8 DEF Sound, RevisesFirst

\* An aggregate with its source locked before it, in the same transaction.
LEMMA AggregateLocked ==
  ASSUME NEW n, NEW type, NEW ids, NEW there, NEW s, NEW t, NEW u,
         IsTuple(ids), t = Aggregate(n, type, ids, there),
         Guarded(Existing(n, type, ids)),
         Sequence(s), 1 \in DOMAIN s, s[1] = Source(n, TRUE),
         \A k \in DOMAIN s : Elsewhere(s[k]) /\ s[k].do # "commit" /\ ~Skips(s[k]),
         Is(u, s, t)
  PROVE  Locking(u)
<1>1. PICK m \in Nat : m = Len(ids) /\ m >= 1
  BY TupleShape
<1>2. Sequence(t)
  BY AggregateAt
<1>3. Len(t) = m + 2 /\ DOMAIN t = 1 .. m + 2
  <2>1. Len(t) = Len(ids) + 2 /\ DOMAIN t = 1 .. Len(ids) + 2
    BY AggregateAt
  <2> QED BY <1>1, <2>1
<1>4. PICK d \in Nat : d = Len(s) /\ DOMAIN s = 1 .. d
  BY SequenceShape
<1>5. Len(u) = d + (m + 2) /\ DOMAIN u = 1 .. d + (m + 2)
  <2>1. Len(u) = Len(s) + Len(t) /\ DOMAIN u = 1 .. Len(u)
    BY <1>2, Joined
  <2> QED BY <1>3, <1>4, <2>1
<1>6. /\ \A k \in 1 .. d : u[k] = s[k]
      /\ \A k \in 1 .. m + 2 : u[d + k] = t[k]
  <2>1. /\ \A k \in DOMAIN s : u[k] = s[k]
        /\ \A k \in DOMAIN t : u[Len(s) + k] = t[k]
    BY <1>2, Joined
  <2> QED BY <1>3, <1>4, <2>1
<1> DEFINE j == d + 1
           last == d + (m + 2)
<1>7. 1 \in 1 .. d /\ d >= 1
  BY <1>4
<1>8. u[1] = Source(n, TRUE)
  BY <1>6, <1>7
<1>9. t[1] = Existing(n, type, ids) /\ t[m + 2] = Persisted(n, type, ids)
  <2>1. t[1] = Existing(n, type, ids) /\ t[Len(ids) + 2] = Persisted(n, type, ids)
    BY AggregateAt
  <2> QED BY <1>1, <2>1
<1>10. u[j] = Existing(n, type, ids) /\ u[last] = Persisted(n, type, ids)
  <2>1. 1 \in 1 .. m + 2 /\ m + 2 \in 1 .. m + 2
    BY <1>1
  <2> QED BY <1>6, <1>9, <2>1
<1>11. /\ Existing(n, type, ids).do = "existing"
       /\ Existing(n, type, ids).node = n /\ Existing(n, type, ids).type = type
       /\ Existing(n, type, ids).ids = ToSet(ids)
       /\ Existing(n, type, ids).skip = m + 1
       /\ Persisted(n, type, ids).do = "persisted"
       /\ Persisted(n, type, ids) = [do |-> "persisted", node |-> n,
                                     type |-> type, ids |-> ToSet(ids)]
  BY <1>1 DEF Existing, Persisted
<1>12. /\ 1 \in DOMAIN u /\ j \in DOMAIN u /\ last \in DOMAIN u
       /\ 1 < j /\ j < last /\ last = j + (m + 1)
  BY <1>1, <1>5, <1>7
<1>13. last = j + u[j].skip
  BY <1>10, <1>11, <1>12
<1>14. ToSet(ids) # {}
  BY TupleShape
<1>15. ASSUME NEW k \in DOMAIN u
       PROVE  \/ k \in 1 .. d /\ u[k] = s[k]
              \/ k = j
              \/ k = last
              \/ /\ j < k /\ k < last
                 /\ u[k] = Inserted(n, type, ids, there, k - d - 1)
  <2>1. k \in Int
    BY <1>5
  <2>2. CASE k <= d
    BY <1>5, <1>6, <2>2
  <2>3. CASE k > d
    <3>1. PICK h : h = k - d
      OBVIOUS
    <3>2. h \in 1 .. m + 2 /\ k = d + h
      BY <1>5, <2>1, <2>3, <3>1
    <3>3. u[k] = t[h]
      BY <1>6, <3>2
    <3>4. h \in DOMAIN t
      BY <1>3, <3>2
    <3>5. \/ h = 1
          \/ h = Len(ids) + 2
          \/ h > 1 /\ h < Len(ids) + 2 /\ t[h] = Inserted(n, type, ids, there, h - 1)
      BY <3>4, AggregateOf
    <3>6. /\ h = 1 => k = j
          /\ h = m + 2 => k = last
          /\ h > 1 => j < k
          /\ h < m + 2 => k < last
          /\ h - 1 = k - d - 1
      BY <2>1, <3>2
    <3> QED BY <1>1, <3>3, <3>5, <3>6
  <2> QED BY <2>1, <2>2, <2>3
<1> HIDE DEF j, last
<1>16. ASSUME NEW k
       PROVE  /\ Inserted(n, type, ids, there, k).do = "insert edge"
              /\ Inserted(n, type, ids, there, k).edge =
                   [f \in EdgeFields |-> Inserted(n, type, ids, there, k).edge[f]]
              /\ KeyOf(Inserted(n, type, ids, there, k).edge) = <<n.id, type>>
  BY DEF Inserted, InsertEdge, EdgeRow, EdgeFields, KeyOf
<1>17. Key(u[j]) = <<n.id, type>>
  BY <1>10, <1>11 DEF Key
<1>18. ASSUME NEW k \in DOMAIN u
       PROVE  /\ u[k].do \in {"walk up", "candidates", "lineage"} => FALSE
              /\ u[k].do = "existing" => k = j
              /\ u[k].do = "commit" => k < 1 \/ k > last
              /\ Skips(u[k]) /\ k # j => last < k \/ k + u[k].skip + 1 <= 1
              /\ u[k].do = "insert edge" =>
                   /\ u[k].edge = [f \in EdgeFields |-> u[k].edge[f]]
                   /\ KeyOf(u[k].edge) = Key(u[j])
                   /\ j < k /\ k < last
  <2>1. CASE k \in 1 .. d /\ u[k] = s[k]
    <3>1. Elsewhere(s[k]) /\ s[k].do # "commit" /\ ~Skips(s[k])
      BY <1>4, <2>1
    <3> QED BY <2>1, <3>1 DEF Elsewhere, Noted
  <2>2. CASE k = j
    BY <1>10, <1>11, <2>2 DEF Skips
  <2>3. CASE k = last
    BY <1>10, <1>11, <2>3 DEF Skips
  <2>4. CASE /\ j < k /\ k < last
             /\ u[k] = Inserted(n, type, ids, there, k - d - 1)
    BY <1>16, <1>17, <2>4 DEF Skips
  <2> QED BY <1>15, <2>1, <2>2, <2>3, <2>4
<1>19. Locked(u, 1, j, last)
  <2>1. Guarded(u[j]) /\ u[j].ids # {} /\ u[1] = Source(u[j].node, TRUE)
    BY <1>8, <1>10, <1>11, <1>14
  <2>2. u[last] = [do |-> "persisted", node |-> u[j].node, type |-> u[j].type,
                   ids |-> u[j].ids]
    BY <1>10, <1>11
  <2> QED BY <1>12, <1>13, <1>18, <2>1, <2>2 DEF Locked
<1> QED BY <1>12, <1>19 DEF Locking
-----------------------------------------------------------------------------
(* Programs: what the parts of the request r do to edges.                  *)

Open    == {"AFFECTS", "SUPPORTED_BY", "CONTRADICTED_BY"}
Valuing == {"add_valuation_dependencies", "persist_verified_valuation",
            "execute_valuation"}

\* Edges of a type nobody locks a source for, or of a recommendation.
Loose(s, r) ==
  \A x \in ToSet(s) :
    /\ ~Guarded(x)
    /\ x.do = "insert edge" =>
         /\ x.edge = [f \in EdgeFields |-> x.edge[f]]
         /\ \/ x.edge.type \in Open
            \/ /\ x.edge.type = "DEPENDS_ON" /\ x.edge.source = r.node.id
               /\ r.op = "add_recommendation_dependencies"

\* One locked aggregate: inputs, estimates, or what a valuation depends on.
Tight(s, r) ==
  /\ Locking(s) /\ r.op \notin Stamped
  /\ \A x \in ToSet(s) : Guarded(x) =>
       \/ x.type \in {"CONTAINS", "DERIVED_FROM"}
       \/ x.type = "DEPENDS_ON" /\ r.op \in Valuing /\ x.node = r.node

Part(s, r)    == Sound(s) /\ (Loose(s, r) \/ Tight(s, r))
Fitting(s, r) == Part(s, r) /\ SkipsRevisions(s)
Still(s)      == Sound(s) /\ Quiet(s)

LEMMA SoundElements ==
  ASSUME NEW s, NEW t, Sound(s), Sound(t)
  PROVE  Sound(s \o t) /\ ToSet(s \o t) = ToSet(s) \cup ToSet(t)
<1>1. Sequence(s) /\ Sequence(t)
  BY DEF Sound
<1>2. ToSet(s \o t) = ToSet(s) \cup ToSet(t)
  BY <1>1, ElementsJoined
<1> QED BY <1>2, SoundJoined

LEMMA QuietIsLoose ==
  ASSUME NEW s, NEW r, Quiet(s)
  PROVE  Loose(s, r) /\ \A x \in ToSet(s) : ~Guarded(x)
BY DEF Quiet, Loose, Guarded

LEMMA StillIsPart ==
  ASSUME NEW s, NEW r, Still(s)
  PROVE  Part(s, r)
BY QuietIsLoose DEF Still, Part

LEMMA StillJoined ==
  ASSUME NEW s, NEW t, Still(s), Still(t)
  PROVE  Still(s \o t)
<1>1. Sound(s \o t) /\ ToSet(s \o t) = ToSet(s) \cup ToSet(t)
  BY SoundElements DEF Still
<1>2. Quiet(s) /\ Quiet(t)
  BY DEF Still
<1>3. Quiet(s \o t)
  BY <1>1, <1>2 DEF Quiet
<1> QED BY <1>1, <1>3 DEF Still

LEMMA StillBefore ==
  ASSUME NEW s, NEW t, NEW r, Still(s), Part(t, r)
  PROVE  Part(s \o t, r)
<1>1. Sound(s) /\ Quiet(s) /\ Sound(t)
  BY DEF Still, Part
<1>2. PICK u : u = s \o t
  OBVIOUS
<1>3. Sound(u) /\ ToSet(u) = ToSet(s) \cup ToSet(t)
  BY <1>1, <1>2, SoundElements
<1>4. Loose(s, r) /\ \A x \in ToSet(s) : ~Guarded(x)
  BY <1>1, QuietIsLoose
<1>5. CASE Loose(t, r)
  <2>1. Loose(u, r)
    BY <1>3, <1>4, <1>5 DEF Loose
  <2> QED BY <1>2, <1>3, <2>1 DEF Part
<1>6. CASE Tight(t, r)
  <2>1. Locking(t)
    BY <1>6 DEF Tight
  <2>2. Locking(u)
    BY <1>1, <1>2, <2>1, LockingAfter
  <2>3. Tight(u, r)
    BY <1>3, <1>4, <1>6, <2>2 DEF Tight
  <2> QED BY <1>2, <1>3, <2>3 DEF Part
<1> QED BY <1>5, <1>6 DEF Part

LEMMA StillAfter ==
  ASSUME NEW s, NEW t, NEW r, Part(s, r), Still(t)
  PROVE  Part(s \o t, r)
<1>1. Sound(t) /\ Quiet(t) /\ Sound(s)
  BY DEF Still, Part
<1>2. PICK u : u = s \o t
  OBVIOUS
<1>3. Sound(u) /\ ToSet(u) = ToSet(s) \cup ToSet(t)
  BY <1>1, <1>2, SoundElements
<1>4. Loose(t, r) /\ \A x \in ToSet(t) : ~Guarded(x)
  BY <1>1, QuietIsLoose
<1>5. CASE Loose(s, r)
  <2>1. Loose(u, r)
    BY <1>3, <1>4, <1>5 DEF Loose
  <2> QED BY <1>2, <1>3, <2>1 DEF Part
<1>6. CASE Tight(s, r)
  <2>1. Locking(s)
    BY <1>6 DEF Tight
  <2>2. Locking(u)
    BY <1>1, <1>2, <2>1, LockingBefore
  <2>3. Tight(u, r)
    BY <1>3, <1>4, <1>6, <2>2 DEF Tight
  <2> QED BY <1>2, <1>3, <2>3 DEF Part
<1> QED BY <1>5, <1>6 DEF Part

\* A program ends in statements that nothing before them skips.
LEMMA Continued ==
  ASSUME NEW s, NEW t, Sound(s), Sound(t), SkipsRevisions(t)
  PROVE  SkipsRevisions(s \o t)
<1>1. PICK u : Is(u, s, t)
  BY DEF Is
<1>2. Sequence(s) /\ Sequence(t) /\ t # <<>>
  BY DEF Sound
<1>3. /\ Len(u) = Len(s) + Len(t) /\ Len(s) \in Nat /\ Len(t) \in Nat
      /\ DOMAIN s = 1 .. Len(s) /\ DOMAIN t = 1 .. Len(t)
      /\ DOMAIN u = 1 .. Len(u)
  BY <1>1, <1>2, Joined
<1>4. Len(t) # 0
  BY <1>2, EmptySeq DEF Sequence
<1>5. ASSUME NEW k \in DOMAIN u, Skips(u[k])
      PROVE  k + u[k].skip < Len(u)
  <2>1. CASE k \in DOMAIN s /\ u[k] = s[k]
    <3>1. s[k].skip \in Nat /\ k + s[k].skip <= Len(s)
      BY <1>5, <2>1, SoundSkips
    <3>2. k \in Int
      BY <1>3, <2>1
    <3> QED BY <1>3, <1>4, <2>1, <3>1, <3>2
  <2>2. CASE k > Len(s) /\ k - Len(s) \in DOMAIN t /\ u[k] = t[k - Len(s)]
    <3>1. PICK h : h = k - Len(s)
      OBVIOUS
    <3>2. h \in DOMAIN t /\ u[k] = t[h]
      BY <2>2, <3>1
    <3>3. t[h].skip \in Nat /\ h + t[h].skip < Len(t)
      BY <1>5, <3>2 DEF SkipsRevisions
    <3>4. PICK m \in Nat : m = t[h].skip
      BY <3>3
    <3>5. k \in Int /\ h \in Int
      BY <1>3, <3>2
    <3>6. k + m < Len(s) + Len(t)
      BY <1>3, <3>1, <3>3, <3>4, <3>5
    <3> QED BY <1>3, <3>2, <3>4, <3>6
  <2> QED BY <1>1, <1>2, <2>1, <2>2, JoinedAt
<1>6. \A k \in DOMAIN u : Skips(u[k]) =>
        /\ u[k].skip \in Nat
        /\ \A i \in DOMAIN u : Appends(u[i]) =>
             k + u[k].skip + 1 \notin {i - 1, i}
  BY <1>1, JoinedSkips
<1>7. SkipsRevisions(u)
  BY <1>5, <1>6 DEF SkipsRevisions
<1> QED BY <1>1, <1>7 DEF Is

LEMMA WithoutSkips ==
  ASSUME NEW s, \A x \in ToSet(s) : ~Skips(x)
  PROVE  SkipsRevisions(s)
BY DEF SkipsRevisions, ToSet

LEMMA CommitFits == Still(Commit) /\ SkipsRevisions(Commit)
<1>1. PICK c : c = [do |-> "commit"]
  OBVIOUS
<1>2. Commit = <<c>> /\ c.do = "commit"
  BY <1>1 DEF Commit
<1>3. ToSet(<<c>>) = {c}
  BY Tuples
<1>4. Sound(<<c>>)
  BY <1>2, PlainParts DEF Plain
<1>5. Quiet(<<c>>) /\ SkipsRevisions(<<c>>)
  BY <1>2, <1>3, WithoutSkips DEF Quiet, Skips
<1> QED BY <1>2, <1>4, <1>5 DEF Still

LEMMA Commits ==
  ASSUME NEW s, NEW r, Part(s, r)
  PROVE  Fitting(s \o Commit, r)
<1>1. Still(Commit) /\ SkipsRevisions(Commit)
  BY CommitFits
<1>2. Part(s \o Commit, r)
  BY <1>1, StillAfter
<1>3. Sound(s) /\ Sound(Commit)
  BY <1>1 DEF Part, Still
<1>4. SkipsRevisions(s \o Commit)
  BY <1>1, <1>3, Continued
<1> QED BY <1>2, <1>4 DEF Fitting

LEMMA Preceded ==
  ASSUME NEW s, NEW t, NEW r, Still(s), Fitting(t, r)
  PROVE  Fitting(s \o t, r)
<1>1. Part(t, r) /\ SkipsRevisions(t)
  BY DEF Fitting
<1>2. Part(s \o t, r)
  BY <1>1, StillBefore
<1>3. Sound(s) /\ Sound(t)
  BY <1>1 DEF Part, Still
<1>4. SkipsRevisions(s \o t)
  BY <1>1, <1>3, Continued
<1> QED BY <1>2, <1>4 DEF Fitting
-----------------------------------------------------------------------------
(* The parts of the operations.                                            *)

LEMMA QuietTuples ==
  ASSUME NEW a, NEW b, NEW c, Elsewhere(a), Elsewhere(b), Elsewhere(c)
  PROVE  Quiet(<<a>>) /\ Quiet(<<a, b>>) /\ Quiet(<<a, b, c>>)
<1>1. ToSet(<<a>>) = {a} /\ ToSet(<<a, b>>) = {a, b} /\ ToSet(<<a, b, c>>) = {a, b, c}
  BY Tuples
<1> QED BY <1>1 DEF Quiet, Elsewhere, Noted

LEMMA StillTuples ==
  ASSUME NEW a, NEW b, NEW c, Plain(a), Plain(b), Plain(c),
         Elsewhere(a), Elsewhere(b), Elsewhere(c)
  PROVE  Still(<<a>>) /\ Still(<<a, b>>) /\ Still(<<a, b, c>>)
BY QuietTuples, PlainParts DEF Still

LEMMA QuietJoined ==
  ASSUME NEW s, NEW t, Sequence(s), Sequence(t), Quiet(s), Quiet(t)
  PROVE  Quiet(s \o t)
<1>1. ToSet(s \o t) = ToSet(s) \cup ToSet(t)
  BY ElementsJoined
<1> QED BY <1>1 DEF Quiet

LEMMA QuietWrite ==
  ASSUME NEW n, NEW there
  PROVE  /\ Quiet(WriteNode(n, there)) /\ Sequence(WriteNode(n, there))
         /\ Quiet(<<Statement("revise", n)>>) /\ Sequence(<<Statement("revise", n)>>)
         /\ Quiet(<<NodeThere(n), FactThere(n)>>)
         /\ Sequence(<<NodeThere(n), FactThere(n)>>)
         /\ Quiet(<<BothThere(n)>>) /\ Sequence(<<BothThere(n)>>)
<1>1. /\ Elsewhere(InsertNode(n)) /\ Elsewhere(InsertFact(n, there))
      /\ Elsewhere(Statement("revise", n)) /\ Elsewhere(NodeThere(n))
      /\ Elsewhere(FactThere(n)) /\ Elsewhere(BothThere(n))
  BY DEF Elsewhere, Noted, InsertNode, InsertFact, Statement, NodeThere,
         FactThere, BothThere
<1> QED BY <1>1, QuietTuples, Tuples DEF WriteNode

\* A node that replaces nothing, written as each operation writes it.
LEMMA NewNode ==
  ASSUME NEW n, NEW there, IsRow(n), n.supersedes = NoId
  PROVE  /\ Still(WriteNode(n, there))
         /\ Still(<<NodeThere(n), FactThere(n)>> \o WriteNode(n, there))
         /\ Still(<<BothThere(n)>> \o WriteNode(n, there))
<1>1. Still(WriteNode(n, there))
  BY FreshPart, QuietWrite DEF Still
<1>2. Sound(<<NodeThere(n), FactThere(n)>> \o WriteNode(n, there))
  BY TwoReadsPart
<1>3. Quiet(<<NodeThere(n), FactThere(n)>> \o WriteNode(n, there))
  BY QuietWrite, QuietJoined
<1>4. Sound(<<BothThere(n)>> \o WriteNode(n, there))
  BY OneReadPart
<1>5. Quiet(<<BothThere(n)>> \o WriteNode(n, there))
  BY QuietWrite, QuietJoined
<1> QED BY <1>1, <1>2, <1>3, <1>4, <1>5 DEF Still

\* A node that may replace another.
LEMMA RevisedNode ==
  ASSUME NEW n, NEW there, IsRow(n)
  PROVE  /\ Still(ValidateRevisionAppend(n) \o WriteNode(n, there))
         /\ Still(ValidateMetricRevisionAppend(n) \o WriteNode(n, there))
<1>1. ValidateRevisionAppend(n) = ValidateMetricRevisionAppend(n)
  BY DEF ValidateRevisionAppend, ValidateMetricRevisionAppend
<1>2. CASE n.supersedes = NoId
  <2>1. ValidateRevisionAppend(n) = <<>>
    BY <1>2 DEF ValidateRevisionAppend
  <2>2. PICK w : w = WriteNode(n, there)
    OBVIOUS
  <2>3. w \in Seq(ToSet(w))
    BY <2>2, QuietWrite DEF Sequence
  <2>4. <<>> \o w = w
    BY <2>3, ConcatEmptySeq
  <2>5. Still(w)
    BY <1>2, <2>2, NewNode
  <2> QED BY <1>1, <2>1, <2>2, <2>4, <2>5
<1>3. CASE n.supersedes # NoId
  <2>1. ValidateRevisionAppend(n) = <<Statement("revise", n)>>
    BY <1>3 DEF ValidateRevisionAppend
  <2>2. Sound(<<Statement("revise", n)>> \o WriteNode(n, there))
    BY RevisionPart
  <2>3. Quiet(<<Statement("revise", n)>> \o WriteNode(n, there))
    BY QuietWrite, QuietJoined
  <2> QED BY <1>1, <2>1, <2>2, <2>3 DEF Still
<1> QED BY <1>2, <1>3

\* A link to evidence.
LEMMA LinkPart ==
  ASSUME NEW e, NEW kind, NEW r, IsLink(e)
  PROVE  Part(<<Endpoints(e, kind), InsertEdge(e, "compare")>>, r)
<1>1. PICK a, b : a = Endpoints(e, kind) /\ b = InsertEdge(e, "compare")
  OBVIOUS
<1>2. a.do = "endpoints" /\ b.do = "insert edge" /\ b.edge = e
  BY <1>1 DEF Endpoints, InsertEdge
<1>3. Sound(<<a, b>>)
  BY <1>2, PlainParts DEF Plain
<1>4. ToSet(<<a, b>>) = {a, b}
  BY Tuples
<1>5. e = [f \in EdgeFields |-> e[f]] /\ e.type \in Open
  BY DEF IsLink, Open
<1>6. Loose(<<a, b>>, r)
  BY <1>2, <1>4, <1>5 DEF Loose, Guarded
<1> QED BY <1>1, <1>3, <1>6 DEF Part

\* An aggregate without a lock of its source.
LEMMA LoosePart ==
  ASSUME NEW n, NEW type, NEW ids, NEW there, NEW r, IsTuple(ids),
         n.kind # "Valuation",
         \/ type = "AFFECTS"
         \/ /\ type = "DEPENDS_ON" /\ n = r.node
            /\ r.op = "add_recommendation_dependencies"
  PROVE  Part(Aggregate(n, type, ids, there), r)
<1>1. PICK t : t = Aggregate(n, type, ids, there)
  OBVIOUS
<1>2. ASSUME NEW k \in DOMAIN t
      PROVE  \/ t[k] = Existing(n, type, ids)
             \/ t[k] = Persisted(n, type, ids)
             \/ t[k] = Inserted(n, type, ids, there, k - 1)
  BY <1>1, AggregateOf
<1>3. /\ ~Guarded(Existing(n, type, ids))
      /\ Existing(n, type, ids).do # "insert edge"
  BY DEF Existing, Guarded
<1>4. /\ ~Guarded(Persisted(n, type, ids))
      /\ Persisted(n, type, ids).do # "insert edge"
  BY DEF Persisted, Guarded
<1>5. ASSUME NEW k
      PROVE  /\ ~Guarded(Inserted(n, type, ids, there, k))
             /\ Inserted(n, type, ids, there, k).edge =
                  [f \in EdgeFields |-> Inserted(n, type, ids, there, k).edge[f]]
             /\ Inserted(n, type, ids, there, k).edge.type = type
             /\ Inserted(n, type, ids, there, k).edge.source = n.id
  BY DEF Inserted, InsertEdge, EdgeRow, EdgeFields, Guarded
<1>6. type \in Open \/ (/\ type = "DEPENDS_ON" /\ n = r.node
                        /\ r.op = "add_recommendation_dependencies")
  BY DEF Open
<1>7. Loose(t, r)
  <2>1. ASSUME NEW x \in ToSet(t)
        PROVE  /\ ~Guarded(x)
               /\ x.do = "insert edge" =>
                    /\ x.edge = [f \in EdgeFields |-> x.edge[f]]
                    /\ \/ x.edge.type \in Open
                       \/ /\ x.edge.type = "DEPENDS_ON"
                          /\ x.edge.source = r.node.id
                          /\ r.op = "add_recommendation_dependencies"
    <3>1. PICK k \in DOMAIN t : x = t[k]
      BY DEF ToSet
    <3>2. CASE x = Existing(n, type, ids)
      BY <1>3, <3>2
    <3>3. CASE x = Persisted(n, type, ids)
      BY <1>4, <3>3
    <3>4. CASE x = Inserted(n, type, ids, there, k - 1)
      BY <1>5, <1>6, <3>4
    <3> QED BY <1>2, <3>1, <3>2, <3>3, <3>4
  <2> QED BY <2>1 DEF Loose
<1>8. Sound(t)
  BY <1>1, AggregatePart
<1> QED BY <1>1, <1>7, <1>8 DEF Part

\* An aggregate with its source locked first.
LEMMA TightPart ==
  ASSUME NEW n, NEW type, NEW ids, NEW there, NEW r, NEW s, IsTuple(ids),
         \/ type \in {"CONTAINS", "DERIVED_FROM"}
         \/ /\ type = "DEPENDS_ON" /\ n = r.node /\ n.kind = "Valuation"
            /\ r.op \in Valuing,
         r.op \notin Stamped,
         Sound(s), 1 \in DOMAIN s, s[1] = Source(n, TRUE),
         \A k \in DOMAIN s : Elsewhere(s[k]) /\ s[k].do # "commit" /\ ~Skips(s[k])
  PROVE  Part(s \o Aggregate(n, type, ids, there), r)
<1>1. PICK t : t = Aggregate(n, type, ids, there)
  OBVIOUS
<1>2. PICK u : Is(u, s, t)
  BY DEF Is
<1>3. Sequence(s)
  BY DEF Sound
<1>4. Guarded(Existing(n, type, ids))
  BY DEF Existing, Guarded
<1>5. Locking(u)
  BY <1>1, <1>2, <1>3, <1>4, AggregateLocked
<1>6. Sound(t)
  BY <1>1, AggregatePart
<1>7. Sound(u) /\ ToSet(u) = ToSet(s) \cup ToSet(t)
  BY <1>2, <1>6, SoundElements DEF Is
<1>8. \A x \in ToSet(s) : ~Guarded(x)
  BY DEF ToSet, Guarded, Elsewhere, Noted
<1>9. ASSUME NEW x \in ToSet(t), Guarded(x)
      PROVE  x.node = n /\ x.type = type
  <2>1. PICK k \in DOMAIN t : x = t[k]
    BY DEF ToSet
  <2>2. \/ x = Existing(n, type, ids)
        \/ x = Persisted(n, type, ids)
        \/ x = Inserted(n, type, ids, there, k - 1)
    BY <1>1, <2>1, AggregateOf
  <2>3. /\ Existing(n, type, ids).node = n /\ Existing(n, type, ids).type = type
        /\ Persisted(n, type, ids).do = "persisted"
        /\ Inserted(n, type, ids, there, k - 1).do = "insert edge"
    BY DEF Existing, Persisted, Inserted, InsertEdge
  <2>4. x.do = "existing"
    BY <1>9 DEF Guarded
  <2> QED BY <2>2, <2>3, <2>4
<1>10. Tight(u, r)
  BY <1>5, <1>7, <1>8, <1>9 DEF Tight
<1> QED BY <1>1, <1>2, <1>7, <1>10 DEF Part, Is

\* The source is read, the targets are, and then the aggregate is written.
LEMMA SourcePart ==
  ASSUME NEW n, NEW ids, NEW kinds, NEW rule, NEW lock
  PROVE  Still(<<Source(n, lock), Fit(n, ids, kinds, rule)>>)
<1>1. PICK a, b : a = Source(n, lock) /\ b = Fit(n, ids, kinds, rule)
  OBVIOUS
<1>2. a.do = "source" /\ b.do = "fit"
  BY <1>1 DEF Source, Fit
<1>3. Still(<<a, b>>)
  BY <1>2, StillTuples DEF Plain, Elsewhere, Noted
<1> QED BY <1>1, <1>3

LEMMA LockedPart ==
  ASSUME NEW n, NEW type, NEW ids, NEW there, NEW r, NEW kinds, NEW rule,
         IsTuple(ids),
         \/ type \in {"CONTAINS", "DERIVED_FROM"}
         \/ /\ type = "DEPENDS_ON" /\ n = r.node /\ n.kind = "Valuation"
            /\ r.op \in Valuing,
         r.op \notin Stamped
  PROVE  /\ Part(<<Source(n, TRUE), Fit(n, ids, kinds, rule)>>
                 \o Aggregate(n, type, ids, there), r)
         /\ Part(<<Source(n, TRUE), Fit(n, ids, kinds, rule), Acyclic(n, ids)>>
                 \o Aggregate(n, type, ids, there), r)
<1>1. PICK a, b, c : /\ a = Source(n, TRUE) /\ b = Fit(n, ids, kinds, rule)
                     /\ c = Acyclic(n, ids)
  OBVIOUS
<1>2. a.do = "source" /\ b.do = "fit" /\ c.do = "acyclic"
  BY <1>1 DEF Source, Fit, Acyclic
<1>3. ASSUME NEW s, Sound(s), 1 \in DOMAIN s, s[1] = a,
             \A k \in DOMAIN s : s[k] \in {a, b, c}
      PROVE  Part(s \o Aggregate(n, type, ids, there), r)
  <2>1. \A k \in DOMAIN s :
          Elsewhere(s[k]) /\ s[k].do # "commit" /\ ~Skips(s[k])
    BY <1>2, <1>3 DEF Elsewhere, Noted, Skips
  <2>2. s[1] = Source(n, TRUE)
    BY <1>1, <1>3
  <2> QED BY <1>3, <2>1, <2>2, TightPart
<1>4. Sound(<<a, b>>) /\ Sound(<<a, b, c>>)
  BY <1>2, PlainParts DEF Plain
<1>5. /\ 1 \in DOMAIN <<a, b>> /\ <<a, b>>[1] = a
      /\ 1 \in DOMAIN <<a, b, c>> /\ <<a, b, c>>[1] = a
  OBVIOUS
<1>6. /\ \A k \in DOMAIN <<a, b>> : <<a, b>>[k] \in {a, b, c}
      /\ \A k \in DOMAIN <<a, b, c>> : <<a, b, c>>[k] \in {a, b, c}
  OBVIOUS
<1>7. Part(<<a, b>> \o Aggregate(n, type, ids, there), r)
  BY <1>3, <1>4, <1>5, <1>6
<1>8. Part(<<a, b, c>> \o Aggregate(n, type, ids, there), r)
  BY <1>3, <1>4, <1>5, <1>6
<1> QED BY <1>1, <1>7, <1>8
-----------------------------------------------------------------------------
(* The operations.                                                         *)

LEMMA StillCommits ==
  ASSUME NEW s, NEW r, Still(s)
  PROVE  Fitting(s \o Commit, r)
BY StillIsPart, Commits

\* An operation that adds a node.
LEMMA AddingFits ==
  ASSUME NEW r, NEW t, IsRequest(r), r.op \in DOMAIN Adding
  PROVE  Fitting(Perform(r, t), r)
<1>1. IsRowOf(r.node, Adding[r.op])
  BY DEF IsRequest, Adding, Relating
<1>2. PICK n : n = r.node
  OBVIOUS
<1>3. IsRow(n)
  BY <1>1, <1>2 DEF IsRowOf
<1>4. n.kind \notin {"Evidence", "Metric"} => n.supersedes = NoId
  BY <1>3 DEF IsRow
<1>5. n.kind = Adding[r.op]
  BY <1>1, <1>2 DEF IsRowOf
<1>6. CASE r.op = "add_security"
  <2>1. Perform(r, t) = <<InsertNode(n)>> \o Commit
    BY <1>2, <1>6 DEF Perform, AddSecurity
  <2>2. Still(<<InsertNode(n)>>)
    <3>1. PICK a : a = InsertNode(n)
      OBVIOUS
    <3>2. Plain(a) /\ Elsewhere(a)
      BY <3>1 DEF Plain, Elsewhere, Noted, InsertNode, Statement
    <3> QED BY <3>1, <3>2, StillTuples
  <2> QED BY <2>1, <2>2, StillCommits
<1>7. CASE r.op = "add_claim"
  <2>1. Perform(r, t) = WriteNode(n, "compare") \o Commit
    BY <1>2, <1>7 DEF Perform, AddClaim
  <2>2. n.supersedes = NoId
    BY <1>4, <1>5, <1>7 DEF Adding
  <2> QED BY <1>3, <2>1, <2>2, NewNode, StillCommits
<1>8. CASE r.op = "add_evidence"
  <2>1. Perform(r, t) = ValidateRevisionAppend(n) \o WriteNode(n, "compare")
                        \o Commit
    BY <1>2, <1>8 DEF Perform, AddEvidence
  <2> QED BY <1>3, <2>1, RevisedNode, StillCommits
<1>9. CASE r.op = "add_metric"
  <2>1. Perform(r, t) = ValidateMetricRevisionAppend(n) \o WriteNode(n, "compare")
                        \o Commit
    BY <1>2, <1>9 DEF Perform, AddMetric
  <2> QED BY <1>3, <2>1, RevisedNode, StillCommits
<1>10. ASSUME n.supersedes = NoId
       PROVE  Fitting(AddInTwoReads(n), r)
  BY <1>3, <1>10, NewNode, StillCommits DEF AddInTwoReads
<1>11. ASSUME n.supersedes = NoId
       PROVE  Fitting(AddInOneRead(n) \o Commit, r)
  BY <1>3, <1>11, NewNode, StillCommits DEF AddInOneRead
<1>12. CASE r.op = "add_estimate"
  <2>1. Perform(r, t) = AddInTwoReads(n)
    BY <1>2, <1>12 DEF Perform, AddEstimate
  <2>2. n.supersedes = NoId
    BY <1>4, <1>5, <1>12 DEF Adding
  <2> QED BY <1>10, <2>1, <2>2
<1>13. CASE r.op = "add_catalyst"
  <2>1. Perform(r, t) = AddInTwoReads(n)
    BY <1>2, <1>13 DEF Perform, AddCatalyst
  <2>2. n.supersedes = NoId
    BY <1>4, <1>5, <1>13 DEF Adding
  <2> QED BY <1>10, <2>1, <2>2
<1>14. CASE r.op = "add_catalyst_impact"
  <2>1. Perform(r, t) = AddInTwoReads(n)
    BY <1>2, <1>14 DEF Perform, AddCatalystImpact
  <2>2. n.supersedes = NoId
    BY <1>4, <1>5, <1>14 DEF Adding
  <2> QED BY <1>10, <2>1, <2>2
<1>15. CASE r.op = "add_forecast"
  <2>1. Perform(r, t) = AddInTwoReads(n)
    BY <1>2, <1>15 DEF Perform, AddForecast
  <2>2. n.supersedes = NoId
    BY <1>4, <1>5, <1>15 DEF Adding
  <2> QED BY <1>10, <2>1, <2>2
<1>16. CASE r.op = "add_calculation"
  <2>1. Perform(r, t) = AddInTwoReads(n)
    BY <1>2, <1>16 DEF Perform, AddCalculation
  <2>2. n.supersedes = NoId
    BY <1>4, <1>5, <1>16 DEF Adding
  <2> QED BY <1>10, <2>1, <2>2
<1>17. CASE r.op = "add_risk"
  <2>1. Perform(r, t) = AddInOneRead(n) \o Commit
    BY <1>2, <1>17 DEF Perform, AddRisk
  <2>2. n.supersedes = NoId
    BY <1>4, <1>5, <1>17 DEF Adding
  <2> QED BY <1>11, <2>1, <2>2
<1>18. CASE r.op = "add_recommendation"
  <2>1. Perform(r, t) = AddInOneRead(n) \o Commit
    BY <1>2, <1>18 DEF Perform, AddRecommendation
  <2>2. n.supersedes = NoId
    BY <1>4, <1>5, <1>18 DEF Adding
  <2> QED BY <1>11, <2>1, <2>2
<1>19. CASE r.op = "add_valuation"
  <2>1. Perform(r, t) = AddInOneRead(n) \o Commit
    BY <1>2, <1>19 DEF Perform, AddValuation
  <2>2. n.supersedes = NoId
    BY <1>4, <1>5, <1>19 DEF Adding
  <2> QED BY <1>11, <2>1, <2>2
<1> QED
  BY <1>6, <1>7, <1>8, <1>9, <1>12, <1>13, <1>14, <1>15, <1>16, <1>17, <1>18, <1>19
  DEF Adding

LEMMA RelatingKind ==
  ASSUME NEW r, IsRequest(r), r.op \in DOMAIN Relating
  PROVE  r.node.kind = Relating[r.op]
BY DEF IsRequest, Adding, Relating, IsRowOf

\* An operation that adds an aggregate to a node.
LEMMA RelatingFits ==
  ASSUME NEW r, NEW t, IsRequest(r), r.op \in DOMAIN Relating
  PROVE  Fitting(Perform(r, t), r)
<1>1. IsRowOf(r.node, Relating[r.op]) /\ IsTuple(r.ids)
  BY DEF IsRequest, Adding, Relating
<1>2. PICK n, ids : n = r.node /\ ids = r.ids
  OBVIOUS
<1>3. IsRow(n) /\ IsTuple(ids) /\ n.kind = Relating[r.op]
  BY <1>1, <1>2 DEF IsRowOf
<1>4. r.op \notin Stamped
  BY DEF Relating, Stamped
<1>5. CASE r.op = "add_catalyst_affects"
  <2>1. Perform(r, t) =
          <<Source(n, FALSE), Fit(n, ids, {"Claim", "Forecast"}, "any")>>
          \o Aggregate(n, "AFFECTS", ids, "refuse") \o Commit
    BY <1>2, <1>5 DEF Perform, AddCatalystAffects
  <2>2. n.kind # "Valuation"
    BY <1>3, <1>5 DEF Relating
  <2>3. Part(Aggregate(n, "AFFECTS", ids, "refuse"), r)
    BY <1>3, <2>2, LoosePart
  <2> QED BY <2>1, <2>3, SourcePart, StillBefore, Commits
<1>6. CASE r.op = "add_risk_affects"
  <2>1. Perform(r, t) =
          <<Source(n, FALSE), Fit(n, ids, {"Claim", "Forecast", "Valuation"}, "any")>>
          \o Aggregate(n, "AFFECTS", ids, "refuse") \o Commit
    BY <1>2, <1>6 DEF Perform, AddRiskAffects
  <2>2. n.kind # "Valuation"
    BY <1>3, <1>6 DEF Relating
  <2>3. Part(Aggregate(n, "AFFECTS", ids, "refuse"), r)
    BY <1>3, <2>2, LoosePart
  <2> QED BY <2>1, <2>3, SourcePart, StillBefore, Commits
<1>7. CASE r.op = "add_forecast_estimates"
  <2>1. Perform(r, t) =
          <<Source(n, TRUE), Fit(n, ids, {"Estimate"}, "cohort")>>
          \o Aggregate(n, "CONTAINS", ids, "refuse") \o Commit
    BY <1>2, <1>7 DEF Perform, AddForecastEstimates
  <2> QED BY <1>3, <1>4, <2>1, LockedPart, Commits
<1>8. CASE r.op = "add_recommendation_dependencies"
  <2>1. Perform(r, t) =
          <<Source(n, FALSE),
            Fit(n, ids, {"Valuation", "Claim", "Risk", "Catalyst"}, "rationale")>>
          \o Aggregate(n, "DEPENDS_ON", ids, "unique") \o Commit
    BY <1>2, <1>8 DEF Perform, AddRecommendationDependencies
  <2>2. n.kind # "Valuation"
    BY <1>3, <1>8 DEF Relating
  <2>3. Part(Aggregate(n, "DEPENDS_ON", ids, "unique"), r)
    BY <1>2, <1>3, <1>8, <2>2, LoosePart
  <2> QED BY <2>1, <2>3, SourcePart, StillBefore, Commits
<1>9. CASE r.op = "add_estimate_inputs"
  <2>1. Perform(r, t) =
          <<Source(n, TRUE), Fit(n, ids, {"Metric", "Calculation", "Claim"}, "any")>>
          \o Aggregate(n, "DERIVED_FROM", ids, "refuse") \o Commit
    BY <1>2, <1>9 DEF Perform, AddEstimateInputs
  <2> QED BY <1>3, <1>4, <2>1, LockedPart, Commits
<1>10. ASSUME r.op \in Valuing
       PROVE  Part(ValuationDependencies(n, ids), r) /\ n.kind = "Valuation"
  <2>1. n.kind = "Valuation"
    BY <1>3, <1>10 DEF Relating, Valuing
  <2>2. Part(<<Source(n, TRUE),
               Fit(n, ids, {"Forecast", "Estimate", "Metric", "Calculation",
                            "CatalystImpact"}, "any")>>
             \o Aggregate(n, "DEPENDS_ON", ids, "refuse"), r)
    BY <1>2, <1>3, <1>4, <1>10, <2>1, LockedPart
  <2> QED BY <2>1, <2>2 DEF ValuationDependencies
<1>11. CASE r.op = "add_valuation_dependencies"
  <2>1. Perform(r, t) = ValuationDependencies(n, ids) \o Commit
    BY <1>2, <1>11 DEF Perform, AddValuationDependencies
  <2>2. r.op \in Valuing
    BY <1>11 DEF Valuing
  <2> QED BY <1>10, <2>1, <2>2, Commits
<1>12. ASSUME r.op \in Valuing
       PROVE  Fitting(PersistVerifiedValuation(n, ids), r)
  <2>1. n.supersedes = NoId
    BY <1>3, <1>10, <1>12 DEF IsRow
  <2>2. Still(AddInOneRead(n))
    BY <1>3, <2>1, NewNode DEF AddInOneRead
  <2>3. Part(AddInOneRead(n) \o ValuationDependencies(n, ids), r)
    BY <1>10, <1>12, <2>2, StillBefore
  <2>4. Still(<<Statement("verify", n)>>)
    <3>1. PICK a : a = Statement("verify", n)
      OBVIOUS
    <3>2. Plain(a) /\ Elsewhere(a)
      BY <3>1 DEF Plain, Elsewhere, Noted, Statement
    <3> QED BY <3>1, <3>2, StillTuples
  <2>5. Part(AddInOneRead(n) \o ValuationDependencies(n, ids)
             \o <<Statement("verify", n)>>, r)
    BY <2>3, <2>4, StillAfter
  <2> QED BY <2>5, Commits DEF PersistVerifiedValuation
<1>13. CASE r.op = "persist_verified_valuation"
  <2>1. Perform(r, t) = PersistVerifiedValuation(n, ids)
    BY <1>2, <1>13 DEF Perform
  <2>2. r.op \in Valuing
    BY <1>13 DEF Valuing
  <2> QED BY <1>12, <2>1, <2>2
<1>14. CASE r.op = "execute_valuation"
  <2>1. PICK a : a = [do |-> "resolve", node |-> n, ids |-> ToSet(ids),
                      cutoff |-> r.cutoff]
    OBVIOUS
  <2>2. Perform(r, t) = <<a>> \o PersistVerifiedValuation(n, ids)
    BY <1>2, <1>14, <2>1 DEF Perform, ExecuteValuation
  <2>3. Plain(a) /\ Elsewhere(a)
    BY <2>1 DEF Plain, Elsewhere, Noted
  <2>4. Still(<<a>>)
    BY <2>3, StillTuples
  <2>5. r.op \in Valuing
    BY <1>14 DEF Valuing
  <2> QED BY <1>12, <2>2, <2>4, <2>5, Preceded
<1> QED
  BY <1>5, <1>6, <1>7, <1>8, <1>9, <1>11, <1>13, <1>14 DEF Relating

\* The services that ingest, which touch edges only to link.
LEMMA FetchedRow ==
  ASSUME NEW n, NEW t \in Int, NEW kind, IsRowOf(n, kind)
  PROVE  IsRowOf(Fetched(n, t), kind)
<1>1. /\ n = [x \in NodeFields |-> n[x]] /\ n.id # NoId /\ n.published \in Int
      /\ n.supersedes # NoId => n.kind \in {"Evidence", "Metric"}
      /\ n.kind = kind /\ n.kind \in Kinds /\ n.uses \in Seq(ToSet(n.uses))
  BY DEF IsRowOf, IsRow
<1>2. PICK m : m = Fetched(n, t)
  OBVIOUS
<1>3. m = [n EXCEPT !.time = t]
  BY <1>2 DEF Fetched
<1>4. DOMAIN n = NodeFields
  BY <1>1
<1>5. /\ m = [x \in NodeFields |-> m[x]]
      /\ m.id = n.id /\ m.published = n.published /\ m.kind = n.kind
      /\ m.supersedes = n.supersedes /\ m.time = t /\ m.uses = n.uses
  BY <1>3, <1>4 DEF NodeFields
<1>6. IsRowOf(m, kind)
  BY <1>1, <1>5 DEF IsRowOf, IsRow
<1> QED BY <1>2, <1>6

LEMMA LinkedFits ==
  ASSUME NEW n, NEW e, NEW r, IsRow(n), IsLink(e)
  PROVE  Fitting(AddMetricWithEvidenceLink(n, e), r)
<1>1. Still(ValidateMetricRevisionAppend(n) \o WriteNode(n, "compare"))
  BY RevisedNode
<1>2. Part(<<Endpoints(e, "Metric"), InsertEdge(e, "compare")>>, r)
  BY LinkPart
<1>3. Part(ValidateMetricRevisionAppend(n) \o WriteNode(n, "compare")
           \o <<Endpoints(e, "Metric"), InsertEdge(e, "compare")>>, r)
  BY <1>1, <1>2, StillBefore
<1> QED BY <1>3, Commits DEF AddMetricWithEvidenceLink

LEMMA IngestionFits ==
  ASSUME NEW r, NEW t \in Int, IsRequest(r), r.op \in Stamped
  PROVE  Fitting(Perform(r, t), r)
<1>1. PICK f : f = r.filing
  OBVIOUS
<1>2. /\ IsRowOf(f.evidence, "Evidence")
      /\ \A x \in f.facts : IsRowOf(x, "Metric")
  BY <1>1 DEF IsRequest, Adding, Relating, Stamped
<1>3. PICK n : n = Fetched(f.evidence, t)
  OBVIOUS
<1>4. IsRow(n)
  BY <1>2, <1>3, FetchedRow DEF IsRowOf
<1>5. IngestFiling(f, t) = ValidateRevisionAppend(n) \o WriteNode(n, "compare")
                           \o Commit
  BY <1>3 DEF IngestFiling, AddEvidence
<1>6. Still(ValidateRevisionAppend(n) \o WriteNode(n, "compare"))
  BY <1>4, RevisedNode
<1>7. CASE r.op = "ingest_filing"
  <2>1. Perform(r, t) = IngestFiling(f, t)
    BY <1>1, <1>7 DEF Perform
  <2> QED BY <1>5, <1>6, <2>1, StillCommits
<1>8. CASE r.op = "ingest_financial_fact" /\ Cardinality(SelectedFacts(f)) # 1
  <2>1. PICK a : a = [do |-> "refuse"]
    OBVIOUS
  <2>2. Perform(r, t) = <<a>>
    BY <1>1, <1>8, <2>1 DEF Perform, IngestFinancialFact
  <2>3. Plain(a) /\ Elsewhere(a) /\ ~Skips(a)
    BY <2>1 DEF Plain, Elsewhere, Noted, Skips
  <2>4. Still(<<a>>)
    BY <2>3, StillTuples
  <2>5. SkipsRevisions(<<a>>)
    <3>1. ToSet(<<a>>) = {a}
      BY Tuples
    <3> QED BY <2>3, <3>1, WithoutSkips
  <2> QED BY <2>2, <2>4, <2>5, StillIsPart DEF Fitting
<1>9. CASE r.op = "ingest_financial_fact" /\ Cardinality(SelectedFacts(f)) = 1
  <2>1. SelectedFacts(f) # {}
    <3>1. Cardinality({}) = 0
      BY FS_EmptySet
    <3> QED BY <1>9, <3>1
  <2>2. PICK x : x = CHOOSE y \in SelectedFacts(f) : TRUE
    OBVIOUS
  <2>3. x \in f.facts
    BY <2>1, <2>2 DEF SelectedFacts
  <2>4. PICK m : m = Fetched(x, t)
    OBVIOUS
  <2>5. IsRow(m)
    BY <1>2, <2>3, <2>4, FetchedRow DEF IsRowOf
  <2>6. PICK e : e = EdgeRow(m.id, "SUPPORTED_BY", f.evidence.id, r.created)
    OBVIOUS
  <2>7. IsLink(e)
    BY <2>6 DEF IsLink, EdgeRow, EdgeFields
  <2>8. Perform(r, t) = IngestFiling(f, t) \o AddMetricWithEvidenceLink(m, e)
    <3>1. Perform(r, t) = IngestFinancialFact(f, r.created, t)
      BY <1>1, <1>9 DEF Perform
    <3> QED BY <1>9, <2>2, <2>4, <2>6, <3>1 DEF IngestFinancialFact, AddLinked
  <2>9. Still(Commit)
    BY CommitFits
  <2>10. Still(IngestFiling(f, t))
    BY <1>5, <1>6, <2>9, StillJoined
  <2>11. Fitting(AddMetricWithEvidenceLink(m, e), r)
    BY <2>5, <2>7, LinkedFits
  <2> QED BY <2>8, <2>10, <2>11, Preceded
<1> QED BY <1>7, <1>8, <1>9 DEF Stamped

LEMMA RestFits ==
  ASSUME NEW r, NEW t \in Int, IsRequest(r), r.op \notin DOMAIN Adding,
         r.op \notin DOMAIN Relating, r.op \notin Stamped
  PROVE  Fitting(Perform(r, t), r)
<1>1. CASE r.op = "add_calculation_inputs"
  <2>1. PICK n, ids : n = r.node /\ ids = n.uses
    OBVIOUS
  <2>2. IsTuple(ids)
    BY <1>1, <2>1 DEF IsRequest, Adding, Relating
  <2>3. Perform(r, t) =
          <<Source(n, TRUE), Fit(n, ids, {"Metric", "Calculation"}, "any"),
            Acyclic(n, ids)>>
          \o Aggregate(n, "DERIVED_FROM", ids, "refuse") \o Commit
    BY <1>1, <2>1 DEF Perform, AddCalculationInputs
  <2> QED BY <2>2, <2>3, LockedPart, Commits
<1>2. CASE r.op = "add_metric_with_evidence_link"
  <2>1. IsRow(r.node) /\ IsLink(r.link)
    BY <1>2 DEF IsRequest, Adding, Relating, IsRowOf
  <2>2. Perform(r, t) = AddMetricWithEvidenceLink(r.node, r.link)
    BY <1>2 DEF Perform
  <2> QED BY <2>1, <2>2, LinkedFits
<1>3. CASE r.op \in {"add_metric_evidence_link", "add_claim_evidence_link"}
  <2>1. IsLink(r.link)
    BY <1>3 DEF IsRequest, Adding, Relating
  <2>2. PICK kind : Perform(r, t) =
          <<Endpoints(r.link, kind), InsertEdge(r.link, "compare")>> \o Commit
    BY <1>3 DEF Perform, AddMetricEvidenceLink, AddClaimEvidenceLink
  <2> QED BY <2>1, <2>2, LinkPart, Commits
<1>4. ASSUME NEW s, Sound(s),
             \A x \in ToSet(s) : ~Skips(x) /\ x.do # "insert edge"
      PROVE  Fitting(s, r)
  <2>1. Loose(s, r)
    BY <1>4 DEF Loose, Guarded, Skips
  <2> QED BY <1>4, <2>1, WithoutSkips DEF Fitting, Part
<1>5. CASE r.op = "latest_evidence_at"
  <2>1. PICK a, b, c : /\ a = [do |-> "walk up", id |-> r.id]
                       /\ b = [do |-> "walk down"]
                       /\ c = [do |-> "candidates", id |-> r.id,
                               cutoff |-> r.cutoff]
    OBVIOUS
  <2>2. Perform(r, t) = <<a, b, c>>
    BY <1>5, <2>1 DEF Perform, ReadLatestEvidence
  <2>3. a.do = "walk up" /\ b.do = "walk down" /\ c.do = "candidates"
    BY <2>1
  <2>4. Sound(<<a, b, c>>)
    BY <2>3, PlainParts DEF Plain
  <2>5. ToSet(<<a, b, c>>) = {a, b, c}
    BY DEF ToSet
  <2>6. \A x \in {a, b, c} : ~Skips(x) /\ x.do # "insert edge"
    BY <2>3 DEF Skips
  <2> QED BY <1>4, <2>2, <2>4, <2>5, <2>6
<1>6. CASE r.op \in {"evidence_for_metric_at", "evidence_for_claim_at"}
  <2>0. PICK kind : Perform(r, t) = ReadEvidence(kind, r.id, r.cutoff)
    BY <1>6 DEF Perform, ReadEvidenceForMetric, ReadEvidenceForClaim
  <2>1. PICK a, b : /\ a = [do |-> "links", of |-> kind, id |-> r.id]
                    /\ b = [do |-> "lineage", of |-> kind, id |-> r.id,
                            cutoff |-> r.cutoff]
    OBVIOUS
  <2>2. Perform(r, t) = <<a, b>>
    BY <2>0, <2>1 DEF ReadEvidence
  <2>3. a.do = "links" /\ b.do = "lineage"
    BY <2>1
  <2>4. Sound(<<a, b>>) /\ ToSet(<<a, b>>) = {a, b}
    BY <2>3, PlainParts, Tuples DEF Plain
  <2>5. \A x \in {a, b} : ~Skips(x) /\ x.do # "insert edge"
    BY <2>3 DEF Skips
  <2> QED BY <1>4, <2>2, <2>4, <2>5
<1> QED BY <1>1, <1>2, <1>3, <1>5, <1>6 DEF IsRequest, Stamped

LEMMA RequestsFit ==
  ASSUME NEW name \in DOMAIN Requests, NEW t \in 1 .. MaxNow
  PROVE  /\ Programs[name][t] = Perform(Requests[name], t)
         /\ Fitting(Programs[name][t], Requests[name])
<1>1. Programs[name][t] = Perform(Requests[name], t)
  BY DEF Programs
<1>2. PICK r : r = Requests[name]
  OBVIOUS
<1>3. IsRequest(r) /\ t \in Int
  BY <1>2, RequestsAssumption, ClockAssumption
<1>4. Fitting(Perform(r, t), r)
  <2>1. CASE r.op \in DOMAIN Adding
    BY <1>3, <2>1, AddingFits
  <2>2. CASE r.op \in DOMAIN Relating
    BY <1>3, <2>2, RelatingFits
  <2>3. CASE r.op \in Stamped
    BY <1>3, <2>3, IngestionFits
  <2>4. CASE /\ r.op \notin DOMAIN Adding /\ r.op \notin DOMAIN Relating
             /\ r.op \notin Stamped
    BY <1>3, <2>4, RestFits
  <2> QED BY <2>1, <2>2, <2>3, <2>4
<1> QED BY <1>1, <1>2, <1>4

LEMMA RequestsTell ==
  ASSUME NEW name \in DOMAIN Requests, NEW n \in RowsOf(Requests[name])
  PROVE  n \in Told
<1> DEFINE asked == UNION {RowsOf(Requests[x]) : x \in DOMAIN Requests}
           there == UNION {s.stored : s \in Scenarios}
<1>1. RowsOf(Requests[name]) \in {RowsOf(Requests[x]) : x \in DOMAIN Requests}
  OBVIOUS
<1>2. n \in asked
  BY <1>1
<1>3. Told = there \cup asked
  BY DEF Told
<1> HIDE DEF asked, there
<1> QED BY <1>2, <1>3

\* Nobody locks the source of an edge that is written without a lock.
LEMMA LooseIsFree ==
  ASSUME NEW name \in DOMAIN Requests, NEW s, Loose(s, Requests[name])
  PROVE  Free(s)
<1>1. PICK r : r = Requests[name]
  OBVIOUS
<1>2. ASSUME NEW x \in ToSet(s), x.do = "insert edge",
             KeyOf(x.edge) \in GuardedKeys
      PROVE  FALSE
  <2>1. PICK other \in DOMAIN Requests, t \in 1 .. MaxNow :
          \E y \in ToSet(Programs[other][t]) :
            Guarded(y) /\ KeyOf(x.edge) = Key(y)
    <3>1. DOMAIN Programs = DOMAIN Requests
      BY DEF Programs
    <3>2. PICK other \in DOMAIN Requests, t \in 1 .. MaxNow :
            KeyOf(x.edge) \in
              {Key(y) : y \in {z \in ToSet(Programs[other][t]) : Guarded(z)}}
      <4>1. PICK o \in DOMAIN Programs :
              KeyOf(x.edge) \in
                UNION {{Key(y) : y \in {z \in ToSet(Programs[o][t]) : Guarded(z)}} :
                         t \in 1 .. MaxNow}
        BY <1>2 DEF GuardedKeys
      <4> QED BY <3>1, <4>1
    <3> QED BY <3>2
  <2>2. PICK y \in ToSet(Programs[other][t]) :
          Guarded(y) /\ KeyOf(x.edge) = Key(y)
    BY <2>1
  <2>3. PICK q : q = Requests[other]
    OBVIOUS
  <2>4. Part(Programs[other][t], q)
    BY <2>3, RequestsFit DEF Fitting
  <2>5. ~Loose(Programs[other][t], q)
    BY <2>2 DEF Loose
  <2>6. \/ y.type \in {"CONTAINS", "DERIVED_FROM"}
        \/ y.type = "DEPENDS_ON" /\ q.op \in Valuing /\ y.node = q.node
    BY <2>2, <2>4, <2>5 DEF Part, Tight
  <2>7. x.edge.source = y.node.id /\ x.edge.type = y.type
    BY <2>2 DEF Key, KeyOf
  <2>8. \/ x.edge.type \in Open
        \/ /\ x.edge.type = "DEPENDS_ON" /\ x.edge.source = r.node.id
           /\ r.op = "add_recommendation_dependencies"
    BY <1>1, <1>2 DEF Loose
  <2>9. /\ y.type = "DEPENDS_ON" /\ q.op \in Valuing /\ y.node = q.node
        /\ x.edge.source = r.node.id
        /\ r.op = "add_recommendation_dependencies"
    BY <2>6, <2>7, <2>8 DEF Open
  <2>10. r.node.id = q.node.id
    BY <2>7, <2>9
  <2>11. r.op \in DOMAIN Relating /\ q.op \in DOMAIN Relating
    BY <2>9 DEF Relating, Valuing
  <2>12. IsRequest(r) /\ IsRequest(q)
    BY <1>1, <2>3, RequestsAssumption
  <2>13. r.node.kind = q.node.kind
    <3>1. r.node \in RowsOf(r) /\ q.node \in RowsOf(q)
      BY <2>11 DEF RowsOf, Relating
    <3>2. r.node \in Told /\ q.node \in Told
      BY <1>1, <2>3, <3>1, RequestsTell
    <3> QED BY <2>10, <3>2, IdentityAssumption
  <2>14. r.node.kind = Relating[r.op] /\ q.node.kind = Relating[q.op]
    BY <2>11, <2>12, RelatingKind
  <2>15. /\ Relating["add_recommendation_dependencies"] = "Recommendation"
         /\ \A op \in Valuing : Relating[op] = "Valuation"
    BY DEF Relating, Valuing
  <2> QED BY <2>9, <2>13, <2>14, <2>15
<1> QED BY <1>2 DEF Loose, Free

LEMMA FittingIsWhole ==
  ASSUME NEW name \in DOMAIN Requests, NEW s, Fitting(s, Requests[name])
  PROVE  WritesWhole(s)
<1>1. Sound(s)
  BY DEF Fitting, Part
<1>2. CASE Loose(s, Requests[name])
  BY <1>2, LooseIsFree, FreeIsWhole
<1>3. CASE Tight(s, Requests[name])
  BY <1>1, <1>3, SoundSkips, LockingIsWhole DEF Tight
<1> QED BY <1>2, <1>3 DEF Fitting, Part

\* The clock only stamps what is fetched, and that has no aggregates.
LEMMA AnyTime ==
  ASSUME NEW name \in DOMAIN Requests, NEW t \in 1 .. MaxNow,
         NEW s \in ToSet(Programs[name][1]), Guarded(s)
  PROVE  s \in ToSet(Programs[name][t])
<1>1. PICK r : r = Requests[name]
  OBVIOUS
<1>2. 1 \in 1 .. MaxNow
  BY ClockAssumption
<1>3. /\ Programs[name][1] = Perform(r, 1) /\ Fitting(Programs[name][1], r)
      /\ Programs[name][t] = Perform(r, t)
  BY <1>1, <1>2, RequestsFit
<1>4. Tight(Programs[name][1], r)
  BY <1>3 DEF Fitting, Part, Loose
<1>5. r.op \notin {"ingest_filing", "ingest_financial_fact"}
  BY <1>4 DEF Tight, Stamped
<1>6. IsRequest(r)
  BY <1>1, RequestsAssumption
<1>7. Perform(r, 1) = Perform(r, t)
  BY <1>5, <1>6 DEF Perform, IsRequest, Adding, Relating
<1> QED BY <1>3, <1>7

\* Whatever a caller asks for, and whenever: a revision is checked by the
\* statement before its rows are written, and nothing skips over that check; an
\* aggregate of a locked source is compared, written and proved to be there in
\* one transaction, and no other operation writes to such an aggregate.
THEOREM ProgramsFit ==
  /\ DOMAIN Programs = DOMAIN Requests /\ "none" \notin DOMAIN Programs
  /\ \A name \in DOMAIN Programs :
       /\ DOMAIN Programs[name] = 1 .. MaxNow
       /\ \A t \in 1 .. MaxNow :
            LET program == Programs[name][t]
            IN /\ program \in Seq(ToSet(program)) /\ program # <<>>
               /\ \A s \in ToSet(program) :
                    s.do \in {"insert fact", "revise"} => IsRow(s.node)
               /\ RevisesFirst(program) /\ SkipsRevisions(program)
               /\ WritesWhole(program)
               /\ \A s \in ToSet(Programs[name][1]) :
                    Guarded(s) => s \in ToSet(program)
<1>1. DOMAIN Programs = DOMAIN Requests /\ "none" \notin DOMAIN Programs
  BY RequestsAssumption DEF Programs
<1>2. \A name \in DOMAIN Requests : DOMAIN Programs[name] = 1 .. MaxNow
  BY DEF Programs
<1>3. ASSUME NEW name \in DOMAIN Requests, NEW t \in 1 .. MaxNow
      PROVE  LET program == Programs[name][t]
             IN /\ program \in Seq(ToSet(program)) /\ program # <<>>
                /\ \A s \in ToSet(program) :
                     s.do \in {"insert fact", "revise"} => IsRow(s.node)
                /\ RevisesFirst(program) /\ SkipsRevisions(program)
                /\ WritesWhole(program)
                /\ \A s \in ToSet(Programs[name][1]) :
                     Guarded(s) => s \in ToSet(program)
  <2>1. PICK program : program = Programs[name][t]
    OBVIOUS
  <2>2. Fitting(program, Requests[name])
    BY <2>1, RequestsFit
  <2>3. Sound(program) /\ SkipsRevisions(program)
    BY <2>2 DEF Fitting, Part
  <2>4. WritesWhole(program)
    BY <2>2, FittingIsWhole
  <2>5. \A s \in ToSet(Programs[name][1]) : Guarded(s) => s \in ToSet(program)
    BY <2>1, AnyTime
  <2>6. /\ program \in Seq(ToSet(program)) /\ program # <<>>
        /\ \A s \in ToSet(program) :
             s.do \in {"insert fact", "revise"} => IsRow(s.node)
        /\ RevisesFirst(program)
    BY <2>3 DEF Sound, Sequence
  <2> QED BY <2>1, <2>3, <2>4, <2>5, <2>6
<1> QED BY <1>1, <1>2, <1>3

-----------------------------------------------------------------------------
(* Where a process stands in its program.                                  *)

Rest(u, s, c) == /\ c \in Nat \ {0} /\ Len(u) + c = Len(s) + 1
                 /\ \A i \in 1 .. Len(u) : u[i] = s[c + i - 1]

IsProgram(s) ==
  /\ s \in Seq(ToSet(s)) /\ s # <<>>
  /\ \A i \in DOMAIN s :
       s[i].do \in {"insert fact", "revise"} => IsRow(s[i].node)
  /\ RevisesFirst(s) /\ SkipsRevisions(s)

LEMMA ProgramShape ==
  ASSUME NEW s, IsProgram(s)
  PROVE  Len(s) \in Nat \ {0} /\ DOMAIN s = 1 .. Len(s)
BY LenProperties, EmptySeq DEF IsProgram

LEMMA EveryProgram ==
  ASSUME NEW name \in DOMAIN Programs, NEW t \in 1 .. MaxNow
  PROVE  IsProgram(Programs[name][t])
<1> DEFINE s == Programs[name][t]
<1>1. s \in Seq(ToSet(s)) /\ s # <<>> /\ RevisesFirst(s) /\ SkipsRevisions(s)
      /\ \A x \in ToSet(s) : x.do \in {"insert fact", "revise"} => IsRow(x.node)
  BY ProgramsFit
<1>2. \A i \in DOMAIN s : s[i] \in ToSet(s)
  BY DEF ToSet
<1> HIDE DEF s
<1>3. IsProgram(s)
  BY <1>1, <1>2 DEF IsProgram
<1> QED BY <1>3 DEF s

LEMMA RestStarts ==
  ASSUME NEW s, IsProgram(s)
  PROVE  Rest(s, s, 1)
BY ProgramShape DEF Rest

LEMMA RestHead ==
  ASSUME NEW S, NEW u \in Seq(S), NEW s, IsProgram(s), NEW c, Rest(u, s, c),
         u # <<>>
  PROVE  c \in DOMAIN s /\ Head(u) = s[c]
BY ProgramShape DEF Rest

LEMMA RestMoves ==
  ASSUME NEW S, NEW u \in Seq(S), NEW s, IsProgram(s), NEW c, Rest(u, s, c),
         NEW k \in Nat, k <= Len(u)
  PROVE  /\ SubSeq(u, k + 1, Len(u)) \in Seq(S)
         /\ Rest(SubSeq(u, k + 1, Len(u)), s, c + k)
<1>1. Len(u) \in Nat /\ \A i \in 1 .. Len(u) : u[i] \in S
  BY LenProperties, ElementOfSeq
<1>2. \A i \in k + 1 .. Len(u) : u[i] \in S
  BY <1>1
<1> DEFINE v == SubSeq(u, k + 1, Len(u))
<1>3. /\ v \in Seq(S)
      /\ Len(v) = IF k + 1 <= Len(u) THEN Len(u) - (k + 1) + 1 ELSE 0
      /\ \A i \in 1 .. Len(u) - (k + 1) + 1 : v[i] = u[k + 1 + i - 1]
  BY <1>1, <1>2, SubSeqProperties
<1> HIDE DEF v
<1>4. Len(v) = Len(u) - k /\ \A i \in 1 .. Len(v) : v[i] = u[k + i]
  BY <1>1, <1>3
<1>5. Len(s) \in Nat
  BY ProgramShape
<1>6. Rest(v, s, c + k)
  <2>1. c + k \in Nat \ {0} /\ Len(v) + (c + k) = Len(s) + 1
    <3>1. c \in Nat \ {0} /\ Len(u) + c = Len(s) + 1
      BY DEF Rest
    <3>2. c + k \in Nat \ {0}
      BY <3>1
    <3>3. Len(v) + (c + k) = Len(s) + 1
      BY <1>1, <1>4, <1>5, <3>1
    <3> QED BY <3>2, <3>3
  <2>2. ASSUME NEW i \in 1 .. Len(v) PROVE v[i] = s[(c + k) + i - 1]
    <3>1. v[i] = u[k + i] /\ k + i \in 1 .. Len(u)
      BY <1>1, <1>4, <2>2
    <3>2. u[k + i] = s[c + (k + i) - 1] /\ c \in Nat
      BY <3>1 DEF Rest
    <3>3. c + (k + i) - 1 = (c + k) + i - 1
      BY <3>2, <1>1, <1>4
    <3> QED BY <3>1, <3>2, <3>3
  <2> QED BY <2>1, <2>2 DEF Rest
<1> QED BY <1>3, <1>6 DEF v

LEMMA RestTail ==
  ASSUME NEW S, NEW u \in Seq(S), NEW s, IsProgram(s), NEW c, Rest(u, s, c),
         u # <<>>
  PROVE  Tail(u) \in Seq(S) /\ Rest(Tail(u), s, c + 1)
<1>1. Len(u) \in Nat /\ 1 <= Len(u)
  BY EmptySeq
<1>2. Tail(u) = SubSeq(u, 1 + 1, Len(u))
  BY TailIsSubSeq
<1> QED BY <1>1, <1>2, RestMoves

-----------------------------------------------------------------------------
(* What a statement does to the database, the transaction and the program. *)

TxFields == {"nodes", "facts", "edges", "locks", "shares"}
IsTx(t) == t = [x \in TxFields |-> t[x]]
Shaped ==
  /\ g = [x \in {"nodes", "facts", "edges"} |-> g[x]]
  /\ tx = [p \in Procs |-> tx[p]] /\ call = [p \in Procs |-> call[p]]
  /\ todo = [p \in Procs |-> todo[p]]
  /\ \A p \in Procs : IsTx(tx[p])

Writing == {"insert node", "insert fact", "revise", "source", "insert edge",
            "commit"}
Reporting == {"walk up", "candidates", "lineage"}

Advances(p, k) == todo' = [todo EXCEPT ![p] = SubSeq(@, k + 1, Len(@))]

\* A statement that writes nothing and keeps no lock.
Passes(p) ==
  /\ todo[p] # <<>> /\ UNCHANGED <<g, tx, call, outcome>>
  /\ LET s == Head(todo[p])
     IN /\ s.do \notin Writing
        /\ \/ /\ Advances(p, 1) \/ todo' = [todo EXCEPT ![p] = Tail(@)]
              /\ s.do = "existing" => SetOf(p) = {}
              /\ s.do = "persisted" => SetOf(p) = s.ids
           \/ /\ Skips(s) /\ Advances(p, 1 + s.skip)
              /\ s.do = "existing" => SetOf(p) = s.ids
           \/ UNCHANGED todo

Quits(p) ==
  /\ Leaves(p)
  /\ \/ UNCHANGED outcome
     \/ \E how : /\ outcome' = [outcome EXCEPT ![call[p]] = how]
                 /\ how = "ok" => /\ todo[p] # <<>>
                                  /\ Head(todo[p]).do \in Reporting

Reads(p) ==
  \/ NodeRead(p) \/ FactRead(p) \/ BothRead(p) \/ TargetsRead(p) \/ ReachRead(p)
  \/ ExistingRead(p) \/ PersistedRead(p) \/ EndpointsRead(p)
  \/ Refuse(p) \/ Resolve(p) \/ Verify(p)
  \/ WalkUp(p) \/ WalkDown(p) \/ Candidates(p) \/ Links(p) \/ LineageRead(p)
  \/ AbortDeadlocked(p)

LEMMA EndsQuits ==
  ASSUME NEW p, NEW how, how # "ok", Ends(p, how)
  PROVE  Quits(p)
BY DEF Ends, Quits

LEMMA GoesOnPasses ==
  ASSUME Shaped, NEW p \in Procs, todo[p] # <<>>,
         Head(todo[p]).do \notin Writing \cup {"existing", "persisted"},
         GoesOn(p, 1, tx[p])
  PROVE  Passes(p)
BY DEF Shaped, GoesOn, Passes, Advances

LEMMA ChecksPasses ==
  ASSUME Shaped, NEW p \in Procs, todo[p] # <<>>,
         Head(todo[p]).do \notin Writing \cup {"existing", "persisted"},
         NEW fault, fault # "ok", Checks(p, fault)
  PROVE  Quits(p) \/ Passes(p)
BY EndsQuits, GoesOnPasses DEF Checks

LEMMA ReplayFaults ==
  ASSUME NEW p, NEW n
  PROVE  Replay(p, n) # "ok"
BY DEF Replay

LEMMA DecidesPasses ==
  ASSUME Shaped, NEW p \in Procs, todo[p] # <<>>,
         Head(todo[p]).do \in {"fact there", "both there"},
         NEW node, NEW fact, Decides(p, node, fact)
  PROVE  Quits(p) \/ Passes(p)
<1> PICK s : s = Head(todo[p])
  OBVIOUS
<1>1. ASSUME GoesOn(p, 1 + s.skip, tx[p]) PROVE Passes(p)
  BY <1>1 DEF Shaped, GoesOn, Passes, Advances, Skips, Writing
<1>2. ASSUME GoesOn(p, 1, tx[p]) PROVE Passes(p)
  BY <1>2, GoesOnPasses DEF Writing
<1> QED BY <1>1, <1>2, EndsQuits, ReplayFaults DEF Decides

LEMMA ReadForms ==
  ASSUME Shaped, NEW p \in Procs, Reads(p)
  PROVE  Quits(p) \/ Passes(p)
<1> PICK s : s = Head(todo[p])
  OBVIOUS
<1> USE DEF Executes
<1>1. CASE NodeRead(p)
  BY <1>1 DEF NodeRead, Passes, Writing
<1>2. CASE FactRead(p)
  BY <1>2, DecidesPasses DEF FactRead
<1>3. CASE BothRead(p)
  BY <1>3, DecidesPasses DEF BothRead
<1>4. CASE TargetsRead(p)
  <2>1. Misfit(View(p), s) # "ok"
    BY DEF Misfit
  <2> QED BY <1>4, <2>1, ChecksPasses DEF TargetsRead, Writing
<1>5. CASE ReachRead(p)
  BY <1>5, ChecksPasses DEF ReachRead, Writing
<1>6. CASE ExistingRead(p)
  <2>1. ASSUME GoesOn(p, 1, tx[p]), SetOf(p) = {} PROVE Passes(p)
    BY <1>6, <2>1 DEF ExistingRead, Shaped, GoesOn, Passes, Advances, Writing
  <2>2. ASSUME GoesOn(p, 1 + s.skip, tx[p]), SetOf(p) = s.ids PROVE Passes(p)
    BY <1>6, <2>2 DEF ExistingRead, Shaped, GoesOn, Passes, Advances, Writing,
                      Skips
  <2> QED BY <1>6, <2>1, <2>2, EndsQuits DEF ExistingRead
<1>7. CASE PersistedRead(p)
  <2>1. ASSUME GoesOn(p, 1, tx[p]), SetOf(p) = s.ids PROVE Passes(p)
    BY <1>7, <2>1 DEF PersistedRead, Shaped, GoesOn, Passes, Advances, Writing
  <2> QED BY <1>7, <2>1, EndsQuits DEF PersistedRead, Checks
<1>8. CASE EndpointsRead(p)
  BY <1>8, ChecksPasses DEF EndpointsRead, Writing
<1>9. CASE Refuse(p)
  BY <1>9, EndsQuits DEF Refuse
<1>10. CASE Resolve(p)
  <2>1. PICK fault : fault # "ok" /\ Checks(p, fault)
    BY <1>10 DEF Resolve
  <2> QED BY <1>10, <2>1, ChecksPasses DEF Resolve, Writing
<1>11. CASE Verify(p)
  BY <1>11, ChecksPasses DEF Verify, Writing
<1>12. CASE WalkUp(p)
  <2>1. ASSUME Ends(p, "ok") PROVE Quits(p)
    BY <1>12, <2>1 DEF WalkUp, Ends, Quits, Reporting
  <2>2. CASE ~Ends(p, "ok")
    BY <1>12, <2>2 DEF WalkUp, Passes, Writing
  <2> QED BY <2>1, <2>2
<1>13. CASE WalkDown(p)
  BY <1>13 DEF WalkDown, Passes, Writing
<1>14. CASE Candidates(p) \/ LineageRead(p)
  <2>1. PICK answer : Returns(p, answer)
    BY <1>14 DEF Candidates, LineageRead
  <2>2. s.do \in {"candidates", "lineage"} /\ todo[p] # <<>>
    BY <1>14 DEF Candidates, LineageRead
  <2> QED BY <2>1, <2>2 DEF Returns, Ends, Quits, Reporting
<1>15. CASE Links(p)
  BY <1>15 DEF Links, Passes, Writing
<1>16. CASE AbortDeadlocked(p)
  BY <1>16, EndsQuits DEF AbortDeadlocked
<1> QED BY <1>1, <1>2, <1>3, <1>4, <1>5, <1>6, <1>7, <1>8, <1>9, <1>10, <1>11,
           <1>12, <1>13, <1>14, <1>15, <1>16 DEF Reads

-----------------------------------------------------------------------------
(* Revision chains: the inductive invariant.                               *)

Rows(f) == \A i \in DOMAIN f : IsRow(f[i]) /\ f[i].id = i
Linear(f) ==
  \A i \in DOMAIN f : f[i].supersedes # NoId =>
    /\ f[i].supersedes \in DOMAIN f /\ Succeeds(f[i], f[f[i].supersedes])
    /\ \A j \in DOMAIN f : f[j].supersedes = f[i].supersedes => j = i

Extends(f, h) == DOMAIN f \subseteq DOMAIN h /\ \A i \in DOMAIN f : h[i] = f[i]

\* No row of x is in y, or replaces what a row of y replaces.
Apart(x, y) ==
  \A i \in DOMAIN x, j \in DOMAIN y :
    i # j /\ (x[i].supersedes = y[j].supersedes => x[i].supersedes = NoId)

Facts(p) == Over(tx[p].facts, g.facts)

\* No transaction breaks a chain, alone or together with another one.
Chains ==
  /\ Rows(g.facts) /\ Linear(g.facts)
  /\ \A p \in Procs :
       /\ Rows(tx[p].facts) /\ Linear(Facts(p))
       /\ DOMAIN tx[p].facts \cap DOMAIN g.facts = {}
  /\ \A p, q \in Procs : p # q => Apart(tx[p].facts, tx[q].facts)

Runs(p, s, c) ==
  /\ call[p] \in DOMAIN Programs
  /\ \E t \in 1 .. MaxNow : s = Programs[call[p]][t]
  /\ todo[p] \in Seq(ToSet(s)) /\ Rest(todo[p], s, c)
Idle(p) == call[p] = "none" /\ todo[p] = <<>> /\ tx[p] = Closed

Revised(p, n) == /\ n.supersedes \in DOMAIN Facts(p)
                 /\ Succeeds(n, Facts(p)[n.supersedes])
\* Between its check and its rows, what a revision was compared with stands.
Checked(p, s, c) ==
  \A i \in DOMAIN s : Appends(s[i]) /\ c \in {i - 1, i} => Revised(p, s[i].node)
Standing(p) == Idle(p) \/ \E s, c : Runs(p, s, c) /\ Checked(p, s, c)

Setting == now \in 1 .. MaxNow /\ DOMAIN outcome \subseteq DOMAIN Programs
IInv == Shaped /\ Setting /\ Chains /\ \A p \in Procs : Standing(p)

-----------------------------------------------------------------------------
(* Tables laid over tables.                                                *)

LEMMA OverNothing ==
  ASSUME NEW e, NEW f, DOMAIN e = {}
  PROVE  /\ DOMAIN Over(e, f) = DOMAIN f /\ Extends(f, Over(e, f))
         /\ \A i \in DOMAIN f : Over(e, f)[i] = f[i]
BY DEF Over, Extends

LEMMA RowsOver ==
  ASSUME NEW e, NEW f, Rows(e), Rows(f)
  PROVE  Rows(Over(e, f))
BY DEF Rows, Over

LEMMA LinearIs ==
  ASSUME NEW f, NEW h, DOMAIN h = DOMAIN f, \A i \in DOMAIN f : h[i] = f[i],
         Linear(f)
  PROVE  Linear(h)
BY DEF Linear

LEMMA LinearOverNothing ==
  ASSUME NEW e, NEW f, DOMAIN e = {}, Linear(f)
  PROVE  Linear(Over(e, f))
BY OverNothing, LinearIs

\* The committed table b, what one has written and what another one has.
LEMMA LinearTogether ==
  ASSUME NEW b, NEW x, NEW y, Linear(Over(x, b)), Linear(Over(y, b)),
         DOMAIN x \cap DOMAIN b = {}, DOMAIN y \cap DOMAIN b = {}, Apart(x, y)
  PROVE  /\ Linear(Over(x, Over(y, b))) /\ Extends(Over(x, b), Over(x, Over(y, b)))
         /\ DOMAIN x \cap DOMAIN Over(y, b) = {}
<1> DEFINE fx == Over(x, b)
           fy == Over(y, b)
           f  == Over(x, Over(y, b))
<1>1. /\ DOMAIN f = DOMAIN x \cup DOMAIN y \cup DOMAIN b
      /\ DOMAIN fx = DOMAIN x \cup DOMAIN b /\ DOMAIN fy = DOMAIN y \cup DOMAIN b
      /\ \A i \in DOMAIN x : f[i] = x[i] /\ fx[i] = x[i]
      /\ \A i \in DOMAIN y : f[i] = y[i] /\ fy[i] = y[i]
      /\ \A i \in DOMAIN b : f[i] = b[i] /\ fx[i] = b[i] /\ fy[i] = b[i]
  BY DEF Over, Apart
<1> HIDE DEF f, fx, fy
<1>2. ASSUME NEW i \in DOMAIN f, f[i].supersedes # NoId
      PROVE  /\ f[i].supersedes \in DOMAIN f
             /\ Succeeds(f[i], f[f[i].supersedes])
             /\ \A j \in DOMAIN f : f[j].supersedes = f[i].supersedes => j = i
  <2>1. CASE i \in DOMAIN x
    BY <1>1, <1>2, <2>1 DEF Linear, Apart, fx, fy
  <2>2. CASE i \in DOMAIN y
    BY <1>1, <1>2, <2>2 DEF Linear, Apart, fx, fy
  <2>3. CASE i \in DOMAIN b
    BY <1>1, <1>2, <2>3 DEF Linear, Apart, fx, fy
  <2> QED BY <1>1, <2>1, <2>2, <2>3
<1>3. Linear(f)
  BY <1>2 DEF Linear
<1>4. DOMAIN x \cap DOMAIN fy = {}
  BY <1>1 DEF Apart
<1>5. Extends(fx, f)
  BY <1>1 DEF Extends, Apart
<1> QED BY <1>3, <1>4, <1>5 DEF f, fx, fy

\* The row n may be added as id to the table f.
Joins(id, n, f) ==
  /\ id \notin DOMAIN f
  /\ n.supersedes # NoId => /\ n.supersedes \in DOMAIN f
                             /\ Succeeds(n, f[n.supersedes])
                             /\ \A i \in DOMAIN f : f[i].supersedes # n.supersedes

LEMMA LinearWith ==
  ASSUME NEW b, NEW x, NEW id, NEW n,
         Linear(Over(x, b)), Joins(id, n, Over(x, b))
  PROVE  /\ Linear(Over(With(x, id, n), b))
         /\ Extends(Over(x, b), Over(With(x, id, n), b))
<1> DEFINE f == Over(x, b)
           h == Over(With(x, id, n), b)
<1>1. /\ DOMAIN h = DOMAIN f \cup {id} /\ h[id] = n
      /\ \A i \in DOMAIN f : h[i] = f[i]
  BY DEF Over, With, Joins
<1> HIDE DEF f, h
<1>2. ASSUME NEW i \in DOMAIN h, h[i].supersedes # NoId
      PROVE  /\ h[i].supersedes \in DOMAIN h
             /\ Succeeds(h[i], h[h[i].supersedes])
             /\ \A j \in DOMAIN h : h[j].supersedes = h[i].supersedes => j = i
  <2>1. CASE i = id
    BY <1>1, <1>2, <2>1 DEF f, Joins
  <2>2. CASE i \in DOMAIN f
    BY <1>1, <1>2, <2>2 DEF f, Linear, Joins
  <2> QED BY <1>1, <2>1, <2>2
<1>3. Linear(h)
  BY <1>2 DEF Linear
<1>4. Extends(f, h)
  BY <1>1 DEF Extends
<1> QED BY <1>3, <1>4 DEF f, h

-----------------------------------------------------------------------------
(* Steps that leave the chains alone.                                      *)

FactsGrow(p) == Extends(Facts(p), Facts(p)')

LEMMA FactsStay ==
  ASSUME NEW p \in Procs, g'.facts = g.facts, tx'[p].facts = tx[p].facts
  PROVE  FactsGrow(p)
BY DEF FactsGrow, Facts, Extends

LEMMA ClosedIs ==
  /\ IsTx(Closed)
  /\ DOMAIN Closed.facts = {} /\ Closed.edges = {} /\ Closed.locks = {}
BY DEF Closed, TxFields, Empty, IsTx

LEMMA ChainsRest ==
  ASSUME Chains, g'.facts = g.facts,
         \A q \in Procs : \/ tx'[q].facts = tx[q].facts
                          \/ DOMAIN tx'[q].facts = {}
  PROVE  Chains'
<1>1. Rows(g'.facts) /\ Linear(g'.facts)
  BY DEF Chains
<1>2. ASSUME NEW p \in Procs
      PROVE  /\ Rows(tx'[p].facts) /\ Linear(Over(tx'[p].facts, g'.facts))
             /\ DOMAIN tx'[p].facts \cap DOMAIN g'.facts = {}
  <2>1. CASE tx'[p].facts = tx[p].facts
    BY <2>1 DEF Chains, Facts
  <2>2. CASE DOMAIN tx'[p].facts = {}
    BY <1>1, <2>2, LinearOverNothing DEF Rows
  <2> QED BY <2>1, <2>2
<1>3. ASSUME NEW p \in Procs, NEW q \in Procs, p # q
      PROVE  Apart(tx'[p].facts, tx'[q].facts)
  <2>1. Apart(tx[p].facts, tx[q].facts)
    BY <1>3 DEF Chains
  <2> QED BY <2>1 DEF Apart
<1> QED BY <1>1, <1>2, <1>3 DEF Chains, Facts

LEMMA OtherStands ==
  ASSUME NEW q \in Procs, Standing(q), call'[q] = call[q], todo'[q] = todo[q],
         tx'[q] = tx[q], FactsGrow(q)
  PROVE  Standing(q)'
<1>1. CASE Idle(q)
  BY <1>1 DEF Standing, Idle
<1>2. CASE \E s, c : Runs(q, s, c) /\ Checked(q, s, c)
  <2>1. PICK s, c : Runs(q, s, c) /\ Checked(q, s, c)
    BY <1>2
  <2>2. Runs(q, s, c)'
    BY <2>1 DEF Runs
  <2>3. Checked(q, s, c)'
    BY <2>1 DEF Checked, Revised, FactsGrow, Extends
  <2> QED BY <2>2, <2>3 DEF Standing
<1> QED BY <1>1, <1>2 DEF Standing

LEMMA QuitterIsIdle ==
  ASSUME Shaped, NEW p \in Procs, Leaves(p)
  PROVE  Idle(p)'
BY DEF Shaped, Leaves, Idle

LEMMA RunsProgram ==
  ASSUME NEW p, NEW s, NEW c, Runs(p, s, c)
  PROVE  IsProgram(s)
BY EveryProgram DEF Runs

LEMMA BusyRuns ==
  ASSUME NEW p \in Procs, Standing(p), todo[p] # <<>>
  PROVE  \E s, c : /\ Runs(p, s, c) /\ Checked(p, s, c) /\ IsProgram(s)
                   /\ c \in DOMAIN s /\ Head(todo[p]) = s[c]
                   /\ Len(todo[p]) \in Nat \ {0}
<1>1. PICK s, c : Runs(p, s, c) /\ Checked(p, s, c)
  BY DEF Standing, Idle
<1>2. IsProgram(s)
  BY <1>1, EveryProgram DEF Runs
<1>3. c \in DOMAIN s /\ Head(todo[p]) = s[c]
  BY <1>1, <1>2, RestHead DEF Runs
<1>4. Len(todo[p]) \in Nat \ {0}
  BY <1>1, EmptySeq DEF Runs
<1> QED BY <1>1, <1>2, <1>3, <1>4

LEMMA OnwardStands ==
  ASSUME NEW p \in Procs, Standing(p), todo[p] # <<>>, call'[p] = call[p],
         \/ todo'[p] = Tail(todo[p])
         \/ todo'[p] = SubSeq(todo[p], 1 + 1, Len(todo[p])),
         Head(todo[p]).do = "revise" => Revised(p, Head(todo[p]).node),
         FactsGrow(p)
  PROVE  Standing(p)'
<1>1. PICK s, c : /\ Runs(p, s, c) /\ Checked(p, s, c) /\ IsProgram(s)
                  /\ c \in DOMAIN s /\ Head(todo[p]) = s[c]
                  /\ Len(todo[p]) \in Nat \ {0}
  BY BusyRuns
<1>2. todo'[p] \in Seq(ToSet(s)) /\ Rest(todo'[p], s, c + 1)
  <2>1. CASE todo'[p] = Tail(todo[p])
    BY <1>1, <2>1, RestTail DEF Runs
  <2>2. CASE todo'[p] = SubSeq(todo[p], 1 + 1, Len(todo[p]))
    BY <1>1, <2>2, RestMoves DEF Runs
  <2> QED BY <2>1, <2>2
<1>3. Runs(p, s, c + 1)'
  BY <1>1, <1>2 DEF Runs
<1>4. ASSUME NEW i \in DOMAIN s, Appends(s[i]), c + 1 \in {i - 1, i}
      PROVE  Revised(p, s[i].node)'
  <2>0. c \in Nat /\ i \in Nat
    BY <1>1, ProgramShape
  <2>1. Revised(p, s[i].node)
    <3>1. CASE c + 1 = i
      <4>1. c = i - 1
        BY <2>0, <3>1
      <4> QED BY <1>1, <1>4, <4>1 DEF Checked
    <3>2. CASE c + 1 = i - 1
      <4>1. c = i - 2
        BY <2>0, <3>2
      <4>2. s[c] = Statement("revise", s[i].node)
        BY <1>1, <1>4, <4>1 DEF IsProgram, RevisesFirst
      <4> QED BY <1>1, <4>2 DEF Statement
    <3> QED BY <1>4, <3>1, <3>2
  <2> QED BY <2>1 DEF Revised, FactsGrow, Extends
<1> QED BY <1>3, <1>4 DEF Standing, Checked

LEMMA SkipperStands ==
  ASSUME NEW p \in Procs, Standing(p), todo[p] # <<>>, call'[p] = call[p],
         Skips(Head(todo[p])),
         todo'[p] = SubSeq(todo[p], (1 + Head(todo[p]).skip) + 1, Len(todo[p]))
  PROVE  Standing(p)'
<1>1. PICK s, c : /\ Runs(p, s, c) /\ Checked(p, s, c) /\ IsProgram(s)
                  /\ c \in DOMAIN s /\ Head(todo[p]) = s[c]
                  /\ Len(todo[p]) \in Nat \ {0}
  BY BusyRuns
<1>2. PICK k : k = s[c].skip
  OBVIOUS
<1>3. /\ k \in Nat /\ c + k < Len(s)
      /\ \A i \in DOMAIN s : Appends(s[i]) => c + k + 1 \notin {i - 1, i}
  BY <1>1, <1>2 DEF IsProgram, SkipsRevisions
<1>4. Len(s) \in Nat /\ c \in Nat /\ Len(todo[p]) + c = Len(s) + 1
  BY <1>1, ProgramShape DEF Runs, Rest
<1>5. 1 + k \in Nat /\ 1 + k <= Len(todo[p])
  BY <1>1, <1>3, <1>4
<1>6. todo'[p] \in Seq(ToSet(s)) /\ Rest(todo'[p], s, c + (1 + k))
  BY <1>1, <1>2, <1>5, RestMoves DEF Runs
<1>7. Runs(p, s, c + (1 + k))'
  BY <1>1, <1>6 DEF Runs
<1>8. c + (1 + k) = c + k + 1
  BY <1>3, <1>4
<1> QED BY <1>3, <1>7, <1>8 DEF Standing, Checked

LEMMA ShapeKept ==
  ASSUME Shaped, NEW p \in Procs, NEW t, IsTx(t),
         tx' = [tx EXCEPT ![p] = t], UNCHANGED <<g, call>>,
         NEW u, todo' = [todo EXCEPT ![p] = u]
  PROVE  /\ Shaped' /\ tx'[p] = t /\ todo'[p] = u
         /\ \A q \in Procs \ {p} : tx'[q] = tx[q] /\ todo'[q] = todo[q]
BY DEF Shaped

LEMMA QuitStep ==
  ASSUME IInv, NEW p \in Procs, Leaves(p), Setting'
  PROVE  IInv'
<1>1. /\ Shaped' /\ tx'[p] = Closed
      /\ \A q \in Procs \ {p} : /\ tx'[q] = tx[q] /\ todo'[q] = todo[q]
                                /\ call'[q] = call[q]
  BY ClosedIs DEF IInv, Shaped, Leaves
<1>2. Chains'
  BY <1>1, ChainsRest, ClosedIs DEF IInv, Leaves
<1>3. ASSUME NEW q \in Procs PROVE Standing(q)'
  <2>1. CASE q = p
    BY <2>1, QuitterIsIdle DEF IInv, Standing
  <2>2. CASE q # p
    BY <1>1, <2>2, OtherStands, FactsStay DEF IInv, Leaves
  <2> QED BY <2>1, <2>2
<1> QED BY <1>1, <1>2, <1>3 DEF IInv

LEMMA PassStep ==
  ASSUME IInv, NEW p \in Procs, Passes(p), Setting'
  PROVE  IInv'
<1>1. Shaped' /\ \A q \in Procs \ {p} : todo'[q] = todo[q]
  BY DEF IInv, Shaped, Passes, Advances
<1>2. Chains'
  BY ChainsRest DEF IInv, Passes
<1>3. \A q \in Procs : FactsGrow(q)
  BY FactsStay DEF Passes
<1>4. ASSUME NEW q \in Procs PROVE Standing(q)'
  <2>1. CASE q # p
    BY <1>1, <1>3, <2>1, OtherStands DEF IInv, Passes
  <2>2. CASE UNCHANGED todo
    BY <1>3, <2>2, OtherStands DEF IInv, Passes
  <2>3. CASE q = p /\ (Advances(p, 1) \/ todo' = [todo EXCEPT ![p] = Tail(@)])
    <3>1. \/ todo'[p] = Tail(todo[p])
          \/ todo'[p] = SubSeq(todo[p], 1 + 1, Len(todo[p]))
      BY <2>3 DEF IInv, Shaped, Advances
    <3>2. Head(todo[p]).do # "revise"
      BY DEF Passes, Writing
    <3> QED BY <1>3, <2>3, <3>1, <3>2, OnwardStands DEF IInv, Passes
  <2>4. CASE q = p /\ Skips(Head(todo[p])) /\ Advances(p, 1 + Head(todo[p]).skip)
    <3>1. todo'[p] = SubSeq(todo[p], (1 + Head(todo[p]).skip) + 1, Len(todo[p]))
      BY <2>4 DEF IInv, Shaped, Advances
    <3> QED BY <2>4, <3>1, SkipperStands DEF IInv, Passes
  <2> QED BY <2>1, <2>2, <2>3, <2>4 DEF Passes
<1> QED BY <1>1, <1>2, <1>4 DEF IInv

-----------------------------------------------------------------------------
(* Steps that write.                                                       *)

LEMMA GoesOnShape ==
  ASSUME Shaped, NEW p \in Procs, NEW t, IsTx(t),
         GoesOn(p, 1, t)
  PROVE  /\ Shaped' /\ tx'[p] = t
         /\ todo'[p] = SubSeq(todo[p], 1 + 1, Len(todo[p]))
         /\ \A q \in Procs \ {p} : tx'[q] = tx[q] /\ todo'[q] = todo[q]
BY ShapeKept DEF GoesOn

LEMMA WriteStep ==
  ASSUME IInv, NEW p \in Procs, todo[p] # <<>>,
         Head(todo[p]).do = "revise" => Revised(p, Head(todo[p]).node),
         NEW t, IsTx(t), t.facts = tx[p].facts,
         GoesOn(p, 1, t)
  PROVE  IInv'
<1>1. /\ Shaped' /\ tx'[p] = t
      /\ todo'[p] = SubSeq(todo[p], 1 + 1, Len(todo[p]))
      /\ \A q \in Procs \ {p} : tx'[q] = tx[q] /\ todo'[q] = todo[q]
  BY GoesOnShape DEF IInv
<1>2. Chains'
  BY <1>1, ChainsRest DEF IInv, GoesOn
<1>3. \A q \in Procs : FactsGrow(q)
  BY <1>1, FactsStay DEF GoesOn
<1>4. ASSUME NEW q \in Procs PROVE Standing(q)'
  <2>1. CASE q = p
    BY <1>1, <1>3, <2>1, OnwardStands DEF IInv, GoesOn
  <2>2. CASE q # p
    BY <1>1, <1>3, <2>2, OtherStands DEF IInv, GoesOn
  <2> QED BY <2>1, <2>2
<1>5. Setting'
  BY DEF IInv, Setting, GoesOn, bounds
<1> QED BY <1>1, <1>2, <1>4, <1>5 DEF IInv

LEMMA NothingPasses ==
  ASSUME IInv, NEW p \in Procs, todo[p] # <<>>, Head(todo[p]).do # "revise",
         NEW fault, Checks(p, fault)
  PROVE  IInv'
<1>1. CASE Ends(p, fault)
  BY <1>1, QuitStep DEF Ends, bounds, Setting, IInv
<1>2. CASE GoesOn(p, 1, tx[p])
  BY <1>2, WriteStep DEF IInv, Shaped
<1> QED BY <1>1, <1>2 DEF Checks

LEMMA EndStep ==
  ASSUME IInv, NEW p \in Procs, NEW how, Ends(p, how)
  PROVE  IInv'
BY QuitStep DEF Ends, bounds, Setting, IInv

LEMMA NodeInsertStep ==
  ASSUME IInv, NEW p \in Procs, NodeInsert(p)
  PROVE  IInv'
<1> PICK n : n = Head(todo[p]).node
  OBVIOUS
<1>1. todo[p] # <<>> /\ Head(todo[p]).do = "insert node"
  BY DEF NodeInsert, Executes
<1>2. CASE HasNode(p, n)
  BY <1>1, <1>2, NothingPasses DEF NodeInsert
<1>3. CASE ~HasNode(p, n)
  <2>0. IsTx(tx[p])
    BY DEF IInv, Shaped
  <2>1. PICK t : t = [tx[p] EXCEPT !.nodes = With(@, n.id, Row(n))]
    OBVIOUS
  <2>2. IsTx(t) /\ t.facts = tx[p].facts
    BY <2>0, <2>1 DEF TxFields, IsTx
  <2>3. GoesOn(p, 1, t)
    BY <1>3, <2>1 DEF NodeInsert
  <2> QED BY <1>1, <2>2, <2>3, WriteStep
<1> QED BY <1>2, <1>3

LEMMA ReviseStep ==
  ASSUME IInv, NEW p \in Procs, Revise(p)
  PROVE  IInv'
<1> PICK n : n = Head(todo[p]).node
  OBVIOUS
<1>1. todo[p] # <<>> /\ Head(todo[p]).do = "revise"
  BY DEF Revise, Executes
<1>2. CASE Revision(View(p), n) # ""
  BY <1>2, EndStep DEF Revise
<1>3. CASE Revision(View(p), n) = ""
  <2>0. IsTx(tx[p])
    BY DEF IInv, Shaped
  <2>1. PICK t : t = [tx[p] EXCEPT !.locks = @ \cup {FactLock(n.supersedes)}]
    OBVIOUS
  <2>2. IsTx(t) /\ t.facts = tx[p].facts
    BY <2>0, <2>1 DEF TxFields, IsTx
  <2>3. GoesOn(p, 1, t)
    BY <1>3, <2>1 DEF Revise
  <2>4. /\ n.supersedes \in DOMAIN Facts(p)
        /\ Facts(p)[n.supersedes].kind = n.kind
        /\ n.kind = "Metric" => Facts(p)[n.supersedes].series = n.series
        /\ ~(n.time <= Facts(p)[n.supersedes].time)
    BY <1>3 DEF Revision, View, Facts
  <2>5. Facts(p)[n.supersedes].time < n.time
    <3>1. n.time \in Int
      BY <1>1, BusyRuns DEF IInv, IsProgram, IsRow
    <3>2. Facts(p)[n.supersedes].time \in Int
      BY <2>4, RowsOver DEF IInv, Chains, Rows, IsRow, Facts
    <3> QED BY <2>4, <3>1, <3>2
  <2>6. Revised(p, n)
    BY <2>4, <2>5 DEF Revised, Succeeds
  <2> QED BY <1>1, <2>2, <2>3, <2>6, WriteStep
<1> QED BY <1>2, <1>3

LEMMA SourceReadStep ==
  ASSUME IInv, NEW p \in Procs, SourceRead(p)
  PROVE  IInv'
<1> PICK s : s = Head(todo[p])
  OBVIOUS
<1>1. todo[p] # <<>> /\ s.do = "source"
  BY DEF SourceRead, Executes
<1>2. ASSUME NEW how, Ends(p, how) PROVE IInv'
  BY <1>2, EndStep
<1>3. PICK t : t = [tx[p] EXCEPT
               !.locks = IF s.lock THEN @ \cup {NodeLock(s.node.id)} ELSE @]
  OBVIOUS
<1>4. ASSUME GoesOn(p, 1, t) PROVE IInv'
  <2>1. IsTx(tx[p])
    BY DEF IInv, Shaped
  <2>2. IsTx(t) /\ t.facts = tx[p].facts
    BY <1>3, <2>1 DEF TxFields, IsTx
  <2> QED BY <1>1, <1>4, <2>2, WriteStep
<1> QED BY <1>2, <1>3, <1>4 DEF SourceRead

LEMMA EdgeInsertStep ==
  ASSUME IInv, NEW p \in Procs, EdgeInsert(p)
  PROVE  IInv'
<1> PICK s : s = Head(todo[p])
  OBVIOUS
<1>1. todo[p] # <<>> /\ s.do = "insert edge"
  BY DEF EdgeInsert, Executes
<1>2. ASSUME NEW fault, Checks(p, fault) PROVE IInv'
  BY <1>1, <1>2, NothingPasses
<1>3. PICK e : e = [s.edge EXCEPT !.at = IF @ = Current THEN began[p] ELSE @]
  OBVIOUS
<1>4. PICK t : t = [tx[p] EXCEPT
               !.edges = @ \cup {e},
               !.shares = @ \cup {NodeLock(e.source), NodeLock(e.target)}]
  OBVIOUS
<1>5. ASSUME GoesOn(p, 1, t) PROVE IInv'
  <2>1. IsTx(tx[p])
    BY DEF IInv, Shaped
  <2>2. IsTx(t) /\ t.facts = tx[p].facts
    BY <1>4, <2>1 DEF TxFields, IsTx
  <2> QED BY <1>1, <1>5, <2>2, WriteStep
<1> QED BY <1>2, <1>3, <1>4, <1>5 DEF EdgeInsert

Foreign(id, n, y) ==
  \A j \in DOMAIN y :
    j # id /\ (n.supersedes = y[j].supersedes => n.supersedes = NoId)

LEMMA ApartWith ==
  ASSUME NEW x, NEW y, NEW id, NEW n, Apart(x, y), Foreign(id, n, y)
  PROVE  Apart(With(x, id, n), y)
BY DEF With, Apart, Foreign

LEMMA ApartAlike ==
  ASSUME NEW x, NEW y, Apart(x, y)
  PROVE  Apart(y, x)
BY DEF Apart

LEMMA RowsWith ==
  ASSUME NEW x, NEW id, NEW n, Rows(x), IsRow(n), n.id = id
  PROVE  Rows(With(x, id, n)) /\ DOMAIN With(x, id, n) = DOMAIN x \cup {id}
BY DEF With, Rows

FitsIn(p, n) ==
  /\ n.id \notin DOMAIN Facts(p)
  /\ n.supersedes # NoId =>
       \A i \in DOMAIN Facts(p) : Facts(p)[i].supersedes # n.supersedes
Adds(p, n, t) == t.facts = With(tx[p].facts, n.id, n)

\* A row is added by its own transaction: nobody else adds it, or what else
\* replaces the row it replaces.
LEMMA AddStep ==
  ASSUME IInv, NEW p \in Procs, Executes(p, "insert fact"),
         NEW n, n = Head(todo[p]).node, FitsIn(p, n),
         NEW t, IsTx(t), Adds(p, n, t), GoesOn(p, 1, t)
  PROVE  IInv'
<1>a. PICK id, base, old, new :
        /\ id = n.id /\ base = g.facts
        /\ old = tx[p].facts /\ new = t.facts
  OBVIOUS
<1>b. new = With(old, id, n)
  BY <1>a DEF Adds
<1>0. todo[p] # <<>> /\ Head(todo[p]).do = "insert fact" /\ WaitsFor(p) = {}
  BY DEF Executes
<1>1. /\ Shaped' /\ tx'[p] = t
      /\ todo'[p] = SubSeq(todo[p], 1 + 1, Len(todo[p]))
      /\ \A q \in Procs \ {p} : tx'[q] = tx[q] /\ todo'[q] = todo[q]
  BY GoesOnShape DEF IInv
<1>2. PICK s, c : /\ Runs(p, s, c) /\ Checked(p, s, c) /\ IsProgram(s)
                  /\ c \in DOMAIN s /\ Head(todo[p]) = s[c]
                  /\ Len(todo[p]) \in Nat \ {0}
  BY <1>0, BusyRuns DEF IInv
<1>3. IsRow(n)
  BY <1>0, <1>2 DEF IsProgram
<1>4. n.supersedes # NoId => Revised(p, n)
  BY <1>0, <1>2 DEF Checked, Appends
<1>5. Linear(Over(new, base)) /\ Extends(Over(old, base), Over(new, base))
  <2>1. Linear(Over(old, base))
    BY <1>a DEF IInv, Chains, Facts
  <2>2. Joins(id, n, Over(old, base))
    BY <1>4, <1>a DEF Facts, FitsIn, Revised, Joins
  <2> QED BY <1>b, <2>1, <2>2, LinearWith
<1>6. \A q \in Procs : FactsGrow(q)
  <2>1. FactsGrow(p)
    BY <1>1, <1>5, <1>a DEF FactsGrow, Facts, GoesOn
  <2>2. \A q \in Procs \ {p} : FactsGrow(q)
    BY <1>1, FactsStay DEF GoesOn
  <2> QED BY <2>1, <2>2
<1>7. Rows(new) /\ DOMAIN new \cap DOMAIN g.facts = {}
  <2>1. Rows(old) /\ DOMAIN old \cap DOMAIN g.facts = {}
    BY <1>a DEF IInv, Chains
  <2>2. id \notin DOMAIN g.facts
    BY <1>a DEF Facts, Over, FitsIn
  <2>3. Rows(With(old, id, n)) /\ DOMAIN With(old, id, n) = DOMAIN old \cup {id}
    BY <1>3, <1>a, <2>1, RowsWith
  <2> QED BY <1>b, <2>1, <2>2, <2>3
<1>8. ASSUME NEW q \in Procs, q # p, NEW y, y = tx[q].facts
      PROVE  Apart(new, y) /\ Apart(y, new)
  <2>1. Foreign(id, n, y)
    BY <1>0, <1>8, <1>a DEF WaitsFor, Foreign
  <2>2. Apart(old, y)
    BY <1>8, <1>a DEF IInv, Chains
  <2>3. Apart(With(old, id, n), y)
    BY <2>1, <2>2, ApartWith
  <2> QED BY <1>b, <2>3, ApartAlike
<1>9. ASSUME NEW q \in Procs, NEW r \in Procs, q # r
      PROVE  Apart(tx'[q].facts, tx'[r].facts)
  <2>1. CASE q = p
    BY <1>1, <1>8, <1>9, <1>a, <2>1
  <2>2. CASE r = p
    BY <1>1, <1>8, <1>9, <1>a, <2>2
  <2>3. CASE q # p /\ r # p
    BY <1>1, <1>9, <2>3 DEF IInv, Chains
  <2> QED BY <2>1, <2>2, <2>3
<1>10. Chains'
  <2>1. ASSUME NEW q \in Procs
        PROVE  /\ Rows(tx'[q].facts) /\ Linear(Over(tx'[q].facts, g'.facts))
               /\ DOMAIN tx'[q].facts \cap DOMAIN g'.facts = {}
    BY <1>1, <1>5, <1>7, <1>a DEF IInv, Chains, Facts, GoesOn
  <2>2. Rows(g'.facts) /\ Linear(g'.facts)
    BY DEF IInv, Chains, GoesOn
  <2> QED BY <1>9, <2>1, <2>2 DEF Chains, Facts
<1>11. ASSUME NEW q \in Procs PROVE Standing(q)'
  <2>1. CASE q = p
    BY <1>0, <1>1, <1>6, <2>1, OnwardStands DEF IInv, GoesOn
  <2>2. CASE q # p
    BY <1>1, <1>6, <2>2, OtherStands DEF IInv, GoesOn
  <2> QED BY <2>1, <2>2
<1>12. Setting'
  BY DEF IInv, Setting, GoesOn, bounds
<1> QED BY <1>1, <1>10, <1>11, <1>12 DEF IInv

LEMMA FactInsertStep ==
  ASSUME IInv, NEW p \in Procs, FactInsert(p)
  PROVE  IInv'
<1> PICK n : n = Head(todo[p]).node
  OBVIOUS
<1>1. Executes(p, "insert fact") /\ View(p).facts = Facts(p)
  BY DEF FactInsert, View, Facts
<1>2. CASE HasFact(p, n)
  BY <1>1, <1>2, NothingPasses DEF FactInsert, Executes
<1>3. CASE ~HasFact(p, n) /\ ~HasNode(p, n)
  BY <1>1, <1>3, EndStep DEF FactInsert
<1>4. CASE /\ ~HasFact(p, n) /\ HasNode(p, n) /\ n.supersedes # NoId
           /\ \E i \in DOMAIN Facts(p) :
                Facts(p)[i].supersedes = n.supersedes /\ i # n.id
  BY <1>1, <1>4, EndStep DEF FactInsert
<1>5. CASE /\ ~HasFact(p, n) /\ HasNode(p, n)
           /\ ~(/\ n.supersedes # NoId
                /\ \E i \in DOMAIN Facts(p) :
                     Facts(p)[i].supersedes = n.supersedes /\ i # n.id)
  <2>1. IsTx(tx[p])
    BY DEF IInv, Shaped
  <2>2. PICK t : t = [tx[p] EXCEPT
               !.facts = With(@, n.id, n),
               !.shares = @ \cup {NodeLock(n.id)}
                          \cup (IF n.supersedes = NoId THEN {}
                                ELSE {FactLock(n.supersedes)})]
    OBVIOUS
  <2>3. IsTx(t) /\ Adds(p, n, t)
    BY <2>1, <2>2 DEF TxFields, IsTx, Adds
  <2>4. GoesOn(p, 1, t)
    BY <1>1, <1>5, <2>2 DEF FactInsert
  <2>5. FitsIn(p, n)
    BY <1>1, <1>5 DEF HasFact, FitsIn
  <2> QED BY <1>1, <1>5, <2>3, <2>4, <2>5, AddStep
<1> QED BY <1>2, <1>4, <1>5, <1>3

-----------------------------------------------------------------------------
(* The commit, the environment, and the theorem.                           *)

LEMMA CommitStep ==
  ASSUME IInv, NEW p \in Procs, CommitTx(p)
  PROVE  IInv'
<1>0. todo[p] # <<>> /\ Head(todo[p]).do = "commit"
  BY DEF CommitTx, Executes
<1>a. PICK base, mine : base = g.facts /\ mine = tx[p].facts
  OBVIOUS
<1>1. /\ g' = View(p) /\ g'.facts = Over(mine, base)
      /\ tx'[p] = Closed /\ DOMAIN tx'[p].facts = {}
      /\ \A q \in Procs \ {p} : /\ tx'[q] = tx[q] /\ todo'[q] = todo[q]
                                /\ call'[q] = call[q]
  BY <1>a, ClosedIs DEF CommitTx, View, IInv, Shaped
<1>2. Shaped'
  BY <1>1, ClosedIs DEF CommitTx, View, IInv, Shaped
<1>3. Rows(Over(mine, base)) /\ Linear(Over(mine, base))
  BY <1>a, RowsOver DEF IInv, Chains, Facts
<1>4. ASSUME NEW q \in Procs, q # p, NEW x, x = tx[q].facts
      PROVE  /\ Linear(Over(x, Over(mine, base))) /\ Rows(x)
             /\ Extends(Over(x, base), Over(x, Over(mine, base)))
             /\ DOMAIN x \cap DOMAIN Over(mine, base) = {}
  <2>1. /\ Linear(Over(x, base)) /\ Linear(Over(mine, base))
        /\ DOMAIN x \cap DOMAIN base = {} /\ DOMAIN mine \cap DOMAIN base = {}
        /\ Apart(x, mine) /\ Rows(x)
    BY <1>4, <1>a DEF IInv, Chains, Facts
  <2> QED BY <2>1, LinearTogether
<1>5. ASSUME NEW q \in Procs
      PROVE  /\ Rows(tx'[q].facts) /\ Linear(Over(tx'[q].facts, g'.facts))
             /\ DOMAIN tx'[q].facts \cap DOMAIN g'.facts = {}
  <2>1. CASE q = p
    <3>1. Linear(Over(tx'[p].facts, Over(mine, base)))
      BY <1>1, <1>3, LinearOverNothing
    <3>2. Rows(tx'[p].facts)
      BY <1>1 DEF Rows
    <3> QED BY <1>1, <2>1, <3>1, <3>2
  <2>2. CASE q # p
    BY <1>1, <1>4, <2>2
  <2> QED BY <2>1, <2>2
<1>6. ASSUME NEW q \in Procs, NEW r \in Procs, q # r
      PROVE  Apart(tx'[q].facts, tx'[r].facts)
  <2>1. CASE q = p \/ r = p
    BY <1>1, <2>1 DEF Apart
  <2>2. CASE q # p /\ r # p
    BY <1>1, <1>6, <2>2 DEF IInv, Chains
  <2> QED BY <2>1, <2>2
<1>7. Chains'
  BY <1>1, <1>3, <1>5, <1>6 DEF Chains, Facts
<1>8. ASSUME NEW q \in Procs PROVE FactsGrow(q)
  <2>1. CASE q = p
    <3>1. Extends(Over(mine, base), Over(tx'[p].facts, Over(mine, base)))
      BY <1>1, OverNothing
    <3> QED BY <1>1, <1>a, <2>1, <3>1 DEF FactsGrow, Facts
  <2>2. CASE q # p
    BY <1>1, <1>4, <1>a, <2>2 DEF FactsGrow, Facts
  <2> QED BY <2>1, <2>2
<1>9. ASSUME NEW q \in Procs PROVE Standing(q)'
  <2>1. CASE q # p
    BY <1>1, <1>8, <2>1, OtherStands DEF IInv
  <2>2. CASE q = p /\ Len(todo[p]) = 1
    BY <1>1, <2>2 DEF CommitTx, IInv, Shaped, Standing, Idle
  <2>3. CASE q = p /\ Len(todo[p]) # 1
    <3>1. todo'[p] = Tail(todo[p]) /\ call'[p] = call[p]
      BY <2>3 DEF CommitTx, IInv, Shaped
    <3> QED BY <1>0, <1>8, <2>3, <3>1, OnwardStands DEF IInv
  <2> QED BY <2>1, <2>2, <2>3
<1>10. Setting'
  BY DEF CommitTx, IInv, Setting, bounds
<1> QED BY <1>2, <1>7, <1>9, <1>10 DEF IInv

LEMMA CallStep ==
  ASSUME IInv, NEW p \in Procs, NEW name \in DOMAIN outcome, Call(p, name)
  PROVE  IInv'
<1> PICK s : s = Programs[name][now]
  OBVIOUS
<1>1. /\ name \in DOMAIN Programs /\ now \in 1 .. MaxNow /\ IsProgram(s)
      /\ s \in Seq(ToSet(s)) /\ Rest(s, s, 1)
  BY EveryProgram, RestStarts DEF IInv, Setting, IsProgram
<1>2. /\ Shaped' /\ call'[p] = name /\ todo'[p] = s
      /\ \A q \in Procs \ {p} : call'[q] = call[q] /\ todo'[q] = todo[q]
  BY DEF Call, IInv, Shaped
<1>3. Chains'
  BY ChainsRest DEF Call, IInv
<1>4. \A q \in Procs : FactsGrow(q)
  BY FactsStay DEF Call
<1>5. ASSUME NEW i \in DOMAIN s, Appends(s[i]) PROVE 1 \notin {i - 1, i}
  <2>1. IsProgram(s) /\ i \in DOMAIN s
    BY <1>1
  <2>2. i \in Nat
    BY <2>1, ProgramShape
  <2>3. i > 2
    BY <1>5, <2>1 DEF IsProgram, RevisesFirst
  <2> QED BY <2>2, <2>3
<1>6. Standing(p)'
  <2>1. Runs(p, s, 1)'
    BY <1>1, <1>2 DEF Runs
  <2>2. Checked(p, s, 1)'
    BY <1>5 DEF Checked
  <2> QED BY <2>1, <2>2 DEF Standing
<1>7. \A q \in Procs \ {p} : Standing(q)'
  BY <1>2, <1>4, OtherStands DEF Call, IInv
<1>8. Setting'
  BY DEF Call, IInv, Setting, bounds
<1> QED BY <1>2, <1>3, <1>6, <1>7, <1>8 DEF IInv

\* A row changed by hand keeps what a chain is made of; a row that is deleted
\* was the last of its chain.
LEMMA DamagedChains ==
  ASSUME NEW f, NEW id \in DOMAIN f, Rows(f), Linear(f)
  PROVE  /\ Rows([f EXCEPT ![id] = Altered(@)])
         /\ Linear([f EXCEPT ![id] = Altered(@)])
         /\ (\A i \in DOMAIN f : f[i].supersedes # id) =>
              /\ Rows([i \in DOMAIN f \ {id} |-> f[i]])
              /\ Linear([i \in DOMAIN f \ {id} |-> f[i]])
<1>1. PICK h : h = [f EXCEPT ![id] = Altered(@)]
  OBVIOUS
<1>2. f[id] = [x \in NodeFields |-> f[id][x]]
  BY DEF Rows, IsRow
<1>3. /\ Altered(f[id]) = [x \in NodeFields |-> Altered(f[id])[x]]
      /\ Altered(f[id]).id = f[id].id /\ Altered(f[id]).time = f[id].time
      /\ Altered(f[id]).published = f[id].published
      /\ Altered(f[id]).supersedes = f[id].supersedes
      /\ Altered(f[id]).kind = f[id].kind /\ Altered(f[id]).series = f[id].series
      /\ Altered(f[id]).uses = f[id].uses
  BY <1>2 DEF Altered, NodeFields
<1>4. /\ DOMAIN h = DOMAIN f /\ h[id] = Altered(f[id])
      /\ \A i \in DOMAIN f \ {id} : h[i] = f[i]
  BY <1>1
<1>5. \A i \in DOMAIN f :
        /\ h[i].id = f[i].id /\ h[i].time = f[i].time
        /\ h[i].published = f[i].published /\ h[i].supersedes = f[i].supersedes
        /\ h[i].kind = f[i].kind /\ h[i].series = f[i].series
        /\ h[i].uses = f[i].uses
  BY <1>3, <1>4
<1>6. \A i \in DOMAIN f : h[i] = [x \in NodeFields |-> h[i][x]]
  <2>1. \A i \in DOMAIN f : f[i] = [x \in NodeFields |-> f[i][x]]
    BY DEF Rows, IsRow
  <2> QED BY <1>3, <1>4, <2>1
<1>7. Rows(h)
  BY <1>4, <1>5, <1>6 DEF Rows, IsRow
<1>8. Linear(h)
  BY <1>4, <1>5 DEF Linear, Succeeds
<1>9. ASSUME \A i \in DOMAIN f : f[i].supersedes # id
      PROVE  /\ Rows([i \in DOMAIN f \ {id} |-> f[i]])
             /\ Linear([i \in DOMAIN f \ {id} |-> f[i]])
  BY <1>9 DEF Rows, Linear
<1> QED BY <1>1, <1>7, <1>8, <1>9

LEMMA DamageStep ==
  ASSUME IInv, Damage
  PROVE  IInv'
<1>a. PICK f : f = g.facts
  OBVIOUS
<1>1. Rows(f) /\ Linear(f)
  BY <1>a DEF IInv, Chains
<1>2. Shaped' /\ Rows(g'.facts) /\ Linear(g'.facts)
  <2>1. PICK id \in DOMAIN g.nodes :
          \/ g' = [g EXCEPT !.nodes[id].payload = Altered(@)]
          \/ /\ id \in DOMAIN g.facts
             /\ \/ g' = [g EXCEPT !.facts[id] = Altered(@)]
                \/ /\ SuccessorsOf(g, id) = {}
                   /\ g' = [g EXCEPT !.facts = [i \in DOMAIN @ \ {id} |-> @[i]]]
    BY DEF Damage
  <2>2. Shaped'
    BY <2>1 DEF IInv, Shaped, Damage
  <2>3. CASE g' = [g EXCEPT !.nodes[id].payload = Altered(@)]
    BY <1>1, <1>a, <2>2, <2>3 DEF IInv, Shaped
  <2>4. CASE id \in DOMAIN g.facts /\ g' = [g EXCEPT !.facts[id] = Altered(@)]
    <3>1. g'.facts = [f EXCEPT ![id] = Altered(@)]
      BY <1>a, <2>4 DEF IInv, Shaped
    <3>2. id \in DOMAIN f
      BY <1>a, <2>4
    <3>3. /\ Rows([f EXCEPT ![id] = Altered(@)])
          /\ Linear([f EXCEPT ![id] = Altered(@)])
      BY <1>1, <3>2, DamagedChains
    <3> QED BY <2>2, <3>1, <3>3
  <2>5. CASE /\ id \in DOMAIN g.facts /\ SuccessorsOf(g, id) = {}
             /\ g' = [g EXCEPT !.facts = [i \in DOMAIN @ \ {id} |-> @[i]]]
    <3>1. g'.facts = [i \in DOMAIN f \ {id} |-> f[i]]
      BY <1>a, <2>5 DEF IInv, Shaped
    <3>2. \A i \in DOMAIN f : f[i].supersedes # id
      BY <1>a, <2>5 DEF SuccessorsOf
    <3>3. id \in DOMAIN f
      BY <1>a, <2>5
    <3>4. /\ Rows([i \in DOMAIN f \ {id} |-> f[i]])
          /\ Linear([i \in DOMAIN f \ {id} |-> f[i]])
      BY <1>1, <3>2, <3>3, DamagedChains
    <3> QED BY <2>2, <3>1, <3>4
  <2> QED BY <2>1, <2>3, <2>4, <2>5
<1>3. ASSUME NEW p \in Procs PROVE Idle(p)
  <2>1. call[p] = "none"
    BY DEF Damage
  <2> QED BY <2>1, ProgramsFit DEF IInv, Standing, Runs
<1>4. \A p \in Procs : DOMAIN tx'[p].facts = {} /\ Idle(p)'
  BY <1>3, ClosedIs DEF Idle, Damage
<1>5. Chains'
  <2>1. \A p \in Procs : Linear(Over(tx'[p].facts, g'.facts))
    BY <1>2, <1>4, LinearOverNothing
  <2>2. \A p \in Procs : Rows(tx'[p].facts)
    BY <1>4 DEF Rows
  <2>3. \A p, q \in Procs : Apart(tx'[p].facts, tx'[q].facts)
    BY <1>4 DEF Apart
  <2> QED BY <1>2, <1>4, <2>1, <2>2, <2>3 DEF Chains, Facts
<1>6. Setting'
  BY DEF Damage, IInv, Setting
<1> QED BY <1>2, <1>4, <1>5, <1>6 DEF IInv, Standing

LEMMA TickStep ==
  ASSUME IInv, Tick
  PROVE  IInv'
<1>1. Setting'
  <2>1. now \in Nat /\ 1 <= now /\ MaxNow \in Nat
    BY ClockAssumption DEF IInv, Setting
  <2> QED BY <2>1 DEF IInv, Setting, Tick
<1>2. \A p \in Procs : FactsGrow(p)
  BY FactsStay DEF Tick
<1>3. \A p \in Procs : Standing(p)'
  BY <1>2, OtherStands DEF Tick, IInv
<1>4. Chains'
  BY ChainsRest DEF Tick, IInv
<1> QED BY <1>1, <1>3, <1>4 DEF IInv, Shaped, Tick

LEMMA StutterStep ==
  ASSUME IInv, UNCHANGED vars
  PROVE  IInv'
<1>1. \A p \in Procs : FactsGrow(p)
  BY FactsStay DEF vars
<1>2. \A p \in Procs : Standing(p)'
  BY <1>1, OtherStands DEF vars, IInv
<1>3. Chains'
  BY ChainsRest DEF vars, IInv
<1> QED BY <1>2, <1>3 DEF IInv, Shaped, vars, bounds, Setting

LEMMA CrashStep ==
  ASSUME IInv, NEW p \in Procs, Crash(p)
  PROVE  IInv'
BY QuitStep DEF Crash, IInv, Setting

LEMMA ReadsSetting ==
  ASSUME Setting, NEW p \in Procs, Reads(p)
  PROVE  Setting'
<1>1. UNCHANGED bounds /\ DOMAIN outcome' = DOMAIN outcome
  BY DEF Reads, NodeRead, FactRead, BothRead, TargetsRead, ReachRead, ExistingRead,
         PersistedRead, EndpointsRead, Refuse, Resolve, Verify, WalkUp, WalkDown,
         Candidates, Links, LineageRead, AbortDeadlocked, Decides, Checks, GoesOn,
         Ends, Returns
<1> QED BY <1>1 DEF Setting, bounds

LEMMA ReadStep ==
  ASSUME IInv, NEW p \in Procs, Reads(p)
  PROVE  IInv'
<1>1. CASE Quits(p)
  <2>1. Setting'
    BY <1>1, ReadsSetting DEF IInv
  <2> QED BY <1>1, <2>1, QuitStep DEF Quits
<1>2. CASE Passes(p)
  BY <1>2, ReadsSetting, PassStep DEF IInv
<1> QED BY <1>1, <1>2, ReadForms DEF IInv

LEMMA NextStep ==
  ASSUME IInv, [Next]_vars
  PROVE  IInv'
<1>1. ASSUME NEW p \in Procs, Statements(p) PROVE IInv'
  <2>1. CASE NodeInsert(p)
    BY <2>1, NodeInsertStep
  <2>2. CASE FactInsert(p)
    BY <2>2, FactInsertStep
  <2>3. CASE Revise(p)
    BY <2>3, ReviseStep
  <2>4. CASE SourceRead(p)
    BY <2>4, SourceReadStep
  <2>5. CASE EdgeInsert(p)
    BY <2>5, EdgeInsertStep
  <2>6. CASE CommitTx(p)
    BY <2>6, CommitStep
  <2>7. CASE Reads(p)
    BY <2>7, ReadStep
  <2> QED BY <1>1, <2>1, <2>2, <2>3, <2>4, <2>5, <2>6, <2>7
          DEF Statements, Reads
<1>2. CASE Tick
  BY <1>2, TickStep
<1>3. CASE Damage
  BY <1>3, DamageStep
<1>4. ASSUME NEW p \in Procs, Crash(p) PROVE IInv'
  BY <1>4, CrashStep
<1>5. ASSUME NEW p \in Procs, NEW name \in DOMAIN outcome, Call(p, name)
      PROVE  IInv'
  BY <1>5, CallStep
<1>6. CASE UNCHANGED vars
  BY <1>6, StutterStep
<1> QED BY <1>1, <1>2, <1>3, <1>4, <1>5, <1>6 DEF Next

LEMMA HistoryChains ==
  ASSUME NEW stored, NEW edges, IsHistory(stored, edges)
  PROVE  LET f == [id \in {n.id : n \in {m \in stored : m.kind \notin Bare}} |->
                     CHOOSE n \in stored : n.id = id]
         IN Rows(f) /\ Linear(f)
<1> PICK ids : ids = {n.id : n \in {m \in stored : m.kind \notin Bare}}
  OBVIOUS
<1> PICK f : f = [id \in ids |-> CHOOSE n \in stored : n.id = id]
  OBVIOUS
<1>1. /\ \A n \in stored : n.kind \notin Bare => n.id \in ids
      /\ \A i \in ids : \E n \in stored : n.id = i
  OBVIOUS
<1>2. DOMAIN f = ids /\ \A i \in ids : f[i] \in stored /\ f[i].id = i
  BY <1>1
<1>3. Rows(f)
  BY <1>2 DEF Rows, IsHistory
<1>4. \A n \in stored : n.id \in ids => f[n.id] = n
  BY <1>2 DEF IsHistory
<1>5. ASSUME NEW i \in ids, f[i].supersedes # NoId
      PROVE  /\ f[i].supersedes \in ids /\ Succeeds(f[i], f[f[i].supersedes])
             /\ \A j \in ids : f[j].supersedes = f[i].supersedes => j = i
  <2>1. PICK m \in stored : /\ m.id = f[i].supersedes /\ m.kind \notin Bare
                            /\ Succeeds(f[i], m)
    BY <1>2, <1>5 DEF IsHistory
  <2>2. m.id \in ids /\ f[m.id] = m
    BY <1>1, <1>4, <2>1
  <2>3. \A j \in ids : f[j].supersedes = f[i].supersedes => f[j] = f[i]
    BY <1>2, <1>5 DEF IsHistory
  <2>4. \A j \in ids : f[j].supersedes = f[i].supersedes => j = i
    <3>1. ASSUME NEW j \in ids, f[j] = f[i] PROVE j = i
      <4>1. f[j].id = j /\ f[i].id = i
        BY <1>2, <1>5, <3>1
      <4> QED BY <3>1, <4>1
    <3> QED BY <2>3, <3>1
  <2>5. f[i].supersedes \in ids /\ f[f[i].supersedes] = m
    BY <2>1, <2>2
  <2>6. Succeeds(f[i], f[f[i].supersedes])
    BY <2>1, <2>5
  <2> QED BY <2>4, <2>5, <2>6
<1>6. Linear(f)
  BY <1>2, <1>5 DEF Linear
<1> QED BY <1>3, <1>6

LEMMA InitChains ==
  ASSUME Init
  PROVE  IInv
<1> PICK s \in Scenarios :
      /\ g = [nodes |-> [id \in {n.id : n \in s.stored} |->
                           Row(CHOOSE n \in s.stored : n.id = id)],
              facts |-> [id \in {n.id : n \in {m \in s.stored :
                                                 m.kind \notin Bare}} |->
                           CHOOSE n \in s.stored : n.id = id],
              edges |-> s.edges]
      /\ outcome = [name \in s.calls |-> "pending"]
  BY DEF Init
<1>1. Rows(g.facts) /\ Linear(g.facts)
  BY HistoryChains, ScenarioAssumption
<1>2. \A p \in Procs : Idle(p) /\ tx[p] = Closed /\ DOMAIN tx[p].facts = {}
  BY ClosedIs DEF Init, Idle
<1>3. Shaped
  BY ClosedIs DEF Init, Shaped
<1>4. Chains
  <2>1. \A p \in Procs : Linear(Facts(p))
    BY <1>1, <1>2, LinearOverNothing DEF Facts
  <2>2. \A p \in Procs : Rows(tx[p].facts)
    BY <1>2 DEF Rows
  <2>3. \A p, q \in Procs : Apart(tx[p].facts, tx[q].facts)
    BY <1>2 DEF Apart
  <2> QED BY <1>1, <1>2, <2>1, <2>2, <2>3 DEF Chains
<1>5. Setting
  <2>1. DOMAIN Programs = DOMAIN Requests
    BY ProgramsFit
  <2> QED BY <2>1, ClockAssumption, ScenarioAssumption DEF Init, Setting
<1> QED BY <1>2, <1>3, <1>4, <1>5 DEF IInv, Standing

LEMMA LinearChains ==
  ASSUME IInv
  PROVE  ChainsAreLinear
<1> PICK f : f = g.facts
  OBVIOUS
<1>1. Rows(f) /\ Linear(f)
  BY DEF IInv, Chains
<1>2. ASSUME NEW id \in DOMAIN f
      PROVE  /\ Cardinality(SuccessorsOf(g, id)) <= 1
             /\ \A i \in SuccessorsOf(g, id) :
                  /\ f[id].time < f[i].time /\ f[i].kind = f[id].kind
                  /\ f[i].kind = "Metric" => f[i].series = f[id].series
  <2>0. SuccessorsOf(g, id) = {i \in DOMAIN f : f[i].supersedes = id}
    BY DEF SuccessorsOf
  <2>1. id # NoId
    BY <1>1 DEF Rows, IsRow
  <2>2. \A i, j \in SuccessorsOf(g, id) : i = j
    BY <1>1, <2>0, <2>1 DEF Linear
  <2>3. Cardinality(SuccessorsOf(g, id)) <= 1
    <3>1. CASE SuccessorsOf(g, id) = {}
      BY <3>1, FS_EmptySet
    <3>2. ASSUME NEW i \in SuccessorsOf(g, id)
          PROVE  Cardinality(SuccessorsOf(g, id)) = 1
      <4>1. SuccessorsOf(g, id) = {i}
        BY <2>2
      <4> QED BY <4>1, FS_Singleton
    <3> QED BY <3>1, <3>2
  <2>4. \A i \in SuccessorsOf(g, id) :
          /\ f[id].time < f[i].time /\ f[i].kind = f[id].kind
          /\ f[i].kind = "Metric" => f[i].series = f[id].series
    BY <1>1, <2>0, <2>1 DEF Linear, Succeeds
  <2> QED BY <2>3, <2>4
<1> QED BY <1>2 DEF ChainsAreLinear

\* In every reachable state, however the statements of concurrent callers
\* interleave and wherever they stop, no revision chain branches, and each
\* revision is later than the row it replaces and, for metrics, has its key.
THEOREM ChainsStayLinear == Spec => []ChainsAreLinear
<1>1. Init => IInv
  BY InitChains
<1>2. IInv /\ [Next]_vars => IInv'
  BY NextStep
<1>3. IInv => ChainsAreLinear
  BY LinearChains
<1> QED BY <1>1, <1>2, <1>3, PTL DEF Spec

-----------------------------------------------------------------------------
(* Guarded aggregates: the inductive invariant.                            *)

WithKey(edges, k) == {e \in edges : KeyOf(e) = k}

\* A lock on a row has one holder.
Alone == \A p, q \in Procs : p # q => tx[p].locks \cap tx[q].locks = {}

\* Who has written an edge of a guarded set holds the lock of its source, and
\* nobody else's edge of that set is committed.
Covers(t, edges) ==
  \A e \in t.edges : KeyOf(e) \in GuardedKeys =>
    NodeLock(e.source) \in t.locks /\ WithKey(edges, KeyOf(e)) = {}

\* In its block a process holds the lock; once it has compared the set, that
\* set is empty for everybody else; past the block the set is what was asked.
Within(i, j, c, s, t, edges) ==
  LET last == j + s[j].skip
      k == Key(s[j])
  IN /\ i < c /\ c <= last => NodeLock(s[j].node.id) \in t.locks
     /\ j < c /\ c <= last => WithKey(edges, k) = {}
     /\ last < c => Targets(WithKey(t.edges \cup edges, k)) = s[j].ids
Blocked(s, c, t, edges) ==
  \A i, j \in DOMAIN s :
    Guarded(s[j]) /\ Block(s, i, j) => Within(i, j, c, s, t, edges)
Aligned(p) ==
  Idle(p) \/ \E s, c : Runs(p, s, c) /\ Blocked(s, c, tx[p], g.edges)

Whole(name) == \A s \in ToSet(Programs[name][1]) :
  Guarded(s) => Targets(WithKey(g.edges, Key(s))) = s.ids

AInv == /\ Alone
        /\ \A p \in Procs : Covers(tx[p], g.edges) /\ Aligned(p)
        /\ \A name \in DOMAIN outcome : outcome[name] = "ok" => Whole(name)

LEMMA KeyedEdges ==
  ASSUME NEW d, NEW n, NEW type
  PROVE  EdgesOf(d, n.id, type) = WithKey(d.edges, <<n.id, type>>)
BY DEF EdgesOf, WithKey, KeyOf

LEMMA NoTargets ==
  ASSUME NEW edges, Targets(edges) = {}
  PROVE  edges = {}
BY DEF Targets

LEMMA WithKeyOver ==
  ASSUME NEW e, NEW f, NEW k
  PROVE  /\ WithKey(e \cup f, k) = WithKey(e, k) \cup WithKey(f, k)
         /\ WithKey({}, k) = {}
BY DEF WithKey

LEMMA EveryBlock ==
  ASSUME NEW name \in DOMAIN Programs, NEW t \in 1 .. MaxNow,
         NEW s, s = Programs[name][t]
  PROVE  /\ WritesWhole(s)
         /\ \A j \in DOMAIN s : Guarded(s[j]) => Key(s[j]) \in GuardedKeys
         /\ \A x \in ToSet(Programs[name][1]) : Guarded(x) => x \in ToSet(s)
<1>1. /\ WritesWhole(s)
      /\ \A x \in ToSet(Programs[name][1]) : Guarded(x) => x \in ToSet(s)
  BY ProgramsFit
<1>2. ASSUME NEW j \in DOMAIN s, Guarded(s[j]) PROVE Key(s[j]) \in GuardedKeys
  <2>1. s[j] \in {x \in ToSet(Programs[name][t]) : Guarded(x)}
    BY <1>2 DEF ToSet
  <2> QED BY <2>1 DEF GuardedKeys
<1> QED BY <1>1, <1>2

LEMMA GuardedIds ==
  ASSUME NEW name \in DOMAIN Programs, NEW x \in ToSet(Programs[name][1]),
         Guarded(x)
  PROVE  x.ids # {} /\ Key(x) \in GuardedKeys
<1>1. 1 \in 1 .. MaxNow
  BY ClockAssumption
<1>2. PICK s : s = Programs[name][1]
  OBVIOUS
<1>3. PICK j \in DOMAIN s : s[j] = x
  BY <1>2 DEF ToSet
<1>4. /\ WritesWhole(s)
      /\ \A k \in DOMAIN s : Guarded(s[k]) => Key(s[k]) \in GuardedKeys
  BY <1>1, <1>2, EveryBlock
<1> QED BY <1>3, <1>4 DEF WritesWhole, Block

-----------------------------------------------------------------------------
(* What a step of p leaves of the others.                                  *)

\* A guarded set changes only if it was empty and p holds the lock.
Yields(p, k) == \/ WithKey(g'.edges, k) = WithKey(g.edges, k)
                \/ WithKey(g.edges, k) = {} /\ NodeLock(k[1]) \in tx[p].locks
Minds(p) == \A k \in GuardedKeys : Yields(p, k)

LEMMA OthersCovered ==
  ASSUME AInv, NEW p \in Procs, NEW q \in Procs, p # q, Minds(p)
  PROVE  Covers(tx[q], g'.edges)
<1>1. ASSUME NEW e \in tx[q].edges, KeyOf(e) \in GuardedKeys
      PROVE  NodeLock(e.source) \in tx[q].locks /\ WithKey(g'.edges, KeyOf(e)) = {}
  <2>1. NodeLock(e.source) \in tx[q].locks /\ WithKey(g.edges, KeyOf(e)) = {}
    BY <1>1 DEF AInv, Covers
  <2>2. NodeLock(e.source) \notin tx[p].locks
    BY <2>1 DEF AInv, Alone
  <2>3. KeyOf(e)[1] = e.source
    BY DEF KeyOf
  <2>4. Yields(p, KeyOf(e))
    BY <1>1 DEF Minds
  <2> QED BY <2>1, <2>2, <2>3, <2>4 DEF Yields
<1> QED BY <1>1 DEF Covers

LEMMA OthersAligned ==
  ASSUME AInv, NEW p \in Procs, NEW q \in Procs, p # q, Minds(p),
         call'[q] = call[q], todo'[q] = todo[q], tx'[q] = tx[q]
  PROVE  Aligned(q)'
<1>1. CASE Idle(q)
  BY <1>1 DEF Aligned, Idle
<1>2. CASE \E s, c : Runs(q, s, c) /\ Blocked(s, c, tx[q], g.edges)
  <2>1. PICK s, c : Runs(q, s, c) /\ Blocked(s, c, tx[q], g.edges)
    BY <1>2
  <2>2. Runs(q, s, c)'
    BY <2>1 DEF Runs
  <2>3. ASSUME NEW i \in DOMAIN s, NEW j \in DOMAIN s, Guarded(s[j]),
               Block(s, i, j)
        PROVE  Within(i, j, c, s, tx[q], g'.edges)
    <3>1. Within(i, j, c, s, tx[q], g.edges)
      BY <2>1, <2>3 DEF Blocked
    <3>2. PICK k, last : k = Key(s[j]) /\ last = j + s[j].skip
      OBVIOUS
    <3>3. k \in GuardedKeys /\ k[1] = s[j].node.id /\ s[j].ids # {}
      BY <2>1, <2>3, <3>2, EveryBlock DEF Runs, Key, Block
    <3>4. ASSUME NodeLock(k[1]) \in tx[q].locks
          PROVE  WithKey(g'.edges, k) = WithKey(g.edges, k)
      <4>1. NodeLock(k[1]) \notin tx[p].locks
        BY <3>4 DEF AInv, Alone
      <4> QED BY <3>3, <4>1 DEF Minds, Yields
    <3>5. i < j
      BY <2>3 DEF Block
    <3>6. ASSUME last < c PROVE WithKey(g'.edges, k) = WithKey(g.edges, k)
      <4>1. Targets(WithKey(tx[q].edges \cup g.edges, k)) # {}
        BY <3>1, <3>2, <3>3, <3>6 DEF Within
      <4>2. CASE WithKey(g.edges, k) = {}
        <5>1. Targets(WithKey(tx[q].edges \cup g.edges, k)) # Targets({})
          BY <4>1 DEF Targets
        <5>2. PICK e \in tx[q].edges : KeyOf(e) = k
          BY <4>2, <5>1 DEF WithKey
        <5>3. NodeLock(k[1]) \in tx[q].locks
          BY <3>3, <5>2 DEF AInv, Covers, KeyOf
        <5> QED BY <3>4, <5>3
      <4> QED BY <3>3, <4>2 DEF Minds, Yields
    <3>7. ASSUME i < c, c <= last
          PROVE  NodeLock(s[j].node.id) \in tx[q].locks
      BY <3>1, <3>2, <3>7 DEF Within
    <3>8. ASSUME j < c, c <= last PROVE WithKey(g'.edges, k) = {}
      <4>1. i < c
        <5>1. DOMAIN s = 1 .. Len(s) /\ Len(s) \in Nat /\ c \in Nat
          BY <2>1, RunsProgram, ProgramShape DEF Runs, Rest
        <5>2. i \in Int /\ j \in Int
          BY <2>3, <5>1
        <5> QED BY <3>5, <3>8, <5>1, <5>2
      <4> QED BY <3>1, <3>2, <3>3, <3>4, <3>7, <3>8, <4>1 DEF Within
    <3>9. ASSUME last < c
          PROVE  Targets(WithKey(tx[q].edges \cup g'.edges, k)) = s[j].ids
      <4>1. PICK mine, old, new :
              mine = tx[q].edges /\ old = g.edges /\ new = g'.edges
        OBVIOUS
      <4>2. WithKey(new, k) = WithKey(old, k)
        BY <3>6, <3>9, <4>1
      <4>3. WithKey(mine \cup new, k) = WithKey(mine \cup old, k)
        BY <4>2 DEF WithKey
      <4> QED BY <3>1, <3>2, <3>9, <4>1, <4>3 DEF Within
    <3> QED BY <3>2, <3>7, <3>8, <3>9 DEF Within
  <2>4. Blocked(s, c, tx[q], g.edges)'
    BY <2>3 DEF Blocked
  <2> QED BY <2>2, <2>4 DEF Aligned
<1> QED BY <1>1, <1>2 DEF Aligned, AInv

LEMMA OthersWhole ==
  ASSUME AInv, NEW p \in Procs, Minds(p), NEW name \in DOMAIN outcome,
         name \in DOMAIN Programs, outcome[name] = "ok"
  PROVE  Whole(name)'
<1>1. ASSUME NEW s \in ToSet(Programs[name][1]), Guarded(s)
      PROVE  Targets(WithKey(g'.edges, Key(s))) = s.ids
  <2>1. Targets(WithKey(g.edges, Key(s))) = s.ids
    BY <1>1 DEF AInv, Whole
  <2>2. s.ids # {} /\ Key(s) \in GuardedKeys
    BY <1>1, GuardedIds
  <2>3. WithKey(g.edges, Key(s)) # {}
    BY <2>1, <2>2 DEF Targets
  <2> QED BY <2>1, <2>2, <2>3 DEF Minds, Yields
<1> QED BY <1>1 DEF Whole

LEMMA SameEdges ==
  ASSUME g'.edges = g.edges, NEW p
  PROVE  Minds(p)
BY DEF Minds, Yields

-----------------------------------------------------------------------------
(* What a step of p leaves of its own block.                               *)

\* The transaction t goes on from tx[p] by the statement x.
Follows(x, t, old, edges) ==
  /\ old.locks \subseteq t.locks
  /\ \A n : x = Source(n, TRUE) => NodeLock(n.id) \in t.locks
  /\ x.do = "existing" => WithKey(old.edges \cup edges, Key(x)) = {}
  /\ x.do = "persisted" =>
       Targets(WithKey(old.edges \cup edges, Key(x))) = x.ids
  /\ \/ t.edges = old.edges
     \/ /\ x.do = "insert edge"
        /\ \E e : KeyOf(e) = KeyOf(x.edge) /\ t.edges = old.edges \cup {e}

LEMMA BlockShape ==
  ASSUME NEW s, IsProgram(s), NEW i \in DOMAIN s, NEW j \in DOMAIN s,
         Guarded(s[j]), Block(s, i, j)
  PROVE  /\ i \in Nat /\ j \in Nat /\ s[j].skip \in Nat /\ j + s[j].skip \in Nat
         /\ i < j /\ j <= j + s[j].skip /\ j + s[j].skip < Len(s)
         /\ Len(s) \in Nat
<1>1. Len(s) \in Nat /\ i \in Nat /\ j \in Nat /\ DOMAIN s = 1 .. Len(s)
  BY ProgramShape
<1>2. s[j].skip \in Nat /\ j + s[j].skip < Len(s)
  BY DEF IsProgram, SkipsRevisions, Skips, Guarded
<1>3. i < j
  BY DEF Block
<1> QED BY <1>1, <1>2, <1>3

LEMMA Onward ==
  ASSUME NEW s, IsProgram(s), NEW c \in DOMAIN s,
         \A j \in DOMAIN s : Guarded(s[j]) => Key(s[j]) \in GuardedKeys,
         WritesWhole(s), NEW old, NEW t, NEW edges,
         Blocked(s, c, old, edges), Follows(s[c], t, old, edges)
  PROVE  Blocked(s, c + 1, t, edges)
<1>1. ASSUME NEW i \in DOMAIN s, NEW j \in DOMAIN s, Guarded(s[j]), Block(s, i, j)
      PROVE  Within(i, j, c + 1, s, t, edges)
  <2>1. PICK k, last : k = Key(s[j]) /\ last = j + s[j].skip
    OBVIOUS
  <2>2. Within(i, j, c, s, old, edges)
    BY <1>1 DEF Blocked
  <2>3. /\ c \in Nat /\ i \in Nat /\ j \in Nat /\ last \in Nat
        /\ i < j /\ j <= last /\ k \in GuardedKeys /\ s[j].skip \in Nat
    BY <1>1, <2>1, ProgramShape, BlockShape
  <2>4. ASSUME i < c + 1, c + 1 <= last
        PROVE  NodeLock(s[j].node.id) \in t.locks
    <3>1. CASE i < c
      <4>1. c <= last
        BY <2>3, <2>4
      <4> QED BY <2>1, <2>2, <3>1, <4>1 DEF Within, Follows
    <3>2. CASE i = c
      BY <1>1, <3>2 DEF Block, Follows
    <3> QED BY <2>3, <2>4, <3>1, <3>2
  <2>5. ASSUME j < c + 1, c + 1 <= last
        PROVE  WithKey(edges, k) = {}
    <3>1. CASE j < c
      <4>1. c <= last
        BY <2>3, <2>5
      <4> QED BY <2>1, <2>2, <3>1, <4>1 DEF Within
    <3>2. CASE j = c
      <4>1. WithKey(old.edges \cup edges, k) = {}
        BY <1>1, <2>1, <3>2 DEF Follows, Guarded
      <4> QED BY <4>1 DEF WithKey
    <3> QED BY <2>3, <2>5, <3>1, <3>2
  <2>6. ASSUME last < c + 1
        PROVE  Targets(WithKey(t.edges \cup edges, k)) = s[j].ids
    <3>1. CASE last = c
      <4>1. /\ s[c] = [do |-> "persisted", node |-> s[j].node,
                       type |-> s[j].type, ids |-> s[j].ids]
        BY <1>1, <2>1, <3>1 DEF Block
      <4>2. /\ s[c].do = "persisted" /\ Key(s[c]) = k /\ s[c].ids = s[j].ids
        BY <2>1, <4>1 DEF Key
      <4> QED BY <4>2 DEF Follows
    <3>2. CASE last < c
      <4>1. Targets(WithKey(old.edges \cup edges, k)) = s[j].ids
        BY <2>1, <2>2, <3>2 DEF Within
      <4>2. CASE t.edges = old.edges
        BY <4>1, <4>2
      <4>3. CASE t.edges # old.edges
        <5>1. PICK e : /\ KeyOf(e) = KeyOf(s[c].edge)
                       /\ t.edges = old.edges \cup {e}
          BY <4>3 DEF Follows
        <5>2. s[c].do = "insert edge"
          BY <4>3 DEF Follows
        <5>3. KeyOf(e) # k
          <6>1. SUFFICES ASSUME KeyOf(e) = k PROVE FALSE
            OBVIOUS
          <6>2. PICK m \in DOMAIN s : /\ Guarded(s[m])
                                      /\ c \in m + 1 .. m + s[m].skip - 1
            BY <2>3, <5>1, <5>2, <6>1 DEF WritesWhole
          <6>3. m = j
            BY <1>1, <6>2 DEF WritesWhole, Guarded
          <6>4. c \in j + 1 .. last - 1
            BY <2>1, <2>3, <6>2, <6>3
          <6> QED BY <2>3, <3>2, <6>4
        <5>4. WithKey(t.edges \cup edges, k) = WithKey(old.edges \cup edges, k)
          BY <5>1, <5>3 DEF WithKey
        <5> QED BY <4>1, <5>4
      <4> QED BY <4>2, <4>3
    <3> QED BY <2>3, <2>6, <3>1, <3>2
  <2> QED BY <2>1, <2>4, <2>5, <2>6 DEF Within
<1> QED BY <1>1 DEF Blocked

LEMMA Beyond ==
  ASSUME NEW s, IsProgram(s), NEW c \in DOMAIN s, Skips(s[c]), NEW t, NEW edges,
         Blocked(s, c, t, edges),
         s[c].do = "existing" => Targets(WithKey(t.edges \cup edges, Key(s[c])))
                                   = s[c].ids
  PROVE  Blocked(s, c + (1 + s[c].skip), t, edges)
<1> PICK next : next = c + s[c].skip + 1
  OBVIOUS
<1>0. /\ c \in Nat /\ s[c].skip \in Nat /\ next \in Nat /\ c < next
      /\ next = c + (1 + s[c].skip)
  <2>1. c \in Nat
    BY ProgramShape
  <2>2. s[c].skip \in Nat
    BY DEF IsProgram, SkipsRevisions
  <2> QED BY <2>1, <2>2
<1>1. ASSUME NEW i \in DOMAIN s, NEW j \in DOMAIN s, Guarded(s[j]), Block(s, i, j)
      PROVE  Within(i, j, next, s, t, edges)
  <2>1. PICK k, last : k = Key(s[j]) /\ last = j + s[j].skip
    OBVIOUS
  <2>2. Within(i, j, c, s, t, edges)
    BY <1>1 DEF Blocked
  <2>3. /\ i \in Nat /\ j \in Nat /\ last \in Nat /\ i < j /\ j <= last
    BY <1>1, <2>1, BlockShape
  <2>4. c = j \/ last < c \/ next <= i
    BY <1>1, <2>1 DEF Block
  <2>5. ~(i < next /\ next <= last)
    BY <1>0, <2>1, <2>3, <2>4
  <2>6. ~(j < next /\ next <= last)
    BY <1>0, <2>3, <2>5
  <2>7. ASSUME last < next
        PROVE  Targets(WithKey(t.edges \cup edges, k)) = s[j].ids
    <3>1. CASE c = j
      BY <1>1, <2>1, <3>1 DEF Guarded
    <3>2. CASE last < c
      BY <2>1, <2>2, <3>2 DEF Within
    <3>3. CASE next <= i
      BY <1>0, <2>3, <2>7, <3>3
    <3> QED BY <2>4, <3>1, <3>2, <3>3
  <2> QED BY <2>1, <2>5, <2>6, <2>7 DEF Within
<1> QED BY <1>0, <1>1 DEF Blocked

\* All that the program s was to write whole is.
Done(s, edges) ==
  \A j \in DOMAIN s : Guarded(s[j]) /\ (\E i \in DOMAIN s : Block(s, i, j)) =>
    Targets(WithKey(edges, Key(s[j]))) = s[j].ids

LEMMA Committed ==
  ASSUME NEW s, IsProgram(s), NEW c \in DOMAIN s, s[c].do = "commit",
         NEW old, NEW edges, Blocked(s, c, old, edges), NEW t, t.edges = {}
  PROVE  /\ Blocked(s, c + 1, t, old.edges \cup edges)
         /\ c = Len(s) => Done(s, old.edges \cup edges)
<1>1. ASSUME NEW i \in DOMAIN s, NEW j \in DOMAIN s, Guarded(s[j]), Block(s, i, j)
      PROVE  /\ Within(i, j, c + 1, s, t, old.edges \cup edges)
             /\ c = Len(s) =>
                  Targets(WithKey(old.edges \cup edges, Key(s[j]))) = s[j].ids
  <2>1. PICK k, last : k = Key(s[j]) /\ last = j + s[j].skip
    OBVIOUS
  <2>2. Within(i, j, c, s, old, edges)
    BY <1>1 DEF Blocked
  <2>3. /\ c \in Nat /\ i \in Nat /\ j \in Nat /\ last \in Nat
        /\ i < j /\ j <= last /\ last < Len(s) /\ Len(s) \in Nat
    BY <1>1, <2>1, ProgramShape, BlockShape
  <2>4. c \notin i .. last
    BY <1>1, <2>1 DEF Block
  <2>5. ~(i < c + 1 /\ c + 1 <= last) /\ ~(j < c + 1 /\ c + 1 <= last)
    BY <2>3, <2>4
  <2>6. last < c + 1 \/ c = Len(s) => last < c
    BY <2>3, <2>4
  <2>7. last < c => Targets(WithKey(old.edges \cup edges, k)) = s[j].ids
    BY <2>1, <2>2 DEF Within
  <2>8. t.edges \cup (old.edges \cup edges) = old.edges \cup edges
    OBVIOUS
  <2> QED BY <2>1, <2>5, <2>6, <2>7, <2>8 DEF Within
<1> QED BY <1>1 DEF Blocked, Done

-----------------------------------------------------------------------------
(* Every step preserves the invariant of the guarded sets.                 *)

OthersRest(p) == \A q \in Procs \ {p} :
  tx'[q] = tx[q] /\ call'[q] = call[q] /\ todo'[q] = todo[q]

LEMMA Together ==
  ASSUME IInv, AInv, NEW p \in Procs, Minds(p), OthersRest(p),
         \A q \in Procs \ {p} : tx'[p].locks \cap tx[q].locks = {},
         Covers(tx'[p], g'.edges), Aligned(p)',
         DOMAIN outcome' = DOMAIN outcome,
         \A name \in DOMAIN outcome : outcome'[name] = "ok" =>
           outcome[name] = "ok" \/ Whole(name)'
  PROVE  AInv'
<1>1. Alone'
  <2>1. ASSUME NEW q \in Procs, NEW r \in Procs, q # r
        PROVE  tx'[q].locks \cap tx'[r].locks = {}
    BY <2>1 DEF AInv, Alone, OthersRest
  <2> QED BY <2>1 DEF Alone
<1>2. ASSUME NEW q \in Procs PROVE Covers(tx'[q], g'.edges) /\ Aligned(q)'
  <2>1. CASE q # p
    BY <2>1, OthersCovered, OthersAligned DEF OthersRest
  <2> QED BY <2>1
<1>3. ASSUME NEW name \in DOMAIN outcome', outcome'[name] = "ok"
      PROVE  Whole(name)'
  <2>1. name \in DOMAIN Programs
    BY DEF IInv, Setting
  <2> QED BY <1>3, <2>1, OthersWhole
<1> QED BY <1>1, <1>2, <1>3 DEF AInv

LEMMA BusyAligned ==
  ASSUME IInv, AInv, NEW p \in Procs, todo[p] # <<>>
  PROVE  \E s, c : /\ Runs(p, s, c) /\ Blocked(s, c, tx[p], g.edges)
                   /\ IsProgram(s) /\ WritesWhole(s)
                   /\ \A j \in DOMAIN s : Guarded(s[j]) => Key(s[j]) \in GuardedKeys
                   /\ \A x \in ToSet(Programs[call[p]][1]) :
                        Guarded(x) => \E j \in DOMAIN s : s[j] = x
                   /\ c \in DOMAIN s /\ Head(todo[p]) = s[c]
                   /\ Len(todo[p]) \in Nat \ {0}
<1>1. PICK s, c : Runs(p, s, c) /\ Blocked(s, c, tx[p], g.edges)
  BY DEF AInv, Aligned, Idle
<1>2. IsProgram(s)
  BY <1>1, RunsProgram
<1>3. c \in DOMAIN s /\ Head(todo[p]) = s[c]
  BY <1>1, <1>2, RestHead DEF Runs
<1>4. Len(todo[p]) \in Nat \ {0}
  BY <1>1, EmptySeq DEF Runs
<1>5. /\ WritesWhole(s)
      /\ \A j \in DOMAIN s : Guarded(s[j]) => Key(s[j]) \in GuardedKeys
      /\ \A x \in ToSet(Programs[call[p]][1]) : Guarded(x) => x \in ToSet(s)
  BY <1>1, EveryBlock DEF Runs
<1>6. \A x \in ToSet(s) : \E j \in DOMAIN s : s[j] = x
  BY DEF ToSet
<1> QED BY <1>1, <1>2, <1>3, <1>4, <1>5, <1>6

LEMMA ClosedCovers ==
  ASSUME NEW edges
  PROVE  Covers(Closed, edges) /\ Closed.locks = {} /\ Closed.edges = {}
BY ClosedIs DEF Covers

LEMMA QuitKeeps ==
  ASSUME IInv, AInv, NEW p \in Procs, Quits(p)
  PROVE  AInv'
<1>1. /\ OthersRest(p) /\ tx'[p] = Closed /\ g' = g
      /\ DOMAIN outcome' = DOMAIN outcome
  BY DEF Quits, Leaves, OthersRest, IInv, Shaped
<1>2. Aligned(p)'
  BY QuitterIsIdle DEF IInv, Quits, Aligned
<1>3. ASSUME NEW name \in DOMAIN outcome, outcome'[name] = "ok"
      PROVE  outcome[name] = "ok" \/ Whole(name)'
  <2>1. CASE UNCHANGED outcome \/ name # call[p]
    BY <1>3, <2>1 DEF Quits
  <2>2. CASE ~UNCHANGED outcome /\ name = call[p]
    <3>1. todo[p] # <<>> /\ Head(todo[p]).do \in Reporting
      BY <1>3, <2>2 DEF Quits
    <3>2. PICK s, c : /\ WritesWhole(s) /\ c \in DOMAIN s /\ Head(todo[p]) = s[c]
                      /\ \A x \in ToSet(Programs[call[p]][1]) :
                           Guarded(x) => \E j \in DOMAIN s : s[j] = x
      BY <3>1, BusyAligned
    <3>3. \A j \in DOMAIN s : ~Guarded(s[j])
      BY <3>1, <3>2 DEF WritesWhole, Reporting
    <3> QED BY <2>2, <3>2, <3>3 DEF Whole
  <2> QED BY <2>1, <2>2
<1> QED BY <1>1, <1>2, <1>3, SameEdges, ClosedCovers, Together

LEMMA GoneOn ==
  ASSUME IInv, AInv, NEW p \in Procs, todo[p] # <<>>, call'[p] = call[p],
         \/ todo'[p] = Tail(todo[p])
         \/ todo'[p] = SubSeq(todo[p], 1 + 1, Len(todo[p])),
         Follows(Head(todo[p]), tx'[p], tx[p], g.edges), g'.edges = g.edges
  PROVE  Aligned(p)'
<1>1. PICK s, c : /\ Runs(p, s, c) /\ Blocked(s, c, tx[p], g.edges)
                  /\ IsProgram(s) /\ WritesWhole(s)
                  /\ \A j \in DOMAIN s : Guarded(s[j]) => Key(s[j]) \in GuardedKeys
                  /\ c \in DOMAIN s /\ Head(todo[p]) = s[c]
                  /\ Len(todo[p]) \in Nat \ {0}
  BY BusyAligned
<1>2. todo'[p] \in Seq(ToSet(s)) /\ Rest(todo'[p], s, c + 1)
  <2>1. CASE todo'[p] = Tail(todo[p])
    BY <1>1, <2>1, RestTail DEF Runs
  <2>2. CASE todo'[p] = SubSeq(todo[p], 1 + 1, Len(todo[p]))
    BY <1>1, <2>2, RestMoves DEF Runs
  <2> QED BY <2>1, <2>2
<1>3. Runs(p, s, c + 1)'
  BY <1>1, <1>2 DEF Runs
<1>4. Blocked(s, c + 1, tx'[p], g.edges)
  <2> PICK old, t, edges : old = tx[p] /\ t = tx'[p] /\ edges = g.edges
    OBVIOUS
  <2>1. Blocked(s, c, old, edges) /\ Follows(s[c], t, old, edges)
    BY <1>1
  <2> QED BY <1>1, <2>1, Onward
<1> QED BY <1>3, <1>4 DEF Aligned

LEMMA WentBeyond ==
  ASSUME IInv, AInv, NEW p \in Procs, todo[p] # <<>>, call'[p] = call[p],
         Skips(Head(todo[p])),
         todo'[p] = SubSeq(todo[p], (1 + Head(todo[p]).skip) + 1, Len(todo[p])),
         Head(todo[p]).do = "existing" =>
           Targets(WithKey(tx[p].edges \cup g.edges, Key(Head(todo[p]))))
             = Head(todo[p]).ids,
         tx'[p] = tx[p], g'.edges = g.edges
  PROVE  Aligned(p)'
<1>1. PICK s, c : /\ Runs(p, s, c) /\ Blocked(s, c, tx[p], g.edges)
                  /\ IsProgram(s) /\ c \in DOMAIN s /\ Head(todo[p]) = s[c]
                  /\ Len(todo[p]) \in Nat \ {0}
  BY BusyAligned
<1>2. PICK k : k = s[c].skip
  OBVIOUS
<1>3. k \in Nat /\ c + k < Len(s)
  BY <1>1, <1>2 DEF IsProgram, SkipsRevisions
<1>4. Len(s) \in Nat /\ c \in Nat /\ Len(todo[p]) + c = Len(s) + 1
  BY <1>1, ProgramShape DEF Runs, Rest
<1>5. 1 + k \in Nat /\ 1 + k <= Len(todo[p])
  BY <1>1, <1>3, <1>4
<1>6. todo'[p] \in Seq(ToSet(s)) /\ Rest(todo'[p], s, c + (1 + k))
  BY <1>1, <1>2, <1>5, RestMoves DEF Runs
<1>7. Runs(p, s, c + (1 + k))'
  BY <1>1, <1>6 DEF Runs
<1>8. Blocked(s, c + (1 + k), tx[p], g.edges)
  <2> PICK t, edges : t = tx[p] /\ edges = g.edges
    OBVIOUS
  <2>1. /\ Blocked(s, c, t, edges)
        /\ s[c].do = "existing" => Targets(WithKey(t.edges \cup edges, Key(s[c])))
                                     = s[c].ids
    BY <1>1
  <2> QED BY <1>1, <1>2, <2>1, Beyond
<1> QED BY <1>7, <1>8 DEF Aligned

LEMMA SetOfKey ==
  ASSUME NEW p, NEW s, s = Head(todo[p])
  PROVE  SetOf(p) = Targets(WithKey(tx[p].edges \cup g.edges, Key(s)))
<1>a. PICK d, n, type : d = View(p) /\ n = s.node /\ type = s.type
  OBVIOUS
<1>1. d.edges = tx[p].edges \cup g.edges
  BY <1>a DEF View
<1>2. EdgesOf(d, n.id, type) = WithKey(d.edges, <<n.id, type>>)
  BY KeyedEdges
<1>3. SetOf(p) = Targets(EdgesOf(d, n.id, type)) /\ Key(s) = <<n.id, type>>
  BY <1>a DEF SetOf, Key
<1> QED BY <1>1, <1>2, <1>3

LEMMA PassKeeps ==
  ASSUME IInv, AInv, NEW p \in Procs, Passes(p)
  PROVE  AInv'
<1> PICK s : s = Head(todo[p])
  OBVIOUS
<1>1. OthersRest(p) /\ tx' = tx /\ g' = g /\ call' = call /\ outcome' = outcome
  BY DEF Passes, Advances, OthersRest, IInv, Shaped
<1>2. SetOf(p) = Targets(WithKey(tx[p].edges \cup g.edges, Key(s)))
  BY SetOfKey
<1>3. Aligned(p)'
  <2>1. CASE /\ Advances(p, 1) \/ todo' = [todo EXCEPT ![p] = Tail(@)]
             /\ s.do = "existing" => SetOf(p) = {}
             /\ s.do = "persisted" => SetOf(p) = s.ids
    <3>1. \/ todo'[p] = Tail(todo[p])
          \/ todo'[p] = SubSeq(todo[p], 1 + 1, Len(todo[p]))
      BY <2>1 DEF IInv, Shaped, Advances
    <3>2. \A n : s # Source(n, TRUE)
      <4>1. s.do # "source"
        BY DEF Passes, Writing
      <4>2. \A n : Source(n, TRUE).do = "source"
        BY DEF Source
      <4> QED BY <4>1, <4>2
    <3>3. Follows(s, tx[p], tx[p], g.edges)
      BY <1>2, <2>1, <3>2, NoTargets DEF Follows
    <3> QED BY <1>1, <3>1, <3>3, GoneOn DEF Passes
  <2>2. CASE /\ Skips(s) /\ Advances(p, 1 + s.skip)
             /\ s.do = "existing" => SetOf(p) = s.ids
    <3>1. todo'[p] = SubSeq(todo[p], (1 + s.skip) + 1, Len(todo[p]))
      BY <2>2 DEF IInv, Shaped, Advances
    <3> QED BY <1>1, <1>2, <2>2, <3>1, WentBeyond DEF Passes
  <2>3. CASE UNCHANGED todo
    BY <1>1, <2>3 DEF AInv, Aligned, Idle, Runs
  <2> QED BY <2>1, <2>2, <2>3 DEF Passes
<1>4. Minds(p)
  BY <1>1, SameEdges
<1>5. /\ Covers(tx'[p], g'.edges)
      /\ \A q \in Procs \ {p} : tx'[p].locks \cap tx[q].locks = {}
  BY <1>1 DEF AInv, Alone
<1> QED BY <1>1, <1>3, <1>4, <1>5, Together

\* A statement that writes: what p does not own it does not touch.
LEMMA WriteKeeps ==
  ASSUME IInv, AInv, NEW p \in Procs, todo[p] # <<>>, NEW t, IsTx(t),
         GoesOn(p, 1, t), Follows(Head(todo[p]), t, tx[p], g.edges),
         Covers(t, g.edges),
         \A q \in Procs \ {p} : t.locks \cap tx[q].locks = {}
  PROVE  AInv'
<1>1. /\ tx'[p] = t /\ todo'[p] = SubSeq(todo[p], 1 + 1, Len(todo[p]))
      /\ \A q \in Procs \ {p} : tx'[q] = tx[q] /\ todo'[q] = todo[q]
  BY GoesOnShape DEF IInv
<1>2. g' = g /\ call' = call /\ outcome' = outcome
  BY DEF GoesOn
<1>3. OthersRest(p) /\ Minds(p)
  BY <1>1, <1>2, SameEdges DEF OthersRest
<1>4. Aligned(p)'
  BY <1>1, <1>2, GoneOn
<1> QED BY <1>1, <1>2, <1>3, <1>4, Together

Unguarded == {"existing", "persisted", "source"}

LEMMA SameKeeps ==
  ASSUME IInv, AInv, NEW p \in Procs, todo[p] # <<>>, NEW t, IsTx(t),
         GoesOn(p, 1, t), t.edges = tx[p].edges, t.locks = tx[p].locks,
         Head(todo[p]).do \notin Unguarded
  PROVE  AInv'
<1> PICK s : s = Head(todo[p])
  OBVIOUS
<1>1. Follows(s, t, tx[p], g.edges)
  <2>1. \A n : Source(n, TRUE).do = "source"
    BY DEF Source
  <2> QED BY <2>1 DEF Follows, Unguarded
<1>2. Covers(t, g.edges)
  BY DEF AInv, Covers
<1>3. \A q \in Procs \ {p} : t.locks \cap tx[q].locks = {}
  BY DEF AInv, Alone
<1> QED BY <1>1, <1>2, <1>3, WriteKeeps

LEMMA EndKeeps ==
  ASSUME IInv, AInv, NEW p \in Procs, NEW how, how # "ok", Ends(p, how)
  PROVE  AInv'
BY EndsQuits, QuitKeeps

LEMMA CheckKeeps ==
  ASSUME IInv, AInv, NEW p \in Procs, todo[p] # <<>>,
         Head(todo[p]).do \notin Unguarded, NEW fault, fault # "ok",
         Checks(p, fault)
  PROVE  AInv'
<1>1. CASE Ends(p, fault)
  BY <1>1, EndKeeps
<1>2. CASE GoesOn(p, 1, tx[p])
  BY <1>2, SameKeeps DEF IInv, Shaped
<1> QED BY <1>1, <1>2 DEF Checks

LEMMA NodeInsertKeeps ==
  ASSUME IInv, AInv, NEW p \in Procs, NodeInsert(p)
  PROVE  AInv'
<1> PICK n : n = Head(todo[p]).node
  OBVIOUS
<1>1. todo[p] # <<>> /\ Head(todo[p]).do \notin Unguarded
  BY DEF NodeInsert, Executes, Unguarded
<1>2. CASE HasNode(p, n)
  BY <1>1, <1>2, CheckKeeps DEF NodeInsert
<1>3. CASE ~HasNode(p, n)
  <2>0. IsTx(tx[p])
    BY DEF IInv, Shaped
  <2>1. PICK t : t = [tx[p] EXCEPT !.nodes = With(@, n.id, Row(n))]
    OBVIOUS
  <2>2. IsTx(t) /\ t.edges = tx[p].edges /\ t.locks = tx[p].locks
    BY <2>0, <2>1 DEF TxFields, IsTx
  <2>3. GoesOn(p, 1, t)
    BY <1>3, <2>1 DEF NodeInsert
  <2> QED BY <1>1, <2>2, <2>3, SameKeeps
<1> QED BY <1>2, <1>3

LEMMA FactInsertKeeps ==
  ASSUME IInv, AInv, NEW p \in Procs, FactInsert(p)
  PROVE  AInv'
<1> PICK n : n = Head(todo[p]).node
  OBVIOUS
<1>1. todo[p] # <<>> /\ Head(todo[p]).do \notin Unguarded
  BY DEF FactInsert, Executes, Unguarded
<1>2. ASSUME Checks(p, IF Head(todo[p]).there = "refuse" THEN "write lost"
                       ELSE IF FactMatches(p, n) THEN "" ELSE "mismatch")
      PROVE  AInv'
  <2>1. PICK fault : fault # "ok" /\ Checks(p, fault)
    BY <1>2
  <2> QED BY <1>1, <2>1, CheckKeeps
<1>3. ASSUME Ends(p, "unique") \/ Ends(p, "foreign key") PROVE AInv'
  BY <1>3, EndKeeps
<1>4. PICK t : t = [tx[p] EXCEPT
               !.facts = With(@, n.id, n),
               !.shares = @ \cup {NodeLock(n.id)}
                          \cup (IF n.supersedes = NoId THEN {}
                                ELSE {FactLock(n.supersedes)})]
  OBVIOUS
<1>5. ASSUME GoesOn(p, 1, t) PROVE AInv'
  <2>0. IsTx(tx[p])
    BY DEF IInv, Shaped
  <2>1. IsTx(t) /\ t.edges = tx[p].edges /\ t.locks = tx[p].locks
    BY <1>4, <2>0 DEF TxFields, IsTx
  <2> QED BY <1>1, <1>5, <2>1, SameKeeps
<1> QED BY <1>2, <1>3, <1>4, <1>5 DEF FactInsert

LEMMA ReviseKeeps ==
  ASSUME IInv, AInv, NEW p \in Procs, Revise(p)
  PROVE  AInv'
<1> PICK n : n = Head(todo[p]).node
  OBVIOUS
<1>1. todo[p] # <<>> /\ Head(todo[p]).do = "revise" /\ WaitsFor(p) = {}
  BY DEF Revise, Executes
<1>2. Revision(View(p), n) # "ok"
  BY DEF Revision
<1>3. ASSUME Ends(p, Revision(View(p), n)) PROVE AInv'
  BY <1>2, <1>3, EndKeeps
<1>4. PICK t : t = [tx[p] EXCEPT !.locks = @ \cup {FactLock(n.supersedes)}]
  OBVIOUS
<1>5. ASSUME GoesOn(p, 1, t) PROVE AInv'
  <2>0. IsTx(tx[p])
    BY DEF IInv, Shaped
  <2>1. /\ IsTx(t) /\ t.edges = tx[p].edges
        /\ t.locks = tx[p].locks \cup {FactLock(n.supersedes)}
    BY <1>4, <2>0 DEF TxFields, IsTx
  <2>2. \A q \in Procs \ {p} : FactLock(n.supersedes) \notin tx[q].locks
    BY <1>1 DEF WaitsFor, Refers
  <2>3. \A q \in Procs \ {p} : t.locks \cap tx[q].locks = {}
    BY <2>1, <2>2 DEF AInv, Alone
  <2>4. Covers(t, g.edges)
    BY <2>1 DEF AInv, Covers
  <2>5. Follows(Head(todo[p]), t, tx[p], g.edges)
    <3>1. \A m : Source(m, TRUE).do = "source"
      BY DEF Source
    <3> QED BY <1>1, <2>1, <3>1 DEF Follows
  <2> QED BY <1>1, <1>5, <2>1, <2>3, <2>4, <2>5, WriteKeeps
<1> QED BY <1>3, <1>4, <1>5 DEF Revise

LEMMA SourceReadKeeps ==
  ASSUME IInv, AInv, NEW p \in Procs, SourceRead(p)
  PROVE  AInv'
<1> PICK s : s = Head(todo[p])
  OBVIOUS
<1>1. todo[p] # <<>> /\ s.do = "source" /\ WaitsFor(p) = {}
  BY DEF SourceRead, Executes
<1>2. Replay(p, s.node) # "ok"
  BY ReplayFaults
<1>3. ASSUME NEW how, how # "ok", Ends(p, how) PROVE AInv'
  BY <1>3, EndKeeps
<1>4. PICK t : t = [tx[p] EXCEPT
               !.locks = IF s.lock THEN @ \cup {NodeLock(s.node.id)} ELSE @]
  OBVIOUS
<1>5. ASSUME GoesOn(p, 1, t) PROVE AInv'
  <2>0. IsTx(tx[p])
    BY DEF IInv, Shaped
  <2>1. /\ IsTx(t) /\ t.edges = tx[p].edges
        /\ t.locks = IF s.lock THEN tx[p].locks \cup {NodeLock(s.node.id)}
                     ELSE tx[p].locks
    BY <1>4, <2>0 DEF TxFields, IsTx
  <2>2. s.lock => \A q \in Procs \ {p} : NodeLock(s.node.id) \notin tx[q].locks
    BY <1>1 DEF WaitsFor, Refers
  <2>3. \A q \in Procs \ {p} : t.locks \cap tx[q].locks = {}
    BY <2>1, <2>2 DEF AInv, Alone
  <2>4. Covers(t, g.edges)
    BY <2>1 DEF AInv, Covers
  <2>5. Follows(s, t, tx[p], g.edges)
    <3>1. \A m : s = Source(m, TRUE) => NodeLock(m.id) \in t.locks
      BY <2>1 DEF Source
    <3> QED BY <1>1, <2>1, <3>1 DEF Follows
  <2> QED BY <1>1, <1>5, <2>1, <2>3, <2>4, <2>5, WriteKeeps
<1> QED BY <1>2, <1>3, <1>4, <1>5 DEF SourceRead

LEMMA EdgeInsertKeeps ==
  ASSUME IInv, AInv, NEW p \in Procs, EdgeInsert(p)
  PROVE  AInv'
<1>0. todo[p] # <<>> /\ Head(todo[p]).do = "insert edge"
  BY DEF EdgeInsert, Executes
<1>2. PICK s, c : /\ Runs(p, s, c) /\ Blocked(s, c, tx[p], g.edges)
                  /\ IsProgram(s) /\ WritesWhole(s)
                  /\ \A j \in DOMAIN s : Guarded(s[j]) => Key(s[j]) \in GuardedKeys
                  /\ c \in DOMAIN s /\ Head(todo[p]) = s[c]
                  /\ Len(todo[p]) \in Nat \ {0}
  BY <1>0, BusyAligned
<1> PICK x : x = Head(todo[p])
  OBVIOUS
<1>1. todo[p] # <<>> /\ x.do = "insert edge"
  BY <1>0
<1>3. PICK e : e = [x.edge EXCEPT !.at = IF @ = Current THEN began[p] ELSE @]
  OBVIOUS
<1>4. x.edge = [f \in EdgeFields |-> x.edge[f]]
  BY <1>1, <1>2 DEF WritesWhole
<1>5. KeyOf(e) = KeyOf(x.edge) /\ e.source = x.edge.source
  BY <1>3, <1>4 DEF KeyOf, EdgeFields
<1>6. ASSUME KeyOf(e) \in GuardedKeys
      PROVE  NodeLock(e.source) \in tx[p].locks /\ WithKey(g.edges, KeyOf(e)) = {}
  <2>1. PICK j \in DOMAIN s : /\ Guarded(s[j]) /\ Key(s[j]) = KeyOf(e)
                              /\ c \in j + 1 .. j + s[j].skip - 1
    BY <1>1, <1>2, <1>5, <1>6 DEF WritesWhole
  <2>2. PICK i \in DOMAIN s : Block(s, i, j)
    BY <1>2, <2>1 DEF WritesWhole
  <2>3. Within(i, j, c, s, tx[p], g.edges)
    BY <1>2, <2>1, <2>2 DEF Blocked
  <2>4. i < c /\ j < c /\ c <= j + s[j].skip
    <3>1. /\ i \in Nat /\ j \in Nat /\ s[j].skip \in Nat /\ i < j
      BY <1>2, <2>1, <2>2, BlockShape
    <3> QED BY <2>1, <3>1
  <2>5. s[j].node.id = e.source
    BY <2>1 DEF Key, KeyOf
  <2> QED BY <2>1, <2>3, <2>4, <2>5 DEF Within
<1>7. PICK t : t = [tx[p] EXCEPT
               !.edges = @ \cup {e},
               !.shares = @ \cup {NodeLock(e.source), NodeLock(e.target)}]
  OBVIOUS
<1>8. ASSUME GoesOn(p, 1, t) PROVE AInv'
  <2>0. IsTx(tx[p])
    BY DEF IInv, Shaped
  <2>1. IsTx(t) /\ t.edges = tx[p].edges \cup {e} /\ t.locks = tx[p].locks
    BY <1>7, <2>0 DEF TxFields, IsTx
  <2>2. Covers(t, g.edges)
    BY <1>6, <2>1 DEF AInv, Covers
  <2>3. \A q \in Procs \ {p} : t.locks \cap tx[q].locks = {}
    BY <2>1 DEF AInv, Alone
  <2>4. Follows(x, t, tx[p], g.edges)
    <3>1. \A n : Source(n, TRUE).do = "source"
      BY DEF Source
    <3> QED BY <1>1, <1>5, <2>1, <3>1 DEF Follows
  <2> QED BY <1>1, <1>8, <2>1, <2>2, <2>3, <2>4, WriteKeeps
<1>9. ASSUME NEW fault, fault # "ok", Checks(p, fault) PROVE AInv'
  BY <1>1, <1>9, CheckKeeps DEF Unguarded
<1>10. CASE {f \in View(p).edges : SameKey(e, f)} = {}
  BY <1>3, <1>7, <1>8, <1>10 DEF EdgeInsert
<1>11. CASE {f \in View(p).edges : SameKey(e, f)} # {}
  <2>1. PICK fault : fault # "ok" /\ Checks(p, fault)
    BY <1>3, <1>11 DEF EdgeInsert
  <2> QED BY <2>1, <1>9
<1> QED BY <1>10, <1>11

LEMMA CommitKeeps ==
  ASSUME IInv, AInv, NEW p \in Procs, CommitTx(p)
  PROVE  AInv'
<1>0. todo[p] # <<>> /\ Head(todo[p]).do = "commit"
  BY DEF CommitTx, Executes
<1>a. PICK old, edges : old = tx[p] /\ edges = g.edges
  OBVIOUS
<1>1. /\ g'.edges = old.edges \cup edges /\ tx'[p] = Closed
      /\ DOMAIN outcome' = DOMAIN outcome
  BY <1>a DEF CommitTx, View, IInv, Shaped
<1>2. OthersRest(p)
  BY DEF CommitTx, OthersRest, IInv, Shaped
<1>3. PICK s, c : /\ Runs(p, s, c) /\ Blocked(s, c, old, edges)
                  /\ IsProgram(s) /\ WritesWhole(s)
                  /\ \A x \in ToSet(Programs[call[p]][1]) :
                       Guarded(x) => \E j \in DOMAIN s : s[j] = x
                  /\ c \in DOMAIN s /\ Head(todo[p]) = s[c]
                  /\ Len(todo[p]) \in Nat \ {0}
  BY <1>0, <1>a, BusyAligned
<1>4. /\ Blocked(s, c + 1, Closed, old.edges \cup edges)
      /\ c = Len(s) => Done(s, old.edges \cup edges)
  <2>1. s[c].do = "commit" /\ Closed.edges = {}
    BY <1>0, <1>3, ClosedCovers
  <2> PICK t : t = Closed
    OBVIOUS
  <2>2. t.edges = {}
    BY <2>1
  <2> QED BY <1>3, <2>1, <2>2, Committed
<1>5. Minds(p)
  <2>1. ASSUME NEW k \in GuardedKeys PROVE Yields(p, k)
    <3>1. CASE WithKey(old.edges, k) = {}
      BY <1>1, <1>a, <3>1 DEF Yields, WithKey
    <3>2. CASE WithKey(old.edges, k) # {}
      <4>1. PICK e \in old.edges : KeyOf(e) = k
        BY <3>2 DEF WithKey
      <4>2. NodeLock(e.source) \in old.locks /\ WithKey(edges, k) = {}
        BY <1>a, <2>1, <4>1 DEF AInv, Covers
      <4>3. k[1] = e.source
        BY <4>1 DEF KeyOf
      <4> QED BY <1>a, <4>2, <4>3 DEF Yields
    <3> QED BY <3>1, <3>2
  <2> QED BY <2>1 DEF Minds
<1>6. Aligned(p)'
  <2>1. CASE Len(todo[p]) = 1
    BY <1>1, <2>1 DEF CommitTx, IInv, Shaped, Aligned, Idle
  <2>2. CASE Len(todo[p]) # 1
    <3>1. todo'[p] = Tail(todo[p]) /\ call'[p] = call[p]
      BY <2>2 DEF CommitTx, IInv, Shaped
    <3>2. todo'[p] \in Seq(ToSet(s)) /\ Rest(todo'[p], s, c + 1)
      <4>1. todo[p] \in Seq(ToSet(s)) /\ Rest(todo[p], s, c) /\ IsProgram(s)
        BY <1>3 DEF Runs
      <4>2. Tail(todo[p]) \in Seq(ToSet(s)) /\ Rest(Tail(todo[p]), s, c + 1)
        BY <1>0, <4>1, RestTail
      <4> QED BY <3>1, <4>2
    <3>3. Runs(p, s, c + 1)'
      BY <1>3, <3>1, <3>2 DEF Runs
    <3>4. Blocked(s, c + 1, tx[p], g.edges)'
      BY <1>1, <1>4
    <3> QED BY <3>3, <3>4 DEF Aligned
  <2> QED BY <2>1, <2>2
<1>7. ASSUME NEW name \in DOMAIN outcome, outcome'[name] = "ok"
      PROVE  outcome[name] = "ok" \/ Whole(name)'
  <2>1. CASE outcome'[name] = outcome[name]
    BY <1>7, <2>1
  <2>2. CASE outcome'[name] # outcome[name]
    <3>1. Len(todo[p]) = 1 /\ name = call[p]
      BY <2>2 DEF CommitTx
    <3>2. c = Len(s)
      <4>1. Len(todo[p]) + c = Len(s) + 1 /\ c \in Nat /\ Len(s) \in Nat
        BY <1>3, ProgramShape DEF Runs, Rest
      <4> QED BY <3>1, <4>1
    <3>3. ASSUME NEW x \in ToSet(Programs[name][1]), Guarded(x)
          PROVE  Targets(WithKey(g'.edges, Key(x))) = x.ids
      <4>1. PICK j \in DOMAIN s : s[j] = x
        BY <1>3, <3>1, <3>3
      <4>2. \E i \in DOMAIN s : Block(s, i, j)
        BY <1>3, <3>3, <4>1 DEF WritesWhole
      <4> QED BY <1>1, <1>4, <3>2, <3>3, <4>1, <4>2 DEF Done
    <3> QED BY <3>3 DEF Whole
  <2> QED BY <2>1, <2>2
<1>8. /\ Covers(tx'[p], g'.edges)
      /\ \A q \in Procs \ {p} : tx'[p].locks \cap tx[q].locks = {}
  BY <1>1, ClosedCovers
<1> QED BY <1>1, <1>2, <1>5, <1>6, <1>7, <1>8, Together

LEMMA CallKeeps ==
  ASSUME IInv, AInv, NEW p \in Procs, NEW name \in DOMAIN outcome, Call(p, name)
  PROVE  AInv'
<1> PICK s : s = Programs[name][now]
  OBVIOUS
<1>1. /\ name \in DOMAIN Programs /\ now \in 1 .. MaxNow /\ IsProgram(s)
      /\ s \in Seq(ToSet(s)) /\ Rest(s, s, 1)
  BY EveryProgram, RestStarts DEF IInv, Setting, IsProgram
<1>2. /\ call'[p] = name /\ todo'[p] = s /\ OthersRest(p)
      /\ tx' = tx /\ g' = g /\ outcome' = outcome
  BY DEF Call, IInv, Shaped, OthersRest
<1>3. ASSUME NEW i \in DOMAIN s, NEW j \in DOMAIN s, Guarded(s[j]), Block(s, i, j)
      PROVE  Within(i, j, 1, s, tx[p], g.edges)
  <2>1. /\ i \in Nat /\ j \in Nat /\ j + s[j].skip \in Nat
        /\ i < j /\ j <= j + s[j].skip
    BY <1>1, <1>3, BlockShape
  <2>2. i >= 1
    BY <1>1, ProgramShape
  <2>3. ~(i < 1) /\ ~(j < 1) /\ ~(j + s[j].skip < 1)
    BY <2>1, <2>2
  <2> QED BY <2>3 DEF Within
<1>4. Aligned(p)'
  <2>1. Runs(p, s, 1)'
    BY <1>1, <1>2 DEF Runs
  <2>2. Blocked(s, 1, tx[p], g.edges)'
    BY <1>2, <1>3 DEF Blocked
  <2> QED BY <2>1, <2>2 DEF Aligned
<1>5. Minds(p)
  BY <1>2, SameEdges
<1>6. /\ Covers(tx'[p], g'.edges)
      /\ \A q \in Procs \ {p} : tx'[p].locks \cap tx[q].locks = {}
  BY <1>2 DEF AInv, Alone
<1> QED BY <1>2, <1>4, <1>5, <1>6, Together

\* What changes no edge, no transaction and no call.
LEMMA RestKeeps ==
  ASSUME AInv, g'.edges = g.edges, UNCHANGED <<tx, call, todo, outcome>>
  PROVE  AInv'
<1>1. \A p \in Procs : Aligned(p)'
  BY DEF AInv, Aligned, Idle, Runs
<1>2. Alone' /\ \A p \in Procs : Covers(tx'[p], g'.edges)
  BY DEF AInv, Alone
<1>3. \A name \in DOMAIN outcome' : outcome'[name] = "ok" => Whole(name)'
  BY DEF AInv, Whole
<1> QED BY <1>1, <1>2, <1>3 DEF AInv

LEMMA DamageKeeps ==
  ASSUME IInv, AInv, Damage
  PROVE  AInv'
<1>1. g'.edges = g.edges
  BY DEF Damage, IInv, Shaped
<1> QED BY <1>1, RestKeeps DEF Damage

LEMMA NextKeeps ==
  ASSUME IInv, AInv, [Next]_vars
  PROVE  AInv'
<1>1. ASSUME NEW p \in Procs, Statements(p) PROVE AInv'
  <2>1. CASE NodeInsert(p)
    BY <2>1, NodeInsertKeeps
  <2>2. CASE FactInsert(p)
    BY <2>2, FactInsertKeeps
  <2>3. CASE Revise(p)
    BY <2>3, ReviseKeeps
  <2>4. CASE SourceRead(p)
    BY <2>4, SourceReadKeeps
  <2>5. CASE EdgeInsert(p)
    BY <2>5, EdgeInsertKeeps
  <2>6. CASE CommitTx(p)
    BY <2>6, CommitKeeps
  <2>7. CASE Reads(p)
    BY <2>7, ReadForms, QuitKeeps, PassKeeps DEF IInv
  <2> QED BY <1>1, <2>1, <2>2, <2>3, <2>4, <2>5, <2>6, <2>7
          DEF Statements, Reads
<1>2. CASE Tick
  BY <1>2, RestKeeps DEF Tick
<1>3. CASE Damage
  BY <1>3, DamageKeeps
<1>4. ASSUME NEW p \in Procs, Crash(p) PROVE AInv'
  BY <1>4, QuitKeeps DEF Crash, Quits
<1>5. ASSUME NEW p \in Procs, NEW name \in DOMAIN outcome, Call(p, name)
      PROVE  AInv'
  BY <1>5, CallKeeps
<1>6. CASE UNCHANGED vars
  BY <1>6, RestKeeps DEF vars
<1> QED BY <1>1, <1>2, <1>3, <1>4, <1>5, <1>6 DEF Next

LEMMA InitKeeps ==
  ASSUME Init
  PROVE  AInv
<1>1. \A p \in Procs : tx[p] = Closed /\ call[p] = "none" /\ todo[p] = <<>>
  BY DEF Init
<1>2. \A name \in DOMAIN outcome : outcome[name] # "ok"
  BY DEF Init
<1>3. \A p \in Procs : Covers(tx[p], g.edges) /\ tx[p].locks = {}
  BY <1>1, ClosedCovers
<1> QED BY <1>1, <1>2, <1>3 DEF AInv, Alone, Aligned, Idle

LEMMA WholeSets ==
  ASSUME AInv
  PROVE  AggregatesAreWhole
<1>1. ASSUME NEW name \in DOMAIN outcome, outcome[name] = "ok",
             NEW s \in Asked(name), Guarded(s)
      PROVE  Targets(EdgesOf(g, s.node.id, s.type)) = s.ids
  <2>1. s \in ToSet(Programs[name][1])
    BY <1>1 DEF Asked
  <2>2. Targets(WithKey(g.edges, Key(s))) = s.ids
    BY <1>1, <2>1 DEF AInv, Whole
  <2>3. EdgesOf(g, s.node.id, s.type) = WithKey(g.edges, Key(s))
    <3> PICK d, n, type : d = g /\ n = s.node /\ type = s.type
      OBVIOUS
    <3>1. EdgesOf(d, n.id, type) = WithKey(d.edges, <<n.id, type>>)
      BY KeyedEdges
    <3> QED BY <3>1 DEF Key
  <2> QED BY <2>2, <2>3
<1> QED BY <1>1 DEF AggregatesAreWhole, IsWhole

\* In every reachable state, a guarded set of edges whose writer was told that
\* it is stored is exactly the set that was asked for: no other caller, crash
\* or deadlock adds to it, and it was never stored in part.
THEOREM AggregatesStayWhole == Spec => []AggregatesAreWhole
<1>1. Init => IInv /\ AInv
  BY InitChains, InitKeeps
<1>2. IInv /\ AInv /\ [Next]_vars => (IInv /\ AInv)'
  BY NextStep, NextKeeps
<1>3. IInv /\ AInv => AggregatesAreWhole
  BY WholeSets
<1> QED BY <1>1, <1>2, <1>3, PTL DEF Spec

-----------------------------------------------------------------------------
(* Induction without a predicate: the least of what is not so.             *)

LEMMA SmallestIn ==
  ASSUME NEW S, S \subseteq Nat, S # {}
  PROVE  \E x \in S : \A y \in S : x <= y
<1>1. PICK x \in S : \A y \in S : <<y, x>> \notin OpToRel(<, Nat)
  BY NatLessThanWellFounded, WFMin
<1>2. ASSUME NEW y \in S PROVE x <= y
  <2>1. x \in Nat /\ y \in Nat
    OBVIOUS
  <2>2. ~(y < x)
    BY <1>1, <2>1 DEF OpToRel
  <2> QED BY <2>1, <2>2
<1> QED BY <1>2

\* One of finitely many is the latest.
LEMMA LatestOf ==
  ASSUME NEW S, IsFiniteSet(S), S # {}, NEW f, \A i \in S : f[i] \in Int
  PROVE  \E i \in S : \A j \in S : f[j] <= f[i]
<1> DEFINE Has(T) == \E i \in T : \A j \in T : f[j] <= f[i]
           bad == {T \in SUBSET S : T # {} /\ ~Has(T)}
<1>1. SUFFICES ASSUME bad # {} PROVE FALSE
  BY DEF Has
<1>2. bad \subseteq FiniteSubsetsOf(S)
  BY FS_FiniteSubsetsOfFinite
<1>3. IsWellFoundedOn(StrictSubsetOrdering(S), FiniteSubsetsOf(S))
  BY FS_StrictSubsetOrderingWellFounded
<1>4. PICK T \in bad : \A U \in bad : <<U, T>> \notin StrictSubsetOrdering(S)
  <2> HIDE DEF bad
  <2> QED BY <1>1, <1>2, <1>3, WFMin
<1>5. PICK x \in T : T \subseteq S
  OBVIOUS
<1>6. PICK U : U = T \ {x}
  OBVIOUS
<1>7. U \in SUBSET S /\ U \subseteq T /\ U # T /\ T = U \cup {x}
  BY <1>5, <1>6
<1>8. U \notin bad
  BY <1>4, <1>5, <1>7 DEF StrictSubsetOrdering
<1>9. CASE U = {}
  <2>1. \A j \in T : j = x
    BY <1>7, <1>9
  <2>2. f[x] \in Int
    BY <1>5
  <2>3. Has(T)
    BY <1>5, <2>1, <2>2
  <2> QED BY <2>3
<1>10. CASE U # {}
  <2>1. PICK i \in U : \A j \in U : f[j] <= f[i]
    BY <1>7, <1>8, <1>10
  <2>2. f[i] \in Int /\ f[x] \in Int /\ \A j \in U : f[j] \in Int
    BY <1>5, <1>7
  <2>3. CASE f[x] <= f[i]
    <3>1. \A j \in T : f[j] <= f[i]
      BY <1>7, <2>1, <2>3
    <3> QED BY <1>7, <3>1
  <2>4. CASE f[i] <= f[x]
    <3>1. \A j \in T : f[j] <= f[x]
      <4>1. \A j \in U : f[j] <= f[x]
        BY <2>1, <2>2, <2>4
      <4> QED BY <1>7, <2>2, <4>1
    <3> QED BY <1>5, <3>1
  <2> QED BY <2>2, <2>3, <2>4
<1> QED BY <1>9, <1>10

LEMMA GreatestIn ==
  ASSUME NEW n \in Nat, NEW S, S \subseteq 1 .. n, S # {}
  PROVE  Max(S) \in S /\ \A j \in S : j <= Max(S)
<1>1. IsFiniteSet(S)
  <2>1. IsFiniteSet(1 .. n)
    BY FS_Interval
  <2> QED BY <2>1, FS_Subset
<1>2. PICK h : h = [k \in S |-> k]
  OBVIOUS
<1>3. \A k \in S : k \in Int /\ h[k] = k
  BY <1>2
<1>4. PICK k \in S : \A j \in S : h[j] <= h[k]
  <2>1. \A i \in S : h[i] \in Int
    BY <1>3
  <2> QED BY <1>1, <2>1, LatestOf
<1>5. \A j \in S : k >= j
  <2>1. ASSUME NEW j \in S PROVE k >= j
    <3>1. j \in Int /\ k \in Int /\ j <= k
      BY <1>3, <1>4
    <3> QED BY <3>1
  <2> QED BY <2>1
<1>6. PICK m : m = Max(S)
  OBVIOUS
<1>7. m \in S /\ \A j \in S : m >= j
  BY <1>5, <1>6 DEF Max
<1>8. \A j \in S : j <= m
  BY <1>3, <1>7
<1> QED BY <1>6, <1>7, <1>8

\* A function may be defined by what it is of smaller arguments: B says how.
Local(S, V, R, B) ==
  /\ B \in [S \X [S -> V] -> V]
  /\ \A x \in S : \A e, h \in [S -> V] :
       (\A y \in S : <<y, x>> \in R => e[y] = h[y])
       => B[<<x, e>>] = B[<<x, h>>]

LEMMA Recursion ==
  ASSUME NEW S, NEW V, NEW R, NEW B,
         V # {}, IsWellFoundedOn(R, S), Local(S, V, R, B)
  PROVE  \E f \in [S -> V] : \A x \in S : f[x] = B[<<x, f>>]
<1> DEFINE Solves(D, h) ==
             /\ \A x \in D : h[x] = B[<<x, h>>]
             /\ \A x \in D, y \in S : <<y, x>> \in R => y \in D
           Known(x) == \E D \in SUBSET S, h \in [S -> V] : Solves(D, h) /\ x \in D
<1>0. \A x \in S : \A e, h \in [S -> V] :
        (\A y \in S : <<y, x>> \in R => e[y] = h[y])
        => B[<<x, e>>] = B[<<x, h>>]
  BY DEF Local
<1>00. B \in [S \X [S -> V] -> V]
  BY DEF Local
<1>1. ASSUME NEW D \in SUBSET S, NEW h \in [S -> V], Solves(D, h),
             NEW E \in SUBSET S, NEW e \in [S -> V], Solves(E, e)
      PROVE  \A x \in D \cap E : h[x] = e[x]
  <2> DEFINE bad == {x \in D \cap E : h[x] # e[x]}
  <2>1. SUFFICES ASSUME bad # {} PROVE FALSE
    OBVIOUS
  <2>2. PICK x \in bad : \A y \in bad : <<y, x>> \notin R
    <3>1. bad \subseteq S
      OBVIOUS
    <3> HIDE DEF bad
    <3> QED BY <2>1, <3>1, WFMin
  <2>3. \A y \in S : <<y, x>> \in R => h[y] = e[y]
    BY <1>1, <2>2
  <2>4. B[<<x, h>>] = B[<<x, e>>]
    BY <1>0, <2>3
  <2> QED BY <1>1, <2>4
<1> DEFINE Value(x, v) == \E D \in SUBSET S, h \in [S -> V] :
                            Solves(D, h) /\ x \in D /\ v = h[x]
           f == [x \in S |-> CHOOSE v \in V : Known(x) => Value(x, v)]
<1>2. ASSUME NEW D \in SUBSET S, NEW h \in [S -> V], Solves(D, h), NEW x \in D
      PROVE  f[x] = h[x]
  <2>1. Value(x, h[x]) /\ h[x] \in V /\ x \in S
    BY <1>2
  <2>2. f[x] \in V /\ (Known(x) => Value(x, f[x]))
    <3>1. \E v \in V : Known(x) => Value(x, v)
      BY <2>1
    <3> HIDE DEF Known, Value
    <3> QED BY <2>1, <3>1
  <2>3. PICK E \in SUBSET S, e \in [S -> V] : Solves(E, e) /\ x \in E /\ f[x] = e[x]
    <3> HIDE DEF f
    <3> QED BY <1>2, <2>2
  <2> HIDE DEF f, Solves
  <2> QED BY <1>1, <1>2, <2>3
<1>3. f \in [S -> V]
  <2>1. \A x \in S : \E v \in V : Known(x) => Value(x, v)
    BY DEF Known, Value
  <2> HIDE DEF Known, Value
  <2> QED BY <2>1
<1> DEFINE D == {x \in S : Known(x)}
<1> HIDE DEF f
<1>4. ASSUME NEW x \in D
      PROVE  f[x] = B[<<x, f>>] /\ \A y \in S : <<y, x>> \in R => y \in D
  <2>1. PICK E \in SUBSET S, e \in [S -> V] : Solves(E, e) /\ x \in E
    BY <1>4
  <2>2. \A y \in E : f[y] = e[y]
    <3> HIDE DEF Solves
    <3> QED BY <1>2, <2>1
  <2>3. B[<<x, f>>] = B[<<x, e>>]
    BY <1>0, <1>3, <2>1, <2>2
  <2> QED BY <2>1, <2>2, <2>3
<1>5. D = S
  <2> DEFINE rest == S \ D
  <2>1. SUFFICES ASSUME rest # {} PROVE FALSE
    OBVIOUS
  <2>2. PICK x \in rest : \A y \in rest : <<y, x>> \notin R
    <3>1. rest \subseteq S
      OBVIOUS
    <3> HIDE DEF rest
    <3> QED BY <2>1, <3>1, WFMin
  <2>3. x \in S /\ x \notin D /\ <<x, x>> \notin R
        /\ \A y \in S : <<y, x>> \in R => y \in D
    BY <2>2
  <2> PICK h : h = [f EXCEPT ![x] = B[<<x, f>>]]
    OBVIOUS
  <2>4. /\ h \in [S -> V] /\ h[x] = B[<<x, f>>]
        /\ \A y \in S : y # x => h[y] = f[y]
    BY <1>00, <1>3, <2>3
  <2>5. h[x] = B[<<x, h>>]
    <3>1. \A y \in S : <<y, x>> \in R => f[y] = h[y]
      BY <2>3, <2>4
    <3>2. x \in S /\ f \in [S -> V] /\ h \in [S -> V]
      BY <1>3, <2>3, <2>4
    <3> HIDE DEF D
    <3>3. B[<<x, f>>] = B[<<x, h>>]
      BY <1>0, <3>1, <3>2
    <3> QED BY <2>4, <3>3
  <2>6. ASSUME NEW y \in D PROVE h[y] = B[<<y, h>>]
    <3>1. y \in S /\ y # x /\ h[y] = f[y] /\ f[y] = B[<<y, f>>]
      BY <1>4, <2>3, <2>4, <2>6
    <3>2. \A z \in S : <<z, y>> \in R => f[z] = h[z]
      BY <1>4, <2>3, <2>4, <2>6
    <3>3. y \in S /\ f \in [S -> V] /\ h \in [S -> V]
      BY <1>3, <2>4, <3>1
    <3> HIDE DEF D
    <3>4. B[<<y, f>>] = B[<<y, h>>]
      BY <1>0, <3>2, <3>3
    <3> QED BY <3>1, <3>4
  <2>7. Solves(D \cup {x}, h)
    <3> HIDE DEF D
    <3>1. \A y \in D \cup {x} : h[y] = B[<<y, h>>]
      BY <2>5, <2>6
    <3>2. \A y \in D \cup {x}, z \in S : <<z, y>> \in R => z \in D \cup {x}
      BY <1>4, <2>3
    <3> QED BY <3>1, <3>2
  <2>8. Known(x)
    <3>1. D \cup {x} \in SUBSET S /\ x \in D \cup {x}
      BY <2>3
    <3> HIDE DEF Solves, D
    <3> QED BY <2>4, <2>7, <3>1
  <2> QED BY <2>3, <2>8
<1>6. \A x \in S : f[x] = B[<<x, f>>]
  <2> HIDE DEF D
  <2> QED BY <1>4, <1>5
<1> QED BY <1>3, <1>6

-----------------------------------------------------------------------------
(* What is written: rows that somebody told of, and edges between them.    *)

\* A row says what one of Told says; only its time may be another.
Content(n) == \E m \in Told : m.id = n.id /\ m.kind = n.kind /\ m.uses = n.uses
Known(n)   == IsRow(n) /\ Content(n)
Proper(e)  == e = [x \in EdgeFields |-> e[x]] /\ Derives(e)

Inserting  == {"insert node", "insert fact", "insert edge"}
Exploring  == {"walk up", "walk down", "candidates", "links", "lineage"}
Harmless(x) == x.do \notin Inserting \cup Exploring

Good(x) ==
  /\ x.do = "insert node" => Known(x.node)
  /\ x.do = "insert fact" => Known(x.node) /\ x.node.kind \notin Bare
  /\ x.do = "insert edge" => Proper(x.edge)
  /\ x.do \notin Exploring
Fine(s) == Sequence(s) /\ \A x \in ToSet(s) : Good(x)

LEMMA ToldAgrees ==
  ASSUME NEW n, NEW m, Content(n), Content(m), n.id = m.id
  PROVE  n.kind = m.kind /\ (n.kind = "Calculation" => n.uses = m.uses)
<1>1. PICK a \in Told : a.id = n.id /\ a.kind = n.kind /\ a.uses = n.uses
  BY DEF Content
<1>2. PICK b \in Told : b.id = m.id /\ b.kind = m.kind /\ b.uses = m.uses
  BY DEF Content
<1>3. a.id = b.id
  BY <1>1, <1>2
<1>4. a.kind = b.kind /\ (a.kind = "Calculation" => a.uses = b.uses)
  BY <1>3, IdentityAssumption
<1> QED BY <1>1, <1>2, <1>4

LEMMA HarmlessIsGood ==
  ASSUME NEW x, Harmless(x)
  PROVE  Good(x)
BY DEF Harmless, Good, Inserting

LEMMA FineJoined ==
  ASSUME NEW s, NEW t, Fine(s), Fine(t)
  PROVE  Fine(s \o t)
<1>1. ToSet(s \o t) = ToSet(s) \cup ToSet(t) /\ Sequence(s \o t)
  BY ElementsJoined DEF Fine
<1> QED BY <1>1 DEF Fine

LEMMA FineTuples ==
  ASSUME NEW a, Good(a), NEW b, Good(b), NEW c, Good(c)
  PROVE  Fine(<<a>>) /\ Fine(<<a, b>>) /\ Fine(<<a, b, c>>)
<1>1. /\ Sequence(<<a>>) /\ ToSet(<<a>>) = {a}
      /\ Sequence(<<a, b>>) /\ ToSet(<<a, b>>) = {a, b}
      /\ Sequence(<<a, b, c>>) /\ ToSet(<<a, b, c>>) = {a, b, c}
  BY Tuples
<1> QED BY <1>1 DEF Fine

LEMMA FineCommits ==
  ASSUME NEW s, Fine(s)
  PROVE  Fine(s \o Commit)
<1>1. PICK a : a = [do |-> "commit"]
  OBVIOUS
<1>2. Good(a)
  BY <1>1, HarmlessIsGood DEF Harmless, Inserting, Exploring
<1>3. Fine(<<a>>)
  BY <1>2, FineTuples
<1> QED BY <1>1, <1>3, FineJoined DEF Commit

LEMMA FineNode ==
  ASSUME NEW n, NEW there, Known(n), n.kind \notin Bare
  PROVE  /\ Fine(WriteNode(n, there))
         /\ Fine(<<NodeThere(n), FactThere(n)>> \o WriteNode(n, there))
         /\ Fine(<<BothThere(n)>> \o WriteNode(n, there))
         /\ Fine(ValidateRevisionAppend(n) \o WriteNode(n, there))
         /\ Fine(ValidateMetricRevisionAppend(n) \o WriteNode(n, there))
<1>1. PICK a, b, c, d, e, f :
        /\ a = InsertNode(n) /\ b = InsertFact(n, there) /\ c = NodeThere(n)
        /\ d = FactThere(n) /\ e = BothThere(n) /\ f = Statement("revise", n)
  OBVIOUS
<1>2. /\ a.do = "insert node" /\ a.node = n
      /\ b.do = "insert fact" /\ b.node = n
      /\ c.do = "node there" /\ d.do = "fact there" /\ e.do = "both there"
      /\ f.do = "revise"
  BY <1>1 DEF InsertNode, InsertFact, NodeThere, FactThere, BothThere, Statement
<1>3. Good(a) /\ Good(b) /\ Good(c) /\ Good(d) /\ Good(e) /\ Good(f)
  BY <1>2 DEF Good, Exploring
<1>4. PICK w : w = <<a, b>>
  OBVIOUS
<1>5. Fine(w) /\ Fine(<<c, d>>) /\ Fine(<<e>>) /\ Fine(<<f>>)
  BY <1>3, <1>4, FineTuples
<1>6. WriteNode(n, there) = w
  BY <1>1, <1>4 DEF WriteNode
<1>7. Fine(<<c, d>> \o w) /\ Fine(<<e>> \o w) /\ Fine(<<f>> \o w)
  BY <1>5, FineJoined
<1>8. <<>> \o w = w
  <2>1. w \in Seq(ToSet(w))
    BY <1>5 DEF Fine, Sequence
  <2> QED BY <2>1, ConcatEmptySeq
<1>9. /\ Fine(ValidateRevisionAppend(n) \o w)
      /\ Fine(ValidateMetricRevisionAppend(n) \o w)
  BY <1>1, <1>5, <1>7, <1>8
  DEF ValidateRevisionAppend, ValidateMetricRevisionAppend
<1> QED BY <1>1, <1>5, <1>6, <1>7, <1>9

LEMMA FineAggregate ==
  ASSUME NEW n, NEW type, NEW ids, NEW there, IsTuple(ids),
         \A k \in 1 .. Len(ids) : Derives(EdgeRow(n.id, type, ids[k], Current))
  PROVE  Fine(Aggregate(n, type, ids, there))
<1>1. PICK u : u = Aggregate(n, type, ids, there)
  OBVIOUS
<1>2. /\ Sequence(u) /\ DOMAIN u = 1 .. Len(ids) + 2 /\ Len(ids) \in Nat
  BY <1>1, AggregateAt, TupleShape
<1>3. ASSUME NEW k \in DOMAIN u PROVE Good(u[k])
  <2>1. CASE u[k] = Existing(n, type, ids) \/ u[k] = Persisted(n, type, ids)
    BY <2>1, HarmlessIsGood
    DEF Existing, Persisted, Harmless, Inserting, Exploring
  <2>2. CASE /\ k > 1 /\ k < Len(ids) + 2
             /\ u[k] = Inserted(n, type, ids, there, k - 1)
    <3>1. k - 1 \in 1 .. Len(ids)
      BY <1>2, <2>2
    <3>2. PICK e : e = EdgeRow(n.id, type, ids[k - 1], Current)
      OBVIOUS
    <3>3. u[k].do = "insert edge" /\ u[k].edge = e
      <4>1. PICK x : x = InsertEdge(e, there)
        OBVIOUS
      <4>2. x.do = "insert edge" /\ x.edge = e
        BY <4>1 DEF InsertEdge
      <4>3. u[k] = x
        BY <2>2, <3>2, <4>1 DEF Inserted
      <4> QED BY <4>2, <4>3
    <3>4. e = [x \in EdgeFields |-> e[x]]
      BY <3>2 DEF EdgeRow, EdgeFields
    <3>5. Derives(e)
      BY <3>1, <3>2
    <3> QED BY <3>3, <3>4, <3>5 DEF Good, Proper, Exploring
  <2> QED BY <1>1, <2>1, <2>2, AggregateOf
<1>4. \A x \in ToSet(u) : Good(x)
  BY <1>3 DEF ToSet
<1> QED BY <1>1, <1>2, <1>4 DEF Fine

\* Edges that calculations have nothing to do with.
LEMMA OtherEdges ==
  ASSUME NEW e, e.type # "DERIVED_FROM"
  PROVE  Derives(e)
BY DEF Derives

LEMMA FineLink ==
  ASSUME NEW e, NEW kind, IsLink(e)
  PROVE  Fine(<<Endpoints(e, kind), InsertEdge(e, "compare")>>)
<1>1. PICK a, b : a = Endpoints(e, kind) /\ b = InsertEdge(e, "compare")
  OBVIOUS
<1>2. a.do = "endpoints" /\ b.do = "insert edge" /\ b.edge = e
  BY <1>1 DEF Endpoints, InsertEdge
<1>3. Proper(e)
  <2>1. e.type # "DERIVED_FROM" /\ e = [x \in EdgeFields |-> e[x]]
    BY DEF IsLink
  <2> QED BY <2>1, OtherEdges DEF Proper
<1>4. Good(a) /\ Good(b)
  BY <1>2, <1>3 DEF Good, Exploring
<1> QED BY <1>1, <1>4, FineTuples

LEMMA FineLinked ==
  ASSUME NEW n, NEW e, Known(n), n.kind \notin Bare, IsLink(e)
  PROVE  Fine(AddMetricWithEvidenceLink(n, e))
<1>1. Fine(ValidateMetricRevisionAppend(n) \o WriteNode(n, "compare"))
  BY FineNode
<1>2. Fine(<<Endpoints(e, "Metric"), InsertEdge(e, "compare")>>)
  BY FineLink
<1> QED BY <1>1, <1>2, FineJoined, FineCommits DEF AddMetricWithEvidenceLink

LEMMA FineSources ==
  ASSUME NEW n, NEW lock, NEW ids, NEW kinds, NEW rule
  PROVE  /\ Fine(<<Source(n, lock), Fit(n, ids, kinds, rule)>>)
         /\ Fine(<<Source(n, lock), Fit(n, ids, kinds, rule), Acyclic(n, ids)>>)
<1>1. PICK a, b, c : /\ a = Source(n, lock) /\ b = Fit(n, ids, kinds, rule)
                     /\ c = Acyclic(n, ids)
  OBVIOUS
<1>2. Good(a) /\ Good(b) /\ Good(c)
  BY <1>1, HarmlessIsGood
  DEF Source, Fit, Acyclic, Harmless, Inserting, Exploring
<1> QED BY <1>1, <1>2, FineTuples

LEMMA AddingIsFine ==
  ASSUME NEW r, NEW t, r.op \in DOMAIN Adding, Known(r.node),
         r.node.kind = Adding[r.op]
  PROVE  Fine(Perform(r, t))
<1>1. PICK n : n = r.node
  OBVIOUS
<1>2. Known(n) /\ n.kind = Adding[r.op]
  BY <1>1
<1>3. CASE r.op = "add_security"
  <2>1. PICK a : a = InsertNode(n)
    OBVIOUS
  <2>2. a.do = "insert node" /\ a.node = n
    BY <2>1 DEF InsertNode, Statement
  <2>3. Good(a)
    BY <1>2, <2>2 DEF Good, Exploring
  <2>4. Perform(r, t) = <<a>> \o Commit
    BY <1>1, <1>3, <2>1 DEF Perform, AddSecurity
  <2> QED BY <2>3, <2>4, FineTuples, FineCommits
<1>4. CASE r.op # "add_security"
  <2>1. n.kind \notin Bare
    BY <1>2, <1>4 DEF Adding, Bare
  <2>2. /\ Fine(WriteNode(n, "compare") \o Commit)
        /\ Fine(ValidateRevisionAppend(n) \o WriteNode(n, "compare") \o Commit)
        /\ Fine(ValidateMetricRevisionAppend(n) \o WriteNode(n, "compare")
                \o Commit)
        /\ Fine(AddInTwoReads(n)) /\ Fine(AddInOneRead(n) \o Commit)
    BY <1>2, <2>1, FineNode, FineCommits DEF AddInTwoReads, AddInOneRead
  <2>3. CASE r.op = "add_claim"
    BY <1>1, <2>2, <2>3 DEF Perform, AddClaim
  <2>4. CASE r.op = "add_evidence"
    BY <1>1, <2>2, <2>4 DEF Perform, AddEvidence
  <2>5. CASE r.op = "add_metric"
    BY <1>1, <2>2, <2>5 DEF Perform, AddMetric
  <2>6. CASE r.op \in {"add_estimate", "add_catalyst", "add_catalyst_impact",
                       "add_forecast", "add_calculation"}
    <3>1. Perform(r, t) = AddInTwoReads(n)
      BY <1>1, <2>6 DEF Perform, AddEstimate, AddCatalyst, AddCatalystImpact,
                        AddForecast, AddCalculation
    <3> QED BY <2>2, <3>1
  <2>7. CASE r.op \in {"add_risk", "add_recommendation", "add_valuation"}
    <3>1. Perform(r, t) = AddInOneRead(n) \o Commit
      BY <1>1, <2>7 DEF Perform, AddRisk, AddRecommendation, AddValuation
    <3> QED BY <2>2, <3>1
  <2> QED BY <1>4, <2>3, <2>4, <2>5, <2>6, <2>7 DEF Adding
<1> QED BY <1>3, <1>4

LEMMA RelatingIsFine ==
  ASSUME NEW r, NEW t, r.op \in DOMAIN Relating, Known(r.node), IsTuple(r.ids),
         r.node.kind = Relating[r.op]
  PROVE  Fine(Perform(r, t))
<1>1. PICK n, ids : n = r.node /\ ids = r.ids
  OBVIOUS
<1>2. Known(n) /\ IsTuple(ids) /\ n.kind = Relating[r.op]
  BY <1>1
<1>3. n.kind \notin Bare /\ n.kind # "Calculation"
  BY <1>2 DEF Relating, Bare
<1>4. ASSUME NEW type, NEW there PROVE Fine(Aggregate(n, type, ids, there))
  <2>1. ASSUME NEW k \in 1 .. Len(ids)
        PROVE  Derives(EdgeRow(n.id, type, ids[k], Current))
    <3>1. PICK e : e = EdgeRow(n.id, type, ids[k], Current)
      OBVIOUS
    <3>2. e.source = n.id
      BY <3>1 DEF EdgeRow
    <3>3. \A m \in Told : m.id = n.id => m.kind = n.kind
      BY <1>2, IdentityAssumption DEF Known, Content
    <3>4. Derives(e)
      BY <1>3, <3>2, <3>3 DEF Derives
    <3> QED BY <3>1, <3>4
  <2> QED BY <1>2, <2>1, FineAggregate
<1>5. ASSUME NEW lock, NEW kinds, NEW rule, NEW type, NEW there
      PROVE  Fine(<<Source(n, lock), Fit(n, ids, kinds, rule)>>
                  \o Aggregate(n, type, ids, there))
  BY <1>4, FineSources, FineJoined
<1>6. CASE r.op = "add_catalyst_affects"
  BY <1>1, <1>5, <1>6, FineCommits DEF Perform, AddCatalystAffects
<1>7. CASE r.op = "add_risk_affects"
  BY <1>1, <1>5, <1>7, FineCommits DEF Perform, AddRiskAffects
<1>8. CASE r.op = "add_forecast_estimates"
  BY <1>1, <1>5, <1>8, FineCommits DEF Perform, AddForecastEstimates
<1>9. CASE r.op = "add_recommendation_dependencies"
  BY <1>1, <1>5, <1>9, FineCommits DEF Perform, AddRecommendationDependencies
<1>10. CASE r.op = "add_estimate_inputs"
  BY <1>1, <1>5, <1>10, FineCommits DEF Perform, AddEstimateInputs
<1>11. Fine(ValuationDependencies(n, ids))
  BY <1>5 DEF ValuationDependencies
<1>12. CASE r.op = "add_valuation_dependencies"
  <2>1. Perform(r, t) = ValuationDependencies(n, ids) \o Commit
    BY <1>1, <1>12 DEF Perform, AddValuationDependencies
  <2> QED BY <1>11, <2>1, FineCommits
<1>13. Fine(PersistVerifiedValuation(n, ids))
  <2>1. Fine(AddInOneRead(n))
    BY <1>2, <1>3, FineNode DEF AddInOneRead
  <2>2. PICK a : a = Statement("verify", n)
    OBVIOUS
  <2>3. Good(a)
    BY <2>2, HarmlessIsGood DEF Statement, Harmless, Inserting, Exploring
  <2>4. Fine(<<a>>)
    BY <2>3, FineTuples
  <2>5. Fine(AddInOneRead(n) \o ValuationDependencies(n, ids))
    BY <1>11, <2>1, FineJoined
  <2>6. Fine(AddInOneRead(n) \o ValuationDependencies(n, ids) \o <<a>>)
    BY <2>4, <2>5, FineJoined
  <2> QED BY <2>2, <2>6, FineCommits DEF PersistVerifiedValuation
<1>14. CASE r.op = "persist_verified_valuation"
  BY <1>1, <1>13, <1>14 DEF Perform
<1>15. CASE r.op = "execute_valuation"
  <2>1. PICK a : a = [do |-> "resolve", node |-> n, ids |-> ToSet(ids),
                      cutoff |-> r.cutoff]
    OBVIOUS
  <2>2. Perform(r, t) = <<a>> \o PersistVerifiedValuation(n, ids)
    BY <1>1, <1>15, <2>1 DEF Perform, ExecuteValuation
  <2>3. Good(a)
    BY <2>1, HarmlessIsGood DEF Harmless, Inserting, Exploring
  <2>4. Fine(<<a>>)
    BY <2>3, FineTuples
  <2> QED BY <1>13, <2>2, <2>4, FineJoined
<1> QED
  BY <1>6, <1>7, <1>8, <1>9, <1>10, <1>12, <1>14, <1>15 DEF Relating

LEMMA FetchedContent ==
  ASSUME NEW n \in Told, NEW t \in Int, NEW kind, IsRowOf(n, kind)
  PROVE  Known(Fetched(n, t)) /\ Fetched(n, t).kind = kind
<1>1. PICK m : m = Fetched(n, t)
  OBVIOUS
<1>2. IsRowOf(m, kind)
  BY <1>1, FetchedRow
<1>3. n = [x \in NodeFields |-> n[x]]
  BY DEF IsRowOf, IsRow
<1>4. m.id = n.id /\ m.kind = n.kind /\ m.uses = n.uses
  BY <1>1, <1>3 DEF Fetched, NodeFields
<1>5. Content(m)
  BY <1>4 DEF Content
<1> QED BY <1>1, <1>2, <1>5 DEF Known, IsRowOf

LEMMA IngestionIsFine ==
  ASSUME NEW r, NEW t \in Int, IsRequest(r), r.op \in Stamped,
         RowsOf(r) \subseteq Told
  PROVE  Fine(Perform(r, t))
<1>1. PICK f : f = r.filing
  OBVIOUS
<1>2. /\ IsRowOf(f.evidence, "Evidence") /\ f.evidence \in Told
      /\ \A x \in f.facts : IsRowOf(x, "Metric") /\ x \in Told
  BY <1>1 DEF IsRequest, Adding, Relating, Stamped, RowsOf
<1>3. PICK n : n = Fetched(f.evidence, t)
  OBVIOUS
<1>4. Known(n) /\ n.kind \notin Bare
  BY <1>2, <1>3, FetchedContent DEF Bare
<1>5. IngestFiling(f, t) = ValidateRevisionAppend(n) \o WriteNode(n, "compare")
                           \o Commit
  BY <1>3 DEF IngestFiling, AddEvidence
<1>6. Fine(IngestFiling(f, t))
  BY <1>4, <1>5, FineNode, FineCommits
<1>7. CASE r.op = "ingest_filing"
  BY <1>1, <1>6, <1>7 DEF Perform
<1>8. CASE r.op = "ingest_financial_fact" /\ Cardinality(SelectedFacts(f)) # 1
  <2>1. PICK a : a = [do |-> "refuse"]
    OBVIOUS
  <2>2. Perform(r, t) = <<a>>
    BY <1>1, <1>8, <2>1 DEF Perform, IngestFinancialFact
  <2>3. Good(a)
    BY <2>1, HarmlessIsGood DEF Harmless, Inserting, Exploring
  <2> QED BY <2>2, <2>3, FineTuples
<1>9. CASE r.op = "ingest_financial_fact" /\ Cardinality(SelectedFacts(f)) = 1
  <2>1. SelectedFacts(f) # {}
    <3>1. Cardinality({}) = 0
      BY FS_EmptySet
    <3> QED BY <1>9, <3>1
  <2>2. PICK x : x = CHOOSE y \in SelectedFacts(f) : TRUE
    OBVIOUS
  <2>3. x \in f.facts
    BY <2>1, <2>2 DEF SelectedFacts
  <2>4. PICK m : m = Fetched(x, t)
    OBVIOUS
  <2>5. Known(m) /\ m.kind \notin Bare
    BY <1>2, <2>3, <2>4, FetchedContent DEF Bare
  <2>6. PICK e : e = EdgeRow(m.id, "SUPPORTED_BY", f.evidence.id, r.created)
    OBVIOUS
  <2>7. IsLink(e)
    BY <2>6 DEF IsLink, EdgeRow, EdgeFields
  <2>8. Perform(r, t) = IngestFiling(f, t) \o AddMetricWithEvidenceLink(m, e)
    <3>1. Perform(r, t) = IngestFinancialFact(f, r.created, t)
      BY <1>1, <1>9 DEF Perform
    <3> QED BY <1>9, <2>2, <2>4, <2>6, <3>1 DEF IngestFinancialFact, AddLinked
  <2>9. Fine(AddMetricWithEvidenceLink(m, e))
    BY <2>5, <2>7, FineLinked
  <2> QED BY <1>6, <2>8, <2>9, FineJoined
<1> QED BY <1>7, <1>8, <1>9 DEF Stamped

ReadingLinks == {"evidence_for_metric_at", "evidence_for_claim_at"}
Answering == {"latest_evidence_at"} \cup ReadingLinks

LEMMA RestIsFine ==
  ASSUME NEW r, NEW t, IsRequest(r), r.op \notin DOMAIN Adding,
         r.op \notin DOMAIN Relating, r.op \notin Stamped, r.op \notin Answering,
         RowsOf(r) \subseteq Told
  PROVE  Fine(Perform(r, t))
<1>1. CASE r.op = "add_calculation_inputs"
  <2>1. PICK n, ids : n = r.node /\ ids = n.uses
    OBVIOUS
  <2>2. IsRowOf(n, "Calculation") /\ IsTuple(ids) /\ n \in Told
    BY <1>1, <2>1 DEF IsRequest, Adding, Relating, RowsOf
  <2>3. Perform(r, t) =
          <<Source(n, TRUE), Fit(n, ids, {"Metric", "Calculation"}, "any"),
            Acyclic(n, ids)>>
          \o Aggregate(n, "DERIVED_FROM", ids, "refuse") \o Commit
    BY <1>1, <2>1 DEF Perform, AddCalculationInputs
  <2>4. ASSUME NEW k \in 1 .. Len(ids)
        PROVE  Derives(EdgeRow(n.id, "DERIVED_FROM", ids[k], Current))
    <3>1. PICK e : e = EdgeRow(n.id, "DERIVED_FROM", ids[k], Current)
      OBVIOUS
    <3>2. e.source = n.id /\ e.target = ids[k]
      BY <3>1 DEF EdgeRow
    <3>3. ids[k] \in ToSet(ids)
      BY <2>2, TupleShape DEF ToSet
    <3>4. \A m \in Told : m.id = n.id /\ m.kind = "Calculation" => m.uses = ids
      BY <2>1, <2>2, IdentityAssumption
    <3>5. Derives(e)
      BY <3>2, <3>3, <3>4 DEF Derives
    <3> QED BY <3>1, <3>5
  <2>5. Fine(Aggregate(n, "DERIVED_FROM", ids, "refuse"))
    BY <2>2, <2>4, FineAggregate
  <2> QED BY <2>3, <2>5, FineSources, FineJoined, FineCommits
<1>2. CASE r.op = "add_metric_with_evidence_link"
  <2>1. /\ Known(r.node) /\ r.node.kind \notin Bare /\ IsLink(r.link)
    <3>1. r.node \in Told /\ IsRowOf(r.node, "Metric") /\ IsLink(r.link)
      BY <1>2 DEF IsRequest, Adding, Relating, RowsOf
    <3> QED BY <3>1 DEF Known, Content, IsRowOf, Bare
  <2>2. Perform(r, t) = AddMetricWithEvidenceLink(r.node, r.link)
    BY <1>2 DEF Perform
  <2> QED BY <2>1, <2>2, FineLinked
<1>3. CASE r.op \in {"add_metric_evidence_link", "add_claim_evidence_link"}
  <2>1. IsLink(r.link)
    BY <1>3 DEF IsRequest, Adding, Relating
  <2>2. PICK kind : Perform(r, t) =
          <<Endpoints(r.link, kind), InsertEdge(r.link, "compare")>> \o Commit
    BY <1>3 DEF Perform, AddMetricEvidenceLink, AddClaimEvidenceLink
  <2> QED BY <2>1, <2>2, FineLink, FineCommits
<1> QED BY <1>1, <1>2, <1>3 DEF IsRequest, Stamped, Answering, ReadingLinks

\* A program either writes what is good, or explores and writes nothing.
LEMMA ProgramContents ==
  ASSUME NEW name \in DOMAIN Programs, NEW t \in 1 .. MaxNow
  PROVE  LET r == Requests[name]
             s == Programs[name][t]
         IN \/ r.op \notin Answering /\ \A i \in DOMAIN s : Good(s[i])
            \/ /\ r.op = "latest_evidence_at"
               /\ s = ReadLatestEvidence(r.id, r.cutoff)
            \/ /\ r.op \in ReadingLinks
               /\ \E kind : s = ReadEvidence(kind, r.id, r.cutoff)
<1>1. PICK r, s : r = Requests[name] /\ s = Programs[name][t]
  OBVIOUS
<1>2. name \in DOMAIN Requests
  BY ProgramsFit
<1>3. IsRequest(r) /\ t \in Int /\ s = Perform(r, t)
  BY <1>1, <1>2, RequestsAssumption, RequestsFit, ClockAssumption
<1>4. RowsOf(r) \subseteq Told
  BY <1>1, <1>2, RequestsTell
<1>5. CASE r.op = "latest_evidence_at"
  BY <1>1, <1>3, <1>5 DEF Perform
<1>6. CASE r.op \in ReadingLinks
  <2>1. \E kind : s = ReadEvidence(kind, r.id, r.cutoff)
    BY <1>3, <1>6 DEF Perform, ReadingLinks, ReadEvidenceForMetric,
                      ReadEvidenceForClaim
  <2> QED BY <1>1, <1>6, <2>1
<1>7. CASE r.op \notin Answering
  <2>1. Fine(s)
    <3>1. CASE r.op \in DOMAIN Adding
      <4>1. /\ IsRowOf(r.node, Adding[r.op]) /\ r.node \in Told
        BY <1>3, <1>4, <3>1 DEF IsRequest, Adding, Relating, RowsOf
      <4> QED BY <1>3, <3>1, <4>1, AddingIsFine DEF Known, Content, IsRowOf
    <3>2. CASE r.op \in DOMAIN Relating
      <4>1. /\ IsRowOf(r.node, Relating[r.op]) /\ r.node \in Told
            /\ IsTuple(r.ids)
        BY <1>3, <1>4, <3>2 DEF IsRequest, Adding, Relating, RowsOf
      <4> QED BY <1>3, <3>2, <4>1, RelatingIsFine DEF Known, Content, IsRowOf
    <3>3. CASE r.op \in Stamped
      BY <1>3, <1>4, <3>3, IngestionIsFine
    <3>4. CASE /\ r.op \notin DOMAIN Adding /\ r.op \notin DOMAIN Relating
               /\ r.op \notin Stamped
      BY <1>3, <1>4, <1>7, <3>4, RestIsFine
    <3> QED BY <3>1, <3>2, <3>3, <3>4
  <2>2. \A i \in DOMAIN s : s[i] \in ToSet(s)
    BY DEF ToSet
  <2> QED BY <1>1, <1>7, <2>1, <2>2 DEF Fine
<1> QED BY <1>1, <1>5, <1>6, <1>7 DEF Answering

-----------------------------------------------------------------------------
(* What the tables hold.                                                   *)

\* A digest is of a row that somebody told of, and stays what it was.
Entries(f) ==
  \A id \in DOMAIN f :
    /\ f[id] = [x \in {"payload", "digest"} |-> f[id][x]]
    /\ Known(f[id].digest) /\ f[id].digest.id = id
Tables(f) == /\ IsFiniteSet(DOMAIN f)
             /\ \A id \in DOMAIN f : Content(f[id]) /\ f[id].kind \notin Bare
Holding(d) == /\ Entries(d.nodes) /\ Tables(d.facts)
              /\ \A e \in d.edges : Proper(e)

\* One edge for each key, whoever has written it.
Distinct(x, y) == \A e \in x, f \in y : SameKey(e, f) => e = f

CInv == /\ Holding(g) /\ Distinct(g.edges, g.edges)
        /\ \A p \in Procs : Holding(tx[p]) /\ Distinct(tx[p].edges, g.edges)
        /\ \A p, q \in Procs : Distinct(tx[p].edges, tx[q].edges)

LEMMA HeadIsGood ==
  ASSUME IInv, NEW p \in Procs, todo[p] # <<>>, Head(todo[p]).do \in Inserting
  PROVE  Good(Head(todo[p]))
<1>1. PICK s, c : Runs(p, s, c) /\ c \in DOMAIN s /\ Head(todo[p]) = s[c]
  BY BusyRuns DEF IInv
<1>2. PICK name \in DOMAIN Programs, t \in 1 .. MaxNow : s = Programs[name][t]
  BY <1>1 DEF Runs
<1>3. PICK x, r : x = s[c] /\ r = Requests[name]
  OBVIOUS
<1>4. \/ Good(x)
      \/ s = ReadLatestEvidence(r.id, r.cutoff)
      \/ \E kind : s = ReadEvidence(kind, r.id, r.cutoff)
  BY <1>1, <1>2, <1>3, ProgramContents
<1>5. ASSUME s = ReadLatestEvidence(r.id, r.cutoff) PROVE x.do \notin Inserting
  <2>1. PICK i, j, k : /\ i = [do |-> "walk up", id |-> r.id]
                       /\ j = [do |-> "walk down"]
                       /\ k = [do |-> "candidates", id |-> r.id,
                               cutoff |-> r.cutoff]
    OBVIOUS
  <2>2. s = <<i, j, k>>
    BY <1>5, <2>1 DEF ReadLatestEvidence
  <2>3. x \in {i, j, k}
    BY <1>1, <1>3, <2>2
  <2>4. i.do = "walk up" /\ j.do = "walk down" /\ k.do = "candidates"
    BY <2>1
  <2> QED BY <2>3, <2>4 DEF Inserting
<1>6. ASSUME NEW kind, s = ReadEvidence(kind, r.id, r.cutoff)
      PROVE  x.do \notin Inserting
  <2>1. PICK i, j : /\ i = [do |-> "links", of |-> kind, id |-> r.id]
                    /\ j = [do |-> "lineage", of |-> kind, id |-> r.id,
                            cutoff |-> r.cutoff]
    OBVIOUS
  <2>2. s = <<i, j>>
    BY <1>6, <2>1 DEF ReadEvidence
  <2>3. x \in {i, j}
    BY <1>1, <1>3, <2>2
  <2>4. i.do = "links" /\ j.do = "lineage"
    BY <2>1
  <2> QED BY <2>3, <2>4 DEF Inserting
<1> QED BY <1>1, <1>3, <1>4, <1>5, <1>6

\* The tables of t are those of u, or empty.
SameTables(t, u) == t.nodes = u.nodes /\ t.facts = u.facts /\ t.edges = u.edges
NoTables(t) == DOMAIN t.nodes = {} /\ DOMAIN t.facts = {} /\ t.edges = {}

LEMMA NothingHolds ==
  ASSUME NEW t, NoTables(t)
  PROVE  Holding(t) /\ \A x : Distinct(t.edges, x) /\ Distinct(x, t.edges)
<1>1. IsFiniteSet(DOMAIN t.facts)
  BY FS_EmptySet DEF NoTables
<1> QED BY <1>1 DEF NoTables, Holding, Entries, Tables, Distinct

LEMMA ClosedHasNothing == NoTables(Closed)
BY DEF NoTables, Closed, Empty

LEMMA HoldsSame ==
  ASSUME CInv, g'.nodes = g.nodes, g'.facts = g.facts, g'.edges = g.edges,
         \A p \in Procs : SameTables(tx'[p], tx[p]) \/ NoTables(tx'[p])
  PROVE  CInv'
<1>1. Holding(g') /\ Distinct(g'.edges, g'.edges)
  BY DEF CInv, Holding
<1>2. ASSUME NEW p \in Procs
      PROVE  Holding(tx'[p]) /\ Distinct(tx'[p].edges, g'.edges)
  <2>1. CASE SameTables(tx'[p], tx[p])
    BY <2>1 DEF CInv, Holding, SameTables
  <2>2. CASE NoTables(tx'[p])
    BY <2>2, NothingHolds
  <2> QED BY <2>1, <2>2
<1>3. ASSUME NEW p \in Procs, NEW q \in Procs
      PROVE  Distinct(tx'[p].edges, tx'[q].edges)
  <2>1. CASE NoTables(tx'[p]) \/ NoTables(tx'[q])
    BY <2>1, NothingHolds
  <2>2. CASE SameTables(tx'[p], tx[p]) /\ SameTables(tx'[q], tx[q])
    BY <2>2 DEF CInv, SameTables
  <2> QED BY <2>1, <2>2
<1> QED BY <1>1, <1>2, <1>3 DEF CInv

LEMMA QuitHolds ==
  ASSUME IInv, CInv, NEW p \in Procs, Leaves(p)
  PROVE  CInv'
<1>1. tx'[p] = Closed /\ \A q \in Procs \ {p} : tx'[q] = tx[q]
  BY DEF IInv, Shaped, Leaves
<1>2. \A q \in Procs : SameTables(tx'[q], tx[q]) \/ NoTables(tx'[q])
  BY <1>1, ClosedHasNothing DEF SameTables
<1> QED BY <1>2, HoldsSame DEF Leaves

LEMMA TxStays ==
  ASSUME CInv, UNCHANGED <<g, tx>>
  PROVE  CInv'
BY HoldsSame DEF SameTables

\* Only locks have changed.
LEMMA LockHolds ==
  ASSUME IInv, CInv, NEW p \in Procs, NEW t, IsTx(t), SameTables(t, tx[p]),
         GoesOn(p, 1, t)
  PROVE  CInv'
<1>1. tx'[p] = t /\ \A q \in Procs \ {p} : tx'[q] = tx[q]
  BY GoesOnShape DEF IInv
<1>2. \A q \in Procs : SameTables(tx'[q], tx[q])
  BY <1>1 DEF SameTables
<1> QED BY <1>2, HoldsSame DEF GoesOn

LEMMA CheckHolds ==
  ASSUME IInv, CInv, NEW p \in Procs, NEW fault, Checks(p, fault)
  PROVE  CInv'
<1>1. CASE Ends(p, fault)
  BY <1>1, QuitHolds DEF Ends
<1>2. CASE GoesOn(p, 1, tx[p])
  BY <1>2, LockHolds DEF IInv, Shaped, SameTables
<1> QED BY <1>1, <1>2 DEF Checks

LEMMA EntriesWith ==
  ASSUME NEW f, NEW n, Entries(f), Known(n)
  PROVE  Entries(With(f, n.id, Row(n)))
<1>1. PICK r : r = Row(n)
  OBVIOUS
<1>2. r = [x \in {"payload", "digest"} |-> r[x]] /\ r.digest = n
  BY <1>1 DEF Row
<1>3. PICK h : h = With(f, n.id, r)
  OBVIOUS
<1>4. /\ DOMAIN h = DOMAIN f \cup {n.id} /\ h[n.id] = r
      /\ \A i \in DOMAIN f \ {n.id} : h[i] = f[i]
  BY <1>3 DEF With
<1>5. Entries(h)
  BY <1>2, <1>4 DEF Entries
<1> QED BY <1>1, <1>3, <1>5

LEMMA TablesWith ==
  ASSUME NEW f, NEW n, Tables(f), Content(n), n.kind \notin Bare
  PROVE  Tables(With(f, n.id, n))
<1>1. PICK h : h = With(f, n.id, n)
  OBVIOUS
<1>2. /\ DOMAIN h = DOMAIN f \cup {n.id} /\ h[n.id] = n
      /\ \A i \in DOMAIN f \ {n.id} : h[i] = f[i]
  BY <1>1 DEF With
<1>3. IsFiniteSet(DOMAIN h)
  BY <1>2, FS_AddElement DEF Tables
<1>4. Tables(h)
  BY <1>2, <1>3 DEF Tables
<1> QED BY <1>1, <1>4

\* Nobody has an edge of the same key.
Fresh(p, new) ==
  \A e \in new : /\ \A f \in View(p).edges \cup new : SameKey(e, f) => e = f
                 /\ \A q \in Procs \ {p} : \A f \in tx[q].edges : ~SameKey(e, f)

\* What one transaction adds.
LEMMA WriteHolds ==
  ASSUME NEW p \in Procs, NEW t, NEW new, IInv, CInv, IsTx(t), GoesOn(p, 1, t),
         Holding(t), t.edges = tx[p].edges \cup new, Fresh(p, new)
  PROVE  CInv'
<1>1. tx'[p] = t /\ \A q \in Procs \ {p} : tx'[q] = tx[q]
  BY GoesOnShape DEF IInv
<1>2. g' = g
  BY DEF GoesOn
<1>3. View(p).edges = tx[p].edges \cup g.edges
  BY DEF View
<1>4. \A e, f : SameKey(e, f) => SameKey(f, e)
  BY DEF SameKey
<1>5. ASSUME NEW q \in Procs
      PROVE  Holding(tx'[q]) /\ Distinct(tx'[q].edges, g'.edges)
  <2>1. CASE q = p
    BY <1>1, <1>2, <1>3, <2>1 DEF CInv, Distinct, Fresh
  <2>2. CASE q # p
    BY <1>1, <1>2, <2>2 DEF CInv
  <2> QED BY <2>1, <2>2
<1>6. ASSUME NEW q \in Procs, q # p
      PROVE  /\ Distinct(t.edges, tx[q].edges) /\ Distinct(tx[q].edges, t.edges)
  BY <1>4, <1>6 DEF CInv, Distinct, Fresh
<1>7. Distinct(t.edges, t.edges)
  BY <1>3, <1>4 DEF CInv, Distinct, Fresh
<1>8. ASSUME NEW q \in Procs, NEW r \in Procs
      PROVE  Distinct(tx'[q].edges, tx'[r].edges)
  BY <1>1, <1>6, <1>7 DEF CInv
<1> QED BY <1>2, <1>5, <1>8 DEF CInv

LEMMA NodeInsertHolds ==
  ASSUME IInv, CInv, NEW p \in Procs, NodeInsert(p)
  PROVE  CInv'
<1> PICK n : n = Head(todo[p]).node
  OBVIOUS
<1>1. todo[p] # <<>> /\ Head(todo[p]).do = "insert node"
  BY DEF NodeInsert, Executes
<1>2. CASE HasNode(p, n)
  BY <1>2, CheckHolds DEF NodeInsert
<1>3. CASE ~HasNode(p, n)
  <2>0. IsTx(tx[p]) /\ Holding(tx[p])
    BY DEF IInv, Shaped, CInv
  <2>1. PICK t : t = [tx[p] EXCEPT !.nodes = With(@, n.id, Row(n))]
    OBVIOUS
  <2>2. /\ IsTx(t) /\ t.facts = tx[p].facts /\ t.edges = tx[p].edges
        /\ t.nodes = With(tx[p].nodes, n.id, Row(n))
    BY <2>0, <2>1 DEF TxFields, IsTx
  <2>3. GoesOn(p, 1, t)
    BY <1>3, <2>1 DEF NodeInsert
  <2>4. Known(n)
    BY <1>1, HeadIsGood DEF Good, Inserting
  <2>5. Holding(t)
    BY <2>0, <2>2, <2>4, EntriesWith DEF Holding
  <2>6. t.edges = tx[p].edges \cup {} /\ Fresh(p, {})
    BY <2>2 DEF Fresh
  <2> QED BY <2>2, <2>3, <2>5, <2>6, WriteHolds
<1> QED BY <1>2, <1>3

LEMMA FactInsertHolds ==
  ASSUME IInv, CInv, NEW p \in Procs, FactInsert(p)
  PROVE  CInv'
<1> PICK n : n = Head(todo[p]).node
  OBVIOUS
<1>1. todo[p] # <<>> /\ Head(todo[p]).do = "insert fact"
  BY DEF FactInsert, Executes
<1>2. CASE HasFact(p, n)
  BY <1>2, CheckHolds DEF FactInsert
<1>3. CASE Ends(p, "unique") \/ Ends(p, "foreign key")
  BY <1>3, QuitHolds DEF Ends
<1>4. PICK t : t = [tx[p] EXCEPT
             !.facts = With(@, n.id, n),
             !.shares = @ \cup {NodeLock(n.id)}
                        \cup (IF n.supersedes = NoId THEN {}
                              ELSE {FactLock(n.supersedes)})]
  OBVIOUS
<1>5. CASE GoesOn(p, 1, t)
  <2>0. IsTx(tx[p]) /\ Holding(tx[p])
    BY DEF IInv, Shaped, CInv
  <2>2. /\ IsTx(t) /\ t.nodes = tx[p].nodes /\ t.edges = tx[p].edges
        /\ t.facts = With(tx[p].facts, n.id, n)
    BY <2>0, <1>4 DEF TxFields, IsTx
  <2>4. Known(n) /\ n.kind \notin Bare
    BY <1>1, HeadIsGood DEF Good, Inserting
  <2>5. Holding(t)
    BY <2>0, <2>2, <2>4, TablesWith DEF Holding, Known
  <2>6. t.edges = tx[p].edges \cup {} /\ Fresh(p, {})
    BY <2>2 DEF Fresh
  <2> QED BY <1>5, <2>2, <2>5, <2>6, WriteHolds
<1> QED BY <1>2, <1>3, <1>4, <1>5 DEF FactInsert

LEMMA EdgeInsertHolds ==
  ASSUME IInv, CInv, NEW p \in Procs, EdgeInsert(p)
  PROVE  CInv'
<1> PICK s : s = Head(todo[p])
  OBVIOUS
<1>1. todo[p] # <<>> /\ s.do = "insert edge" /\ WaitsFor(p) = {}
  BY DEF EdgeInsert, Executes
<1>2. ASSUME NEW fault, Checks(p, fault) PROVE CInv'
  BY <1>2, CheckHolds
<1>3. PICK e : e = [s.edge EXCEPT !.at = IF @ = Current THEN began[p] ELSE @]
  OBVIOUS
<1>4. PICK t : t = [tx[p] EXCEPT
               !.edges = @ \cup {e},
               !.shares = @ \cup {NodeLock(e.source), NodeLock(e.target)}]
  OBVIOUS
<1>5. ASSUME GoesOn(p, 1, t), {f \in View(p).edges : SameKey(e, f)} = {}
      PROVE  CInv'
  <2>1. IsTx(tx[p]) /\ Holding(tx[p])
    BY DEF IInv, Shaped, CInv
  <2>2. /\ IsTx(t) /\ t.nodes = tx[p].nodes /\ t.facts = tx[p].facts
        /\ t.edges = tx[p].edges \cup {e}
    BY <1>4, <2>1 DEF TxFields, IsTx
  <2>3. Proper(s.edge)
    BY <1>1, HeadIsGood DEF Good, Inserting
  <2>4. /\ e = [x \in EdgeFields |-> e[x]]
        /\ e.source = s.edge.source /\ e.type = s.edge.type
        /\ e.target = s.edge.target
    BY <1>3, <2>3 DEF Proper, EdgeFields
  <2>5. Proper(e)
    BY <2>3, <2>4 DEF Proper, Derives
  <2>6. Holding(t)
    BY <2>1, <2>2, <2>5 DEF Holding
  <2>7. \A q \in Procs \ {p} : \A f \in tx[q].edges : ~SameKey(f, s.edge)
    BY <1>1 DEF WaitsFor
  <2>8. \A q \in Procs \ {p} : \A f \in tx[q].edges : ~SameKey(e, f)
    BY <2>4, <2>7 DEF SameKey
  <2>9. \A f \in View(p).edges \cup {e} : SameKey(e, f) => e = f
    BY <1>5
  <2>10. Fresh(p, {e})
    BY <2>8, <2>9 DEF Fresh
  <2> QED BY <1>5, <2>2, <2>6, <2>10, WriteHolds
<1> QED BY <1>2, <1>3, <1>4, <1>5 DEF EdgeInsert

LEMMA CommitHolds ==
  ASSUME IInv, CInv, NEW p \in Procs, CommitTx(p)
  PROVE  CInv'
<1>1. /\ g' = View(p) /\ tx'[p] = Closed
      /\ \A q \in Procs \ {p} : tx'[q] = tx[q]
  BY DEF CommitTx, IInv, Shaped
<1>2. /\ g'.nodes = Over(tx[p].nodes, g.nodes)
      /\ g'.facts = Over(tx[p].facts, g.facts)
      /\ g'.edges = tx[p].edges \cup g.edges
  BY <1>1 DEF View
<1>3. Holding(tx[p]) /\ Holding(g)
  BY DEF CInv
<1>4. Entries(g'.nodes)
  BY <1>2, <1>3 DEF Holding, Entries, Over
<1>5. Tables(g'.facts)
  <2>1. DOMAIN g'.facts = DOMAIN tx[p].facts \cup DOMAIN g.facts
    BY <1>2 DEF Over
  <2>2. IsFiniteSet(DOMAIN tx[p].facts) /\ IsFiniteSet(DOMAIN g.facts)
    BY <1>3 DEF Holding, Tables
  <2>3. IsFiniteSet(DOMAIN g'.facts)
    BY <2>1, <2>2, FS_Union
  <2>4. \A id \in DOMAIN g'.facts :
          Content(g'.facts[id]) /\ g'.facts[id].kind \notin Bare
    BY <1>2, <1>3 DEF Holding, Tables, Over
  <2> QED BY <2>3, <2>4 DEF Tables
<1>6. Holding(g')
  BY <1>2, <1>3, <1>4, <1>5 DEF Holding
<1>7. \A e, f : SameKey(e, f) => SameKey(f, e)
  BY DEF SameKey
<1>8. Distinct(g'.edges, g'.edges)
  BY <1>2, <1>7 DEF CInv, Distinct
<1>9. ASSUME NEW q \in Procs
      PROVE  Holding(tx'[q]) /\ Distinct(tx'[q].edges, g'.edges)
  <2>1. CASE q = p
    BY <1>1, <2>1, ClosedHasNothing, NothingHolds
  <2>2. CASE q # p
    <3>1. /\ Distinct(tx[q].edges, tx[p].edges) /\ Distinct(tx[q].edges, g.edges)
          /\ Holding(tx[q])
      BY DEF CInv
    <3>2. Distinct(tx[q].edges, g'.edges)
      BY <1>2, <3>1 DEF Distinct
    <3> QED BY <1>1, <2>2, <3>1, <3>2
  <2> QED BY <2>1, <2>2
<1>10. ASSUME NEW q \in Procs, NEW r \in Procs
       PROVE  Distinct(tx'[q].edges, tx'[r].edges)
  <2>1. CASE q = p \/ r = p
    BY <1>1, <2>1, ClosedHasNothing, NothingHolds
  <2>2. CASE q # p /\ r # p
    BY <1>1, <2>2 DEF CInv
  <2> QED BY <2>1, <2>2
<1> QED BY <1>6, <1>8, <1>9, <1>10 DEF CInv

\* Hands change values; what a row is about, and the digests, they leave.
LEMMA AlteredContent ==
  ASSUME NEW n, IsRow(n)
  PROVE  /\ Altered(n).id = n.id /\ Altered(n).kind = n.kind
         /\ Altered(n).uses = n.uses /\ Altered(n).supersedes = n.supersedes
         /\ Altered(n).time = n.time /\ Altered(n).published = n.published
<1>1. n = [x \in NodeFields |-> n[x]]
  BY DEF IsRow
<1> QED BY <1>1 DEF Altered, NodeFields

LEMMA DamageHolds ==
  ASSUME IInv, CInv, Damage
  PROVE  CInv'
<1>1. PICK id \in DOMAIN g.nodes :
        \/ g' = [g EXCEPT !.nodes[id].payload = Altered(@)]
        \/ /\ id \in DOMAIN g.facts
           /\ \/ g' = [g EXCEPT !.facts[id] = Altered(@)]
              \/ g' = [g EXCEPT !.facts = [i \in DOMAIN @ \ {id} |-> @[i]]]
  BY DEF Damage
<1>2. g = [x \in {"nodes", "facts", "edges"} |-> g[x]]
  BY DEF IInv, Shaped
<1>3. g'.edges = g.edges /\ UNCHANGED tx
  BY <1>1, <1>2 DEF Damage
<1>4. Holding(g)
  BY DEF CInv
<1>5. Entries(g'.nodes)
  <2>1. CASE g' = [g EXCEPT !.nodes[id].payload = Altered(@)]
    <3>1. PICK f : f = g.nodes
      OBVIOUS
    <3>2. g'.nodes = [f EXCEPT ![id].payload = Altered(@)]
      BY <1>2, <2>1, <3>1
    <3>3. PICK r : r = [f[id] EXCEPT !.payload = Altered(@)]
      OBVIOUS
    <3>4. Entries(f) /\ id \in DOMAIN f
      BY <1>4, <3>1 DEF Holding
    <3>5. f[id] = [x \in {"payload", "digest"} |-> f[id][x]]
      BY <3>4 DEF Entries
    <3>6. r = [x \in {"payload", "digest"} |-> r[x]] /\ r.digest = f[id].digest
      BY <3>3, <3>5
    <3>7. PICK h : h = g'.nodes
      OBVIOUS
    <3>8. DOMAIN h = DOMAIN f /\ h[id] = r /\ \A i \in DOMAIN f \ {id} : h[i] = f[i]
      BY <3>2, <3>3, <3>4, <3>7
    <3>9. Entries(h)
      BY <3>4, <3>6, <3>8 DEF Entries
    <3> QED BY <3>7, <3>9
  <2>2. CASE g'.nodes = g.nodes
    BY <1>4, <2>2 DEF Holding
  <2> QED BY <1>1, <1>2, <2>1, <2>2
<1>6. Tables(g'.facts)
  <2>0. PICK f : f = g.facts
    OBVIOUS
  <2>1. Tables(f) /\ Rows(f)
    BY <1>4, <2>0 DEF Holding, IInv, Chains
  <2>2. CASE g'.facts = f
    BY <2>1, <2>2
  <2>3. CASE id \in DOMAIN f /\ g' = [g EXCEPT !.facts[id] = Altered(@)]
    <3>1. PICK h : h = [f EXCEPT ![id] = Altered(@)]
      OBVIOUS
    <3>2. g'.facts = h
      BY <1>2, <2>0, <2>3, <3>1
    <3>3. /\ DOMAIN h = DOMAIN f /\ h[id] = Altered(f[id])
          /\ \A i \in DOMAIN f \ {id} : h[i] = f[i]
      BY <2>3, <3>1
    <3>4. Content(h[id]) /\ h[id].kind \notin Bare
      <4>1. IsRow(f[id]) /\ Content(f[id]) /\ f[id].kind \notin Bare
        BY <2>1, <2>3 DEF Tables, Rows
      <4> QED BY <3>3, <4>1, AlteredContent DEF Content
    <3>5. Tables(h)
      BY <2>1, <3>3, <3>4 DEF Tables
    <3> QED BY <3>2, <3>5
  <2>4. CASE g' = [g EXCEPT !.facts = [i \in DOMAIN @ \ {id} |-> @[i]]]
    <3>1. PICK h : h = [i \in DOMAIN f \ {id} |-> f[i]]
      OBVIOUS
    <3>2. g'.facts = h
      BY <1>2, <2>0, <2>4, <3>1
    <3>3. IsFiniteSet(DOMAIN h)
      BY <2>1, <3>1, FS_Subset DEF Tables
    <3>4. Tables(h)
      BY <2>1, <3>1, <3>3 DEF Tables
    <3> QED BY <3>2, <3>4
  <2> QED BY <1>1, <1>2, <2>0, <2>2, <2>3, <2>4
<1>7. Holding(g')
  BY <1>3, <1>4, <1>5, <1>6 DEF Holding
<1> QED BY <1>3, <1>7 DEF CInv

LEMMA NextHolds ==
  ASSUME IInv, CInv, [Next]_vars
  PROVE  CInv'
<1>1. ASSUME NEW p \in Procs, Statements(p) PROVE CInv'
  <2>1. CASE NodeInsert(p)
    BY <2>1, NodeInsertHolds
  <2>2. CASE FactInsert(p)
    BY <2>2, FactInsertHolds
  <2>3. CASE Revise(p) \/ SourceRead(p)
    <3>1. ASSUME NEW how, Ends(p, how) PROVE CInv'
      BY <3>1, QuitHolds DEF Ends
    <3>2. ASSUME NEW locks, GoesOn(p, 1, [tx[p] EXCEPT !.locks = locks])
          PROVE  CInv'
      <4>1. PICK t : t = [tx[p] EXCEPT !.locks = locks]
        OBVIOUS
      <4>2. IsTx(tx[p])
        BY DEF IInv, Shaped
      <4>3. IsTx(t) /\ SameTables(t, tx[p])
        BY <4>1, <4>2 DEF IsTx, TxFields, SameTables
      <4> QED BY <3>2, <4>1, <4>3, LockHolds
    <3> QED BY <2>3, <3>1, <3>2 DEF Revise, SourceRead
  <2>4. CASE EdgeInsert(p)
    BY <2>4, EdgeInsertHolds
  <2>5. CASE CommitTx(p)
    BY <2>5, CommitHolds
  <2>6. CASE Reads(p)
    <3>1. CASE Quits(p)
      BY <3>1, QuitHolds DEF Quits
    <3>2. CASE Passes(p)
      BY <3>2, TxStays DEF Passes
    <3> QED BY <2>6, <3>1, <3>2, ReadForms DEF IInv
  <2> QED BY <1>1, <2>1, <2>2, <2>3, <2>4, <2>5, <2>6 DEF Statements, Reads
<1>2. CASE Tick
  BY <1>2, TxStays DEF Tick
<1>3. CASE Damage
  BY <1>3, DamageHolds
<1>4. ASSUME NEW p \in Procs, Crash(p) PROVE CInv'
  BY <1>4, QuitHolds DEF Crash
<1>5. ASSUME NEW p \in Procs, NEW name, Call(p, name) PROVE CInv'
  BY <1>5, TxStays DEF Call
<1>6. CASE UNCHANGED vars
  BY <1>6, TxStays DEF vars
<1> QED BY <1>1, <1>2, <1>3, <1>4, <1>5, <1>6 DEF Next

LEMMA InitHolds ==
  ASSUME Init
  PROVE  CInv
<1>1. PICK s \in Scenarios :
        g = [nodes |-> [id \in {n.id : n \in s.stored} |->
                          Row(CHOOSE n \in s.stored : n.id = id)],
             facts |-> [id \in {n.id : n \in {m \in s.stored :
                                                m.kind \notin Bare}} |->
                          CHOOSE n \in s.stored : n.id = id],
             edges |-> s.edges]
  BY DEF Init
<1>2. PICK stored, edges : stored = s.stored /\ edges = s.edges
  OBVIOUS
<1>3. IsHistory(stored, edges)
  BY <1>2, ScenarioAssumption
<1>4. PICK all, ids :
        /\ all = {n.id : n \in stored}
        /\ ids = {n.id : n \in {m \in stored : m.kind \notin Bare}}
  OBVIOUS
<1>5. PICK of : of = [id \in all |-> CHOOSE n \in stored : n.id = id]
  OBVIOUS
<1>6. \A id \in all : of[id] \in stored /\ of[id].id = id
  BY <1>4, <1>5
<1>7. \A n \in stored : Known(n)
  <2>1. stored \subseteq Told
    <3>1. PICK there : there = UNION {x.stored : x \in Scenarios}
      OBVIOUS
    <3>2. stored \subseteq there
      BY <1>2, <3>1
    <3>3. Told = there \cup (UNION {RowsOf(Requests[name]) : name \in DOMAIN Requests})
      BY <3>1 DEF Told
    <3> QED BY <3>2, <3>3
  <2>2. \A n \in stored : IsRow(n)
    BY <1>3 DEF IsHistory
  <2> QED BY <2>1, <2>2 DEF Known, Content
<1>8. /\ g.nodes = [id \in all |-> Row(of[id])]
      /\ g.facts = [id \in ids |-> CHOOSE n \in stored : n.id = id]
      /\ g.edges = edges
  BY <1>1, <1>2, <1>4, <1>5
<1>9. Entries(g.nodes)
  BY <1>6, <1>7, <1>8 DEF Entries, Row
<1>10. Tables(g.facts)
  <2>1. ASSUME NEW id \in ids
        PROVE  Content(g.facts[id]) /\ g.facts[id].kind \notin Bare
    <3>1. PICK n \in stored : n.id = id /\ n.kind \notin Bare
      BY <1>4
    <3>2. g.facts[id] \in stored /\ g.facts[id].id = id
      BY <1>8, <3>1
    <3>3. g.facts[id] = n
      BY <1>3, <3>1, <3>2 DEF IsHistory
    <3> QED BY <1>7, <3>1, <3>3 DEF Known
  <2>2. IsFiniteSet(ids)
    <3>1. PICK some : some = {m \in stored : m.kind \notin Bare}
      OBVIOUS
    <3>2. IsFiniteSet(some)
      BY <1>3, <3>1, FS_Subset DEF IsHistory
    <3>3. PICK f : f = [m \in some |-> m.id]
      OBVIOUS
    <3>4. ids = {f[m] : m \in some}
      BY <1>4, <3>1, <3>3
    <3>5. f \in [some -> ids] /\ ids = {f[m] : m \in some}
      BY <3>3, <3>4
    <3>6. f \in Surjection(some, ids)
      BY <3>5 DEF Surjection
    <3> QED BY <3>2, <3>6, FS_Surjection
  <2> QED BY <1>8, <2>1, <2>2 DEF Tables
<1>11. \A e \in edges : Proper(e)
  BY <1>2, <1>3, IdentityAssumption DEF IsHistory, Proper
<1>12. Distinct(edges, edges)
  BY <1>3 DEF IsHistory, Distinct
<1>13. \A p \in Procs : tx[p] = Closed
  BY DEF Init
<1> QED BY <1>8, <1>9, <1>10, <1>11, <1>12, <1>13, ClosedHasNothing, NothingHolds
        DEF CInv, Holding

-----------------------------------------------------------------------------
(* A database that calls have left, and what is recursive about its reads. *)

Sane(d) == /\ Rows(d.facts) /\ Linear(d.facts) /\ Holding(d)
           /\ Distinct(d.edges, d.edges)

LEMMA GraphIsSane ==
  ASSUME IInv, CInv
  PROVE  Sane(g)
BY DEF IInv, Chains, CInv, Sane

\* Revisions go forward in time, and there are finitely many: both directions
\* of a chain end.
Pairs(S)  == S \X S
Below(d) == {z \in Pairs(DOMAIN d.facts) : d.facts[z[1]].supersedes = z[2]}
Above(d) == {z \in Pairs(DOMAIN d.facts) : d.facts[z[2]].supersedes = z[1]}

LEMMA RevisionIsLater ==
  ASSUME NEW d, Sane(d), NEW i \in DOMAIN d.facts, d.facts[i].supersedes # NoId
  PROVE  /\ d.facts[i].supersedes \in DOMAIN d.facts
         /\ d.facts[i].time \in Int /\ d.facts[d.facts[i].supersedes].time \in Int
         /\ d.facts[d.facts[i].supersedes].time < d.facts[i].time
         /\ \A j \in DOMAIN d.facts :
              d.facts[j].supersedes = d.facts[i].supersedes => j = i
<1>1. PICK f : f = d.facts
  OBVIOUS
<1>2. Rows(f) /\ Linear(f)
  BY <1>1 DEF Sane
<1>3. PICK k : k = f[i].supersedes
  OBVIOUS
<1>4. /\ k \in DOMAIN f /\ f[k].time < f[i].time
      /\ \A j \in DOMAIN f : f[j].supersedes = k => j = i
  BY <1>1, <1>2, <1>3 DEF Linear, Succeeds
<1>5. f[i].time \in Int /\ f[k].time \in Int
  BY <1>1, <1>2, <1>4 DEF Rows, IsRow
<1> QED BY <1>1, <1>3, <1>4, <1>5

LEMMA NoIdIsNobody ==
  ASSUME NEW d, Sane(d), NEW i \in DOMAIN d.facts
  PROVE  i # NoId /\ d.facts[i].id = i /\ d.facts[i].time \in Int
BY DEF Sane, Rows, IsRow

LEMMA BelowIs ==
  ASSUME NEW d, NEW i \in DOMAIN d.facts, NEW j \in DOMAIN d.facts
  PROVE  /\ <<j, i>> \in Below(d) <=> d.facts[j].supersedes = i
         /\ <<j, i>> \in Above(d) <=> d.facts[i].supersedes = j
<1>1. PICK z : z = <<j, i>>
  OBVIOUS
<1>2. z \in Pairs(DOMAIN d.facts) /\ z[1] = j /\ z[2] = i
  <2>1. PICK S : S = DOMAIN d.facts
    OBVIOUS
  <2>2. i \in S /\ j \in S
    BY <2>1
  <2>3. z \in Pairs(S) /\ z[1] = j /\ z[2] = i
    BY <1>1, <2>2 DEF Pairs
  <2> QED BY <2>1, <2>3
<1>3. /\ z \in Below(d) <=> d.facts[j].supersedes = i
      /\ z \in Above(d) <=> d.facts[i].supersedes = j
  BY <1>2 DEF Below, Above
<1> QED BY <1>1, <1>3

LEMMA LatestOfSome ==
  ASSUME NEW d, Sane(d), NEW T, T \subseteq DOMAIN d.facts, T # {}
  PROVE  /\ \E i \in T : \A j \in T : d.facts[j].time <= d.facts[i].time
         /\ \E i \in T : \A j \in T : d.facts[i].time <= d.facts[j].time
<1>1. IsFiniteSet(T)
  BY FS_Subset DEF Sane, Holding, Tables
<1>2. PICK t, u : t = [i \in T |-> d.facts[i].time] /\ u = [i \in T |-> 0 - t[i]]
  OBVIOUS
<1>3. \A i \in T : t[i] \in Int /\ u[i] \in Int
  <2>1. \A i \in T : d.facts[i].time \in Int
    BY NoIdIsNobody
  <2> QED BY <1>2, <2>1
<1>4. PICK i \in T : \A j \in T : t[j] <= t[i]
  BY <1>1, <1>3, LatestOf
<1>5. PICK k \in T : \A j \in T : u[j] <= u[k]
  BY <1>1, <1>3, LatestOf
<1>6. \A j \in T : t[k] <= t[j]
  <2>1. ASSUME NEW j \in T PROVE t[k] <= t[j]
    <3>1. t[j] \in Int /\ t[k] \in Int /\ u[j] = 0 - t[j] /\ u[k] = 0 - t[k]
      BY <1>2, <1>3
    <3>2. u[j] <= u[k]
      BY <1>5
    <3> QED BY <3>1, <3>2
  <2> QED BY <2>1
<1> QED BY <1>2, <1>4, <1>6

LEMMA ChainsEnd ==
  ASSUME NEW d, Sane(d)
  PROVE  /\ IsWellFoundedOn(Below(d), DOMAIN d.facts)
         /\ IsWellFoundedOn(Above(d), DOMAIN d.facts)
<1>1. ASSUME NEW i \in DOMAIN d.facts, NEW j \in DOMAIN d.facts,
             d.facts[j].supersedes = i
      PROVE  /\ ~(d.facts[j].time <= d.facts[i].time)
  <2>1. i # NoId
    BY NoIdIsNobody
  <2>2. PICK t, u : t = d.facts[i].time /\ u = d.facts[j].time
    OBVIOUS
  <2>3. t \in Int /\ u \in Int /\ t < u
    BY <1>1, <2>1, <2>2, RevisionIsLater
  <2> QED BY <2>2, <2>3
<1>2. ASSUME NEW T \in SUBSET DOMAIN d.facts, T # {}
      PROVE  \E x \in T : \A y \in T : ~(<<y, x>> \in Below(d))
  <2>1. PICK i \in T : \A j \in T : d.facts[j].time <= d.facts[i].time
    BY <1>2, LatestOfSome
  <2>2. ASSUME NEW j \in T, <<j, i>> \in Below(d) PROVE FALSE
    <3>1. d.facts[j].supersedes = i
      BY <2>2 DEF Below
    <3> QED BY <1>1, <2>1, <3>1
  <2> QED BY <2>2
<1>3. ASSUME NEW T \in SUBSET DOMAIN d.facts, T # {}
      PROVE  \E x \in T : \A y \in T : ~(<<y, x>> \in Above(d))
  <2>1. PICK i \in T : \A j \in T : d.facts[i].time <= d.facts[j].time
    BY <1>3, LatestOfSome
  <2>2. ASSUME NEW j \in T, <<j, i>> \in Above(d) PROVE FALSE
    <3>1. d.facts[i].supersedes = j
      BY <2>2 DEF Above
    <3> QED BY <1>1, <2>1, <3>1
  <2> QED BY <2>2
<1>4. IsWellFoundedOn(Below(d), DOMAIN d.facts)
  BY <1>2, MinWF
<1>5. IsWellFoundedOn(Above(d), DOMAIN d.facts)
  BY <1>3, MinWF
<1> QED BY <1>4, <1>5

\* The functions that Root, Chain and Lineage define.
UpStep(d, i, up) ==
  IF d.facts[i].supersedes = NoId THEN i ELSE up[d.facts[i].supersedes]
Up(d) == CHOOSE up : up = [i \in DOMAIN d.facts |-> UpStep(d, i, up)]

LEMMA UpIs ==
  ASSUME NEW d, Sane(d)
  PROVE  /\ Up(d) \in [DOMAIN d.facts -> DOMAIN d.facts]
         /\ \A i \in DOMAIN d.facts : Up(d)[i] = UpStep(d, i, Up(d))
         /\ \A i : Root(d, i) = Up(d)[i]
<1>0. \A i : Root(d, i) = Up(d)[i]
  BY DEF Root, Up, UpStep
<1> DEFINE S == DOMAIN d.facts
           B == [z \in S \X [S -> S] |-> UpStep(d, z[1], z[2])]
<1>1. CASE S = {}
  <2>1. PICK f : f = [i \in S |-> i]
    OBVIOUS
  <2>2. f = [i \in S |-> UpStep(d, i, f)]
    BY <1>1, <2>1
  <2>3. Up(d) = [i \in S |-> UpStep(d, i, Up(d))]
    BY <2>2 DEF Up
  <2> QED BY <1>0, <1>1, <2>3
<1>2. CASE S # {}
  <2>1. ASSUME NEW i \in S, NEW e \in [S -> S]
        PROVE  UpStep(d, i, e) \in S
    BY RevisionIsLater DEF UpStep
  <2>2. B \in [S \X [S -> S] -> S]
    BY <2>1
  <2>3. \A i \in S : \A e, h \in [S -> S] :
          (\A j \in S : <<j, i>> \in Above(d) => e[j] = h[j])
          => B[<<i, e>>] = B[<<i, h>>]
    <3>1. ASSUME NEW i \in S, NEW e \in [S -> S], NEW h \in [S -> S],
                 \A j \in S : <<j, i>> \in Above(d) => e[j] = h[j]
          PROVE  UpStep(d, i, e) = UpStep(d, i, h)
      <4>1. CASE d.facts[i].supersedes = NoId
        BY <4>1 DEF UpStep
      <4>2. CASE d.facts[i].supersedes # NoId
        <5>1. PICK j : j = d.facts[i].supersedes
          OBVIOUS
        <5>2. j \in S
          BY <4>2, <5>1, RevisionIsLater
        <5>3. <<j, i>> \in Above(d)
          BY <5>1, <5>2, BelowIs
        <5>4. e[j] = h[j]
          BY <3>1, <5>2, <5>3
        <5> QED BY <4>2, <5>1, <5>4 DEF UpStep
      <4> QED BY <4>1, <4>2
    <3>2. \A i \in S, e \in [S -> S] : B[<<i, e>>] = UpStep(d, i, e)
      OBVIOUS
    <3> HIDE DEF B
    <3> QED BY <3>1, <3>2
  <2>4. \A i \in S, e \in [S -> S] : B[<<i, e>>] = UpStep(d, i, e)
    OBVIOUS
  <2>5. IsWellFoundedOn(Above(d), S)
    BY ChainsEnd
  <2>6. \E f \in [S -> S] : \A i \in S : f[i] = B[<<i, f>>]
    <3> HIDE DEF B, S
    <3>1. Local(S, S, Above(d), B)
      BY <2>2, <2>3 DEF Local
    <3> QED BY <1>2, <2>5, <3>1, Recursion
  <2>7. PICK f \in [S -> S] : \A i \in S : f[i] = UpStep(d, i, f)
    <3> HIDE DEF B
    <3> QED BY <2>4, <2>6
  <2>8. f = [i \in S |-> UpStep(d, i, f)]
    BY <2>7
  <2>9. Up(d) = [i \in S |-> UpStep(d, i, Up(d))]
    BY <2>8 DEF Up
  <2>10. \A i \in S : Up(d)[i] = UpStep(d, i, Up(d))
    BY <2>9
  <2>11. Up(d) \in [S -> S]
    <3> DEFINE bad == {i \in S : Up(d)[i] \notin S}
    <3>1. SUFFICES ASSUME bad # {} PROVE FALSE
      BY <2>9
    <3>2. PICK i \in bad : \A j \in bad : <<j, i>> \notin Above(d)
      <4>1. bad \subseteq S
        OBVIOUS
      <4> HIDE DEF bad, S
      <4> QED BY <2>5, <3>1, <4>1, WFMin
    <3>3. PICK j : j = d.facts[i].supersedes
      OBVIOUS
    <3>4. j # NoId /\ Up(d)[i] = Up(d)[j]
      BY <2>10, <3>2, <3>3 DEF UpStep
    <3>5. j \in S
      BY <3>3, <3>4, RevisionIsLater
    <3>6. <<j, i>> \in Above(d)
      BY <3>2, <3>3, <3>5, BelowIs
    <3> QED BY <3>2, <3>4, <3>5, <3>6
  <2> QED BY <1>0, <2>10, <2>11
<1> QED BY <1>1, <1>2

LEMMA SuccessorsAreBelow ==
  ASSUME NEW d, Sane(d), NEW i \in DOMAIN d.facts, NEW j \in SuccessorsOf(d, i)
  PROVE  /\ j \in DOMAIN d.facts /\ d.facts[j].supersedes = i
         /\ <<j, i>> \in Below(d)
<1>1. j \in DOMAIN d.facts /\ d.facts[j].supersedes = i
  BY DEF SuccessorsOf
<1> QED BY <1>1, BelowIs

Walk(d) == Seq(DOMAIN d.facts \cup {NoId})
DownStep(d, i, down) ==
  IF SuccessorsOf(d, i) = {} THEN <<i>>
  ELSE IF Cardinality(SuccessorsOf(d, i)) > 1 THEN <<i, NoId>>
  ELSE <<i>> \o down[CHOOSE j \in SuccessorsOf(d, i) : TRUE]
Down(d) == CHOOSE down : down = [i \in DOMAIN d.facts |-> DownStep(d, i, down)]

LEMMA StepDown ==
  ASSUME NEW d, Sane(d), NEW i \in DOMAIN d.facts, NEW e,
         \A j \in SuccessorsOf(d, i) : e[j] \in Walk(d)
  PROVE  DownStep(d, i, e) \in Walk(d)
<1>1. PICK D : D = DOMAIN d.facts \cup {NoId}
  OBVIOUS
<1>2. i \in D /\ NoId \in D
  BY <1>1
<1>3. <<i>> \in Seq(D) /\ <<i, NoId>> \in Seq(D)
  BY <1>2
<1>4. CASE SuccessorsOf(d, i) = {} \/ Cardinality(SuccessorsOf(d, i)) > 1
  BY <1>1, <1>3, <1>4 DEF DownStep, Walk
<1>5. CASE ~(SuccessorsOf(d, i) = {} \/ Cardinality(SuccessorsOf(d, i)) > 1)
  <2>1. PICK j \in SuccessorsOf(d, i) : j = CHOOSE k \in SuccessorsOf(d, i) : TRUE
    BY <1>5
  <2>2. PICK s : s = e[j]
    OBVIOUS
  <2>3. s \in Seq(D)
    BY <1>1, <2>1, <2>2 DEF Walk
  <2>4. <<i>> \o s \in Seq(D)
    BY <1>3, <2>3
  <2>5. DownStep(d, i, e) = <<i>> \o s
    BY <1>5, <2>1, <2>2 DEF DownStep
  <2> QED BY <1>1, <2>4, <2>5 DEF Walk
<1> QED BY <1>4, <1>5

LEMMA DownIs ==
  ASSUME NEW d, Sane(d)
  PROVE  /\ \A i \in DOMAIN d.facts : Down(d)[i] \in Walk(d)
         /\ \A i \in DOMAIN d.facts : Down(d)[i] = DownStep(d, i, Down(d))
         /\ \A i : Chain(d, i) = Down(d)[i]
<1>0. \A i : Chain(d, i) = Down(d)[i]
  BY DEF Chain, Down, DownStep
<1> DEFINE S == DOMAIN d.facts
           V == Walk(d)
           B == [z \in S \X [S -> V] |-> DownStep(d, z[1], z[2])]
<1>1. \A i \in S, e \in [S -> V] : B[<<i, e>>] = DownStep(d, i, e)
  OBVIOUS
<1>2. Local(S, V, Below(d), B)
  <2>1. ASSUME NEW i \in S, NEW e \in [S -> V]
        PROVE  DownStep(d, i, e) \in V
    <3>1. \A j \in SuccessorsOf(d, i) : e[j] \in V
      BY SuccessorsAreBelow
    <3> QED BY <3>1, StepDown
  <2>2. B \in [S \X [S -> V] -> V]
    BY <2>1
  <2>3. \A i \in S : \A e, h \in [S -> V] :
          (\A j \in S : <<j, i>> \in Below(d) => e[j] = h[j])
          => B[<<i, e>>] = B[<<i, h>>]
    <3>1. ASSUME NEW i \in S, NEW e \in [S -> V], NEW h \in [S -> V],
                 \A j \in S : <<j, i>> \in Below(d) => e[j] = h[j]
          PROVE  DownStep(d, i, e) = DownStep(d, i, h)
      <4>1. \A j \in SuccessorsOf(d, i) : e[j] = h[j]
        BY <3>1, SuccessorsAreBelow
      <4>2. CASE SuccessorsOf(d, i) = {}
        BY <4>2 DEF DownStep
      <4>3. CASE SuccessorsOf(d, i) # {}
        <5>1. PICK j \in SuccessorsOf(d, i) :
                j = CHOOSE k \in SuccessorsOf(d, i) : TRUE
          BY <4>3
        <5> QED BY <4>1, <5>1 DEF DownStep
      <4> QED BY <4>2, <4>3
    <3> HIDE DEF B
    <3> QED BY <1>1, <3>1
  <2> HIDE DEF B, S, V
  <2> QED BY <2>2, <2>3 DEF Local
<1>3. V # {}
  <2>1. <<>> \in V
    BY DEF Walk
  <2> QED BY <2>1
<1>4. IsWellFoundedOn(Below(d), S)
  BY ChainsEnd
<1>5. \E f \in [S -> V] : \A i \in S : f[i] = B[<<i, f>>]
  <2> HIDE DEF B, S, V
  <2> QED BY <1>2, <1>3, <1>4, Recursion
<1>6. PICK f \in [S -> V] : \A i \in S : f[i] = DownStep(d, i, f)
  <2> HIDE DEF B
  <2> QED BY <1>1, <1>5
<1>7. f = [i \in S |-> DownStep(d, i, f)]
  BY <1>6
<1>8. Down(d) = [i \in S |-> DownStep(d, i, Down(d))]
  BY <1>7 DEF Down
<1>9. \A i \in S : Down(d)[i] = DownStep(d, i, Down(d))
  BY <1>8
<1>10. \A i \in S : Down(d)[i] \in V
  <2> DEFINE bad == {i \in S : Down(d)[i] \notin V}
  <2>1. SUFFICES ASSUME bad # {} PROVE FALSE
    OBVIOUS
  <2>2. PICK i \in bad : \A j \in bad : <<j, i>> \notin Below(d)
    <3>1. bad \subseteq S
      OBVIOUS
    <3> HIDE DEF bad, S
    <3> QED BY <1>4, <2>1, <3>1, WFMin
  <2>3. \A j \in SuccessorsOf(d, i) : Down(d)[j] \in V
    BY <2>2, SuccessorsAreBelow
  <2>4. Down(d)[i] = DownStep(d, i, Down(d)) /\ i \in S
    BY <1>9, <2>2
  <2> QED BY <2>2, <2>3, <2>4, StepDown
<1> QED BY <1>0, <1>9, <1>10

LineStep(d, i, down) == {i} \cup (UNION {down[j] : j \in SuccessorsOf(d, i)})
Line(d) == CHOOSE down : down = [i \in DOMAIN d.facts |-> LineStep(d, i, down)]

LEMMA StepAlong ==
  ASSUME NEW d, Sane(d), NEW i \in DOMAIN d.facts, NEW e,
         \A j \in SuccessorsOf(d, i) : e[j] \in SUBSET DOMAIN d.facts
  PROVE  LineStep(d, i, e) \in SUBSET DOMAIN d.facts
BY DEF LineStep

LEMMA LineIs ==
  ASSUME NEW d, Sane(d)
  PROVE  /\ \A i \in DOMAIN d.facts : Line(d)[i] \in SUBSET DOMAIN d.facts
         /\ \A i \in DOMAIN d.facts : Line(d)[i] = LineStep(d, i, Line(d))
         /\ \A ids : Lineage(d, ids) = UNION {Line(d)[Root(d, i)] : i \in ids}
<1>0. \A ids : Lineage(d, ids) = UNION {Line(d)[Root(d, i)] : i \in ids}
  BY DEF Lineage, Line, LineStep
<1> DEFINE S == DOMAIN d.facts
           V == SUBSET DOMAIN d.facts
           B == [z \in S \X [S -> V] |-> LineStep(d, z[1], z[2])]
<1>1. \A i \in S, e \in [S -> V] : B[<<i, e>>] = LineStep(d, i, e)
  OBVIOUS
<1>2. Local(S, V, Below(d), B)
  <2>1. ASSUME NEW i \in S, NEW e \in [S -> V]
        PROVE  LineStep(d, i, e) \in V
    <3>1. \A j \in SuccessorsOf(d, i) : e[j] \in V
      BY SuccessorsAreBelow
    <3> QED BY <3>1, StepAlong
  <2>2. B \in [S \X [S -> V] -> V]
    BY <2>1
  <2>3. \A i \in S : \A e, h \in [S -> V] :
          (\A j \in S : <<j, i>> \in Below(d) => e[j] = h[j])
          => B[<<i, e>>] = B[<<i, h>>]
    <3>1. ASSUME NEW i \in S, NEW e \in [S -> V], NEW h \in [S -> V],
                 \A j \in S : <<j, i>> \in Below(d) => e[j] = h[j]
          PROVE  LineStep(d, i, e) = LineStep(d, i, h)
      <4>1. \A j \in SuccessorsOf(d, i) : e[j] = h[j]
        BY <3>1, SuccessorsAreBelow
      <4> QED BY <4>1 DEF LineStep
    <3> HIDE DEF B
    <3> QED BY <1>1, <3>1
  <2> HIDE DEF B, S, V
  <2> QED BY <2>2, <2>3 DEF Local
<1>3. V # {}
  OBVIOUS
<1>4. IsWellFoundedOn(Below(d), S)
  BY ChainsEnd
<1>5. \E f \in [S -> V] : \A i \in S : f[i] = B[<<i, f>>]
  <2> HIDE DEF B, S, V
  <2> QED BY <1>2, <1>3, <1>4, Recursion
<1>6. PICK f \in [S -> V] : \A i \in S : f[i] = LineStep(d, i, f)
  <2> HIDE DEF B
  <2> QED BY <1>1, <1>5
<1>7. f = [i \in S |-> LineStep(d, i, f)]
  BY <1>6
<1>8. Line(d) = [i \in S |-> LineStep(d, i, Line(d))]
  BY <1>7 DEF Line
<1>9. \A i \in S : Line(d)[i] = LineStep(d, i, Line(d))
  BY <1>8
<1>10. \A i \in S : Line(d)[i] \in V
  <2> DEFINE bad == {i \in S : Line(d)[i] \notin V}
  <2>1. SUFFICES ASSUME bad # {} PROVE FALSE
    OBVIOUS
  <2>2. PICK i \in bad : \A j \in bad : <<j, i>> \notin Below(d)
    <3>1. bad \subseteq S
      OBVIOUS
    <3> HIDE DEF bad, S
    <3> QED BY <1>4, <2>1, <3>1, WFMin
  <2>3. \A j \in SuccessorsOf(d, i) : Line(d)[j] \in V
    BY <2>2, SuccessorsAreBelow
  <2>4. Line(d)[i] = LineStep(d, i, Line(d)) /\ i \in S
    BY <1>9, <2>2
  <2> QED BY <2>2, <2>3, <2>4, StepAlong
<1> QED BY <1>0, <1>9, <1>10

\* A lineage is made of rows, and there are finitely many.
LEMMA LineageIsThere ==
  ASSUME NEW d, Sane(d), NEW ids, ids \subseteq DOMAIN d.facts
  PROVE  /\ Lineage(d, ids) \subseteq DOMAIN d.facts
         /\ IsFiniteSet(Lineage(d, ids))
         /\ \A i \in ids : Lineage(d, {i}) \subseteq Lineage(d, ids)
<1>1. \A i \in ids : Root(d, i) \in DOMAIN d.facts
  <2>1. /\ \A i \in DOMAIN d.facts : Up(d)[i] \in DOMAIN d.facts
        /\ \A i : Root(d, i) = Up(d)[i]
    BY UpIs
  <2> QED BY <2>1
<1>2. Lineage(d, ids) \subseteq DOMAIN d.facts
  <2>1. PICK S : S = DOMAIN d.facts
    OBVIOUS
  <2>2. PICK u : u = [i \in ids |-> Root(d, i)]
    OBVIOUS
  <2>3. \A i \in S : Line(d)[i] \in SUBSET S
    BY <2>1, LineIs
  <2>4. Lineage(d, ids) = UNION {Line(d)[Root(d, i)] : i \in ids}
    BY LineIs
  <2>5. \A i \in ids : Line(d)[Root(d, i)] \in SUBSET S
    BY <1>1, <2>1, <2>3
  <2> QED BY <2>1, <2>4, <2>5
<1>3. IsFiniteSet(Lineage(d, ids))
  BY <1>2, FS_Subset DEF Sane, Holding, Tables
<1>4. \A i \in ids : Lineage(d, {i}) \subseteq Lineage(d, ids)
  <2>1. Lineage(d, ids) = UNION {Line(d)[Root(d, i)] : i \in ids}
    BY LineIs
  <2>2. \A i : Lineage(d, {i}) = UNION {Line(d)[Root(d, j)] : j \in {i}}
    BY LineIs
  <2> QED BY <2>1, <2>2
<1> QED BY <1>2, <1>3, <1>4

-----------------------------------------------------------------------------
(* What an answer serves: rows that are what their digests were made of.   *)

Genuine(d, n) == IsRow(n) /\ n.id \in DOMAIN d.nodes /\ n = d.nodes[n.id].digest
Simple(d, a)   == a = None \/ (\E x : a = Failed(x)) \/ Genuine(d, a)
Clean(d, a)   == \A n \in Served(a) : n = d.nodes[n.id].digest

LEMMA Forms ==
  /\ ~IsNode(None) /\ ~IsFailed(None) /\ Served(None) = {}
  /\ \A x : ~IsNode(Failed(x)) /\ IsFailed(Failed(x)) /\ Served(Failed(x)) = {}
  /\ \A n : IsRow(n) => IsNode(n) /\ ~IsFailed(n) /\ Served(n) = {n}
  /\ \A s : Served([inputs |-> s]) = s /\ ~IsFailed([inputs |-> s])
  /\ \A s : Served([evidence |-> s]) = {pair[2] : pair \in s}
            /\ ~IsFailed([evidence |-> s])
<1>1. ~IsNode(None) /\ ~IsFailed(None) /\ Served(None) = {}
  BY DEF IsNode, IsFailed, None, Served
<1>2. ASSUME NEW x
      PROVE  ~IsNode(Failed(x)) /\ IsFailed(Failed(x)) /\ Served(Failed(x)) = {}
  BY DEF IsNode, IsFailed, Failed, Served
<1>3. ASSUME NEW n, IsRow(n)
      PROVE  IsNode(n) /\ ~IsFailed(n) /\ Served(n) = {n}
  <2>1. DOMAIN n = NodeFields
    BY <1>3 DEF IsRow
  <2> QED BY <2>1 DEF IsNode, IsFailed, Served, NodeFields
<1>4. ASSUME NEW s
      PROVE  Served([inputs |-> s]) = s /\ ~IsFailed([inputs |-> s])
  BY DEF IsNode, IsFailed, Served
<1>5. ASSUME NEW s
      PROVE  /\ Served([evidence |-> s]) = {pair[2] : pair \in s}
             /\ ~IsFailed([evidence |-> s])
  BY DEF IsNode, IsFailed, Served
<1> QED BY <1>1, <1>2, <1>3, <1>4, <1>5

LEMMA SimpleIsClean ==
  ASSUME NEW d, NEW a, Simple(d, a)
  PROVE  Clean(d, a)
<1>1. CASE a = None
  BY <1>1, Forms DEF Clean
<1>2. CASE \E x : a = Failed(x)
  BY <1>2, Forms DEF Clean
<1>3. CASE Genuine(d, a)
  <2>1. Served(a) = {a} /\ a = d.nodes[a.id].digest
    BY <1>3, Forms DEF Genuine
  <2> QED BY <2>1 DEF Clean
<1> QED BY <1>1, <1>2, <1>3 DEF Simple

LEMMA SimpleOrNot ==
  ASSUME NEW d, NEW a, Simple(d, a)
  PROVE  /\ IsNode(a) => Genuine(d, a)
         /\ a # None /\ ~IsFailed(a) => Genuine(d, a)
BY Forms DEF Simple

Loads(d, kind, id) ==
  LET n == Load(d, kind, id)
  IN /\ id \in DOMAIN d.nodes /\ n = d.nodes[id].digest /\ KindOf(d, id) = kind
     /\ IsRow(n) /\ n.id = id /\ n.kind = kind
     /\ kind \notin Bare => id \in DOMAIN d.facts /\ n = d.facts[id]

LEMMA LoadIs ==
  ASSUME NEW d, Sane(d), NEW kind, NEW id
  PROVE  (\E x : Load(d, kind, id) = Failed(x)) \/ Loads(d, kind, id)
<1> DEFINE bad == \/ ~Stored(d, id) \/ KindOf(d, id) # kind
                  \/ kind \notin Bare /\ id \notin DOMAIN d.facts
                  \/ ~StoredNodeIntegrity(d, id)
<1>1. CASE bad
  BY <1>1 DEF Load
<1>2. CASE ~bad
  <2>1. /\ id \in DOMAIN d.nodes /\ d.nodes[id].payload = d.nodes[id].digest
        /\ KindOf(d, id) = kind /\ d.nodes[id].digest.kind = kind
        /\ kind \notin Bare => /\ id \in DOMAIN d.facts
                               /\ d.facts[id] = d.nodes[id].digest
    BY <1>2 DEF Stored, StoredNodeIntegrity, KindOf
  <2>2. Load(d, kind, id) = d.nodes[id].digest
    <3>1. Load(d, kind, id) = IF kind \in Bare THEN d.nodes[id].payload
                              ELSE d.facts[id]
      BY <1>2 DEF Load
    <3> QED BY <2>1, <3>1
  <2>3. IsRow(d.nodes[id].digest) /\ d.nodes[id].digest.id = id
    BY <2>1 DEF Sane, Holding, Entries, Known
  <2> QED BY <2>1, <2>2, <2>3 DEF Loads
<1> QED BY <1>1, <1>2

LEMMA LoadIsSimple ==
  ASSUME NEW d, Sane(d), NEW kind, NEW id
  PROVE  /\ Simple(d, Load(d, kind, id))
         /\ ~IsFailed(Load(d, kind, id)) => Loads(d, kind, id)
<1>1. PICK n : n = Load(d, kind, id)
  OBVIOUS
<1>2. CASE \E x : n = Failed(x)
  BY <1>1, <1>2, Forms DEF Simple
<1>3. CASE ~\E x : n = Failed(x)
  <2>1. Loads(d, kind, id)
    BY <1>1, <1>3, LoadIs
  <2>2. IsRow(n) /\ n.id = id /\ id \in DOMAIN d.nodes /\ n = d.nodes[id].digest
    BY <1>1, <2>1 DEF Loads
  <2>3. Genuine(d, n)
    BY <2>2 DEF Genuine
  <2> QED BY <1>1, <2>1, <2>3 DEF Simple
<1> QED BY <1>2, <1>3

LEMMA ExactIsSimple ==
  ASSUME NEW d, Sane(d), NEW kind, NEW id, NEW c
  PROVE  Simple(d, ExactAt(d, kind, id, c))
<1>1. ExactAt(d, kind, id, c) \in {None, Load(d, kind, id)}
  BY DEF ExactAt
<1> QED BY <1>1, LoadIsSimple DEF Simple

LEMMA EvidenceIsSimple ==
  ASSUME NEW d, Sane(d), NEW id, NEW c
  PROVE  Simple(d, EvidenceAt(d, id, c))
<1>1. EvidenceAt(d, id, c) \in {None, Load(d, "Evidence", id)}
  BY DEF EvidenceAt
<1> QED BY <1>1, LoadIsSimple DEF Simple

LEMMA LatestIsSimple ==
  ASSUME NEW d, Sane(d), NEW kind, NEW s, NEW c
  PROVE  Simple(d, LatestAt(d, kind, s, c))
<1>1. PICK rows : rows = Newest(InSeries(d, kind, s), c)
  OBVIOUS
<1>2. \/ LatestAt(d, kind, s, c) = None
      \/ LatestAt(d, kind, s, c) = Failed("ambiguous")
      \/ LatestAt(d, kind, s, c)
           = ExactAt(d, kind, (CHOOSE n \in rows : TRUE).id, c)
  BY <1>1 DEF LatestAt
<1> QED BY <1>2, ExactIsSimple DEF Simple

LEMMA LatestEvidenceIsSimple ==
  ASSUME NEW d, Sane(d), NEW id, NEW c
  PROVE  Simple(d, LatestEvidenceAt(d, id, c))
<1>1. PICK r, chain : r = Root(d, id) /\ chain = Chain(d, r)
  OBVIOUS
<1>2. PICK answers :
        answers = [k \in 1 .. Len(chain) |-> EvidenceAt(d, chain[k], c)]
  OBVIOUS
<1>3. LatestEvidenceAt(d, id, c) =
        IF id \notin DOMAIN d.facts THEN None
        ELSE IF Last(chain) = NoId THEN Failed("ambiguous")
        ELSE IF \E k \in DOMAIN answers : IsFailed(answers[k])
             THEN Failed("integrity") ELSE LastVisible(answers)
  BY <1>1, <1>2 DEF LatestEvidenceAt
<1>4. CASE id \in DOMAIN d.facts /\ LatestEvidenceAt(d, id, c) = LastVisible(answers)
  <2>1. r \in DOMAIN d.facts
    <3>1. Up(d)[id] \in DOMAIN d.facts /\ Root(d, id) = Up(d)[id]
      BY <1>4, UpIs
    <3> QED BY <1>1, <3>1
  <2>2. Len(chain) \in Nat
    <3>1. chain \in Seq(DOMAIN d.facts \cup {NoId})
      BY <1>1, <2>1, DownIs DEF Walk
    <3> QED BY <3>1
  <2>3. PICK seen : seen = {k \in DOMAIN answers : answers[k] # None}
    OBVIOUS
  <2>4. DOMAIN answers = 1 .. Len(chain) /\ seen \subseteq 1 .. Len(chain)
    BY <1>2, <2>3
  <2>5. CASE seen = {}
    BY <1>4, <2>3, <2>5 DEF LastVisible, Simple
  <2>6. CASE seen # {}
    <3>6. Max(seen) \in seen
      BY <2>2, <2>4, <2>6, GreatestIn
    <3>7. PICK m : m = Max(seen)
      OBVIOUS
    <3>8. LastVisible(answers) = answers[m] /\ m \in seen
      BY <2>3, <2>6, <3>6, <3>7 DEF LastVisible
    <3>9. answers[m] = EvidenceAt(d, chain[m], c)
      BY <1>2, <2>4, <3>8
    <3> QED BY <1>4, <3>8, <3>9, EvidenceIsSimple
  <2> QED BY <2>5, <2>6
<1> QED BY <1>3, <1>4 DEF Simple

LEMMA ActiveIsThere ==
  ASSUME NEW nodes, NEW c, IsFiniteSet(nodes), \A n \in nodes : n.time \in Int
  PROVE  ActiveRevisionAt(nodes, c) \in nodes \cup {None, Failed("lineage")}
<1>1. PICK seen : seen = {n \in nodes : AvailableAt(n, c)}
  OBVIOUS
<1>2. \/ ActiveRevisionAt(nodes, c) \in {None, Failed("lineage")}
      \/ /\ seen # {}
         /\ ActiveRevisionAt(nodes, c)
              = CHOOSE n \in seen : \A m \in seen : m.time <= n.time
  BY <1>1 DEF ActiveRevisionAt
<1>3. CASE /\ seen # {}
           /\ ActiveRevisionAt(nodes, c)
                = CHOOSE n \in seen : \A m \in seen : m.time <= n.time
  <2>1. seen \subseteq nodes
    BY <1>1
  <2>2. IsFiniteSet(seen)
    BY <2>1, FS_Subset
  <2>3. PICK h : h = [n \in seen |-> n.time]
    OBVIOUS
  <2>4. \A n \in seen : h[n] \in Int
    BY <2>1, <2>3
  <2>5. PICK n \in seen : \A m \in seen : h[m] <= h[n]
    BY <1>3, <2>2, <2>4, LatestOf
  <2>6. \A m \in seen : m.time <= n.time
    BY <2>3, <2>5
  <2>7. (CHOOSE k \in seen : \A m \in seen : m.time <= k.time) \in seen
    BY <2>6
  <2> QED BY <1>3, <2>1, <2>7
<1> QED BY <1>2, <1>3

\* The image of a finite set.
LEMMA ImageIsFinite ==
  ASSUME NEW S, IsFiniteSet(S), NEW f
  PROVE  IsFiniteSet({f[i] : i \in S})
<1>1. PICK T : T = {f[i] : i \in S}
  OBVIOUS
<1>2. PICK h : h = [i \in S |-> f[i]]
  OBVIOUS
<1>3. h \in Surjection(S, T)
  <2>1. h \in [S -> T] /\ \A t \in T : \E i \in S : h[i] = t
    BY <1>1, <1>2
  <2> QED BY <2>1 DEF Surjection
<1>4. IsFiniteSet(T)
  BY <1>3, FS_Surjection
<1> QED BY <1>1, <1>4

LEMMA ActiveMetricIsSimple ==
  ASSUME NEW d, Sane(d), NEW id, NEW c
  PROVE  Simple(d, ActiveMetricAt(d, id, c))
<1>1. PICK f, lin : /\ lin = Lineage(d, {id})
                    /\ f = [i \in lin |-> LoadExactMetric(d, i)]
  OBVIOUS
<1>2. PICK loaded : loaded = {f[i] : i \in lin}
  OBVIOUS
<1>3. loaded = {LoadExactMetric(d, i) : i \in Lineage(d, {id})}
  BY <1>1, <1>2
<1>4. \/ ActiveMetricAt(d, id, c) = Failed("not found")
      \/ ActiveMetricAt(d, id, c) = Failed("integrity")
      \/ /\ id \in DOMAIN d.facts /\ \A n \in loaded : ~IsFailed(n)
         /\ ActiveMetricAt(d, id, c) = ActiveRevisionAt(loaded, c)
  BY <1>3 DEF ActiveMetricAt
<1>5. CASE /\ id \in DOMAIN d.facts /\ \A n \in loaded : ~IsFailed(n)
           /\ ActiveMetricAt(d, id, c) = ActiveRevisionAt(loaded, c)
  <2>1. IsFiniteSet(lin)
    BY <1>1, <1>5, LineageIsThere
  <2>2. IsFiniteSet(loaded)
    BY <1>2, <2>1, ImageIsFinite
  <2>3. ASSUME NEW n \in loaded
        PROVE  n.time \in Int /\ Genuine(d, n)
    <3>1. PICK i : n = Load(d, "Metric", i)
      BY <1>3 DEF LoadExactMetric
    <3>2. Loads(d, "Metric", i)
      BY <1>5, <3>1, LoadIsSimple
    <3>3. IsRow(n) /\ n.id = i /\ i \in DOMAIN d.nodes /\ n = d.nodes[i].digest
      BY <3>1, <3>2 DEF Loads
    <3> QED BY <3>3 DEF Genuine, IsRow
  <2>4. ActiveRevisionAt(loaded, c) \in loaded \cup {None, Failed("lineage")}
    BY <2>2, <2>3, ActiveIsThere
  <2> QED BY <1>5, <2>3, <2>4 DEF Simple
<1> QED BY <1>4, <1>5 DEF Simple

\* The active revision of a stored lineage, if it has one, is a row of it.
LEMMA ActiveOfLineage ==
  ASSUME NEW d, Sane(d), NEW id \in DOMAIN d.facts, NEW c, NEW a,
         a = ActiveRevisionAt({d.facts[i] : i \in Lineage(d, {id})}, c)
  PROVE  \/ a = None \/ a = Failed("lineage")
         \/ \E i \in Lineage(d, {id}) : a = d.facts[i] /\ i \in DOMAIN d.facts
<1>1. PICK nodes : nodes = {d.facts[i] : i \in Lineage(d, {id})}
  OBVIOUS
<1>2. Lineage(d, {id}) \subseteq DOMAIN d.facts /\ IsFiniteSet(Lineage(d, {id}))
  BY LineageIsThere
<1>3. IsFiniteSet(nodes)
  BY <1>1, <1>2, ImageIsFinite
<1>4. \A n \in nodes : n.time \in Int
  BY <1>1, <1>2, NoIdIsNobody
<1>5. a \in nodes \cup {None, Failed("lineage")}
  BY <1>1, <1>3, <1>4, ActiveIsThere
<1> QED BY <1>1, <1>2, <1>5

LEMMA EligibleIsClean ==
  ASSUME NEW d, Sane(d), NEW links, NEW c, LineageIntact(d, links)
  PROVE  Clean(d, Eligible(d, links, c))
<1>1. PICK active : active = ActiveIds(d, Targets(links), c)
  OBVIOUS
<1>2. PICK rows : rows = {<<e.type, d.facts[e.target]>> :
                            e \in {l \in links : /\ l.at <= c
                                                 /\ d.facts[l.target] \in active}}
  OBVIOUS
<1>3. Eligible(d, links, c) \in {Failed("lineage"), [evidence |-> rows]}
  BY <1>1, <1>2 DEF Eligible
<1>4. CASE Eligible(d, links, c) = Failed("lineage")
  BY <1>4, Forms DEF Clean
<1>5. CASE Eligible(d, links, c) = [evidence |-> rows]
  <2>1. SUFFICES ASSUME NEW n \in Served([evidence |-> rows])
                 PROVE  n = d.nodes[n.id].digest
    BY <1>5 DEF Clean
  <2>2. PICK e \in links : n = d.facts[e.target] /\ d.facts[e.target] \in active
    <3>1. PICK pair \in rows : n = pair[2]
      BY <2>1, Forms
    <3> QED BY <1>2, <3>1
  <2>3. PICK t : t = e.target
    OBVIOUS
  <2>4. t \in Targets(links) /\ t \in DOMAIN d.facts
    BY <2>2, <2>3 DEF LineageIntact, Targets
  <2>5. IsRow(n) /\ n.id = t
    BY <2>2, <2>3, <2>4 DEF Sane, Rows
  <2>6. PICK id \in Targets(links) :
          n = ActiveRevisionAt({d.facts[i] : i \in Lineage(d, {id})}, c)
    BY <1>1, <2>2 DEF ActiveIds
  <2>7. id \in DOMAIN d.facts
    BY <2>6 DEF LineageIntact
  <2>8. PICK i \in Lineage(d, {id}) : n = d.facts[i] /\ i \in DOMAIN d.facts
    <3>1. IsNode(n) /\ ~IsFailed(n)
      BY <2>5, Forms
    <3>2. n # None /\ n # Failed("lineage")
      BY <3>1, Forms
    <3> QED BY <2>6, <2>7, <3>2, ActiveOfLineage
  <2>9. i = t
    BY <2>5, <2>8, NoIdIsNobody
  <2>10. i \in Lineage(d, Targets(links))
    <3>1. Targets(links) \subseteq DOMAIN d.facts
      BY DEF LineageIntact
    <3> QED BY <2>6, <2>8, <3>1, LineageIsThere
  <2>11. ~IsFailed(Load(d, "Evidence", t))
    <3>1. IsNode(Load(d, "Evidence", t))
      BY <2>9, <2>10 DEF LineageIntact
    <3>2. Simple(d, Load(d, "Evidence", t))
      BY LoadIsSimple
    <3>3. IsRow(Load(d, "Evidence", t))
      BY <3>1, <3>2, SimpleOrNot DEF Genuine
    <3> QED BY <3>3, Forms
  <2>12. Loads(d, "Evidence", t)
    BY <2>11, LoadIsSimple
  <2>13. d.facts[t] = d.nodes[t].digest
    BY <2>12 DEF Loads, Bare
  <2> QED BY <2>2, <2>3, <2>5, <2>13
<1> QED BY <1>3, <1>4, <1>5

LEMMA NoEvidenceIsClean ==
  ASSUME NEW d
  PROVE  Clean(d, NoEvidence)
BY Forms DEF NoEvidence, Clean

LEMMA MetricEvidenceIsClean ==
  ASSUME NEW d, Sane(d), NEW id, NEW links, NEW c
  PROVE  Clean(d, EvidenceForMetricFrom(d, id, links, c))
<1>1. PICK m : m = LoadExactMetric(d, id)
  OBVIOUS
<1>2. \/ /\ EvidenceForMetricFrom(d, id, links, c) = m
         /\ IsFailed(m)
      \/ EvidenceForMetricFrom(d, id, links, c) = NoEvidence
      \/ EvidenceForMetricFrom(d, id, links, c) = Failed("integrity")
      \/ /\ LineageIntact(d, links)
         /\ EvidenceForMetricFrom(d, id, links, c) = Eligible(d, links, c)
  BY <1>1 DEF EvidenceForMetricFrom, EligibleMetricEvidence
<1>3. Simple(d, m)
  BY <1>1, LoadIsSimple DEF LoadExactMetric
<1>4. Simple(d, Failed("integrity"))
  BY DEF Simple
<1> QED BY <1>2, <1>3, <1>4, SimpleIsClean, NoEvidenceIsClean, EligibleIsClean

LEMMA ClaimEvidenceIsClean ==
  ASSUME NEW d, Sane(d), NEW id, NEW c
  PROVE  Clean(d, EvidenceForClaimAt(d, id, c))
<1>1. PICK links : links = ClaimLinks(d, id)
  OBVIOUS
<1>2. \/ EvidenceForClaimAt(d, id, c) = Failed("not found")
      \/ EvidenceForClaimAt(d, id, c) = Failed("integrity")
      \/ EvidenceForClaimAt(d, id, c) = NoEvidence
      \/ /\ LineageIntact(d, links)
         /\ EvidenceForClaimAt(d, id, c) = Eligible(d, links, c)
  BY <1>1 DEF EvidenceForClaimAt, EvidenceForClaimFrom, EligibleClaimEvidence
<1>3. Simple(d, Failed("integrity")) /\ Simple(d, Failed("not found"))
  BY DEF Simple
<1> QED BY <1>2, <1>3, SimpleIsClean, NoEvidenceIsClean, EligibleIsClean

LEMMA CalculationIsSimple ==
  ASSUME NEW d, Sane(d), NEW id, NEW c
  PROVE  Simple(d, CalculationAt(d, id, c))
<1>1. PICK v : v = CalculationVisibleAt(d, id, c)
  OBVIOUS
<1>2. CalculationAt(d, id, c) \in {LoadExactCalculation(d, id), None, Failed(v)}
  <2>1. CASE v = "visible"
    BY <1>1, <2>1 DEF CalculationAt
  <2>2. CASE v = "hidden"
    BY <1>1, <2>2 DEF CalculationAt
  <2>3. CASE v # "visible" /\ v # "hidden"
    BY <1>1, <2>3 DEF CalculationAt
  <2> QED BY <2>1, <2>2, <2>3
<1>3. Simple(d, LoadExactCalculation(d, id))
  BY LoadIsSimple DEF LoadExactCalculation
<1> QED BY <1>2, <1>3 DEF Simple

LEMMA InputIsSimple ==
  ASSUME NEW d, Sane(d), NEW id, NEW c
  PROVE  /\ Simple(d, InputAt(d, id, c))
         /\ ~IsFailed(InputAt(d, id, c)) => Genuine(d, InputAt(d, id, c))
<1>1. \/ InputAt(d, id, c) = Failed("not visible")
      \/ /\ IsNode(InputAt(d, id, c))
         /\ \/ InputAt(d, id, c) = EstimateAt(d, id, c)
            \/ InputAt(d, id, c) = ForecastAt(d, id, c)
            \/ InputAt(d, id, c) = CatalystImpactAt(d, id, c)
            \/ InputAt(d, id, c) = LoadExactMetric(d, id)
            \/ InputAt(d, id, c) = CalculationAt(d, id, c)
            \/ InputAt(d, id, c) = None
  BY DEF InputAt
<1>2. /\ Simple(d, EstimateAt(d, id, c)) /\ Simple(d, ForecastAt(d, id, c))
      /\ Simple(d, CatalystImpactAt(d, id, c))
  BY ExactIsSimple DEF EstimateAt, ForecastAt, CatalystImpactAt
<1>3. Simple(d, LoadExactMetric(d, id))
  BY LoadIsSimple DEF LoadExactMetric
<1>4. Simple(d, CalculationAt(d, id, c))
  BY CalculationIsSimple
<1>5. Simple(d, None) /\ Simple(d, Failed("not visible"))
  BY DEF Simple
<1>6. Simple(d, InputAt(d, id, c))
  BY <1>1, <1>2, <1>3, <1>4, <1>5
<1>7. ~IsFailed(InputAt(d, id, c)) => IsNode(InputAt(d, id, c))
  BY <1>1, Forms
<1> QED BY <1>6, <1>7, SimpleOrNot

LEMMA InputsAreClean ==
  ASSUME NEW d, Sane(d), NEW ids, NEW c
  PROVE  Clean(d, InputsAt(d, ids, c))
<1>1. PICK found : found = {InputAt(d, id, c) : id \in ids}
  OBVIOUS
<1>2. \/ InputsAt(d, ids, c) = Failed("not visible")
      \/ /\ \A n \in found : ~IsFailed(n)
         /\ InputsAt(d, ids, c) = [inputs |-> found]
  BY <1>1 DEF InputsAt
<1>3. CASE InputsAt(d, ids, c) = Failed("not visible")
  BY <1>3, Forms DEF Clean
<1>4. CASE /\ \A n \in found : ~IsFailed(n)
           /\ InputsAt(d, ids, c) = [inputs |-> found]
  <2>1. ASSUME NEW n \in found PROVE n = d.nodes[n.id].digest
    <3>1. PICK id \in ids : n = InputAt(d, id, c)
      BY <1>1
    <3>2. Genuine(d, n)
      BY <1>4, <3>1, InputIsSimple
    <3> QED BY <3>2 DEF Genuine
  <2>2. Served(InputsAt(d, ids, c)) = found
    BY <1>4, Forms
  <2> QED BY <2>1, <2>2 DEF Clean
<1> QED BY <1>2, <1>3, <1>4

LEMMA ValuationInputsAreClean ==
  ASSUME NEW d, Sane(d), NEW id, NEW c
  PROVE  Clean(d, ValuationInputsAt(d, id, c))
<1>1. PICK v : v = LoadExactValuation(d, id)
  OBVIOUS
<1>2. \/ ValuationInputsAt(d, id, c) = v
      \/ ValuationInputsAt(d, id, c) = Failed("not visible")
      \/ ValuationInputsAt(d, id, c) = Failed("edge not visible")
      \/ ValuationInputsAt(d, id, c) = InputsAt(d, Targets(Dependencies(d, id)), c)
  BY <1>1 DEF ValuationInputsAt
<1>3. Simple(d, v)
  BY <1>1, LoadIsSimple DEF LoadExactValuation
<1>4. Simple(d, Failed("not visible")) /\ Simple(d, Failed("edge not visible"))
  BY DEF Simple
<1> QED BY <1>2, <1>3, <1>4, SimpleIsClean, InputsAreClean

\* Whatever is asked, by every kind of node.
AllClean(d, s) == \A a \in ToSet(s) : Clean(d, a)

LEMMA OneIsClean ==
  ASSUME NEW d, NEW a, Clean(d, a)
  PROVE  AllClean(d, <<a>>)
<1>1. PICK s : s = <<a>>
  OBVIOUS
<1>2. ToSet(s) = {a}
  BY <1>1 DEF ToSet
<1> QED BY <1>1, <1>2 DEF AllClean

LEMMA TwoAreClean ==
  ASSUME NEW d, NEW a, NEW b, Clean(d, a), Clean(d, b)
  PROVE  AllClean(d, <<a, b>>)
<1>1. PICK s : s = <<a, b>>
  OBVIOUS
<1>2. \A x \in ToSet(s) : x = a \/ x = b
  BY <1>1 DEF ToSet
<1> QED BY <1>1, <1>2 DEF AllClean

LEMMA JoinedAreClean ==
  ASSUME NEW d, NEW s, Sequence(s), NEW t, Sequence(t),
         AllClean(d, s), AllClean(d, t)
  PROVE  AllClean(d, s \o t)
<1>1. PICK u : Is(u, s, t)
  BY DEF Is
<1>2. ToSet(u) = ToSet(s) \cup ToSet(t)
  BY <1>1, Joined
<1> QED BY <1>1, <1>2 DEF AllClean, Is

LEMMA ExactAndLatestAreClean ==
  ASSUME NEW d, Sane(d), NEW kind, NEW id, NEW s, NEW c
  PROVE  AllClean(d, <<ExactAt(d, kind, id, c), LatestAt(d, kind, s, c)>>)
<1>1. Clean(d, ExactAt(d, kind, id, c)) /\ Clean(d, LatestAt(d, kind, s, c))
  BY ExactIsSimple, LatestIsSimple, SimpleIsClean
<1> QED BY <1>1, TwoAreClean

LEMMA KindsAre ==
  Kinds = {"Security", "Claim", "Evidence", "Metric", "Estimate", "Catalyst",
           "CatalystImpact", "Forecast", "Calculation", "Risk",
           "Recommendation", "Valuation"}
<1>1. DOMAIN Adding =
        {"add_security", "add_claim", "add_evidence", "add_metric",
         "add_estimate", "add_catalyst", "add_catalyst_impact", "add_forecast",
         "add_calculation", "add_risk", "add_recommendation", "add_valuation"}
  BY DEF Adding
<1> QED BY <1>1 DEF Kinds, Adding

LEMMA AnswersAreClean ==
  ASSUME NEW d, Sane(d), NEW id \in DOMAIN d.facts, NEW c
  PROVE  AllClean(d, Answers(d, id, c))
<1>1. PICK kind, s : kind = d.facts[id].kind /\ s = d.facts[id].series
  OBVIOUS
<1>2. kind \in Kinds /\ kind \notin Bare
  BY <1>1 DEF Sane, Rows, IsRow, Holding, Tables
<1>3. CASE kind = "Evidence"
  <2>1. Answers(d, id, c) = <<EvidenceAt(d, id, c), LatestEvidenceAt(d, id, c)>>
    BY <1>1, <1>3 DEF Answers
  <2> QED BY <2>1, EvidenceIsSimple, LatestEvidenceIsSimple, SimpleIsClean, TwoAreClean
<1>4. CASE kind = "Metric"
  <2>1. Answers(d, id, c) = <<ActiveMetricAt(d, id, c), EvidenceForMetricAt(d, id, c)>>
    BY <1>1, <1>4 DEF Answers
  <2>2. Clean(d, EvidenceForMetricAt(d, id, c))
    BY MetricEvidenceIsClean DEF EvidenceForMetricAt
  <2> QED BY <2>1, <2>2, ActiveMetricIsSimple, SimpleIsClean, TwoAreClean
<1>5. CASE kind = "Claim"
  <2>1. Answers(d, id, c) = <<EvidenceForClaimAt(d, id, c)>>
    BY <1>1, <1>5 DEF Answers
  <2> QED BY <2>1, ClaimEvidenceIsClean, OneIsClean
<1>6. CASE kind = "Calculation"
  <2>1. Answers(d, id, c) = <<CalculationAt(d, id, c)>>
    BY <1>1, <1>6 DEF Answers
  <2> QED BY <2>1, CalculationIsSimple, SimpleIsClean, OneIsClean
<1>7. CASE kind = "Valuation"
  <2>1. PICK a, b, e : /\ a = ValuationAt(d, id, c) /\ b = LatestValuationAt(d, s, c)
                       /\ e = ValuationInputsAt(d, id, c)
    OBVIOUS
  <2>2. Answers(d, id, c) \in {<<a, b>> \o <<>>, <<a, b>> \o <<e>>}
    BY <1>1, <1>7, <2>1 DEF Answers
  <2>3. Clean(d, a) /\ Clean(d, b) /\ Clean(d, e)
    BY <2>1, ExactIsSimple, LatestIsSimple, SimpleIsClean, ValuationInputsAreClean
       DEF ValuationAt, LatestValuationAt
  <2>4. AllClean(d, <<a, b>>) /\ AllClean(d, <<e>>) /\ AllClean(d, <<>>)
    <3>1. ToSet(<<>>) = {}
      BY DEF ToSet
    <3> QED BY <2>3, <3>1, OneIsClean, TwoAreClean DEF AllClean
  <2>5. Sequence(<<a, b>>) /\ Sequence(<<e>>)
    BY Tuples
  <2>6. Sequence(<<>>)
    BY DEF Sequence
  <2> QED BY <2>2, <2>4, <2>5, <2>6, JoinedAreClean
<1>8. CASE kind = "Catalyst"
  <2>1. Answers(d, id, c) = <<ExactAt(d, kind, id, c), LatestAt(d, kind, s, c)>>
    BY <1>1, <1>8 DEF Answers, CatalystAt, LatestCatalystAt
  <2> QED BY <2>1, ExactAndLatestAreClean
<1>9. CASE kind = "CatalystImpact"
  <2>1. Answers(d, id, c) = <<ExactAt(d, kind, id, c), LatestAt(d, kind, s, c)>>
    BY <1>1, <1>9 DEF Answers, CatalystImpactAt, LatestCatalystImpactAt
  <2> QED BY <2>1, ExactAndLatestAreClean
<1>10. CASE kind = "Forecast"
  <2>1. Answers(d, id, c) = <<ExactAt(d, kind, id, c), LatestAt(d, kind, s, c)>>
    BY <1>1, <1>10 DEF Answers, ForecastAt, LatestForecastAt
  <2> QED BY <2>1, ExactAndLatestAreClean
<1>11. CASE kind = "Risk"
  <2>1. Answers(d, id, c) = <<ExactAt(d, kind, id, c), LatestAt(d, kind, s, c)>>
    BY <1>1, <1>11 DEF Answers, RiskAt, LatestRiskAt
  <2> QED BY <2>1, ExactAndLatestAreClean
<1>12. CASE kind = "Recommendation"
  <2>1. Answers(d, id, c) = <<ExactAt(d, kind, id, c), LatestAt(d, kind, s, c)>>
    BY <1>1, <1>12 DEF Answers, RecommendationAt, LatestRecommendationAt
  <2> QED BY <2>1, ExactAndLatestAreClean
<1>13. CASE kind = "Estimate"
  <2>1. Answers(d, id, c) = <<ExactAt(d, kind, id, c), LatestAt(d, kind, s, c)>>
    BY <1>1, <1>13 DEF Answers, EstimateAt, LatestEstimateAt
  <2> QED BY <2>1, ExactAndLatestAreClean
<1> QED BY <1>2, <1>3, <1>4, <1>5, <1>6, <1>7, <1>8, <1>9, <1>10, <1>11, <1>12,
           <1>13, KindsAre DEF Bare

\* No answer of the repository serves a row that was altered by hand, in its
\* node or in its projection, at any cutoff and whatever has been called.
THEOREM TamperedRowsStayUnserved == Spec => []TamperedRowsAreNeverServed
<1>1. Init => IInv /\ CInv
  BY InitChains, InitHolds
<1>2. IInv /\ CInv /\ [Next]_vars => (IInv /\ CInv)'
  BY NextStep, NextHolds
<1>3. IInv /\ CInv => TamperedRowsAreNeverServed
  <2>1. SUFFICES ASSUME IInv, CInv, NEW id \in DOMAIN g.facts, NEW c \in Cutoffs
                 PROVE  \A a \in ToSet(Answers(g, id, c)) : \A n \in Served(a) :
                          n = g.nodes[n.id].digest
    BY DEF TamperedRowsAreNeverServed
  <2>2. Sane(g)
    BY <2>1, GraphIsSane
  <2>3. AllClean(g, Answers(g, id, c))
    BY <2>2, AnswersAreClean
  <2> QED BY <2>3 DEF AllClean, Clean
<1> QED BY <1>1, <1>2, <1>3, PTL DEF Spec

-----------------------------------------------------------------------------
(* What a visible calculation stands on.                                   *)

LEMMA FirstOfAll ==
  ASSUME NEW v, DOMAIN v \subseteq Nat, NEW good
  PROVE  /\ FirstOf(v, good) = good => \A k \in DOMAIN v : v[k] = good
         /\ FirstOf(v, good) = good \/ \E k \in DOMAIN v : FirstOf(v, good) = v[k]
<1>1. PICK bad : bad = {k \in DOMAIN v : v[k] # good}
  OBVIOUS
<1>2. CASE bad = {}
  BY <1>1, <1>2 DEF FirstOf
<1>3. CASE bad # {}
  <2>1. bad \subseteq Nat
    BY <1>1
  <2>2. PICK k \in bad : \A j \in bad : k <= j
    BY <1>3, <2>1, SmallestIn
  <2>3. PICK m : m = CHOOSE i \in bad : \A j \in bad : i <= j
    OBVIOUS
  <2>4. m \in bad
    BY <2>2, <2>3
  <2>5. FirstOf(v, good) = v[m]
    BY <1>1, <1>3, <2>3 DEF FirstOf
  <2> QED BY <1>1, <2>4, <2>5
<1> QED BY <1>2, <1>3

Faults == {"not found", "type", "projection", "integrity"}

LEMMA LoadFails ==
  ASSUME NEW d, NEW kind, NEW id, Sane(d), IsFailed(Load(d, kind, id))
  PROVE  Load(d, kind, id).failed \in Faults
<1>1. ~Loads(d, kind, id)
  BY Forms DEF Loads
<1>2. PICK m : m = Load(d, kind, id)
  OBVIOUS
<1>3. \/ m = Failed("not found") \/ m = Failed("type")
      \/ m = Failed("projection") \/ m = Failed("integrity")
      \/ /\ ~(\/ ~Stored(d, id) \/ KindOf(d, id) # kind
              \/ kind \notin Bare /\ id \notin DOMAIN d.facts
              \/ ~StoredNodeIntegrity(d, id))
         /\ m = IF kind \in Bare THEN d.nodes[id].payload ELSE d.facts[id]
  BY <1>2 DEF Load
<1>4. CASE /\ ~(\/ ~Stored(d, id) \/ KindOf(d, id) # kind
                \/ kind \notin Bare /\ id \notin DOMAIN d.facts
                \/ ~StoredNodeIntegrity(d, id))
           /\ m = IF kind \in Bare THEN d.nodes[id].payload ELSE d.facts[id]
  <2>1. /\ id \in DOMAIN d.nodes /\ m = d.nodes[id].digest
    BY <1>4 DEF Stored, StoredNodeIntegrity
  <2>2. IsRow(m)
    BY <2>1 DEF Sane, Holding, Entries, Known
  <2> QED BY <1>2, <2>2, Forms
<1>5. CASE \/ m = Failed("not found") \/ m = Failed("type")
           \/ m = Failed("projection") \/ m = Failed("integrity")
  <2>1. \A x : Failed(x).failed = x
    BY DEF Failed
  <2>2. m.failed \in Faults
    BY <1>5, <2>1 DEF Faults
  <2> QED BY <1>2, <2>2
<1> QED BY <1>3, <1>4, <1>5

\* A calculation is made of what its row uses.
Made(S) == {z \in Pairs(S) : \E n \in Told :
              n.id = z[2] /\ n.kind = "Calculation" /\ z[1] \in ToSet(n.uses)}

LEMMA MadeIs ==
  ASSUME NEW S, NEW i \in S, NEW j \in S
  PROVE  <<j, i>> \in Made(S) <=>
           \E n \in Told : n.id = i /\ n.kind = "Calculation" /\ j \in ToSet(n.uses)
<1>1. PICK z : z = <<j, i>>
  OBVIOUS
<1>2. z \in Pairs(S) /\ z[1] = j /\ z[2] = i
  BY <1>1 DEF Pairs
<1>3. z \in Made(S) <=>
        \E n \in Told : n.id = i /\ n.kind = "Calculation" /\ j \in ToSet(n.uses)
  BY <1>2 DEF Made
<1> QED BY <1>1, <1>3

LEMMA MakingEnds ==
  ASSUME NEW S
  PROVE  IsWellFoundedOn(Made(S), S)
<1> DEFINE Calc(i) == {n \in Told : n.kind = "Calculation" /\ n.id = i}
<1>1. ASSUME NEW T \in SUBSET S, T # {}
      PROVE  \E x \in T : \A y \in T : ~(<<y, x>> \in Made(S))
  <2>1. CASE \E i \in T : Calc(i) = {}
    <3>1. PICK i \in T : Calc(i) = {}
      BY <2>1
    <3>2. ASSUME NEW j \in T, <<j, i>> \in Made(S) PROVE FALSE
      <4>1. i \in S /\ j \in S
        BY <1>1, <3>1, <3>2
      <4>2. \E n \in Told : n.id = i /\ n.kind = "Calculation"
        BY <3>2, <4>1, MadeIs
      <4> QED BY <3>1, <4>2
    <3> QED BY <3>2
  <2>2. CASE \A i \in T : Calc(i) # {}
    <3>1. PICK C : C = {n \in Told : n.kind = "Calculation" /\ n.id \in T}
      OBVIOUS
    <3>2. C \in SUBSET {n \in Told : n.kind = "Calculation"}
      BY <3>1
    <3>3. \A i \in T : \E n \in C : n.id = i
      BY <2>2, <3>1
    <3>4. C # {}
      BY <1>1, <3>3
    <3>5. PICK n \in C : \A m \in C : m.id \notin ToSet(n.uses)
      BY <3>2, <3>4, IdentityAssumption
    <3>6. PICK i \in T : i = n.id
      BY <3>1
    <3>7. ASSUME NEW j \in T, <<j, i>> \in Made(S) PROVE FALSE
      <4>1. i \in S /\ j \in S
        BY <1>1, <3>6, <3>7
      <4>2. PICK k \in Told : /\ k.id = i /\ k.kind = "Calculation"
                              /\ j \in ToSet(k.uses)
        BY <3>7, <4>1, MadeIs
      <4>3. n \in Told /\ n.id = i /\ n.kind = "Calculation"
        BY <3>1, <3>6
      <4>4. k.uses = n.uses
        BY <4>2, <4>3, IdentityAssumption
      <4>5. PICK m \in C : m.id = j
        BY <3>3, <3>7
      <4> QED BY <3>5, <4>2, <4>4, <4>5
    <3> QED BY <3>7
  <2> QED BY <2>1, <2>2
<1> HIDE DEF Made
<1> QED BY <1>1, MinWF

\* What is in the tables is made of what was told.
LEMMA UsesAreMade ==
  ASSUME NEW S, NEW i \in S, NEW j \in S, NEW n, Content(n), n.id = i,
         n.kind = "Calculation", j \in ToSet(n.uses)
  PROVE  <<j, i>> \in Made(S)
BY MadeIs DEF Content

\* The function that CalculationVisibleAt defines.
Input(d, c, i, j, vis) ==
  LET made == (CHOOSE e \in Provenance(d, i) : e.target = j).at
      m == Load(d, KindOf(d, j), j)
  IN IF IsFailed(m) THEN m.failed
     ELSE IF made > c THEN "hidden"
     ELSE IF m.kind = "Calculation" THEN vis[j]
     ELSE IF m.kind # "Metric" THEN "dependency type"
     ELSE IF AvailableAt(m, c) THEN "visible" ELSE "hidden"
Inputs(d, c, i, n, vis) == [k \in DOMAIN n.uses |-> Input(d, c, i, n.uses[k], vis)]
Sight(d, c, i, vis) ==
  LET n == LoadExactCalculation(d, i)
  IN IF IsFailed(n) THEN n.failed
     ELSE IF Targets(Provenance(d, i)) # ToSet(n.uses) THEN "provenance"
     ELSE FirstOf(Inputs(d, c, i, n, vis), "visible")
Seen(d, c) == CHOOSE vis : vis = [i \in Calculations(d) |-> Sight(d, c, i, vis)]
Verdicts == Faults \cup {"visible", "hidden", "provenance", "dependency type"}

LEMMA SightIsSeen ==
  ASSUME NEW d, NEW id, NEW c
  PROVE  CalculationVisibleAt(d, id, c) =
           IF id \in Calculations(d) THEN Seen(d, c)[id] ELSE "not found"
BY DEF CalculationVisibleAt, Seen, Sight, Inputs, Input

LEMMA LoadOfCalculation ==
  ASSUME NEW d, Sane(d), NEW i, NEW n, n = LoadExactCalculation(d, i), ~IsFailed(n)
  PROVE  /\ i \in Calculations(d) /\ i \in DOMAIN d.facts /\ n = d.facts[i]
         /\ IsRow(n) /\ n.id = i /\ n.kind = "Calculation" /\ Content(n)
<1>1. Loads(d, "Calculation", i) /\ n = Load(d, "Calculation", i)
  BY LoadIsSimple DEF LoadExactCalculation
<1>2. /\ i \in DOMAIN d.nodes /\ KindOf(d, i) = "Calculation"
      /\ i \in DOMAIN d.facts /\ n = d.facts[i]
      /\ IsRow(n) /\ n.id = i /\ n.kind = "Calculation"
  BY <1>1 DEF Loads, Bare
<1>3. Content(n)
  BY <1>2 DEF Sane, Holding, Tables
<1> QED BY <1>2, <1>3 DEF Calculations

\* What a verdict on an input depends on.
LEMMA InputIsLocal ==
  ASSUME NEW d, Sane(d), NEW c, NEW i, NEW j,
         NEW e, NEW h, j \in Calculations(d) => e[j] = h[j]
  PROVE  /\ Input(d, c, i, j, e) = Input(d, c, i, j, h)
         /\ \/ Input(d, c, i, j, e) \in Verdicts
            \/ j \in Calculations(d) /\ Input(d, c, i, j, e) = e[j]
<1>1. PICK m, made : /\ m = Load(d, KindOf(d, j), j)
                     /\ made = (CHOOSE x \in Provenance(d, i) : x.target = j).at
  OBVIOUS
<1>2. \A v : Input(d, c, i, j, v) =
        IF IsFailed(m) THEN m.failed
        ELSE IF made > c THEN "hidden"
        ELSE IF m.kind = "Calculation" THEN v[j]
        ELSE IF m.kind # "Metric" THEN "dependency type"
        ELSE IF AvailableAt(m, c) THEN "visible" ELSE "hidden"
  BY <1>1 DEF Input
<1>3. CASE IsFailed(m)
  BY <1>1, <1>2, <1>3, LoadFails DEF Verdicts
<1>4. CASE ~IsFailed(m) /\ ~(made > c) /\ m.kind = "Calculation"
  <2>1. Loads(d, KindOf(d, j), j)
    BY <1>1, <1>4, LoadIsSimple
  <2>2. j \in Calculations(d)
    BY <1>1, <1>4, <2>1 DEF Loads, Calculations
  <2> QED BY <1>2, <1>4, <2>2
<1>5. CASE ~IsFailed(m) /\ (made > c \/ m.kind # "Calculation")
  BY <1>2, <1>5 DEF Verdicts
<1> QED BY <1>3, <1>4, <1>5

LEMMA SightIsLocal ==
  ASSUME NEW d, Sane(d), NEW c, NEW i \in Calculations(d), NEW e, NEW h,
         \A j \in Calculations(d) :
           <<j, i>> \in Made(Calculations(d)) => e[j] = h[j] /\ e[j] \in Verdicts
  PROVE  /\ Sight(d, c, i, e) = Sight(d, c, i, h)
         /\ Sight(d, c, i, e) \in Verdicts
<1>1. PICK n : n = LoadExactCalculation(d, i)
  OBVIOUS
<1>2. \A v : Sight(d, c, i, v) =
        IF IsFailed(n) THEN n.failed
        ELSE IF Targets(Provenance(d, i)) # ToSet(n.uses) THEN "provenance"
        ELSE FirstOf(Inputs(d, c, i, n, v), "visible")
  BY <1>1 DEF Sight
<1>3. CASE IsFailed(n)
  <2>1. n.failed \in Faults
    BY <1>1, <1>3, LoadFails DEF LoadExactCalculation
  <2> QED BY <1>2, <1>3, <2>1 DEF Verdicts
<1>4. CASE ~IsFailed(n)
  <2>1. /\ IsRow(n) /\ n.id = i /\ n.kind = "Calculation" /\ Content(n)
    BY <1>1, <1>4, LoadOfCalculation
  <2>2. PICK u : u = n.uses
    OBVIOUS
  <2>3. u \in Seq(ToSet(u))
    BY <2>1, <2>2 DEF IsRow
  <2>4. DOMAIN u \subseteq Nat /\ \A k \in DOMAIN u : u[k] \in ToSet(u)
    <3>1. DOMAIN u \subseteq Nat
      BY <2>3
    <3>2. \A k \in DOMAIN u : u[k] \in ToSet(u)
      BY DEF ToSet
    <3> QED BY <3>1, <3>2
  <2>5. ASSUME NEW k \in DOMAIN u
        PROVE  /\ Input(d, c, i, u[k], e) = Input(d, c, i, u[k], h)
               /\ Input(d, c, i, u[k], e) \in Verdicts
    <3>1. PICK j : j = u[k]
      OBVIOUS
    <3>2. j \in Calculations(d) => e[j] = h[j] /\ e[j] \in Verdicts
      <4>1. j \in ToSet(n.uses)
        BY <2>2, <2>4, <3>1
      <4> QED BY <2>1, <4>1, UsesAreMade
    <3>3. /\ Input(d, c, i, j, e) = Input(d, c, i, j, h)
          /\ Input(d, c, i, j, e) \in Verdicts
      BY <3>2, InputIsLocal
    <3> QED BY <3>1, <3>3
  <2>6. PICK x, y : x = Inputs(d, c, i, n, e) /\ y = Inputs(d, c, i, n, h)
    OBVIOUS
  <2>7. /\ x = [k \in DOMAIN u |-> Input(d, c, i, u[k], e)]
        /\ y = [k \in DOMAIN u |-> Input(d, c, i, u[k], h)]
    BY <2>2, <2>6 DEF Inputs
  <2>8. x = y /\ DOMAIN x \subseteq Nat /\ \A k \in DOMAIN x : x[k] \in Verdicts
    BY <2>4, <2>5, <2>7
  <2>9. FirstOf(x, "visible") \in Verdicts
    <3>1. \/ FirstOf(x, "visible") = "visible"
          \/ \E k \in DOMAIN x : FirstOf(x, "visible") = x[k]
      BY <2>8, FirstOfAll
    <3>2. "visible" \in Verdicts
      BY DEF Verdicts
    <3> QED BY <2>8, <3>1, <3>2
  <2>10. Sight(d, c, i, e) \in {"provenance", FirstOf(x, "visible")}
         /\ Sight(d, c, i, e) = Sight(d, c, i, h)
    BY <1>2, <1>4, <2>6, <2>8
  <2> QED BY <2>9, <2>10 DEF Verdicts
<1> QED BY <1>3, <1>4

LEMMA SeenIs ==
  ASSUME NEW d, Sane(d), NEW c
  PROVE  \A i \in Calculations(d) : Seen(d, c)[i] = Sight(d, c, i, Seen(d, c))
<1> DEFINE S == Calculations(d)
           V == Verdicts
           B == [z \in S \X [S -> V] |-> Sight(d, c, z[1], z[2])]
<1> HIDE DEF S, V
<1>1. \A i \in S, e \in [S -> V] : B[<<i, e>>] = Sight(d, c, i, e)
  OBVIOUS
<1>2. Local(S, V, Made(S), B)
  <2>1. ASSUME NEW i \in S, NEW e \in [S -> V]
        PROVE  Sight(d, c, i, e) \in V
    BY SightIsLocal DEF S, V
  <2>2. B \in [S \X [S -> V] -> V]
    BY <2>1
  <2>3. \A i \in S : \A e, h \in [S -> V] :
          (\A j \in S : <<j, i>> \in Made(S) => e[j] = h[j])
          => B[<<i, e>>] = B[<<i, h>>]
    <3>1. ASSUME NEW i \in S, NEW e \in [S -> V], NEW h \in [S -> V],
                 \A j \in S : <<j, i>> \in Made(S) => e[j] = h[j]
          PROVE  Sight(d, c, i, e) = Sight(d, c, i, h)
      <4>1. \A j \in S : <<j, i>> \in Made(S) => e[j] = h[j] /\ e[j] \in V
        BY <3>1
      <4> QED BY <4>1, SightIsLocal DEF S, V
    <3> HIDE DEF B
    <3> QED BY <1>1, <3>1
  <2> HIDE DEF B
  <2> QED BY <2>2, <2>3 DEF Local
<1>3. V # {}
  BY DEF V, Verdicts
<1>4. \E f \in [S -> V] : \A i \in S : f[i] = B[<<i, f>>]
  <2>1. IsWellFoundedOn(Made(S), S)
    BY MakingEnds
  <2> HIDE DEF B
  <2> QED BY <1>2, <1>3, <2>1, Recursion
<1>5. PICK f \in [S -> V] : \A i \in S : f[i] = Sight(d, c, i, f)
  <2> HIDE DEF B
  <2> QED BY <1>1, <1>4
<1>6. f = [i \in S |-> Sight(d, c, i, f)]
  BY <1>5
<1>7. Seen(d, c) = [i \in S |-> Sight(d, c, i, Seen(d, c))]
  BY <1>6 DEF Seen, S
<1> QED BY <1>7 DEF S

\* The function that KnownBy defines.
Vouch(i, c, known) ==
  IF g.facts[i].kind = "Calculation"
  THEN \A e \in Provenance(g, i) :
         ~(e.at > c) /\ e.target \in DOMAIN g.facts /\ known[e.target]
  ELSE /\ g.facts[i].time <= c
       /\ g.facts[i].kind = "Metric" => g.facts[i].published <= c
Vouched(c) == CHOOSE known : known = [i \in DOMAIN g.facts |-> Vouch(i, c, known)]

LEMMA ProvenanceIsMade ==
  ASSUME IInv, CInv, NEW i \in DOMAIN g.facts, g.facts[i].kind = "Calculation",
         NEW e \in Provenance(g, i), e.target \in DOMAIN g.facts
  PROVE  <<e.target, i>> \in Made(DOMAIN g.facts)
<1>1. /\ e \in g.edges /\ e.source = i /\ e.type = "DERIVED_FROM"
  BY DEF Provenance, EdgesOf
<1>2. Derives(e)
  BY <1>1 DEF CInv, Holding, Proper
<1>3. Content(g.facts[i]) /\ g.facts[i].id = i
  BY GraphIsSane DEF Sane, Rows, Holding, Tables
<1>4. PICK m \in Told : m.id = i /\ m.kind = "Calculation"
  BY <1>3 DEF Content
<1>5. e.target \in ToSet(m.uses)
  BY <1>1, <1>2, <1>4 DEF Derives
<1> QED BY <1>4, <1>5, MadeIs

LEMMA VouchedIs ==
  ASSUME IInv, CInv, NEW c
  PROVE  /\ \A i \in DOMAIN g.facts : Vouched(c)[i] <=> Vouch(i, c, Vouched(c))
         /\ \A i : KnownBy(i, c) <=> Vouched(c)[i]
<1>0. \A i : KnownBy(i, c) <=> Vouched(c)[i]
  BY DEF KnownBy, Vouched, Vouch
<1> DEFINE S == DOMAIN g.facts
           B == [z \in S \X [S -> BOOLEAN] |-> Vouch(z[1], c, z[2])]
<1> HIDE DEF S
<1>1. \A i \in S, e \in [S -> BOOLEAN] : B[<<i, e>>] = Vouch(i, c, e)
  OBVIOUS
<1>2. Local(S, BOOLEAN, Made(S), B)
  <2>1. ASSUME NEW i \in S, NEW e \in [S -> BOOLEAN]
        PROVE  Vouch(i, c, e) \in BOOLEAN
    BY DEF Vouch
  <2>2. B \in [S \X [S -> BOOLEAN] -> BOOLEAN]
    BY <2>1
  <2>3. \A i \in S : \A e, h \in [S -> BOOLEAN] :
          (\A j \in S : <<j, i>> \in Made(S) => e[j] = h[j])
          => B[<<i, e>>] = B[<<i, h>>]
    <3>1. ASSUME NEW i \in S, NEW e \in [S -> BOOLEAN], NEW h \in [S -> BOOLEAN],
                 \A j \in S : <<j, i>> \in Made(S) => e[j] = h[j]
          PROVE  Vouch(i, c, e) = Vouch(i, c, h)
      <4>1. CASE g.facts[i].kind = "Calculation"
        <5>1. \A x \in Provenance(g, i) :
                x.target \in DOMAIN g.facts => e[x.target] = h[x.target]
          BY <3>1, <4>1, ProvenanceIsMade DEF S
        <5>2. Vouch(i, c, e) <=> Vouch(i, c, h)
          BY <4>1, <5>1 DEF Vouch
        <5>3. Vouch(i, c, e) \in BOOLEAN /\ Vouch(i, c, h) \in BOOLEAN
          BY <2>1
        <5> QED BY <5>2, <5>3
      <4>2. CASE g.facts[i].kind # "Calculation"
        BY <4>2 DEF Vouch
      <4> QED BY <4>1, <4>2
    <3> HIDE DEF B
    <3> QED BY <1>1, <3>1
  <2> HIDE DEF B
  <2> QED BY <2>2, <2>3 DEF Local
<1>4. \E f \in [S -> BOOLEAN] : \A i \in S : f[i] = B[<<i, f>>]
  <2>1. IsWellFoundedOn(Made(S), S) /\ BOOLEAN # {}
    BY MakingEnds
  <2> HIDE DEF B
  <2> QED BY <1>2, <2>1, Recursion
<1>5. PICK f \in [S -> BOOLEAN] : \A i \in S : f[i] = Vouch(i, c, f)
  <2> HIDE DEF B
  <2> QED BY <1>1, <1>4
<1>6. f = [i \in S |-> Vouch(i, c, f)]
  BY <1>5
<1>7. Vouched(c) = [i \in S |-> Vouch(i, c, Vouched(c))]
  BY <1>6 DEF Vouched, S
<1>8. \A i \in DOMAIN g.facts : Vouched(c)[i] <=> Vouch(i, c, Vouched(c))
  BY <1>7 DEF S
<1> QED BY <1>0, <1>8

\* What is visible is known, whatever the depth.
LEMMA VisibleIsKnown ==
  ASSUME IInv, CInv, NEW c \in Cutoffs, NEW i \in Calculations(g),
         Seen(g, c)[i] = "visible"
  PROVE  i \in DOMAIN g.facts /\ KnownBy(i, c)
<1> DEFINE bad == {j \in Calculations(g) :
                     /\ Seen(g, c)[j] = "visible"
                     /\ ~(j \in DOMAIN g.facts /\ KnownBy(j, c))}
<1>1. SUFFICES ASSUME bad # {} PROVE FALSE
  OBVIOUS
<1>2. PICK x \in bad : \A y \in bad : <<y, x>> \notin Made(Calculations(g))
  <2>1. bad \subseteq Calculations(g)
    OBVIOUS
  <2>2. IsWellFoundedOn(Made(Calculations(g)), Calculations(g))
    BY MakingEnds
  <2> HIDE DEF bad
  <2> QED BY <1>1, <2>1, <2>2, WFMin
<1>3. PICK n : n = LoadExactCalculation(g, x)
  OBVIOUS
<1>4. Sane(g)
  BY GraphIsSane
<1>5. /\ x \in Calculations(g) /\ Seen(g, c)[x] = "visible"
      /\ Seen(g, c)[x] = Sight(g, c, x, Seen(g, c))
  BY <1>2, <1>4, SeenIs
<1>6. ~IsFailed(n)
  <2>1. IsFailed(n) => n.failed \in Faults
    BY <1>3, <1>4, LoadFails DEF LoadExactCalculation
  <2>2. IsFailed(n) => n.failed = "visible"
    BY <1>3, <1>5 DEF Sight
  <2> QED BY <2>1, <2>2 DEF Faults
<1>7. /\ x \in DOMAIN g.facts /\ n = g.facts[x] /\ IsRow(n) /\ n.id = x
      /\ n.kind = "Calculation" /\ Content(n)
  BY <1>3, <1>4, <1>6, LoadOfCalculation
<1>8. /\ Targets(Provenance(g, x)) = ToSet(n.uses)
      /\ FirstOf(Inputs(g, c, x, n, Seen(g, c)), "visible") = "visible"
  BY <1>3, <1>5, <1>6 DEF Sight
<1>9. ASSUME NEW e \in Provenance(g, x)
      PROVE  ~(e.at > c) /\ e.target \in DOMAIN g.facts /\ KnownBy(e.target, c)
  <2>1. PICK j : j = e.target
    OBVIOUS
  <2>2. PICK u, w : u = n.uses /\ w = Inputs(g, c, x, n, Seen(g, c))
    OBVIOUS
  <2>3. u \in Seq(ToSet(u))
    BY <1>7, <2>2 DEF IsRow
  <2>4. DOMAIN u \subseteq Nat
    BY <2>3
  <2>5. w = [k \in DOMAIN u |-> Input(g, c, x, u[k], Seen(g, c))]
    BY <2>2 DEF Inputs
  <2>6. \A k \in DOMAIN u : w[k] = "visible"
    BY <1>8, <2>2, <2>4, <2>5, FirstOfAll
  <2>7. j \in ToSet(u)
    BY <1>8, <2>1, <2>2 DEF Targets
  <2>8. PICK k \in DOMAIN u : u[k] = j
    BY <2>7 DEF ToSet
  <2>9. Input(g, c, x, j, Seen(g, c)) = "visible"
    BY <2>5, <2>6, <2>8
  <2>10. PICK m, made : /\ m = Load(g, KindOf(g, j), j)
                        /\ made = CHOOSE f \in Provenance(g, x) : f.target = j
    OBVIOUS
  <2>11. made = e
    <3>1. made \in Provenance(g, x) /\ made.target = j
      BY <2>1, <2>10
    <3>2. SameKey(made, e) /\ made \in g.edges /\ e \in g.edges
      BY <2>1, <3>1 DEF SameKey, Provenance, EdgesOf
    <3> QED BY <3>2 DEF CInv, Distinct
  <2>12. Input(g, c, x, j, Seen(g, c)) =
           IF IsFailed(m) THEN m.failed
           ELSE IF e.at > c THEN "hidden"
           ELSE IF m.kind = "Calculation" THEN Seen(g, c)[j]
           ELSE IF m.kind # "Metric" THEN "dependency type"
           ELSE IF AvailableAt(m, c) THEN "visible" ELSE "hidden"
    BY <2>10, <2>11 DEF Input
  <2>13. ~IsFailed(m)
    <3>1. IsFailed(m) => m.failed \in Faults
      BY <1>4, <2>10, LoadFails
    <3> QED BY <2>9, <2>12, <3>1 DEF Faults
  <2>14. Loads(g, KindOf(g, j), j)
    BY <1>4, <2>10, <2>13, LoadIsSimple
  <2>15. /\ j \in DOMAIN g.nodes /\ m.kind = KindOf(g, j)
         /\ m.kind \notin Bare => j \in DOMAIN g.facts /\ m = g.facts[j]
    BY <2>10, <2>14 DEF Loads
  <2>16. CASE m.kind = "Calculation"
    <3>1. j \in Calculations(g) /\ Seen(g, c)[j] = "visible" /\ ~(e.at > c)
      BY <2>9, <2>12, <2>13, <2>15, <2>16 DEF Calculations
    <3>2. <<j, x>> \in Made(Calculations(g))
      BY <1>5, <1>7, <2>2, <2>7, <3>1, UsesAreMade
    <3>3. j \notin bad
      BY <1>2, <3>2
    <3> QED BY <2>1, <3>1, <3>3
  <2>17. CASE m.kind # "Calculation"
    <3>1. m.kind = "Metric" /\ AvailableAt(m, c) /\ ~(e.at > c)
      BY <2>9, <2>12, <2>13, <2>17
    <3>2. j \in DOMAIN g.facts /\ m = g.facts[j]
      BY <2>15, <3>1 DEF Bare
    <3>3. Vouch(j, c, Vouched(c))
      BY <3>1, <3>2 DEF Vouch, AvailableAt
    <3> QED BY <2>1, <3>1, <3>2, <3>3, VouchedIs
  <2> QED BY <2>16, <2>17
<1>10. Vouch(x, c, Vouched(c))
  <2>1. \A e \in Provenance(g, x) :
          ~(e.at > c) /\ e.target \in DOMAIN g.facts /\ Vouched(c)[e.target]
    BY <1>9, VouchedIs
  <2> QED BY <1>7, <2>1 DEF Vouch
<1> QED BY <1>2, <1>7, <1>10, VouchedIs

LEMMA ExactIsKnown ==
  ASSUME IInv, CInv, NEW c \in Cutoffs, NEW kind, NEW id, NEW n,
         kind \notin {"Calculation", "Metric"}, kind \notin Bare,
         n = ExactAt(g, kind, id, c), IsNode(n)
  PROVE  KnownBy(n.id, c)
<1>1. n = Load(g, kind, id) /\ ~(n.time > c)
  BY Forms DEF ExactAt
<1>2. Sane(g)
  BY GraphIsSane
<1>3. ~IsFailed(n)
  BY <1>1, <1>2, LoadIsSimple, SimpleOrNot, Forms DEF Genuine
<1>4. Loads(g, kind, id)
  BY <1>1, <1>2, <1>3, LoadIsSimple
<1>5. IsRow(n) /\ n.id = id /\ n.kind = kind /\ id \in DOMAIN g.facts /\ n = g.facts[id]
  BY <1>1, <1>4 DEF Loads
<1>6. n.time <= c
  <2>1. n.time \in Int /\ c \in Int
    BY <1>5, ClockAssumption DEF IsRow, Cutoffs
  <2> QED BY <1>1, <2>1
<1>7. Vouch(id, c, Vouched(c))
  BY <1>5, <1>6 DEF Vouch
<1> QED BY <1>5, <1>7, VouchedIs

LEMMA CalculationIsKnown ==
  ASSUME IInv, CInv, NEW c \in Cutoffs, NEW id, NEW n,
         n = CalculationAt(g, id, c), IsNode(n)
  PROVE  KnownBy(n.id, c)
<1>1. PICK v : v = CalculationVisibleAt(g, id, c)
  OBVIOUS
<1>2. v = "visible" /\ n = LoadExactCalculation(g, id)
  <2>1. CASE v = "visible"
    BY <1>1, <2>1 DEF CalculationAt
  <2>2. CASE v = "hidden"
    BY <1>1, <2>2, Forms DEF CalculationAt
  <2>3. CASE v # "visible" /\ v # "hidden"
    BY <1>1, <2>3, Forms DEF CalculationAt
  <2> QED BY <2>1, <2>2, <2>3
<1>3. id \in Calculations(g) /\ Seen(g, c)[id] = "visible"
  BY <1>1, <1>2, SightIsSeen
<1>4. KnownBy(id, c)
  BY <1>3, VisibleIsKnown
<1>5. Sane(g)
  BY GraphIsSane
<1>6. ~IsFailed(n)
  BY <1>2, <1>5, LoadIsSimple, SimpleOrNot, Forms DEF Genuine, LoadExactCalculation
<1> QED BY <1>2, <1>4, <1>5, <1>6, LoadOfCalculation

LEMMA MetricIsKnown ==
  ASSUME IInv, CInv, NEW c, NEW id, NEW n,
         n = LoadExactMetric(g, id), IsNode(n), AvailableAt(n, c)
  PROVE  KnownBy(n.id, c)
<1>1. Sane(g)
  BY GraphIsSane
<1>2. ~IsFailed(n)
  BY <1>1, LoadIsSimple, SimpleOrNot, Forms DEF Genuine, LoadExactMetric
<1>3. Loads(g, "Metric", id)
  BY <1>1, <1>2, LoadIsSimple DEF LoadExactMetric
<1>4. n.id = id /\ n.kind = "Metric" /\ id \in DOMAIN g.facts /\ n = g.facts[id]
  BY <1>3 DEF Loads, LoadExactMetric, Bare
<1>5. Vouch(id, c, Vouched(c))
  BY <1>4 DEF Vouch, AvailableAt
<1> QED BY <1>4, <1>5, VouchedIs

LEMMA InputIsKnown ==
  ASSUME IInv, CInv, NEW c \in Cutoffs, NEW id, NEW n,
         n = InputAt(g, id, c), IsNode(n)
  PROVE  KnownBy(n.id, c)
<1>1. \/ n = Failed("not visible")
      \/ n = ExactAt(g, "Estimate", id, c)
      \/ n = ExactAt(g, "Forecast", id, c)
      \/ n = ExactAt(g, "CatalystImpact", id, c)
      \/ n = LoadExactMetric(g, id) /\ AvailableAt(n, c)
      \/ n = CalculationAt(g, id, c)
      \/ n = None
  BY DEF InputAt, EstimateAt, ForecastAt, CatalystImpactAt
<1>2. n # Failed("not visible") /\ n # None
  BY Forms
<1>3. CASE n = LoadExactMetric(g, id) /\ AvailableAt(n, c)
  BY <1>3, MetricIsKnown
<1>4. CASE n = CalculationAt(g, id, c)
  BY <1>4, CalculationIsKnown
<1>5. CASE \E kind \in {"Estimate", "Forecast", "CatalystImpact"} :
             n = ExactAt(g, kind, id, c)
  <2>1. PICK kind \in {"Estimate", "Forecast", "CatalystImpact"} :
          n = ExactAt(g, kind, id, c)
    BY <1>5
  <2>2. kind \notin {"Calculation", "Metric"} /\ kind \notin Bare
    BY DEF Bare
  <2> QED BY <2>1, <2>2, ExactIsKnown
<1> QED BY <1>1, <1>2, <1>3, <1>4, <1>5

\* What an answer serves is known by the cutoff.
Timely(a, c) == \A n \in Served(a) : KnownBy(n.id, c)

LEMMA SimpleIsTimely ==
  ASSUME NEW a, NEW c, Simple(g, a), IsNode(a) => KnownBy(a.id, c)
  PROVE  Timely(a, c)
<1>1. CASE IsNode(a)
  <2>1. Served(a) = {a}
    BY <1>1, SimpleOrNot, Forms DEF Genuine
  <2> QED BY <1>1, <2>1 DEF Timely
<1>2. CASE ~IsNode(a)
  <2>1. Served(a) = {}
    BY <1>2, Forms DEF Simple, Genuine
  <2> QED BY <2>1 DEF Timely
<1> QED BY <1>1, <1>2

LEMMA ValuationIsTimely ==
  ASSUME IInv, CInv, NEW c \in Cutoffs, NEW id
  PROVE  Timely(ExactAt(g, "Valuation", id, c), c)
<1>1. Simple(g, ExactAt(g, "Valuation", id, c))
  BY GraphIsSane, ExactIsSimple
<1>2. "Valuation" \notin {"Calculation", "Metric"} /\ "Valuation" \notin Bare
  BY DEF Bare
<1>3. IsNode(ExactAt(g, "Valuation", id, c)) =>
        KnownBy(ExactAt(g, "Valuation", id, c).id, c)
  BY <1>2, ExactIsKnown
<1> QED BY <1>1, <1>3, SimpleIsTimely

LEMMA LatestValuationIsTimely ==
  ASSUME IInv, CInv, NEW c \in Cutoffs, NEW s
  PROVE  Timely(LatestAt(g, "Valuation", s, c), c)
<1>1. PICK rows : rows = Newest(InSeries(g, "Valuation", s), c)
  OBVIOUS
<1>2. \/ LatestAt(g, "Valuation", s, c) = None
      \/ LatestAt(g, "Valuation", s, c) = Failed("ambiguous")
      \/ LatestAt(g, "Valuation", s, c)
           = ExactAt(g, "Valuation", (CHOOSE n \in rows : TRUE).id, c)
  BY <1>1 DEF LatestAt
<1> QED BY <1>2, ValuationIsTimely, Forms DEF Timely

LEMMA InputsAreTimely ==
  ASSUME IInv, CInv, NEW c \in Cutoffs, NEW ids
  PROVE  Timely(InputsAt(g, ids, c), c)
<1>1. PICK found : found = {InputAt(g, id, c) : id \in ids}
  OBVIOUS
<1>2. \/ InputsAt(g, ids, c) = Failed("not visible")
      \/ /\ \A n \in found : ~IsFailed(n)
         /\ InputsAt(g, ids, c) = [inputs |-> found]
  BY <1>1 DEF InputsAt
<1>3. CASE InputsAt(g, ids, c) = Failed("not visible")
  BY <1>3, Forms DEF Timely
<1>4. CASE /\ \A n \in found : ~IsFailed(n)
           /\ InputsAt(g, ids, c) = [inputs |-> found]
  <2>1. ASSUME NEW n \in found PROVE KnownBy(n.id, c)
    <3>1. PICK id \in ids : n = InputAt(g, id, c)
      BY <1>1
    <3>2. Genuine(g, n)
      BY <1>4, <3>1, InputIsSimple, GraphIsSane
    <3>3. IsNode(n)
      BY <3>2, Forms DEF Genuine
    <3> QED BY <3>1, <3>3, InputIsKnown
  <2>2. Served(InputsAt(g, ids, c)) = found
    BY <1>4, Forms
  <2> QED BY <2>1, <2>2 DEF Timely
<1> QED BY <1>2, <1>3, <1>4

LEMMA ValuationInputsAreTimely ==
  ASSUME IInv, CInv, NEW c \in Cutoffs, NEW id
  PROVE  Timely(ValuationInputsAt(g, id, c), c)
<1>1. PICK v : v = LoadExactValuation(g, id)
  OBVIOUS
<1>2. \/ ValuationInputsAt(g, id, c) = v /\ IsFailed(v)
      \/ ValuationInputsAt(g, id, c) = Failed("not visible")
      \/ ValuationInputsAt(g, id, c) = Failed("edge not visible")
      \/ ValuationInputsAt(g, id, c) = InputsAt(g, Targets(Dependencies(g, id)), c)
  BY <1>1 DEF ValuationInputsAt
<1>3. IsFailed(v) => Served(v) = {}
  <2>1. Simple(g, v)
    BY <1>1, LoadIsSimple, GraphIsSane DEF LoadExactValuation
  <2> QED BY <2>1, Forms DEF Simple, Genuine
<1> QED BY <1>2, <1>3, InputsAreTimely, Forms DEF Timely

\* No lookahead: whatever has been called, in whatever order, and whatever has
\* been altered by hand, a calculation or a valuation that is visible at a cutoff
\* stands on nothing that became known after it.
THEOREM NothingIsAhead == Spec => []NothingAheadOfTheCutoff
<1>1. Init => IInv /\ CInv
  BY InitChains, InitHolds
<1>2. IInv /\ CInv /\ [Next]_vars => (IInv /\ CInv)'
  BY NextStep, NextHolds
<1>3. IInv /\ CInv => NothingAheadOfTheCutoff
  <2>1. SUFFICES ASSUME IInv, CInv, NEW id \in DOMAIN g.facts, NEW c \in Cutoffs,
                        g.facts[id].kind \in {"Calculation", "Valuation"},
                        NEW a \in ToSet(Answers(g, id, c))
                 PROVE  Timely(a, c)
    BY DEF NothingAheadOfTheCutoff, Timely
  <2>2. PICK s, r : s = g.facts[id].series /\ r = Answers(g, id, c)
    OBVIOUS
  <2>3. CASE g.facts[id].kind = "Calculation"
    <3>1. r = <<CalculationAt(g, id, c)>>
      BY <2>2, <2>3 DEF Answers
    <3>2. a = CalculationAt(g, id, c)
      BY <2>1, <2>2, <3>1, Tuples
    <3>3. Simple(g, a)
      BY <2>1, <3>2, CalculationIsSimple, GraphIsSane
    <3> QED BY <2>1, <3>2, <3>3, CalculationIsKnown, SimpleIsTimely
  <2>4. CASE g.facts[id].kind = "Valuation"
    <3>1. PICK x, y, z : /\ x = ExactAt(g, "Valuation", id, c)
                         /\ y = LatestAt(g, "Valuation", s, c)
                         /\ z = ValuationInputsAt(g, id, c)
      OBVIOUS
    <3>2. r \in {<<x, y>> \o <<>>, <<x, y>> \o <<z>>}
      BY <2>2, <2>4, <3>1 DEF Answers, ValuationAt, LatestValuationAt
    <3>3. a \in {x, y, z}
      <4>1. Sequence(<<x, y>>) /\ Sequence(<<z>>) /\ ToSet(<<x, y>>) = {x, y}
            /\ ToSet(<<z>>) = {z}
        BY Tuples
      <4>2. Sequence(<<>>) /\ ToSet(<<>>) = {}
        BY DEF Sequence, ToSet
      <4>3. \/ Is(r, <<x, y>>, <<>>) \/ Is(r, <<x, y>>, <<z>>)
        BY <3>2 DEF Is
      <4>4. CASE Is(r, <<x, y>>, <<>>)
        <5>1. ToSet(r) = ToSet(<<x, y>>) \cup ToSet(<<>>)
          BY <4>1, <4>2, <4>4, Joined
        <5> QED BY <2>1, <2>2, <4>1, <4>2, <5>1
      <4>5. CASE Is(r, <<x, y>>, <<z>>)
        <5>1. ToSet(r) = ToSet(<<x, y>>) \cup ToSet(<<z>>)
          BY <4>1, <4>5, Joined
        <5> QED BY <2>1, <2>2, <4>1, <5>1
      <4> QED BY <4>3, <4>4, <4>5
    <3> QED BY <2>1, <3>1, <3>3, ValuationIsTimely, LatestValuationIsTimely,
               ValuationInputsAreTimely
  <2> QED BY <2>1, <2>3, <2>4
<1> QED BY <1>1, <1>2, <1>3, PTL DEF Spec

-----------------------------------------------------------------------------
(* A walk along a chain that others extend.                                *)

\* The chain from i on: behind every row but the last is its successor.
Walks(d, i, s) ==
  /\ s \in Seq(DOMAIN d.facts) /\ s # <<>> /\ s[1] = i
  /\ \A k \in 1 .. Len(s) - 1 : s[k + 1] \in SuccessorsOf(d, s[k])
  /\ SuccessorsOf(d, s[Len(s)]) = {}

LEMMA OneMore ==
  ASSUME NEW D, NEW i \in D, NEW s \in Seq(D), s # <<>>, NEW u, u = <<i>> \o s
  PROVE  /\ u \in Seq(D) /\ u # <<>> /\ Len(s) \in Nat \ {0}
         /\ Len(u) = Len(s) + 1 /\ u[1] = i
         /\ \A k \in 1 .. Len(s) : u[k + 1] = s[k]
<1>1. <<i>> \in Seq(D) /\ Len(<<i>>) = 1 /\ <<i>>[1] = i
  OBVIOUS
<1>2. Len(s) \in Nat \ {0}
  BY EmptySeq
<1>3. /\ u \in Seq(D) /\ Len(u) = 1 + Len(s)
      /\ \A k \in 1 .. 1 + Len(s) :
           u[k] = IF k <= 1 THEN <<i>>[k] ELSE s[k - 1]
  BY <1>1, ConcatProperties
<1>4. \A k \in 1 .. Len(s) : u[k + 1] = s[k]
  BY <1>2, <1>3
<1>5. u[1] = i
  BY <1>1, <1>2, <1>3
<1>6. u # <<>>
  BY <1>2, <1>3
<1> QED BY <1>2, <1>3, <1>4, <1>5, <1>6

LEMMA ChainWalks ==
  ASSUME NEW d, Sane(d), NEW i \in DOMAIN d.facts
  PROVE  Walks(d, i, Chain(d, i))
<1> DEFINE bad == {j \in DOMAIN d.facts : ~Walks(d, j, Down(d)[j])}
<1>1. SUFFICES ASSUME bad # {} PROVE FALSE
  BY DownIs
<1>2. PICK m \in bad : \A j \in bad : <<j, m>> \notin Below(d)
  <2>1. bad \subseteq DOMAIN d.facts
    OBVIOUS
  <2> HIDE DEF bad
  <2> QED BY <1>1, <2>1, ChainsEnd, WFMin
<1>3. PICK D : D = DOMAIN d.facts
  OBVIOUS
<1>4. PICK s : s = Down(d)[m]
  OBVIOUS
<1>5. m \in D /\ s = DownStep(d, m, Down(d)) /\ ~Walks(d, m, s)
  BY <1>2, <1>3, <1>4, DownIs
<1>6. CASE SuccessorsOf(d, m) = {}
  <2>1. s = <<m>>
    BY <1>5, <1>6 DEF DownStep
  <2>2. s \in Seq(D) /\ s # <<>> /\ s[1] = m /\ Len(s) = 1
    BY <1>5, <2>1
  <2> QED BY <1>3, <1>5, <1>6, <2>2 DEF Walks
<1>7. CASE SuccessorsOf(d, m) # {}
  <2>1. PICK j \in SuccessorsOf(d, m) : j = CHOOSE k \in SuccessorsOf(d, m) : TRUE
    BY <1>7
  <2>2. j \in D /\ <<j, m>> \in Below(d) /\ d.facts[j].supersedes = m /\ m # NoId
    BY <1>3, <1>5, SuccessorsAreBelow, NoIdIsNobody
  <2>3. \A k \in SuccessorsOf(d, m) : k = j
    BY <1>3, <2>2, RevisionIsLater, <1>5, SuccessorsAreBelow
  <2>4. Cardinality(SuccessorsOf(d, m)) = 1
    <3>1. SuccessorsOf(d, m) = {j}
      BY <2>3
    <3> QED BY <3>1, FS_Singleton
  <2>5. PICK t : t = Down(d)[j]
    OBVIOUS
  <2>6. Walks(d, j, t)
    BY <1>2, <1>3, <2>2, <2>5
  <2>7. s = <<m>> \o t
    BY <1>5, <1>7, <2>1, <2>4, <2>5 DEF DownStep
  <2>8. /\ t \in Seq(D) /\ t # <<>> /\ t[1] = j
        /\ \A k \in 1 .. Len(t) - 1 : t[k + 1] \in SuccessorsOf(d, t[k])
        /\ SuccessorsOf(d, t[Len(t)]) = {}
    BY <1>3, <2>6 DEF Walks
  <2>9. /\ s \in Seq(D) /\ s # <<>> /\ Len(t) \in Nat \ {0}
        /\ Len(s) = Len(t) + 1 /\ s[1] = m
        /\ \A k \in 1 .. Len(t) : s[k + 1] = t[k]
    BY <1>5, <2>7, <2>8, OneMore
  <2>10. ASSUME NEW k \in 1 .. Len(s) - 1
         PROVE  s[k + 1] \in SuccessorsOf(d, s[k])
    <3>1. k \in 1 .. Len(t) /\ s[k + 1] = t[k]
      BY <2>9
    <3>2. CASE k = 1
      BY <2>8, <2>9, <3>1, <3>2
    <3>3. CASE k # 1
      <4>1. k - 1 \in 1 .. Len(t) - 1 /\ (k - 1) + 1 = k /\ k - 1 \in 1 .. Len(t)
        BY <2>9, <3>1, <3>3
      <4>2. s[k] = t[k - 1]
        BY <2>9, <4>1
      <4>3. t[k] \in SuccessorsOf(d, t[k - 1])
        BY <2>8, <4>1
      <4> QED BY <3>1, <4>2, <4>3
    <3> QED BY <3>2, <3>3
  <2>11. s[Len(s)] = t[Len(t)]
    <3>1. Len(t) \in 1 .. Len(t)
      BY <2>9
    <3> QED BY <2>9, <3>1
  <2>12. Walks(d, m, s)
    BY <1>3, <2>8, <2>9, <2>10, <2>11 DEF Walks
  <2> QED BY <1>5, <2>12
<1> QED BY <1>6, <1>7

LEMMA WalkShape ==
  ASSUME NEW d, Sane(d), NEW r, NEW s, Walks(d, r, s)
  PROVE  /\ Len(s) \in Nat \ {0}
         /\ \A k \in 1 .. Len(s) : s[k] \in DOMAIN d.facts
         /\ \A k \in 1 .. Len(s) - 1 :
              /\ d.facts[s[k + 1]].supersedes = s[k]
              /\ d.facts[s[k]].time < d.facts[s[k + 1]].time
<1>1. PICK D : D = DOMAIN d.facts
  OBVIOUS
<1>2. s \in Seq(D) /\ s # <<>>
  BY <1>1 DEF Walks
<1>3. Len(s) \in Nat \ {0} /\ \A k \in 1 .. Len(s) : s[k] \in D
  BY <1>2, EmptySeq, ElementOfSeq
<1>4. ASSUME NEW k \in 1 .. Len(s) - 1
      PROVE  /\ d.facts[s[k + 1]].supersedes = s[k]
             /\ d.facts[s[k]].time < d.facts[s[k + 1]].time
  <2>1. PICK i, j : i = s[k] /\ j = s[k + 1]
    OBVIOUS
  <2>2. k \in 1 .. Len(s) /\ k + 1 \in 1 .. Len(s)
    BY <1>3
  <2>3. i \in DOMAIN d.facts /\ j \in SuccessorsOf(d, i)
    BY <1>1, <1>3, <2>1, <2>2 DEF Walks
  <2>4. j \in DOMAIN d.facts /\ d.facts[j].supersedes = i /\ i # NoId
    BY <2>3, SuccessorsAreBelow, NoIdIsNobody
  <2>5. d.facts[i].time < d.facts[j].time
    BY <2>4, RevisionIsLater
  <2> QED BY <2>1, <2>4, <2>5
<1> QED BY <1>1, <1>3, <1>4

LEMMA WalkGoesOn ==
  ASSUME NEW d, Sane(d), NEW r, NEW s, Walks(d, r, s),
         NEW j \in 1 .. Len(s), NEW k \in 1 .. Len(s), j < k
  PROVE  d.facts[s[j]].time < d.facts[s[k]].time
<1>1. /\ Len(s) \in Nat \ {0}
      /\ \A i \in 1 .. Len(s) : s[i] \in DOMAIN d.facts
      /\ \A i \in 1 .. Len(s) - 1 : d.facts[s[i]].time < d.facts[s[i + 1]].time
  BY WalkShape
<1>2. PICK t : t = [i \in 1 .. Len(s) |-> d.facts[s[i]].time]
  OBVIOUS
<1>3. \A i \in 1 .. Len(s) : t[i] \in Int /\ t[i] = d.facts[s[i]].time
  <2>1. \A i \in 1 .. Len(s) : d.facts[s[i]].time \in Int
    BY <1>1, NoIdIsNobody
  <2> QED BY <1>2, <2>1
<1>4. \A i \in 1 .. Len(s) - 1 : t[i] < t[i + 1]
  <2>1. ASSUME NEW i \in 1 .. Len(s) - 1 PROVE t[i] < t[i + 1]
    <3>1. i \in 1 .. Len(s) /\ i + 1 \in 1 .. Len(s)
      BY <1>1
    <3> QED BY <1>1, <1>3, <3>1
  <2> QED BY <2>1
<1> DEFINE bad == {i \in j + 1 .. Len(s) : ~(t[j] < t[i])}
<1>5. SUFFICES ASSUME bad # {} PROVE FALSE
  BY <1>1, <1>3
<1>6. bad \subseteq Nat
  BY <1>1
<1>7. PICK m \in bad : \A i \in bad : m <= i
  <2> HIDE DEF bad
  <2> QED BY <1>5, <1>6, SmallestIn
<1>8. m \in j + 1 .. Len(s) /\ ~(t[j] < t[m])
  OBVIOUS
<1>9. m - 1 \in 1 .. Len(s) - 1 /\ (m - 1) + 1 = m /\ m - 1 \in 1 .. Len(s)
      /\ m \in 1 .. Len(s)
  BY <1>1, <1>8
<1>10. t[m - 1] < t[m]
  BY <1>4, <1>9
<1>11. CASE m = j + 1
  <2>1. m - 1 = j
    BY <1>1, <1>11
  <2> QED BY <1>8, <1>10, <2>1
<1>12. CASE m # j + 1
  <2>1. m - 1 \in j + 1 .. Len(s) /\ ~(m <= m - 1)
    BY <1>1, <1>8, <1>12
  <2>2. m - 1 \notin bad
    BY <1>7, <2>1
  <2>3. t[j] < t[m - 1]
    BY <2>1, <2>2
  <2>4. t[j] \in Int /\ t[m - 1] \in Int /\ t[m] \in Int
    BY <1>3, <1>9
  <2> QED BY <1>8, <1>10, <2>3, <2>4
<1> QED BY <1>11, <1>12

\* What a walk has found so far, and that it has found everything.
Grows(d, r, M) == /\ r \in M /\ M \subseteq DOMAIN d.facts
                  /\ \A m \in M : m = r \/ d.facts[m].supersedes \in M
Ended(d, M) == \A m \in M : SuccessorsOf(d, m) \subseteq M

LEMMA WalkIsWhole ==
  ASSUME NEW d, Sane(d), NEW r, NEW s, Walks(d, r, s),
         NEW M, Grows(d, r, M), Ended(d, M)
  PROVE  M = {s[k] : k \in 1 .. Len(s)}
<1>1. /\ Len(s) \in Nat \ {0}
      /\ \A k \in 1 .. Len(s) : s[k] \in DOMAIN d.facts
      /\ \A k \in 1 .. Len(s) - 1 : s[k + 1] \in SuccessorsOf(d, s[k])
      /\ SuccessorsOf(d, s[Len(s)]) = {} /\ s[1] = r
  BY WalkShape DEF Walks
<1>2. \A k \in 1 .. Len(s) : s[k] \in M
  <2> DEFINE bad == {k \in 1 .. Len(s) : s[k] \notin M}
  <2>1. SUFFICES ASSUME bad # {} PROVE FALSE
    OBVIOUS
  <2>2. bad \subseteq Nat
    BY <1>1
  <2>3. PICK k \in bad : \A i \in bad : k <= i
    <3> HIDE DEF bad
    <3> QED BY <2>1, <2>2, SmallestIn
  <2>4. k # 1
    BY <1>1, <2>3 DEF Grows
  <2>5. /\ k - 1 \in 1 .. Len(s) - 1 /\ (k - 1) + 1 = k /\ k - 1 \in 1 .. Len(s)
        /\ ~(k <= k - 1)
    BY <1>1, <2>3, <2>4
  <2>6. s[k - 1] \in M
    BY <2>3, <2>5
  <2>7. s[k] \in SuccessorsOf(d, s[k - 1])
    BY <1>1, <2>5
  <2> QED BY <2>3, <2>6, <2>7 DEF Ended
<1>3. ASSUME NEW m \in M PROVE \E k \in 1 .. Len(s) : m = s[k]
  <2> DEFINE bad == {i \in M : ~\E k \in 1 .. Len(s) : i = s[k]}
  <2>1. SUFFICES ASSUME bad # {} PROVE FALSE
    OBVIOUS
  <2>2. PICK i \in bad : \A j \in bad : <<j, i>> \notin Above(d)
    <3>1. bad \subseteq DOMAIN d.facts
      BY DEF Grows
    <3> HIDE DEF bad
    <3> QED BY <2>1, <3>1, ChainsEnd, WFMin
  <2>3. i # r
    BY <1>1, <2>2
  <2>4. PICK j : j = d.facts[i].supersedes
    OBVIOUS
  <2>5. i \in DOMAIN d.facts /\ j \in M /\ j \in DOMAIN d.facts
    BY <2>2, <2>3, <2>4 DEF Grows
  <2>6. <<j, i>> \in Above(d) /\ j # NoId
    BY <2>4, <2>5, BelowIs, NoIdIsNobody
  <2>7. PICK k \in 1 .. Len(s) : j = s[k]
    BY <2>2, <2>5, <2>6
  <2>8. i \in SuccessorsOf(d, j)
    BY <2>4, <2>5 DEF SuccessorsOf
  <2>9. k \in 1 .. Len(s) - 1 /\ k + 1 \in 1 .. Len(s)
    BY <1>1, <2>7, <2>8
  <2>10. d.facts[s[k + 1]].supersedes = j /\ s[k + 1] \in DOMAIN d.facts
    BY <1>1, <2>7, <2>9, WalkShape
  <2>11. s[k + 1] = i
    BY <2>4, <2>5, <2>6, <2>10, RevisionIsLater
  <2> QED BY <2>2, <2>9, <2>11
<1> QED BY <1>2, <1>3

\* What Candidates answers when it knows the part M of the chain.
AnswerOf(d, M, c) ==
  LET seen == {EvidenceAt(d, id, c) : id \in M} \ {None}
  IN IF \E n \in seen : IsFailed(n) THEN Failed("integrity")
     ELSE IF seen = {} THEN None
     ELSE CHOOSE n \in seen : \A m \in seen : m.time <= n.time

LEMMA EvidenceTells ==
  ASSUME NEW d, Sane(d), NEW i \in DOMAIN d.facts, NEW c
  PROVE  \/ EvidenceAt(d, i, c) = None \/ IsFailed(EvidenceAt(d, i, c))
         \/ EvidenceAt(d, i, c) = d.facts[i]
<1>1. EvidenceAt(d, i, c) \in {None, Load(d, "Evidence", i)}
  BY DEF EvidenceAt
<1>2. IsFailed(Load(d, "Evidence", i)) \/ Load(d, "Evidence", i) = d.facts[i]
  <2>1. "Evidence" \notin Bare
    BY DEF Bare
  <2> QED BY <2>1, LoadIsSimple DEF Loads
<1> QED BY <1>1, <1>2

\* When nothing is missing, that is the answer of the moment.
LEMMA WalkAnswers ==
  ASSUME NEW d, Sane(d), NEW id \in DOMAIN d.facts, NEW M,
         Grows(d, Root(d, id), M), Ended(d, M), NEW c
  PROVE  AnswerOf(d, M, c) = LatestEvidenceAt(d, id, c)
<1>1. PICK r, s : r = Root(d, id) /\ s = Chain(d, r)
  OBVIOUS
<1>2. Walks(d, r, s)
  <2>1. Up(d)[id] \in DOMAIN d.facts /\ Root(d, id) = Up(d)[id]
    BY UpIs
  <2> QED BY <1>1, <2>1, ChainWalks
<1>3. /\ Len(s) \in Nat \ {0} /\ \A k \in 1 .. Len(s) : s[k] \in DOMAIN d.facts
      /\ M = {s[k] : k \in 1 .. Len(s)}
  BY <1>1, <1>2, WalkShape, WalkIsWhole
<1>4. Last(s) # NoId
  <2>1. Len(s) \in 1 .. Len(s)
    BY <1>3
  <2>2. s[Len(s)] # NoId
    BY <1>3, <2>1, NoIdIsNobody
  <2> QED BY <2>2 DEF Last
<1>5. PICK answers : answers = [k \in 1 .. Len(s) |-> EvidenceAt(d, s[k], c)]
  OBVIOUS
<1>6. LatestEvidenceAt(d, id, c) =
        IF \E k \in DOMAIN answers : IsFailed(answers[k])
        THEN Failed("integrity") ELSE LastVisible(answers)
  BY <1>1, <1>4, <1>5 DEF LatestEvidenceAt
<1>7. PICK seen : seen = {EvidenceAt(d, i, c) : i \in M} \ {None}
  OBVIOUS
<1>8. AnswerOf(d, M, c) =
        IF \E n \in seen : IsFailed(n) THEN Failed("integrity")
        ELSE IF seen = {} THEN None
        ELSE CHOOSE n \in seen : \A m \in seen : m.time <= n.time
  BY <1>7 DEF AnswerOf
<1>9. DOMAIN answers = 1 .. Len(s)
      /\ \A k \in 1 .. Len(s) : answers[k] = EvidenceAt(d, s[k], c)
  BY <1>5
<1>10. \A n : n \in seen <=> \E k \in 1 .. Len(s) : n = answers[k] /\ n # None
  BY <1>3, <1>7, <1>9
<1>11. CASE \E k \in 1 .. Len(s) : IsFailed(answers[k])
  <2>1. \E n \in seen : IsFailed(n)
    BY <1>10, <1>11, Forms
  <2> QED BY <1>6, <1>8, <1>9, <1>11, <2>1
<1>12. CASE ~\E k \in 1 .. Len(s) : IsFailed(answers[k])
  <2>1. ~\E n \in seen : IsFailed(n)
    BY <1>10, <1>12
  <2>2. PICK ks : ks = {k \in 1 .. Len(s) : answers[k] # None}
    OBVIOUS
  <2>3. LatestEvidenceAt(d, id, c) = IF ks = {} THEN None ELSE answers[Max(ks)]
    BY <1>6, <1>9, <1>12, <2>2 DEF LastVisible
  <2>4. \A n : n \in seen <=> \E k \in ks : n = answers[k]
    BY <1>10, <2>2
  <2>5. CASE ks = {}
    <3>1. seen = {}
      BY <2>4, <2>5
    <3> QED BY <1>8, <2>3, <2>5, <3>1
  <2>6. CASE ks # {}
    <3>1. PICK m : m = Max(ks)
      OBVIOUS
    <3>2. m \in ks /\ \A j \in ks : j <= m
      <4>1. ks \subseteq 1 .. Len(s) /\ Len(s) \in Nat
        BY <1>3, <2>2
      <4> QED BY <2>6, <3>1, <4>1, GreatestIn
    <3>3. \A k \in ks : answers[k] = d.facts[s[k]] /\ k \in 1 .. Len(s)
      BY <1>3, <1>9, <1>12, <2>2, EvidenceTells
    <3>4. \A k \in ks : answers[k].time \in Int
      BY <1>3, <3>3, NoIdIsNobody
    <3>5. ASSUME NEW k \in ks PROVE answers[k].time < answers[m].time \/ k = m
      <4>1. k \in Int /\ m \in Int /\ k <= m
        BY <1>3, <3>2, <3>3
      <4>2. CASE k < m
        BY <1>2, <3>2, <3>3, <4>2, WalkGoesOn
      <4> QED BY <4>1, <4>2
    <3>6. PICK a : a = answers[m]
      OBVIOUS
    <3>7. a \in seen /\ a.time \in Int
      BY <2>4, <3>2, <3>4, <3>6
    <3>8. \A n \in seen : n.time \in Int /\ (n.time < a.time \/ n = a)
      BY <2>4, <3>4, <3>5, <3>6
    <3>9. \A n \in seen : n.time <= a.time
      BY <3>7, <3>8
    <3>10. \A n \in seen : (\A x \in seen : x.time <= n.time) => n = a
      <4>1. ASSUME NEW n \in seen, a.time <= n.time PROVE n = a
        BY <3>7, <3>8, <4>1
      <4> QED BY <3>7, <4>1
    <3>11. (CHOOSE n \in seen : \A x \in seen : x.time <= n.time) = a
      BY <3>7, <3>9, <3>10
    <3>12. seen # {}
      BY <3>7
    <3> QED BY <1>8, <2>1, <2>3, <2>6, <3>1, <3>6, <3>11, <3>12
  <2> QED BY <2>5, <2>6
<1> QED BY <1>11, <1>12

\* What a commit makes of a database: what was there stays as it was.
Grown(d, e) == Extends(d.facts, e.facts) /\ Extends(d.nodes, e.nodes)

LEMMA EvidenceStays ==
  ASSUME NEW d, NEW e, Grown(d, e), NEW i \in DOMAIN d.facts, i \in DOMAIN d.nodes,
         NEW c
  PROVE  EvidenceAt(e, i, c) = EvidenceAt(d, i, c)
<1>1. /\ i \in DOMAIN e.facts /\ e.facts[i] = d.facts[i]
      /\ i \in DOMAIN e.nodes /\ e.nodes[i] = d.nodes[i]
  BY DEF Grown, Extends
<1>2. StoredNodeIntegrity(e, i) <=> StoredNodeIntegrity(d, i)
  BY <1>1 DEF StoredNodeIntegrity
<1>3. /\ Stored(e, i) <=> Stored(d, i)
      /\ KindOf(e, i) = KindOf(d, i)
  BY <1>1 DEF Stored, KindOf
<1>4. Load(e, "Evidence", i) = Load(d, "Evidence", i)
  BY <1>1, <1>2, <1>3 DEF Load
<1> QED BY <1>3, <1>4 DEF EvidenceAt

LEMMA AnswerStays ==
  ASSUME NEW d, NEW e, Grown(d, e), DOMAIN d.facts \subseteq DOMAIN d.nodes,
         NEW M, M \subseteq DOMAIN d.facts, NEW c
  PROVE  AnswerOf(e, M, c) = AnswerOf(d, M, c)
<1>1. \A i \in M : EvidenceAt(e, i, c) = EvidenceAt(d, i, c)
  BY EvidenceStays
<1>2. {EvidenceAt(e, i, c) : i \in M} = {EvidenceAt(d, i, c) : i \in M}
  BY <1>1
<1>3. PICK S, T : /\ S = {EvidenceAt(d, i, c) : i \in M} \ {None}
                  /\ T = {EvidenceAt(e, i, c) : i \in M} \ {None}
  OBVIOUS
<1>4. S = T
  BY <1>2, <1>3
<1>5. /\ AnswerOf(d, M, c) =
           IF \E n \in S : IsFailed(n) THEN Failed("integrity")
           ELSE IF S = {} THEN None
           ELSE CHOOSE n \in S : \A m \in S : m.time <= n.time
      /\ AnswerOf(e, M, c) =
           IF \E n \in T : IsFailed(n) THEN Failed("integrity")
           ELSE IF T = {} THEN None
           ELSE CHOOSE n \in T : \A m \in T : m.time <= n.time
  BY <1>3 DEF AnswerOf
<1> QED BY <1>4, <1>5

LEMMA RootStays ==
  ASSUME NEW d, Sane(d), NEW e, Sane(e), Grown(d, e), NEW i \in DOMAIN d.facts
  PROVE  Root(e, i) = Root(d, i)
<1>1. /\ \A j \in DOMAIN d.facts : Up(d)[j] = UpStep(d, j, Up(d))
      /\ \A j \in DOMAIN e.facts : Up(e)[j] = UpStep(e, j, Up(e))
      /\ Root(d, i) = Up(d)[i] /\ Root(e, i) = Up(e)[i]
  BY UpIs
<1> DEFINE bad == {j \in DOMAIN d.facts : Up(e)[j] # Up(d)[j]}
<1>2. SUFFICES ASSUME bad # {} PROVE FALSE
  BY <1>1
<1>3. PICK j \in bad : \A k \in bad : <<k, j>> \notin Above(d)
  <2>1. bad \subseteq DOMAIN d.facts
    OBVIOUS
  <2> HIDE DEF bad
  <2> QED BY <1>2, <2>1, ChainsEnd, WFMin
<1>4. PICK k : k = d.facts[j].supersedes
  OBVIOUS
<1>5. j \in DOMAIN d.facts /\ j \in DOMAIN e.facts /\ e.facts[j].supersedes = k
  BY <1>3, <1>4 DEF Grown, Extends
<1>6. /\ Up(d)[j] = IF k = NoId THEN j ELSE Up(d)[k]
      /\ Up(e)[j] = IF k = NoId THEN j ELSE Up(e)[k]
  BY <1>1, <1>4, <1>5 DEF UpStep
<1>7. CASE k # NoId
  <2>1. k \in DOMAIN d.facts
    BY <1>4, <1>5, <1>7, RevisionIsLater
  <2>2. <<k, j>> \in Above(d)
    BY <1>4, <1>5, <2>1, BelowIs
  <2>3. Up(e)[k] = Up(d)[k]
    BY <1>3, <2>1, <2>2
  <2> QED BY <1>3, <1>6, <1>7, <2>3
<1> QED BY <1>3, <1>6, <1>7

-----------------------------------------------------------------------------
(* Links that were read before: less evidence, and none that was not there. *)

LEMMA FewerIntact ==
  ASSUME Sane(g), NEW K, LineageIntact(g, K), NEW L, L \subseteq K
  PROVE  LineageIntact(g, L)
<1>1. Targets(L) \subseteq Targets(K)
  BY DEF Targets
<1>2. \A ids : Lineage(g, ids) = UNION {Line(g)[Root(g, i)] : i \in ids}
  BY LineIs
<1>3. Lineage(g, Targets(L)) \subseteq Lineage(g, Targets(K))
  BY <1>1, <1>2
<1> QED BY <1>1, <1>3 DEF LineageIntact

LEMMA FewerEligible ==
  ASSUME NEW c, NEW K, NEW L, L \subseteq K,
         NEW a, a = Eligible(g, K, c), ~IsFailed(a), NEW b, b = Eligible(g, L, c)
  PROVE  ~IsFailed(b) /\ Served(b) \subseteq Served(a)
<1>1. Targets(L) \subseteq Targets(K)
  BY DEF Targets
<1>2. PICK x, y : /\ x = ActiveIds(g, Targets(K), c)
                  /\ y = ActiveIds(g, Targets(L), c)
  OBVIOUS
<1>3. y \subseteq x
  BY <1>1, <1>2 DEF ActiveIds
<1>4. PICK S, T :
        /\ S = {<<e.type, g.facts[e.target]>> :
                  e \in {l \in K : l.at <= c /\ g.facts[l.target] \in x}}
        /\ T = {<<e.type, g.facts[e.target]>> :
                  e \in {l \in L : l.at <= c /\ g.facts[l.target] \in y}}
  OBVIOUS
<1>5. /\ a = IF \E n \in x : IsFailed(n) THEN Failed("lineage")
             ELSE [evidence |-> S]
      /\ b = IF \E n \in y : IsFailed(n) THEN Failed("lineage")
             ELSE [evidence |-> T]
  BY <1>2, <1>4 DEF Eligible
<1>6. a = [evidence |-> S] /\ b = [evidence |-> T]
  BY <1>3, <1>5, Forms
<1>7. T \subseteq S
  BY <1>3, <1>4
<1>8. ~IsFailed(b) /\ Served(a) = {pair[2] : pair \in S}
      /\ Served(b) = {pair[2] : pair \in T}
  BY <1>6, Forms
<1> QED BY <1>7, <1>8

\* What is asked besides the links is asked of the same database.
LEMMA FewerLinks ==
  ASSUME Sane(g), NEW s, NEW K, NEW L, L \subseteq K,
         NEW a, a = EvidenceFrom(g, s, K), ~IsFailed(a),
         NEW b, b = EvidenceFrom(g, s, L)
  PROVE  ~IsFailed(b) /\ Served(b) \subseteq Served(a)
<1> DEFINE Behind(X) == IF X = {} THEN NoEvidence
                        ELSE IF ~LineageIntact(g, X) THEN Failed("integrity")
                        ELSE Eligible(g, X, s.cutoff)
<1>1. ~IsFailed(NoEvidence) /\ Served(NoEvidence) = {}
  BY Forms DEF NoEvidence
<1>2. ASSUME NEW x, x = Behind(K), ~IsFailed(x), NEW y, y = Behind(L)
      PROVE  ~IsFailed(y) /\ Served(y) \subseteq Served(x)
  <2>1. CASE L = {}
    BY <1>1, <1>2, <2>1
  <2>2. CASE L # {}
    <3>1. K # {} /\ LineageIntact(g, K)
      BY <1>2, <2>2, Forms
    <3>2. LineageIntact(g, L)
      BY <3>1, FewerIntact
    <3>3. x = Eligible(g, K, s.cutoff) /\ y = Eligible(g, L, s.cutoff)
      BY <1>2, <2>2, <3>1, <3>2
    <3> QED BY <1>2, <3>3, FewerEligible
  <2> QED BY <2>1, <2>2
<1>3. CASE s.of = "Claim"
  <2>1. a = Behind(K) /\ b = Behind(L)
    BY <1>3, Forms DEF EvidenceFrom, EvidenceForClaimFrom, EligibleClaimEvidence
  <2> QED BY <1>2, <2>1
<1>4. CASE s.of # "Claim"
  <2>1. PICK metric : metric = LoadExactMetric(g, s.id)
    OBVIOUS
  <2>2. \A X : EvidenceFrom(g, s, X) =
                IF IsFailed(metric) THEN metric
                ELSE IF X = {} THEN NoEvidence
                ELSE IF ~LineageIntact(g, X) THEN Failed("integrity")
                ELSE IF AvailableAt(metric, s.cutoff)
                     THEN Eligible(g, X, s.cutoff)
                ELSE NoEvidence
    BY <1>4, <2>1 DEF EvidenceFrom, EvidenceForMetricFrom, EligibleMetricEvidence
  <2>3. ~IsFailed(metric)
    BY <2>2
  <2>4. CASE AvailableAt(metric, s.cutoff)
    <3>1. a = Behind(K) /\ b = Behind(L)
      BY <2>2, <2>3, <2>4
    <3> QED BY <1>2, <3>1
  <2>5. CASE ~AvailableAt(metric, s.cutoff)
    <3>1. K # {} => LineageIntact(g, K)
      BY <2>2, <2>3, Forms
    <3>2. L # {} => LineageIntact(g, L)
      BY <3>1, FewerIntact
    <3>3. b = NoEvidence
      BY <2>2, <2>3, <2>5, <3>2
    <3> QED BY <1>1, <3>3
  <2> QED BY <2>4, <2>5
<1> QED BY <1>3, <1>4

-----------------------------------------------------------------------------
(* Where there is a row there is its node, and nobody adds a node twice.   *)

Grounded ==
  /\ DOMAIN g.facts \subseteq DOMAIN g.nodes
  /\ \A p \in Procs :
       /\ DOMAIN tx[p].facts \subseteq DOMAIN tx[p].nodes \cup DOMAIN g.nodes
       /\ DOMAIN tx[p].nodes \cap DOMAIN g.nodes = {}
  /\ \A p, q \in Procs :
       p # q => DOMAIN tx[p].nodes \cap DOMAIN tx[q].nodes = {}

LEMMA GroundSame ==
  ASSUME Grounded, DOMAIN g'.nodes = DOMAIN g.nodes,
         DOMAIN g'.facts \subseteq DOMAIN g.facts,
         \A p \in Procs : SameTables(tx'[p], tx[p]) \/ NoTables(tx'[p])
  PROVE  Grounded'
<1>1. DOMAIN g'.facts \subseteq DOMAIN g'.nodes
  BY DEF Grounded
<1>2. ASSUME NEW p \in Procs
      PROVE  /\ DOMAIN tx'[p].facts \subseteq DOMAIN tx'[p].nodes \cup DOMAIN g'.nodes
             /\ DOMAIN tx'[p].nodes \cap DOMAIN g'.nodes = {}
  BY DEF Grounded, SameTables, NoTables
<1>3. ASSUME NEW p \in Procs, NEW q \in Procs, p # q
      PROVE  DOMAIN tx'[p].nodes \cap DOMAIN tx'[q].nodes = {}
  BY <1>3 DEF Grounded, SameTables, NoTables
<1> QED BY <1>1, <1>2, <1>3 DEF Grounded

LEMMA QuitGround ==
  ASSUME IInv, Grounded, NEW p \in Procs, Leaves(p)
  PROVE  Grounded'
<1>1. tx'[p] = Closed /\ \A q \in Procs \ {p} : tx'[q] = tx[q]
  BY DEF IInv, Shaped, Leaves
<1>2. \A q \in Procs : SameTables(tx'[q], tx[q]) \/ NoTables(tx'[q])
  BY <1>1, ClosedHasNothing DEF SameTables
<1> QED BY <1>2, GroundSame DEF Leaves

LEMMA TxGround ==
  ASSUME Grounded, UNCHANGED <<g, tx>>
  PROVE  Grounded'
BY GroundSame DEF SameTables

LEMMA LockGround ==
  ASSUME IInv, Grounded, NEW p \in Procs, NEW t, IsTx(t), SameTables(t, tx[p]),
         GoesOn(p, 1, t)
  PROVE  Grounded'
<1>1. tx'[p] = t /\ \A q \in Procs \ {p} : tx'[q] = tx[q]
  BY GoesOnShape DEF IInv
<1>2. \A q \in Procs : SameTables(tx'[q], tx[q])
  BY <1>1 DEF SameTables
<1> QED BY <1>2, GroundSame DEF GoesOn

LEMMA CheckGround ==
  ASSUME IInv, Grounded, NEW p \in Procs, NEW fault, Checks(p, fault)
  PROVE  Grounded'
<1>1. CASE Ends(p, fault)
  BY <1>1, QuitGround DEF Ends
<1>2. CASE GoesOn(p, 1, tx[p])
  BY <1>2, LockGround DEF IInv, Shaped, SameTables
<1> QED BY <1>1, <1>2 DEF Checks

\* One transaction adds to its tables.
LEMMA WriteGround ==
  ASSUME IInv, Grounded, NEW p \in Procs, NEW t, IsTx(t), GoesOn(p, 1, t),
         DOMAIN t.facts \subseteq DOMAIN t.nodes \cup DOMAIN g.nodes,
         DOMAIN t.nodes \cap DOMAIN g.nodes = {},
         \A q \in Procs \ {p} : DOMAIN t.nodes \cap DOMAIN tx[q].nodes = {}
  PROVE  Grounded'
<1>1. /\ tx'[p] = t /\ \A q \in Procs \ {p} : tx'[q] = tx[q]
      /\ g' = g
  BY GoesOnShape DEF IInv, GoesOn
<1>2. ASSUME NEW q \in Procs
      PROVE  /\ DOMAIN tx'[q].facts \subseteq DOMAIN tx'[q].nodes \cup DOMAIN g'.nodes
             /\ DOMAIN tx'[q].nodes \cap DOMAIN g'.nodes = {}
  BY <1>1 DEF Grounded
<1>3. ASSUME NEW q \in Procs, NEW r \in Procs, q # r
      PROVE  DOMAIN tx'[q].nodes \cap DOMAIN tx'[r].nodes = {}
  BY <1>1, <1>3 DEF Grounded
<1> QED BY <1>1, <1>2, <1>3 DEF Grounded

LEMMA NodeInsertGround ==
  ASSUME IInv, Grounded, NEW p \in Procs, NodeInsert(p)
  PROVE  Grounded'
<1> PICK n : n = Head(todo[p]).node
  OBVIOUS
<1>1. todo[p] # <<>> /\ Head(todo[p]).do = "insert node" /\ WaitsFor(p) = {}
  BY DEF NodeInsert, Executes
<1>2. CASE HasNode(p, n)
  BY <1>2, CheckGround DEF NodeInsert
<1>3. CASE ~HasNode(p, n)
  <2>0. IsTx(tx[p])
    BY DEF IInv, Shaped
  <2>1. PICK t : t = [tx[p] EXCEPT !.nodes = With(@, n.id, Row(n))]
    OBVIOUS
  <2>2. /\ IsTx(t) /\ t.facts = tx[p].facts
        /\ t.nodes = With(tx[p].nodes, n.id, Row(n))
    BY <2>0, <2>1 DEF TxFields, IsTx
  <2>3. GoesOn(p, 1, t)
    BY <1>3, <2>1 DEF NodeInsert
  <2>4. DOMAIN t.nodes = DOMAIN tx[p].nodes \cup {n.id}
    BY <2>2 DEF With
  <2>5. n.id \notin DOMAIN g.nodes
    BY <1>3 DEF HasNode, View, Over
  <2>6. \A q \in Procs \ {p} : n.id \notin DOMAIN tx[q].nodes
    BY <1>1 DEF WaitsFor
  <2>7. DOMAIN t.facts \subseteq DOMAIN t.nodes \cup DOMAIN g.nodes
    BY <2>2, <2>4 DEF Grounded
  <2>8. DOMAIN t.nodes \cap DOMAIN g.nodes = {}
    BY <2>4, <2>5 DEF Grounded
  <2>9. \A q \in Procs \ {p} : DOMAIN t.nodes \cap DOMAIN tx[q].nodes = {}
    BY <2>4, <2>6 DEF Grounded
  <2> QED BY <2>2, <2>3, <2>7, <2>8, <2>9, WriteGround
<1> QED BY <1>2, <1>3

LEMMA FactInsertGround ==
  ASSUME IInv, Grounded, NEW p \in Procs, FactInsert(p)
  PROVE  Grounded'
<1> PICK n : n = Head(todo[p]).node
  OBVIOUS
<1>1. CASE HasFact(p, n)
  BY <1>1, CheckGround DEF FactInsert
<1>2. CASE Ends(p, "unique") \/ Ends(p, "foreign key")
  BY <1>2, QuitGround DEF Ends
<1>3. PICK t : t = [tx[p] EXCEPT
             !.facts = With(@, n.id, n),
             !.shares = @ \cup {NodeLock(n.id)}
                        \cup (IF n.supersedes = NoId THEN {}
                              ELSE {FactLock(n.supersedes)})]
  OBVIOUS
<1>4. CASE GoesOn(p, 1, t) /\ HasNode(p, n)
  <2>1. IsTx(tx[p])
    BY DEF IInv, Shaped
  <2>2. /\ IsTx(t) /\ t.nodes = tx[p].nodes
        /\ t.facts = With(tx[p].facts, n.id, n)
    BY <2>1, <1>3 DEF TxFields, IsTx
  <2>3. DOMAIN t.facts = DOMAIN tx[p].facts \cup {n.id}
    BY <2>2 DEF With
  <2>4. n.id \in DOMAIN tx[p].nodes \cup DOMAIN g.nodes
    BY <1>4 DEF HasNode, View, Over
  <2>5. DOMAIN t.facts \subseteq DOMAIN t.nodes \cup DOMAIN g.nodes
    BY <2>2, <2>3, <2>4 DEF Grounded
  <2>6. /\ DOMAIN t.nodes \cap DOMAIN g.nodes = {}
        /\ \A q \in Procs \ {p} : DOMAIN t.nodes \cap DOMAIN tx[q].nodes = {}
    BY <2>2 DEF Grounded
  <2> QED BY <1>4, <2>2, <2>5, <2>6, WriteGround
<1> QED BY <1>1, <1>2, <1>3, <1>4 DEF FactInsert

LEMMA EdgeInsertGround ==
  ASSUME IInv, Grounded, NEW p \in Procs, EdgeInsert(p)
  PROVE  Grounded'
<1> PICK s : s = Head(todo[p])
  OBVIOUS
<1>1. ASSUME NEW fault, Checks(p, fault) PROVE Grounded'
  BY <1>1, CheckGround
<1>2. PICK e : e = [s.edge EXCEPT !.at = IF @ = Current THEN began[p] ELSE @]
  OBVIOUS
<1>3. PICK t : t = [tx[p] EXCEPT
               !.edges = @ \cup {e},
               !.shares = @ \cup {NodeLock(e.source), NodeLock(e.target)}]
  OBVIOUS
<1>4. ASSUME GoesOn(p, 1, t) PROVE Grounded'
  <2>1. IsTx(tx[p])
    BY DEF IInv, Shaped
  <2>2. IsTx(t) /\ t.nodes = tx[p].nodes /\ t.facts = tx[p].facts
    BY <1>3, <2>1 DEF TxFields, IsTx
  <2>3. /\ DOMAIN t.facts \subseteq DOMAIN t.nodes \cup DOMAIN g.nodes
        /\ DOMAIN t.nodes \cap DOMAIN g.nodes = {}
        /\ \A q \in Procs \ {p} : DOMAIN t.nodes \cap DOMAIN tx[q].nodes = {}
    BY <2>2 DEF Grounded
  <2> QED BY <1>4, <2>2, <2>3, WriteGround
<1> QED BY <1>1, <1>2, <1>3, <1>4 DEF EdgeInsert

\* The commit only adds.
LEMMA CommitGround ==
  ASSUME IInv, Grounded, NEW p \in Procs, CommitTx(p)
  PROVE  Grounded' /\ Grown(g, g')
<1>1. /\ g' = View(p) /\ tx'[p] = Closed
      /\ \A q \in Procs \ {p} : tx'[q] = tx[q]
  BY DEF CommitTx, IInv, Shaped
<1>2. /\ g'.nodes = Over(tx[p].nodes, g.nodes)
      /\ g'.facts = Over(tx[p].facts, g.facts)
  BY <1>1 DEF View
<1>3. /\ DOMAIN g'.nodes = DOMAIN tx[p].nodes \cup DOMAIN g.nodes
      /\ DOMAIN g'.facts = DOMAIN tx[p].facts \cup DOMAIN g.facts
  BY <1>2 DEF Over
<1>4. DOMAIN g'.facts \subseteq DOMAIN g'.nodes
  BY <1>3 DEF Grounded
<1>5. ASSUME NEW q \in Procs
      PROVE  /\ DOMAIN tx'[q].facts \subseteq DOMAIN tx'[q].nodes \cup DOMAIN g'.nodes
             /\ DOMAIN tx'[q].nodes \cap DOMAIN g'.nodes = {}
  <2>1. CASE q = p
    BY <1>1, <2>1, ClosedHasNothing DEF NoTables
  <2>2. CASE q # p
    BY <1>1, <1>3, <2>2 DEF Grounded
  <2> QED BY <2>1, <2>2
<1>6. ASSUME NEW q \in Procs, NEW r \in Procs, q # r
      PROVE  DOMAIN tx'[q].nodes \cap DOMAIN tx'[r].nodes = {}
  <2>1. CASE q = p \/ r = p
    BY <1>1, <2>1, ClosedHasNothing DEF NoTables
  <2>2. CASE q # p /\ r # p
    BY <1>1, <1>6, <2>2 DEF Grounded
  <2> QED BY <2>1, <2>2
<1>7. Extends(g.nodes, g'.nodes)
  <2>1. DOMAIN tx[p].nodes \cap DOMAIN g.nodes = {}
    BY DEF Grounded
  <2> QED BY <1>2, <2>1 DEF Extends, Over
<1>8. Extends(g.facts, g'.facts)
  <2>1. DOMAIN tx[p].facts \cap DOMAIN g.facts = {}
    BY DEF IInv, Chains
  <2> QED BY <1>2, <2>1 DEF Extends, Over
<1> QED BY <1>4, <1>5, <1>6, <1>7, <1>8 DEF Grounded, Grown

LEMMA DamageGround ==
  ASSUME IInv, Grounded, Damage
  PROVE  Grounded'
<1>1. PICK id \in DOMAIN g.nodes :
        \/ g' = [g EXCEPT !.nodes[id].payload = Altered(@)]
        \/ g' = [g EXCEPT !.facts[id] = Altered(@)]
        \/ g' = [g EXCEPT !.facts = [i \in DOMAIN @ \ {id} |-> @[i]]]
  BY DEF Damage
<1>2. g = [x \in {"nodes", "facts", "edges"} |-> g[x]]
  BY DEF IInv, Shaped
<1>3. /\ DOMAIN g'.nodes = DOMAIN g.nodes /\ DOMAIN g'.facts \subseteq DOMAIN g.facts
  BY <1>1, <1>2
<1>4. UNCHANGED tx
  BY DEF Damage
<1> QED BY <1>3, <1>4, GroundSame DEF SameTables

LEMMA NextGround ==
  ASSUME IInv, Grounded, [Next]_vars
  PROVE  Grounded'
<1>1. ASSUME NEW p \in Procs, Statements(p) PROVE Grounded'
  <2>1. CASE NodeInsert(p)
    BY <2>1, NodeInsertGround
  <2>2. CASE FactInsert(p)
    BY <2>2, FactInsertGround
  <2>3. CASE Revise(p) \/ SourceRead(p)
    <3>1. ASSUME NEW how, Ends(p, how) PROVE Grounded'
      BY <3>1, QuitGround DEF Ends
    <3>2. ASSUME NEW locks, GoesOn(p, 1, [tx[p] EXCEPT !.locks = locks])
          PROVE  Grounded'
      <4>1. PICK t : t = [tx[p] EXCEPT !.locks = locks]
        OBVIOUS
      <4>2. IsTx(tx[p])
        BY DEF IInv, Shaped
      <4>3. IsTx(t) /\ SameTables(t, tx[p])
        BY <4>1, <4>2 DEF IsTx, TxFields, SameTables
      <4> QED BY <3>2, <4>1, <4>3, LockGround
    <3> QED BY <2>3, <3>1, <3>2 DEF Revise, SourceRead
  <2>4. CASE EdgeInsert(p)
    BY <2>4, EdgeInsertGround
  <2>5. CASE CommitTx(p)
    BY <2>5, CommitGround
  <2>6. CASE Reads(p)
    <3>1. CASE Quits(p)
      BY <3>1, QuitGround DEF Quits
    <3>2. CASE Passes(p)
      BY <3>2, TxGround DEF Passes
    <3> QED BY <2>6, <3>1, <3>2, ReadForms DEF IInv
  <2> QED BY <1>1, <2>1, <2>2, <2>3, <2>4, <2>5, <2>6 DEF Statements, Reads
<1>2. CASE Tick
  BY <1>2, TxGround DEF Tick
<1>3. CASE Damage
  BY <1>3, DamageGround
<1>4. ASSUME NEW p \in Procs, Crash(p) PROVE Grounded'
  BY <1>4, QuitGround DEF Crash
<1>5. ASSUME NEW p \in Procs, NEW name, Call(p, name) PROVE Grounded'
  BY <1>5, TxGround DEF Call
<1>6. CASE UNCHANGED vars
  BY <1>6, TxGround DEF vars
<1> QED BY <1>1, <1>2, <1>3, <1>4, <1>5, <1>6 DEF Next

LEMMA InitGround ==
  ASSUME Init
  PROVE  Grounded
<1>1. PICK s \in Scenarios :
        g = [nodes |-> [id \in {n.id : n \in s.stored} |->
                          Row(CHOOSE n \in s.stored : n.id = id)],
             facts |-> [id \in {n.id : n \in {m \in s.stored :
                                                m.kind \notin Bare}} |->
                          CHOOSE n \in s.stored : n.id = id],
             edges |-> s.edges]
  BY DEF Init
<1>2. PICK all, ids :
        /\ all = {n.id : n \in s.stored}
        /\ ids = {n.id : n \in {m \in s.stored : m.kind \notin Bare}}
  OBVIOUS
<1>3. DOMAIN g.nodes = all /\ DOMAIN g.facts = ids
  BY <1>1, <1>2
<1>4. ids \subseteq all
  BY <1>2
<1>5. \A p \in Procs : tx[p] = Closed
  BY DEF Init
<1> QED BY <1>3, <1>4, <1>5, ClosedHasNothing DEF Grounded, NoTables

-----------------------------------------------------------------------------
(* What is left of a read, and what it has read so far.                    *)

\* After the first statement of u comes one of that kind, and u ends with z.
Ahead(u, kind, z) ==
  Tail(u) # <<>> /\ Head(Tail(u)).do = kind /\ Last(Tail(u)) = z

\* A call with the operation op has the statements u left.
Tasks(u, op) ==
  LET h == Head(u)
      z == Last(u)
  IN /\ h.do \in Exploring <=> op \in Answering
     /\ h.do = "walk up" => /\ z.do = "candidates" /\ z.id = h.id
                            /\ Ahead(u, "walk down", z)
     /\ h.do = "walk down" => z.do = "candidates" /\ Ahead(u, "candidates", z)
     /\ h.do = "links" => /\ z.do = "lineage" /\ z.id = h.id /\ z.of = h.of
                          /\ Ahead(u, "lineage", z)
     /\ h.do \in {"candidates", "lineage"} => z = h

LEMMA RestEnds ==
  ASSUME NEW S, NEW u \in Seq(S), NEW s, IsProgram(s), NEW c, Rest(u, s, c),
         u # <<>>
  PROVE  Last(u) = s[Len(s)] /\ (c < Len(s) => Tail(u) # <<>>)
<1>1. Len(u) \in Nat \ {0}
  BY EmptySeq
<1>2. c \in Nat \ {0} /\ Len(u) + c = Len(s) + 1
  BY DEF Rest
<1>3. Len(s) \in Nat
  BY ProgramShape
<1>4. Len(u) \in 1 .. Len(u) /\ c + Len(u) - 1 = Len(s)
  BY <1>1, <1>2, <1>3
<1>5. u[Len(u)] = s[c + Len(u) - 1]
  BY <1>4 DEF Rest
<1>6. ASSUME c < Len(s) PROVE Tail(u) # <<>>
  <2>1. Rest(Tail(u), s, c + 1) /\ Tail(u) \in Seq(S)
    BY RestTail
  <2>2. PICK v, k, n : v = Tail(u) /\ k = Len(v) /\ n = Len(s)
    OBVIOUS
  <2>3. k + (c + 1) = n + 1 /\ k \in Nat
    BY <2>1, <2>2 DEF Rest
  <2>4. n \in Nat /\ c \in Nat /\ c < n
    BY <1>2, <1>3, <1>6, <2>2
  <2>5. k # 0
    BY <2>3, <2>4
  <2>6. v # <<>>
    BY <2>2, <2>5
  <2> QED BY <2>2, <2>6
<1> QED BY <1>4, <1>5, <1>6 DEF Last

LEMMA RestAhead ==
  ASSUME NEW S, NEW u \in Seq(S), NEW s, IsProgram(s), NEW c, Rest(u, s, c),
         u # <<>>, NEW k, k = c + 1, k <= Len(s)
  PROVE  Ahead(u, s[k].do, s[Len(s)])
<1>0. c < Len(s)
  <2>1. c \in Nat /\ Len(s) \in Nat
    BY ProgramShape DEF Rest
  <2> QED BY <2>1
<1>1. Tail(u) # <<>>
  BY <1>0, RestEnds
<1>2. Tail(u) \in Seq(S) /\ Rest(Tail(u), s, k)
  BY RestTail
<1>3. Head(Tail(u)) = s[k]
  BY <1>1, <1>2, RestHead
<1>4. Last(Tail(u)) = s[Len(s)]
  BY <1>1, <1>2, RestEnds
<1> QED BY <1>1, <1>3, <1>4 DEF Ahead

LEMMA ReadTasks ==
  ASSUME NEW name \in DOMAIN Programs, NEW t \in 1 .. MaxNow,
         NEW s, s = Programs[name][t], NEW u \in Seq(ToSet(s)), NEW c,
         Rest(u, s, c), u # <<>>
  PROVE  Tasks(u, Requests[name].op)
<1>1. IsProgram(s)
  BY EveryProgram
<1>2. c \in DOMAIN s /\ Head(u) = s[c] /\ Last(u) = s[Len(s)]
  BY <1>1, RestHead, RestEnds
<1>3. PICK r, h, z : r = Requests[name] /\ h = Head(u) /\ z = Last(u)
  OBVIOUS
<1>4. \/ r.op \notin Answering /\ \A i \in DOMAIN s : Good(s[i])
      \/ /\ r.op = "latest_evidence_at" /\ s = ReadLatestEvidence(r.id, r.cutoff)
      \/ /\ r.op \in ReadingLinks
         /\ \E kind : s = ReadEvidence(kind, r.id, r.cutoff)
  BY <1>3, ProgramContents
<1>5. CASE r.op \notin Answering /\ \A i \in DOMAIN s : Good(s[i])
  <2>1. h.do \notin Exploring
    BY <1>2, <1>3, <1>5 DEF Good
  <2> QED BY <1>3, <1>5, <2>1 DEF Tasks, Exploring
<1>6. CASE r.op = "latest_evidence_at" /\ s = ReadLatestEvidence(r.id, r.cutoff)
  <2>1. PICK x, y, w : /\ x = [do |-> "walk up", id |-> r.id]
                       /\ y = [do |-> "walk down"]
                       /\ w = [do |-> "candidates", id |-> r.id,
                               cutoff |-> r.cutoff]
    OBVIOUS
  <2>2. s = <<x, y, w>>
    BY <1>6, <2>1 DEF ReadLatestEvidence
  <2>3. /\ Len(s) = 3 /\ DOMAIN s = 1 .. 3
        /\ s[1] = x /\ s[2] = y /\ s[3] = w
    BY <2>2
  <2>4. z = w /\ c \in 1 .. 3 /\ h = s[c]
    BY <1>2, <1>3, <2>3
  <2>5. /\ x.do = "walk up" /\ x.id = r.id /\ y.do = "walk down"
        /\ w.do = "candidates" /\ w.id = r.id
    BY <2>1
  <2>6. CASE c = 1
    <3>1. Ahead(u, s[2].do, s[Len(s)])
      BY <1>1, <2>3, <2>6, RestAhead
    <3>2. s[2].do = "walk down" /\ s[Len(s)] = z
      BY <2>3, <2>4, <2>5
    <3>3. Ahead(u, "walk down", z)
      BY <3>1, <3>2
    <3> QED BY <1>3, <1>6, <2>3, <2>4, <2>5, <2>6, <3>3
            DEF Tasks, Exploring, Answering
  <2>7. CASE c = 2
    <3>1. Ahead(u, s[3].do, s[Len(s)])
      BY <1>1, <2>3, <2>7, RestAhead
    <3>2. s[3].do = "candidates" /\ s[Len(s)] = z
      BY <2>3, <2>4, <2>5
    <3>3. Ahead(u, "candidates", z)
      BY <3>1, <3>2
    <3> QED BY <1>3, <1>6, <2>3, <2>4, <2>5, <2>7, <3>3
            DEF Tasks, Exploring, Answering
  <2>8. CASE c = 3
    BY <1>3, <1>6, <2>3, <2>4, <2>5, <2>8 DEF Tasks, Exploring, Answering
  <2>9. c = 1 \/ c = 2 \/ c = 3
    BY <2>4
  <2> QED BY <2>6, <2>7, <2>8, <2>9
<1>7. ASSUME r.op \in ReadingLinks, NEW kind, s = ReadEvidence(kind, r.id, r.cutoff)
      PROVE  Tasks(u, r.op)
  <2>1. PICK x, w : /\ x = [do |-> "links", of |-> kind, id |-> r.id]
                    /\ w = [do |-> "lineage", of |-> kind, id |-> r.id,
                            cutoff |-> r.cutoff]
    OBVIOUS
  <2>2. s = <<x, w>>
    BY <1>7, <2>1 DEF ReadEvidence
  <2>3. Len(s) = 2 /\ DOMAIN s = 1 .. 2 /\ s[1] = x /\ s[2] = w
    BY <2>2
  <2>4. z = w /\ c \in 1 .. 2 /\ h = s[c]
    BY <1>2, <1>3, <2>3
  <2>5. /\ x.do = "links" /\ x.id = r.id /\ w.do = "lineage" /\ w.id = r.id
        /\ x.of = kind /\ w.of = kind
    BY <2>1
  <2>6. CASE c = 1
    <3>1. Ahead(u, s[2].do, s[Len(s)])
      BY <1>1, <2>3, <2>6, RestAhead
    <3>2. s[2].do = "lineage" /\ s[Len(s)] = z
      BY <2>3, <2>4, <2>5
    <3>3. Ahead(u, "lineage", z)
      BY <3>1, <3>2
    <3> QED BY <1>3, <1>7, <2>3, <2>4, <2>5, <2>6, <3>3
            DEF Tasks, Exploring, Answering
  <2>7. CASE c = 2
    BY <1>3, <1>7, <2>3, <2>4, <2>5, <2>7 DEF Tasks, Exploring, Answering
  <2>8. c = 1 \/ c = 2
    BY <2>4
  <2> QED BY <2>6, <2>7, <2>8
<1> QED BY <1>3, <1>4, <1>5, <1>6, <1>7

\* A read begins with a walk or with its links.
LEMMA ReadsBegin ==
  ASSUME NEW name \in DOMAIN Programs, NEW t \in 1 .. MaxNow
  PROVE  Head(Programs[name][t]).do \notin {"walk down", "candidates", "lineage"}
<1>1. PICK s, r : s = Programs[name][t] /\ r = Requests[name]
  OBVIOUS
<1>2. IsProgram(s)
  BY <1>1, EveryProgram
<1>3. Head(s) = s[1] /\ 1 \in DOMAIN s
  <2>1. Len(s) \in Nat \ {0} /\ DOMAIN s = 1 .. Len(s)
    BY <1>2, ProgramShape
  <2>2. s \in Seq(ToSet(s)) /\ s # <<>>
    BY <1>2 DEF IsProgram
  <2> QED BY <2>1, <2>2
<1>4. \/ \A i \in DOMAIN s : Good(s[i])
      \/ s = ReadLatestEvidence(r.id, r.cutoff)
      \/ \E kind : s = ReadEvidence(kind, r.id, r.cutoff)
  BY <1>1, ProgramContents
<1>5. CASE \A i \in DOMAIN s : Good(s[i])
  BY <1>1, <1>3, <1>5 DEF Good, Exploring
<1>6. CASE s = ReadLatestEvidence(r.id, r.cutoff)
  <2>1. s[1].do = "walk up"
    BY <1>6 DEF ReadLatestEvidence
  <2> QED BY <1>1, <1>3, <2>1
<1>7. CASE \E kind : s = ReadEvidence(kind, r.id, r.cutoff)
  <2>1. s[1].do = "links"
    BY <1>7 DEF ReadEvidence
  <2> QED BY <1>1, <1>3, <2>1
<1> QED BY <1>4, <1>5, <1>6, <1>7

LEMMA TasksLeft ==
  ASSUME NEW p \in Procs, Standing(p), todo[p] # <<>>
  PROVE  Tasks(todo[p], Requests[call[p]].op)
<1>1. PICK s, c : Runs(p, s, c)
  BY BusyRuns
<1>2. PICK t \in 1 .. MaxNow : s = Programs[call[p]][t]
  BY <1>1 DEF Runs
<1>3. /\ call[p] \in DOMAIN Programs /\ todo[p] \in Seq(ToSet(s))
      /\ Rest(todo[p], s, c)
  BY <1>1 DEF Runs
<1> QED BY <1>2, <1>3, ReadTasks

LEMMA TasksLeftThen ==
  ASSUME NEW p \in Procs, Standing(p)', todo'[p] # <<>>
  PROVE  Tasks(todo'[p], Requests[call'[p]].op)
<1>1. PICK s, c : Runs(p, s, c)'
  BY DEF Standing, Idle
<1>2. PICK t \in 1 .. MaxNow : s = Programs[call'[p]][t]
  BY <1>1 DEF Runs
<1>3. /\ call'[p] \in DOMAIN Programs /\ todo'[p] \in Seq(ToSet(s))
      /\ Rest(todo'[p], s, c)
  BY <1>1 DEF Runs
<1> QED BY <1>2, <1>3, ReadTasks

\* What a read that has the statements u left knows, in m, of the database d:
\* while it walks, a part of the chain from its root on, and the answer of this
\* very moment; then all of the chain that there was at one moment, and the
\* answer of that one.  Links only become more.
Knows(d, u, m, all) ==
  LET h == Head(u)
      z == Last(u)
  IN /\ h.do = "walk down" =>
          /\ z.id \in DOMAIN d.facts /\ Grows(d, Root(d, z.id), m)
          /\ LatestEvidenceAt(d, z.id, z.cutoff) \in all
     /\ h.do = "candidates" =>
          m \subseteq DOMAIN d.facts /\ AnswerOf(d, m, z.cutoff) \in all
     /\ h.do = "lineage" => UNION m \subseteq LinksOf(d, z)
Reader(p) == todo[p] # <<>> => Knows(g, todo[p], mem[p], possible[p])

RInv == /\ DOMAIN mem = Procs /\ DOMAIN possible = Procs
        /\ \A p \in Procs : Reader(p)
        /\ ReadsAreAtomic

\* A commit of another process adds rows, an answer, and links.
LEMMA KnowsMore ==
  ASSUME NEW d, Sane(d), NEW e, Sane(e), Grown(d, e), d.edges \subseteq e.edges,
         DOMAIN d.facts \subseteq DOMAIN d.nodes,
         NEW u, NEW op, Tasks(u, op), NEW m, NEW all, Knows(d, u, m, all),
         NEW more, all \subseteq more,
         m # {} /\ Last(u).do = "candidates" => Atomic(Last(u), e) \in more
  PROVE  Knows(e, u, m, more)
<1>1. PICK h, z : h = Head(u) /\ z = Last(u)
  OBVIOUS
<1>2. /\ DOMAIN d.facts \subseteq DOMAIN e.facts
      /\ \A i \in DOMAIN d.facts : e.facts[i] = d.facts[i]
  BY DEF Grown, Extends
<1>3. ASSUME h.do = "walk down"
      PROVE  /\ z.id \in DOMAIN e.facts /\ Grows(e, Root(e, z.id), m)
             /\ LatestEvidenceAt(e, z.id, z.cutoff) \in more
  <2>1. z.id \in DOMAIN d.facts /\ Grows(d, Root(d, z.id), m)
    BY <1>1, <1>3 DEF Knows
  <2>2. Root(e, z.id) = Root(d, z.id)
    BY <2>1, RootStays
  <2>3. Grows(e, Root(e, z.id), m)
    BY <1>2, <2>1, <2>2 DEF Grows
  <2>4. z.do = "candidates"
    BY <1>1, <1>3 DEF Tasks
  <2>5. m # {}
    BY <2>1 DEF Grows
  <2>6. Atomic(z, e) \in more
    BY <1>1, <2>4, <2>5
  <2> QED BY <1>2, <2>1, <2>3, <2>4, <2>6 DEF Atomic
<1>4. ASSUME h.do = "candidates"
      PROVE  m \subseteq DOMAIN e.facts /\ AnswerOf(e, m, z.cutoff) \in more
  <2>1. m \subseteq DOMAIN d.facts /\ AnswerOf(d, m, z.cutoff) \in all
    BY <1>1, <1>4 DEF Knows
  <2>2. AnswerOf(e, m, z.cutoff) = AnswerOf(d, m, z.cutoff)
    BY <2>1, AnswerStays
  <2> QED BY <1>2, <2>1, <2>2
<1>5. ASSUME h.do = "lineage" PROVE UNION m \subseteq LinksOf(e, z)
  <2>1. UNION m \subseteq LinksOf(d, z)
    BY <1>1, <1>5 DEF Knows
  <2>2. \A id, type : EdgesOf(d, id, type) \subseteq EdgesOf(e, id, type)
    BY DEF EdgesOf
  <2>3. LinksOf(d, z) \subseteq LinksOf(e, z)
    BY <2>2 DEF LinksOf, MetricLinks, ClaimLinks
  <2> QED BY <2>1, <2>3
<1> QED BY <1>1, <1>3, <1>4, <1>5 DEF Knows

-----------------------------------------------------------------------------
(* The steps, as the readers see them.                                     *)

LEMMA NotTorn ==
  ASSUME ReadsAreAtomic, NEW p, NEW how, how # "torn",
         outcome' = [outcome EXCEPT ![call[p]] = how]
  PROVE  ReadsAreAtomic'
BY DEF ReadsAreAtomic

\* Only the reader p may notice.
OnlyFor(p) ==
  /\ g' = g /\ DOMAIN mem' = Procs /\ DOMAIN possible' = Procs
  /\ \A q \in Procs \ {p} : /\ todo'[q] = todo[q] /\ mem'[q] = mem[q]
                            /\ possible'[q] = possible[q]

LEMMA OneReader ==
  ASSUME RInv, NEW p \in Procs, OnlyFor(p), Reader(p)', ReadsAreAtomic'
  PROVE  RInv'
<1>1. ASSUME NEW q \in Procs PROVE Reader(q)'
  <2>1. CASE q = p
    BY <2>1
  <2>2. CASE q # p
    <3>1. Reader(q)
      BY DEF RInv
    <3> QED BY <2>2, <3>1 DEF Reader, OnlyFor
  <2> QED BY <2>1, <2>2
<1> QED BY <1>1 DEF RInv, OnlyFor

LEMMA LeavesReaders ==
  ASSUME IInv, RInv, NEW p \in Procs, Leaves(p), ReadsAreAtomic'
  PROVE  RInv'
<1>1. OnlyFor(p) /\ todo'[p] = <<>>
  BY DEF IInv, Shaped, RInv, Leaves, OnlyFor
<1>2. Reader(p)'
  BY <1>1 DEF Reader
<1> QED BY <1>1, <1>2, OneReader

LEMMA EndsReaders ==
  ASSUME IInv, RInv, NEW p \in Procs, NEW how, how # "torn", Ends(p, how)
  PROVE  RInv'
<1>1. ReadsAreAtomic'
  BY NotTorn DEF RInv, Ends
<1> QED BY <1>1, LeavesReaders DEF Ends

\* A call that writes has no statement of a read.
LEMMA WriterGoesOn ==
  ASSUME IInv, IInv', NEW p \in Procs, todo[p] # <<>>,
         Head(todo[p]).do \notin Exploring, call'[p] = call[p]
  PROVE  Reader(p)'
<1>1. SUFFICES ASSUME todo'[p] # <<>>
               PROVE  Knows(g', todo'[p], mem'[p], possible'[p])
  BY DEF Reader
<1>2. Tasks(todo[p], Requests[call[p]].op)
  BY TasksLeft DEF IInv
<1>3. Tasks(todo'[p], Requests[call'[p]].op)
  <2>1. Standing(p)'
    BY DEF IInv
  <2> QED BY <1>1, <2>1, TasksLeftThen
<1>4. Requests[call[p]].op \notin Answering
  BY <1>2 DEF Tasks
<1>5. Head(todo'[p]).do \notin Exploring
  BY <1>3, <1>4 DEF Tasks
<1> QED BY <1>5 DEF Knows, Exploring

LEMMA GoesOnReaders ==
  ASSUME IInv, IInv', RInv, NEW p \in Procs, todo[p] # <<>>,
         Head(todo[p]).do \notin Exploring, NEW k, NEW t, GoesOn(p, k, t)
  PROVE  RInv'
<1>1. OnlyFor(p)
  BY DEF IInv, Shaped, RInv, GoesOn, OnlyFor, reader
<1>2. ReadsAreAtomic'
  BY DEF GoesOn, RInv, ReadsAreAtomic
<1>3. Reader(p)'
  BY WriterGoesOn DEF GoesOn
<1> QED BY <1>1, <1>2, <1>3, OneReader

LEMMA ChecksReaders ==
  ASSUME IInv, IInv', RInv, NEW p \in Procs, todo[p] # <<>>,
         Head(todo[p]).do \notin Exploring, NEW fault, fault # "torn",
         Checks(p, fault)
  PROVE  RInv'
BY EndsReaders, GoesOnReaders DEF Checks

LEMMA DecidesReaders ==
  ASSUME IInv, IInv', RInv, NEW p \in Procs, todo[p] # <<>>,
         Head(todo[p]).do \notin Exploring, NEW node, NEW fact,
         Decides(p, node, fact)
  PROVE  RInv'
<1>1. Replay(p, Head(todo[p]).node) # "torn"
  BY DEF Replay
<1> QED BY <1>1, EndsReaders, GoesOnReaders DEF Decides

LEMMA WritesReaders ==
  ASSUME IInv, IInv', RInv, NEW p \in Procs,
         \/ NodeInsert(p) \/ FactInsert(p) \/ Revise(p) \/ SourceRead(p)
         \/ EdgeInsert(p)
  PROVE  RInv'
<1> PICK s : s = Head(todo[p])
  OBVIOUS
<1> USE DEF Executes, Exploring
<1>1. CASE NodeInsert(p)
  <2>1. todo[p] # <<>> /\ s.do \notin Exploring
    BY <1>1 DEF NodeInsert
  <2>2. \/ \E t : GoesOn(p, 1, t)
        \/ \E fault : fault # "torn" /\ Checks(p, fault)
    BY <1>1 DEF NodeInsert
  <2> QED BY <2>1, <2>2, GoesOnReaders, ChecksReaders
<1>2. CASE FactInsert(p)
  <2>1. todo[p] # <<>> /\ s.do \notin Exploring
    BY <1>2 DEF FactInsert
  <2>2. \/ \E t : GoesOn(p, 1, t)
        \/ \E fault : fault # "torn" /\ Checks(p, fault)
        \/ \E how : how # "torn" /\ Ends(p, how)
    BY <1>2 DEF FactInsert
  <2> QED BY <2>1, <2>2, GoesOnReaders, ChecksReaders, EndsReaders
<1>3. CASE Revise(p)
  <2>1. todo[p] # <<>> /\ s.do \notin Exploring
    BY <1>3 DEF Revise
  <2>2. Revision(View(p), s.node) # "torn"
    BY DEF Revision
  <2>3. \/ \E t : GoesOn(p, 1, t)
        \/ \E how : how # "torn" /\ Ends(p, how)
    BY <1>3, <2>2 DEF Revise
  <2> QED BY <2>1, <2>3, GoesOnReaders, EndsReaders
<1>4. CASE SourceRead(p)
  <2>1. todo[p] # <<>> /\ s.do \notin Exploring
    BY <1>4 DEF SourceRead
  <2>2. Replay(p, s.node) # "torn"
    BY DEF Replay
  <2>3. \/ \E t : GoesOn(p, 1, t)
        \/ \E how : how # "torn" /\ Ends(p, how)
    BY <1>4, <2>2 DEF SourceRead
  <2> QED BY <2>1, <2>3, GoesOnReaders, EndsReaders
<1>5. CASE EdgeInsert(p)
  <2>1. todo[p] # <<>> /\ s.do \notin Exploring
    BY <1>5 DEF EdgeInsert
  <2>2. \/ \E t : GoesOn(p, 1, t)
        \/ \E fault : fault # "torn" /\ Checks(p, fault)
    BY <1>5 DEF EdgeInsert
  <2> QED BY <2>1, <2>2, GoesOnReaders, ChecksReaders
<1> QED BY <1>1, <1>2, <1>3, <1>4, <1>5

LEMMA LooksReaders ==
  ASSUME IInv, IInv', RInv, NEW p \in Procs,
         \/ NodeRead(p) \/ FactRead(p) \/ BothRead(p) \/ TargetsRead(p)
         \/ ReachRead(p) \/ ExistingRead(p) \/ PersistedRead(p)
         \/ EndpointsRead(p) \/ Refuse(p) \/ Resolve(p) \/ Verify(p)
         \/ AbortDeadlocked(p)
  PROVE  RInv'
<1> PICK s : s = Head(todo[p])
  OBVIOUS
<1> USE DEF Executes, Exploring
<1>1. CASE NodeRead(p)
  <2>1. todo[p] # <<>> /\ s.do \notin Exploring
    BY <1>1 DEF NodeRead
  <2>2. OnlyFor(p) /\ call' = call /\ outcome' = outcome
    BY <1>1 DEF NodeRead, IInv, Shaped, RInv, OnlyFor
  <2>3. ReadsAreAtomic'
    BY <2>2 DEF RInv, ReadsAreAtomic
  <2>4. Reader(p)'
    BY <2>1, <2>2, WriterGoesOn
  <2> QED BY <2>2, <2>3, <2>4, OneReader
<1>2. CASE FactRead(p)
  BY <1>2, DecidesReaders DEF FactRead
<1>3. CASE BothRead(p)
  BY <1>3, DecidesReaders DEF BothRead
<1>4. CASE TargetsRead(p)
  <2>1. Misfit(View(p), s) # "torn"
    BY DEF Misfit
  <2> QED BY <1>4, <2>1, ChecksReaders DEF TargetsRead
<1>5. CASE ReachRead(p)
  BY <1>5, ChecksReaders DEF ReachRead
<1>6. CASE ExistingRead(p)
  <2>1. todo[p] # <<>> /\ s.do \notin Exploring
    BY <1>6 DEF ExistingRead
  <2>2. \/ \E k, t : GoesOn(p, k, t)
        \/ \E how : how # "torn" /\ Ends(p, how)
    BY <1>6 DEF ExistingRead
  <2> QED BY <2>1, <2>2, GoesOnReaders, EndsReaders
<1>7. CASE PersistedRead(p)
  BY <1>7, ChecksReaders DEF PersistedRead
<1>8. CASE EndpointsRead(p)
  BY <1>8, ChecksReaders DEF EndpointsRead
<1>9. CASE Refuse(p)
  BY <1>9, EndsReaders DEF Refuse
<1>10. CASE Resolve(p)
  <2>1. PICK fault : fault # "torn" /\ Checks(p, fault)
    BY <1>10 DEF Resolve
  <2> QED BY <1>10, <2>1, ChecksReaders DEF Resolve
<1>11. CASE Verify(p)
  BY <1>11, ChecksReaders DEF Verify
<1>12. CASE AbortDeadlocked(p)
  BY <1>12, EndsReaders DEF AbortDeadlocked
<1> QED BY <1>1, <1>2, <1>3, <1>4, <1>5, <1>6, <1>7, <1>8, <1>9, <1>10, <1>11,
           <1>12

LEMMA WalkUpReaders ==
  ASSUME IInv, CInv, RInv, NEW p \in Procs, WalkUp(p)
  PROVE  RInv'
<1> PICK s, z : s = Head(todo[p]) /\ z = Last(todo[p])
  OBVIOUS
<1>1. todo[p] # <<>> /\ s.do = "walk up"
  BY DEF WalkUp, Executes
<1>2. z.do = "candidates" /\ z.id = s.id /\ Ahead(todo[p], "walk down", z)
  BY <1>1, TasksLeft DEF IInv, Tasks
<1>3. CASE s.id \notin DOMAIN g.facts
  BY <1>3, EndsReaders DEF WalkUp
<1>4. CASE s.id \in DOMAIN g.facts
  <2>1. /\ OnlyFor(p) /\ outcome' = outcome
        /\ todo'[p] = Tail(todo[p]) /\ mem'[p] = {Root(g, s.id)}
        /\ possible'[p] = {Atomic(z, g)}
    BY <1>4 DEF WalkUp, IInv, Shaped, RInv, OnlyFor
  <2>2. Sane(g)
    BY GraphIsSane
  <2>3. Root(g, s.id) \in DOMAIN g.facts
    <3>1. Up(g)[s.id] \in DOMAIN g.facts /\ Root(g, s.id) = Up(g)[s.id]
      BY <1>4, <2>2, UpIs
    <3> QED BY <3>1
  <2>4. Grows(g, Root(g, z.id), {Root(g, s.id)})
    BY <1>2, <2>3 DEF Grows
  <2>5. Atomic(z, g) = LatestEvidenceAt(g, z.id, z.cutoff)
    BY <1>2 DEF Atomic
  <2>6. Head(todo'[p]).do = "walk down" /\ Last(todo'[p]) = z
    BY <1>2, <2>1 DEF Ahead
  <2>7. Knows(g, todo'[p], mem'[p], possible'[p])
    BY <1>2, <1>4, <2>1, <2>4, <2>5, <2>6 DEF Knows
  <2>8. Reader(p)'
    BY <2>1, <2>7 DEF Reader, OnlyFor
  <2>9. ReadsAreAtomic'
    BY <2>1 DEF RInv, ReadsAreAtomic
  <2> QED BY <2>1, <2>8, <2>9, OneReader
<1> QED BY <1>3, <1>4

LEMMA WalkDownReaders ==
  ASSUME IInv, CInv, RInv, NEW p \in Procs, WalkDown(p)
  PROVE  RInv'
<1> PICK s, z, M : s = Head(todo[p]) /\ z = Last(todo[p]) /\ M = mem[p]
  OBVIOUS
<1>1. todo[p] # <<>> /\ s.do = "walk down"
  BY DEF WalkDown, Executes
<1>2. z.do = "candidates" /\ Ahead(todo[p], "candidates", z)
  BY <1>1, TasksLeft DEF IInv, Tasks
<1>3. /\ z.id \in DOMAIN g.facts /\ Grows(g, Root(g, z.id), M)
      /\ LatestEvidenceAt(g, z.id, z.cutoff) \in possible[p]
  BY <1>1 DEF RInv, Reader, Knows
<1>4. PICK next : next = (UNION {SuccessorsOf(g, id) : id \in M}) \ M
  OBVIOUS
<1>5. /\ OnlyFor(p) /\ outcome' = outcome /\ possible' = possible
      /\ IF next = {} THEN todo'[p] = Tail(todo[p]) /\ mem'[p] = M
         ELSE todo'[p] = todo[p] /\ mem'[p] = M \cup next
  BY <1>4 DEF WalkDown, IInv, Shaped, RInv, OnlyFor
<1>6. Sane(g)
  BY GraphIsSane
<1>7. CASE next = {}
  <2>1. Ended(g, M)
    BY <1>4, <1>7 DEF Ended
  <2>2. AnswerOf(g, M, z.cutoff) = LatestEvidenceAt(g, z.id, z.cutoff)
    BY <1>3, <1>6, <2>1, WalkAnswers
  <2>3. M \subseteq DOMAIN g.facts
    BY <1>3 DEF Grows
  <2>4. Head(todo'[p]).do = "candidates" /\ Last(todo'[p]) = z
    BY <1>2, <1>5, <1>7 DEF Ahead
  <2>5. Knows(g, todo'[p], mem'[p], possible'[p])
    BY <1>3, <1>5, <1>7, <2>2, <2>3, <2>4 DEF Knows
  <2>6. Reader(p)'
    BY <1>5, <2>5 DEF Reader, OnlyFor
  <2>7. ReadsAreAtomic'
    BY <1>5 DEF RInv, ReadsAreAtomic
  <2> QED BY <1>5, <2>6, <2>7, OneReader
<1>8. CASE next # {}
  <2>1. next \subseteq DOMAIN g.facts
        /\ \A m \in next : g.facts[m].supersedes \in M
    BY <1>4 DEF SuccessorsOf
  <2>2. Grows(g, Root(g, z.id), M \cup next)
    BY <1>3, <2>1 DEF Grows
  <2>3. Head(todo'[p]).do = "walk down" /\ Last(todo'[p]) = z
    BY <1>1, <1>5, <1>8
  <2>4. Knows(g, todo'[p], mem'[p], possible'[p])
    BY <1>3, <1>5, <1>8, <2>2, <2>3 DEF Knows
  <2>5. Reader(p)'
    BY <1>5, <2>4 DEF Reader, OnlyFor
  <2>6. ReadsAreAtomic'
    BY <1>5 DEF RInv, ReadsAreAtomic
  <2> QED BY <1>5, <2>5, <2>6, OneReader
<1> QED BY <1>7, <1>8

LEMMA CandidatesReaders ==
  ASSUME IInv, CInv, RInv, NEW p \in Procs, Candidates(p)
  PROVE  RInv'
<1> PICK s : s = Head(todo[p])
  OBVIOUS
<1>1. todo[p] # <<>> /\ s.do = "candidates"
  BY DEF Candidates, Executes
<1>2. Last(todo[p]) = s
  BY <1>1, TasksLeft DEF IInv, Tasks
<1>3. AnswerOf(g, mem[p], s.cutoff) \in possible[p]
  BY <1>1, <1>2 DEF RInv, Reader, Knows
<1>4. Returns(p, AnswerOf(g, mem[p], s.cutoff) \in Moments(p))
  BY DEF Candidates, AnswerOf
<1>5. Ends(p, "ok")
  BY <1>3, <1>4 DEF Returns, Moments
<1> QED BY <1>5, EndsReaders

LEMMA LinksReaders ==
  ASSUME IInv, CInv, RInv, NEW p \in Procs, Links(p)
  PROVE  RInv'
<1> PICK s, z : s = Head(todo[p]) /\ z = Last(todo[p])
  OBVIOUS
<1>1. todo[p] # <<>> /\ s.do = "links"
  BY DEF Links, Executes
<1>2. /\ z.do = "lineage" /\ z.id = s.id /\ z.of = s.of
      /\ Ahead(todo[p], "lineage", z)
  BY <1>1, TasksLeft DEF IInv, Tasks
<1>3. /\ OnlyFor(p) /\ outcome' = outcome
      /\ todo'[p] = Tail(todo[p]) /\ mem'[p] = {LinksOf(g, s)}
  BY DEF Links, IInv, Shaped, RInv, OnlyFor
<1>4. Head(todo'[p]).do = "lineage" /\ Last(todo'[p]) = z
  BY <1>2, <1>3 DEF Ahead
<1>5. UNION mem'[p] \subseteq LinksOf(g, z)
  BY <1>2, <1>3 DEF LinksOf
<1>6. Knows(g, todo'[p], mem'[p], possible'[p])
  BY <1>4, <1>5 DEF Knows
<1>7. Reader(p)'
  BY <1>3, <1>6 DEF Reader, OnlyFor
<1>8. ReadsAreAtomic'
  BY <1>3 DEF RInv, ReadsAreAtomic
<1> QED BY <1>3, <1>7, <1>8, OneReader

LEMMA LineageReaders ==
  ASSUME IInv, CInv, RInv, NEW p \in Procs, LineageRead(p)
  PROVE  RInv'
<1> PICK s : s = Head(todo[p])
  OBVIOUS
<1>1. todo[p] # <<>> /\ s.do = "lineage"
  BY DEF LineageRead, Executes
<1>2. Last(todo[p]) = s
  BY <1>1, TasksLeft DEF IInv, Tasks
<1>3. PICK K, L : K = LinksOf(g, s) /\ L = UNION mem[p]
  OBVIOUS
<1>4. L \subseteq K
  BY <1>1, <1>2, <1>3 DEF RInv, Reader, Knows
<1>5. PICK a, b : a = EvidenceFrom(g, s, K) /\ b = EvidenceFrom(g, s, L)
  OBVIOUS
<1>6. a \in Moments(p)
  <2>1. Atomic(s, g) = a
    BY <1>1, <1>3, <1>5 DEF Atomic
  <2> QED BY <1>2, <2>1 DEF Moments
<1>7. \/ IsFailed(a)
      \/ ~IsFailed(b) /\ Served(b) \subseteq Served(a)
  <2>1. Sane(g)
    BY GraphIsSane
  <2> QED BY <1>3, <1>4, <1>5, <2>1, FewerLinks
<1>8. Returns(p, \E x \in Moments(p) :
                   \/ IsFailed(x)
                   \/ ~IsFailed(b) /\ Served(b) \subseteq Served(x))
  BY <1>3, <1>5 DEF LineageRead
<1>9. Ends(p, "ok")
  BY <1>6, <1>7, <1>8 DEF Returns
<1> QED BY <1>9, EndsReaders

LEMMA CommitReaders ==
  ASSUME IInv, IInv', CInv, CInv', Grounded, RInv, NEW p \in Procs, CommitTx(p)
  PROVE  RInv'
<1>1. todo[p] # <<>> /\ Head(todo[p]).do = "commit"
  BY DEF CommitTx, Executes
<1>2. /\ DOMAIN mem' = Procs /\ DOMAIN possible' = Procs
      /\ \A q \in Procs \ {p} : todo'[q] = todo[q] /\ mem'[q] = mem[q]
      /\ g' = View(p)
  BY DEF CommitTx, IInv, Shaped, RInv
<1>3. \A q \in Procs :
        possible'[q] = IF Reading(q)
                       THEN possible[q] \cup {Atomic(Last(todo[q]), g')}
                       ELSE possible[q]
  BY DEF CommitTx
<1>4. ReadsAreAtomic'
  BY NotTorn DEF CommitTx, RInv, ReadsAreAtomic
<1>5. Sane(g) /\ Grown(g, g') /\ DOMAIN g.facts \subseteq DOMAIN g.nodes
  BY GraphIsSane, CommitGround DEF Grounded
<1>6. Sane(g')
  BY DEF IInv, Chains, CInv, Sane
<1>7. g.edges \subseteq g'.edges
  BY <1>2 DEF View
<1>8. ASSUME NEW q \in Procs, q # p PROVE Reader(q)'
  <2>1. SUFFICES ASSUME todo[q] # <<>>
                 PROVE  Knows(g', todo[q], mem[q], possible'[q])
    BY <1>2, <1>8 DEF Reader
  <2>2. Tasks(todo[q], Requests[call[q]].op)
    BY <2>1, TasksLeft DEF IInv
  <2>3. Knows(g, todo[q], mem[q], possible[q])
    BY <2>1 DEF RInv, Reader
  <2>4. possible[q] \subseteq possible'[q]
    BY <1>3
  <2>5. mem[q] # {} /\ Last(todo[q]).do = "candidates" =>
          Atomic(Last(todo[q]), g') \in possible'[q]
    BY <1>3, <2>1 DEF Reading
  <2>6. PICK d, e, u, op, m, all, more :
          /\ d = g /\ e = g' /\ u = todo[q] /\ op = Requests[call[q]].op
          /\ m = mem[q] /\ all = possible[q] /\ more = possible'[q]
    OBVIOUS
  <2>7. Knows(e, u, m, more)
    BY <1>5, <1>6, <1>7, <2>2, <2>3, <2>4, <2>5, <2>6, KnowsMore
  <2> QED BY <2>6, <2>7
<1>9. Reader(p)'
  <2>1. CASE Len(todo[p]) = 1
    BY <2>1 DEF CommitTx, Reader, IInv, Shaped
  <2>2. CASE Len(todo[p]) # 1
    <3>1. call' = call
      BY <2>2 DEF CommitTx
    <3> QED BY <1>1, <3>1, WriterGoesOn DEF Exploring
  <2> QED BY <2>1, <2>2
<1> QED BY <1>2, <1>4, <1>8, <1>9 DEF RInv

LEMMA CallReaders ==
  ASSUME IInv, RInv, NEW p \in Procs, NEW name \in DOMAIN outcome, Call(p, name)
  PROVE  RInv'
<1>1. name \in DOMAIN Programs /\ now \in 1 .. MaxNow
  BY DEF IInv, Setting
<1>2. OnlyFor(p) /\ todo'[p] = Programs[name][now] /\ outcome' = outcome
  BY DEF Call, reader, IInv, Shaped, RInv, OnlyFor
<1>3. Head(todo'[p]).do \notin {"walk down", "candidates", "lineage"}
  BY <1>1, <1>2, ReadsBegin
<1>4. Reader(p)'
  BY <1>3 DEF Reader, Knows
<1>5. ReadsAreAtomic'
  BY <1>2 DEF RInv, ReadsAreAtomic
<1> QED BY <1>2, <1>4, <1>5, OneReader

LEMMA DamageReaders ==
  ASSUME IInv, RInv, Damage
  PROVE  RInv'
<1>1. \A p \in Procs : todo[p] = <<>>
  <2>1. ASSUME NEW p \in Procs PROVE Idle(p)
    <3>1. call[p] = "none"
      BY DEF Damage
    <3> QED BY <3>1, ProgramsFit DEF IInv, Standing, Runs
  <2> QED BY <2>1 DEF Idle
<1>2. UNCHANGED <<todo, mem, possible, outcome>>
  BY DEF Damage, reader
<1> QED BY <1>1, <1>2 DEF RInv, Reader, ReadsAreAtomic

LEMMA NextReaders ==
  ASSUME IInv, IInv', CInv, CInv', Grounded, RInv, [Next]_vars
  PROVE  RInv'
<1>1. ASSUME NEW p \in Procs, Statements(p) PROVE RInv'
  <2>1. CASE WalkUp(p)
    BY <2>1, WalkUpReaders
  <2>2. CASE WalkDown(p)
    BY <2>2, WalkDownReaders
  <2>3. CASE Candidates(p)
    BY <2>3, CandidatesReaders
  <2>4. CASE Links(p)
    BY <2>4, LinksReaders
  <2>5. CASE LineageRead(p)
    BY <2>5, LineageReaders
  <2>6. CASE CommitTx(p)
    BY <2>6, CommitReaders
  <2>7. CASE \/ NodeInsert(p) \/ FactInsert(p) \/ Revise(p) \/ SourceRead(p)
             \/ EdgeInsert(p)
    BY <2>7, WritesReaders
  <2>8. CASE \/ NodeRead(p) \/ FactRead(p) \/ BothRead(p) \/ TargetsRead(p)
             \/ ReachRead(p) \/ ExistingRead(p) \/ PersistedRead(p)
             \/ EndpointsRead(p) \/ Refuse(p) \/ Resolve(p) \/ Verify(p)
             \/ AbortDeadlocked(p)
    BY <2>8, LooksReaders
  <2> QED BY <1>1, <2>1, <2>2, <2>3, <2>4, <2>5, <2>6, <2>7, <2>8 DEF Statements
<1>2. CASE Tick
  BY <1>2 DEF Tick, reader, RInv, Reader, ReadsAreAtomic
<1>3. CASE Damage
  BY <1>3, DamageReaders
<1>4. ASSUME NEW p \in Procs, Crash(p) PROVE RInv'
  <2>1. Leaves(p) /\ outcome' = outcome
    BY <1>4 DEF Crash
  <2>2. ReadsAreAtomic'
    BY <2>1 DEF RInv, ReadsAreAtomic
  <2> QED BY <2>1, <2>2, LeavesReaders
<1>5. ASSUME NEW p \in Procs, NEW name \in DOMAIN outcome, Call(p, name)
      PROVE  RInv'
  BY <1>5, CallReaders
<1>6. CASE UNCHANGED vars
  BY <1>6 DEF vars, reader, RInv, Reader, ReadsAreAtomic
<1> QED BY <1>1, <1>2, <1>3, <1>4, <1>5, <1>6 DEF Next

LEMMA InitReaders ==
  ASSUME Init
  PROVE  RInv
<1>1. \A p \in Procs : todo[p] = <<>>
  BY DEF Init
<1>2. DOMAIN mem = Procs /\ DOMAIN possible = Procs
  BY DEF Init
<1>3. ReadsAreAtomic
  BY DEF Init, ReadsAreAtomic
<1> QED BY <1>1, <1>2, <1>3 DEF RInv, Reader

\* Reads of several statements are atomic: an answer with the latest evidence
\* is the one of a moment of the call, whoever extends the chain meanwhile;
\* evidence for a metric or a claim may miss what was linked meanwhile, and no
\* more.
THEOREM ReadsStayAtomic == Spec => []ReadsAreAtomic
<1> DEFINE Inv == IInv /\ CInv /\ Grounded /\ RInv
<1>1. Init => Inv
  BY InitChains, InitHolds, InitGround, InitReaders
<1>2. Inv /\ [Next]_vars => Inv'
  <2>1. SUFFICES ASSUME IInv, CInv, Grounded, RInv, [Next]_vars PROVE Inv'
    OBVIOUS
  <2>2. IInv' /\ CInv' /\ Grounded'
    BY <2>1, NextStep, NextHolds, NextGround
  <2>3. RInv'
    BY <2>1, <2>2, NextReaders
  <2> QED BY <2>2, <2>3
<1>3. Inv => ReadsAreAtomic
  BY DEF RInv
<1> QED BY <1>1, <1>2, <1>3, PTL DEF Spec

=============================================================================
