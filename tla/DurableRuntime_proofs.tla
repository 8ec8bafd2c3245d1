------------------------ MODULE DurableRuntime_proofs -----------------------
(***************************************************************************)
(* What the durable runtime commits is whole, sent once and never stale,   *)
(* for any claims, any initial graphs, any events, any dispatchers, any    *)
(* length of the log and any number of faults.                             *)
(*                                                                         *)
(* What ties the tables together is the plan of an event: a generated row  *)
(* has it as its cause, an outbox row as its key, and the event itself in  *)
(* its column `plan` from the transaction on that made them (Done).  The   *)
(* ledger says that each plan so recorded has its one row; the event in    *)
(* process is not committed, so its plan is new to all tables and INSERT   *)
(* OR IGNORE never ignores the row of a first commit.                      *)
(*                                                                         *)
(* The graph is compared with the sets of committed events it should be    *)
(* the fold of (History): a commit adds its event to the set of its rule   *)
(* and applies the action of that rule, every other step leaves both.      *)
(***************************************************************************)
EXTENDS DurableRuntime, FiniteSetTheorems, TLAPS

-----------------------------------------------------------------------------
(* Sequences that are appended to and updated in place.                    *)

IsLog(s) == \E S : s \in Seq(S)

LEMMA LogShape ==
  ASSUME NEW s, IsLog(s)
  PROVE  /\ Len(s) \in Nat /\ DOMAIN s = 1..Len(s)
         /\ DOMAIN s \subseteq Nat \ {0} /\ IsFiniteSet(DOMAIN s)
<1>1. PICK S : s \in Seq(S)
  BY DEF IsLog
<1>2. Len(s) \in Nat /\ DOMAIN s = 1..Len(s)
  BY <1>1
<1>3. IsFiniteSet(1..Len(s))
  BY <1>2, FS_Interval
<1> QED BY <1>2, <1>3

Extends(t, s, x) ==
  \E n \in Nat \ {0} :
    /\ IsLog(t) /\ n \notin DOMAIN s /\ DOMAIN t = DOMAIN s \cup {n}
    /\ t[n] = x /\ \A i \in DOMAIN s : t[i] = s[i]

LEMMA Appended ==
  \A s, x, t : IsLog(s) /\ t = Append(s, x) => Extends(t, s, x)
<1> SUFFICES ASSUME NEW s, NEW x, NEW t, IsLog(s), t = Append(s, x)
             PROVE  Extends(t, s, x)
  OBVIOUS
<1>1. PICK R : s \in Seq(R)
  BY DEF IsLog
<1> DEFINE S == R \cup {x}
<1>2. s \in Seq(S) /\ x \in S
  BY <1>1
<1> HIDE DEF S
<1> PICK n : n = Len(s) + 1
  OBVIOUS
<1>3. /\ t \in Seq(S) /\ Len(t) = n /\ t[n] = x /\ n \in Nat \ {0}
      /\ \A i \in 1..Len(s) : t[i] = s[i]
  BY <1>2
<1>4. DOMAIN s = 1..Len(s) /\ DOMAIN t = 1..n /\ Len(s) \in Nat
  BY <1>2, <1>3
<1>5. IsLog(t)
  BY <1>3 DEF IsLog
<1> QED BY <1>3, <1>4, <1>5 DEF Extends

LEMMA Updated ==
  \A s, k, x, t : IsLog(s) /\ k \in DOMAIN s /\ t = [s EXCEPT ![k] = x] =>
    /\ IsLog(t) /\ DOMAIN t = DOMAIN s /\ t[k] = x
    /\ \A i \in DOMAIN s : i # k => t[i] = s[i]
<1> SUFFICES ASSUME NEW s, NEW k, NEW x, NEW t, IsLog(s), k \in DOMAIN s,
                    t = [s EXCEPT ![k] = x]
             PROVE  /\ IsLog(t) /\ DOMAIN t = DOMAIN s /\ t[k] = x
                    /\ \A i \in DOMAIN s : i # k => t[i] = s[i]
  OBVIOUS
<1>1. PICK R : s \in Seq(R)
  BY DEF IsLog
<1>2. t \in Seq(R \cup {x})
  BY <1>1
<1>3. IsLog(t)
  BY <1>2 DEF IsLog
<1> QED BY <1>1, <1>3

-----------------------------------------------------------------------------
(* The engine decides for one of its rules or for none.                    *)

RuleIds == {"R001", "R002", "R003", "R004", "R005", "R006", "R007", "R008"}

LEMMA EightRules ==
  DOMAIN Rules = 1..8 /\ \A i \in 1..8 : Rules[i].id \in RuleIds
BY DEF Rules, Rule, RuleIds

LEMMA DecisionRange ==
  ASSUME NEW trigger, NEW ctx
  PROVE  Decision(trigger, ctx) \in RuleIds \cup {"NO_MATCH", "R401"}
<1> DEFINE S == {i \in DOMAIN Rules : /\ Rules[i].trigger = trigger
                                      /\ AllOf(Rules[i].when, ctx) # "FALSE"}
           first == CHOOSE j \in S : \A k \in S : j <= k
<1>1. S \subseteq 1..8
  BY EightRules
<1>2. CASE S = {}
  BY <1>2 DEF Decision
<1>3. CASE S # {}
  <2>1. Decision(trigger, ctx) = IF AllOf(Rules[first].when, ctx) = "UNKNOWN"
                                 THEN "R401" ELSE Rules[first].id
    BY <1>3 DEF Decision
  <2>2. \E i \in S : \A k \in S : i <= k
    <3>0. PICK x \in S : TRUE
      BY <1>3
    <3> HIDE DEF S
    <3>1. 1 \in S \/ 2 \in S \/ 3 \in S \/ 4 \in S \/ 5 \in S \/ 6 \in S
          \/ 7 \in S \/ 8 \in S
      BY <1>1, <3>0
    <3>2. \E i \in S : \A k \in S : i <= k
      BY <1>1, <3>1
    <3> QED BY <3>2 DEF S
  <2>3. first \in 1..8
    BY <1>1, <2>2
  <2> QED BY <2>1, <2>3, EightRules
<1> QED BY <1>2, <1>3

-----------------------------------------------------------------------------
(* What the rules see of the payload.                                      *)

LEMMA Merged ==
  ASSUME NEW f, NEW g, NEW path
  PROVE  /\ path \in DOMAIN Over(f, g) <=> path \in DOMAIN f \cup DOMAIN g
         /\ Value(Over(f, g), path) = IF path \in DOMAIN f THEN f[path]
                                      ELSE Value(g, path)
BY DEF Over, Value

LEMMA Nothing ==
  ASSUME NEW path
  PROVE  Value(<<>>, path) = None
BY DEF Value

LEMMA SeenPaths ==
  ASSUME NEW g, IsGraph(g), NEW payload, NEW entity, NEW seen,
         seen = Over(payload, RuleState(g, entity))
  PROVE  /\ Value(seen, "verification.claim_id")
              = Value(payload, "verification.claim_id")
         /\ Value(seen, "claim.id")
              = IF "claim.id" \in DOMAIN payload THEN payload["claim.id"]
                ELSE IF entity \in Claims THEN entity ELSE None
<1> DEFINE Facts == IF entity \in Claims THEN ClaimFacts(g, entity) ELSE <<>>
<1>1. ASSUME NEW path \in {"verification.claim_id", "claim.id"}
      PROVE  Value(RuleState(g, entity), path) = Value(Facts, path)
  <2>1. path \notin DOMAIN GraphFacts(g)
    BY DEF GraphFacts, GateFlags
  <2>2. RuleState(g, entity) = Over(GraphFacts(g), Facts)
    BY DEF RuleState
  <2> HIDE DEF Facts
  <2> QED BY <2>1, <2>2, Merged
<1>2. Value(Facts, "verification.claim_id") = None
  <2>1. CASE entity \in Claims
    <3>1. "verification.claim_id" \notin DOMAIN g.nodes[entity].data
      BY <2>1 DEF IsGraph, IsNode, ClaimData
    <3>2. Value(ClaimFacts(g, entity), "verification.claim_id") = None
      BY <3>1 DEF ClaimFacts, Value
    <3> QED BY <2>1, <3>2
  <2> QED BY <2>1, Nothing
<1>3. Value(Facts, "claim.id") = IF entity \in Claims THEN entity ELSE None
  <2>1. CASE entity \in Claims
    <3>1. Value(ClaimFacts(g, entity), "claim.id") = entity
      BY DEF ClaimFacts, Value
    <3> QED BY <2>1, <3>1
  <2> QED BY <2>1, Nothing
<1> HIDE DEF Facts
<1>4. /\ Value(seen, "verification.claim_id")
           = IF "verification.claim_id" \in DOMAIN payload
             THEN payload["verification.claim_id"] ELSE None
      /\ Value(seen, "claim.id")
           = IF "claim.id" \in DOMAIN payload THEN payload["claim.id"]
             ELSE IF entity \in Claims THEN entity ELSE None
  BY <1>1, <1>2, <1>3, Merged
<1> QED BY <1>4 DEF Value

-----------------------------------------------------------------------------
(* The inductive invariant.                                                *)

RowFields     == {"event", "cause", "status", "plan"}
ProcessFields == {"at", "event", "base", "seen", "decision", "next"}
IsRow(r)   == r = [x \in RowFields |-> r[x]]
IsEntry(r) == r = [x \in {"key", "status"} |-> r[x]]

(* p is the plan its event was committed with.                             *)
Done(p) == p.event \in Indices /\ Committed(p.event) /\ event_log[p.event].plan = p

RowsOK ==
  /\ IsLog(event_log)
  /\ \A i \in Indices : /\ IsRow(event_log[i])
                        /\ Committed(i) => event_log[i].plan.event = i

ChildrenOK ==
  /\ \A j \in Indices :
       event_log[j].cause # NoPlan =>
         /\ Done(event_log[j].cause)
         /\ event_log[j].cause.rule \notin Dispatching
         /\ \A i \in Indices : event_log[i].cause = event_log[j].cause => i = j
  /\ \A i \in Indices :
       Committed(i) /\ RuleOf(i) \notin Dispatching =>
         \E j \in Indices : event_log[j].cause = event_log[i].plan

OutboxOK ==
  /\ IsLog(outbox)
  /\ \A k \in DOMAIN outbox :
       /\ IsEntry(outbox[k])
       /\ Done(outbox[k].key) /\ outbox[k].key.rule \in Dispatching
       /\ \A i \in DOMAIN outbox : outbox[i].key = outbox[k].key => i = k
  /\ \A i \in Indices :
       Committed(i) /\ RuleOf(i) \in Dispatching =>
         \E k \in DOMAIN outbox : outbox[k].key = event_log[i].plan

AuditRow(i) == [event |-> i, status |-> "COMMITTED"]
AuditOK ==
  /\ IsLog(audit_log)
  /\ \A a \in DOMAIN audit_log :
       audit_log[a].status = "COMMITTED" =>
         /\ audit_log[a].event \in Indices /\ Committed(audit_log[a].event)
         /\ \A b \in DOMAIN audit_log : audit_log[b] = audit_log[a] => b = a
  /\ \A i \in Indices :
       Committed(i) => \E a \in DOMAIN audit_log : audit_log[a] = AuditRow(i)

Ledger == RowsOK /\ ChildrenOK /\ OutboxOK /\ AuditOK

(* The event in process is open, and was planned over the graph it names.  *)
ProcessOK ==
  /\ process = [x \in ProcessFields |-> process[x]]
  /\ process.at = "claimed" =>
       LET i == process.event
           e == event_log[i].event
       IN /\ i \in Indices /\ ~Committed(i)
          /\ process.seen = Over(e.payload, RuleState(process.base, e.entity))
          /\ process.decision = Decision(e.type, process.seen)
  /\ process.at = "committed" =>
       process.next = graph_state /\ graph.links \subseteq process.next.links

GraphsOK ==
  /\ IsGraph(graph_state) /\ IsGraph(graph)
  /\ History(graph_state)
  /\ process.at \in {"idle", "claimed"} => History(graph)

FlushOK ==
  /\ batch = [d \in Dispatchers |-> batch[d]]
  /\ sending = [d \in Dispatchers |-> sending[d]]
  /\ \A d \in Dispatchers :
       /\ batch[d] \subseteq DOMAIN outbox
       /\ batch[d] = {} => sending[d] = "no"
       /\ sending[d] = "sent" =>
            \A k \in batch[d] : Visits(d, k) => outbox[k].key \in received
  /\ \A p \in received : Done(p)
  /\ \A k \in DOMAIN outbox :
       outbox[k].status = "DISPATCHED" => outbox[k].key \in received

IInv == Ledger /\ ProcessOK /\ GraphsOK /\ FlushOK

-----------------------------------------------------------------------------
(* It implies what the run checks.                                         *)

LEMMA OneOrNone ==
  ASSUME NEW S, \A x, y \in S : x = y
  PROVE  S # {} => Cardinality(S) = 1
<1> SUFFICES ASSUME S # {} PROVE Cardinality(S) = 1
  OBVIOUS
<1>1. PICK x : S = {x}
  OBVIOUS
<1> QED BY <1>1, FS_Singleton

LEMMA LedgerIsWhole ==
  ASSUME Ledger
  PROVE  CommitIsWhole
<1> DEFINE audits(i)   == {a \in DOMAIN audit_log : audit_log[a] = AuditRow(i)}
           rows(i)     == {k \in DOMAIN outbox : outbox[k].key.event = i}
           children(i) == {j \in Indices : /\ event_log[j].cause # NoPlan
                                           /\ event_log[j].cause.event = i}
<1> SUFFICES ASSUME NEW i \in Indices
             PROVE  IF Committed(i)
                    THEN /\ Cardinality(audits(i)) = 1
                         /\ Cardinality(rows(i))
                              = IF RuleOf(i) \in Dispatching THEN 1 ELSE 0
                         /\ Cardinality(children(i))
                              = IF RuleOf(i) \in Dispatching THEN 0 ELSE 1
                    ELSE audits(i) = {} /\ rows(i) = {} /\ children(i) = {}
  BY DEF CommitIsWhole, AuditRow
<1>1. \A a \in audits(i) : Committed(i) /\ \A b \in audits(i) : b = a
  BY DEF Ledger, AuditOK, AuditRow
<1>2. \A k \in rows(i) : /\ Committed(i) /\ outbox[k].key = event_log[i].plan
                         /\ RuleOf(i) \in Dispatching
  BY DEF Ledger, OutboxOK, Done, RuleOf
<1>3. \A j, k \in rows(i) : j = k
  BY <1>2 DEF Ledger, OutboxOK
<1>4. \A j \in children(i) :
        /\ Committed(i) /\ event_log[j].cause = event_log[i].plan
        /\ RuleOf(i) \notin Dispatching
  BY DEF Ledger, ChildrenOK, Done, RuleOf
<1>5. \A j, k \in children(i) : j = k
  BY <1>4 DEF Ledger, ChildrenOK
<1>6. CASE ~Committed(i)
  BY <1>1, <1>2, <1>4, <1>6
<1>7. CASE Committed(i)
  <2>1. audits(i) # {}
    BY <1>7 DEF Ledger, AuditOK
  <2>2. event_log[i].plan.event = i /\ event_log[i].plan # NoPlan
    <3>1. event_log[i].plan.event = i
      BY <1>7 DEF Ledger, RowsOK
    <3>2. i # 0
      BY LogShape DEF Ledger, RowsOK, Indices
    <3> QED BY <3>1, <3>2 DEF NoPlan, Plan
  <2>3. RuleOf(i) \in Dispatching => rows(i) # {}
    BY <1>7, <2>2 DEF Ledger, OutboxOK
  <2>4. RuleOf(i) \notin Dispatching => children(i) # {}
    BY <1>7, <2>2 DEF Ledger, ChildrenOK
  <2>5. /\ RuleOf(i) \notin Dispatching => rows(i) = {}
        /\ RuleOf(i) \in Dispatching => children(i) = {}
    BY <1>2, <1>4
  <2> HIDE DEF audits, rows, children
  <2>6. Cardinality(audits(i)) = 1
    BY <1>1, <2>1, OneOrNone
  <2>7. /\ rows(i) # {} => Cardinality(rows(i)) = 1
        /\ children(i) # {} => Cardinality(children(i)) = 1
    BY <1>3, <1>5, OneOrNone
  <2> QED BY <1>7, <2>3, <2>4, <2>5, <2>6, <2>7, FS_EmptySet
<1> QED BY <1>6, <1>7

LEMMA FlushIsOnce ==
  ASSUME FlushOK
  PROVE  EffectivelyOnce
BY DEF FlushOK, Done, EffectivelyOnce

LEMMA InvImplies ==
  IInv => CommitIsWhole /\ GraphIsItsHistory /\ EffectivelyOnce
BY LedgerIsWhole, FlushIsOnce DEF IInv, GraphsOK, GraphIsItsHistory

-----------------------------------------------------------------------------
(* Most steps keep what was committed: rows may be added, and an open row  *)
(* may be closed without a commit.                                         *)

RowKept(i) ==
  /\ IsRow(event_log'[i])
  /\ event_log'[i].event = event_log[i].event
  /\ event_log'[i].cause = event_log[i].cause
  /\ event_log'[i].plan = event_log[i].plan
  /\ Committed(i)' <=> Committed(i)

LogKept ==
  /\ IsLog(event_log') /\ Indices \subseteq Indices'
  /\ \A i \in Indices : RowKept(i)
  /\ \A i \in Indices' \ Indices :
       /\ IsRow(event_log'[i]) /\ event_log'[i].cause = NoPlan
       /\ ~Committed(i)'

OutboxKept ==
  /\ IsLog(outbox') /\ DOMAIN outbox' = DOMAIN outbox
  /\ \A k \in DOMAIN outbox : /\ IsEntry(outbox'[k])
                              /\ outbox'[k].key = outbox[k].key

AuditKept ==
  /\ IsLog(audit_log') /\ DOMAIN audit_log \subseteq DOMAIN audit_log'
  /\ \A a \in DOMAIN audit_log : audit_log'[a] = audit_log[a]
  /\ \A a \in DOMAIN audit_log' \ DOMAIN audit_log :
       audit_log'[a].status # "COMMITTED"

LEMMA DoneStays ==
  ASSUME LogKept
  PROVE  \A p : Done(p) => Done(p)'
BY DEF LogKept, RowKept, Done

LEMMA LedgerKept ==
  ASSUME Ledger, LogKept, OutboxKept, AuditKept
  PROVE  Ledger'
<1>1. RowsOK'
  BY DEF Ledger, RowsOK, LogKept, RowKept, RuleOf
<1>2. \A p : Done(p) => Done(p)'
  BY DoneStays
<1>3. \A i \in Indices : RuleOf(i)' = RuleOf(i) /\ RowKept(i)
  BY DEF LogKept, RowKept, RuleOf
<1>4. \A i \in Indices' : i \notin Indices =>
        event_log'[i].cause = NoPlan /\ ~Committed(i)'
  BY DEF LogKept
<1>5. ChildrenOK'
  <2>1. ASSUME NEW j \in Indices', event_log'[j].cause # NoPlan
        PROVE  /\ Done(event_log[j].cause)'
               /\ event_log'[j].cause.rule \notin Dispatching
               /\ \A i \in Indices' : event_log'[i].cause = event_log'[j].cause
                                      => i = j
    <3>1. j \in Indices /\ event_log'[j].cause = event_log[j].cause
      BY <1>3, <1>4, <2>1 DEF RowKept
    <3> PICK p : p = event_log[j].cause
      OBVIOUS
    <3>2. /\ Done(p) /\ p.rule \notin Dispatching /\ p # NoPlan
          /\ \A i \in Indices : event_log[i].cause = p => i = j
      BY <2>1, <3>1 DEF Ledger, ChildrenOK
    <3>3. \A i \in Indices' : event_log'[i].cause = p => i = j
      BY <1>3, <1>4, <3>2 DEF RowKept
    <3> QED BY <1>2, <3>1, <3>2, <3>3
  <2>2. ASSUME NEW i \in Indices', Committed(i)', RuleOf(i)' \notin Dispatching
        PROVE  \E j \in Indices' : event_log'[j].cause = event_log'[i].plan
    <3>1. /\ i \in Indices /\ Committed(i) /\ RuleOf(i) \notin Dispatching
          /\ event_log'[i].plan = event_log[i].plan
      BY <1>3, <1>4, <2>2 DEF RowKept
    <3>2. PICK j \in Indices : event_log[j].cause = event_log[i].plan
      BY <3>1 DEF Ledger, ChildrenOK
    <3>3. j \in Indices' /\ event_log'[j].cause = event_log'[i].plan
      BY <1>3, <3>1, <3>2 DEF RowKept, LogKept
    <3> QED BY <3>3
  <2> QED BY <2>1, <2>2 DEF ChildrenOK
<1>6. OutboxOK'
  <2>1. ASSUME NEW i \in Indices', Committed(i)', RuleOf(i)' \in Dispatching
        PROVE  \E k \in DOMAIN outbox' : outbox'[k].key = event_log'[i].plan
    <3>1. /\ i \in Indices /\ Committed(i) /\ RuleOf(i) \in Dispatching
          /\ event_log'[i].plan = event_log[i].plan
      BY <1>3, <1>4, <2>1 DEF RowKept
    <3>2. PICK k \in DOMAIN outbox : outbox[k].key = event_log[i].plan
      BY <3>1 DEF Ledger, OutboxOK
    <3> QED BY <3>1, <3>2 DEF OutboxKept
  <2>2. \A k \in DOMAIN outbox' :
          /\ IsEntry(outbox'[k])
          /\ Done(outbox[k].key)' /\ outbox'[k].key.rule \in Dispatching
          /\ \A i \in DOMAIN outbox' : outbox'[i].key = outbox'[k].key => i = k
    BY <1>2 DEF Ledger, OutboxOK, OutboxKept
  <2> QED BY <2>1, <2>2 DEF OutboxOK, OutboxKept
<1>7. AuditOK'
  <2>1. ASSUME NEW a \in DOMAIN audit_log', audit_log'[a].status = "COMMITTED"
        PROVE  /\ audit_log'[a].event \in Indices'
               /\ Committed(audit_log[a].event)'
               /\ \A b \in DOMAIN audit_log' :
                    audit_log'[b] = audit_log'[a] => b = a
    <3>1. a \in DOMAIN audit_log /\ audit_log'[a] = audit_log[a]
      BY <2>1 DEF AuditKept
    <3> PICK r : r = audit_log[a]
      OBVIOUS
    <3>2. /\ r.event \in Indices /\ Committed(r.event) /\ r.status = "COMMITTED"
          /\ \A b \in DOMAIN audit_log : audit_log[b] = r => b = a
      BY <2>1, <3>1 DEF Ledger, AuditOK
    <3>3. r.event \in Indices' /\ Committed(r.event)'
      BY <3>2 DEF LogKept, RowKept
    <3>4. \A b \in DOMAIN audit_log' : audit_log'[b] = r => b = a
      BY <3>2 DEF AuditKept
    <3> QED BY <3>1, <3>3, <3>4
  <2>2. ASSUME NEW i \in Indices', Committed(i)'
        PROVE  \E a \in DOMAIN audit_log' : audit_log'[a] = AuditRow(i)
    BY <1>3, <1>4, <2>2 DEF Ledger, AuditOK, AuditKept, RowKept
  <2> QED BY <2>1, <2>2 DEF AuditOK, AuditKept, AuditRow
<1> QED BY <1>1, <1>5, <1>6, <1>7 DEF Ledger

(* ... and so the history does not change.                                 *)
LEMMA HistoryKept ==
  ASSUME LogKept
  PROVE  /\ \A c : /\ Invalidations(c)' = Invalidations(c)
                   /\ Registrations(c)' = Registrations(c)
         /\ Valuations' = Valuations
         /\ \A g : History(g) => History(g)'
<1>1. \A i \in Indices' : Committed(i)' => i \in Indices
  BY DEF LogKept
<1>2. \A i \in Indices :
        /\ i \in Indices' /\ (Committed(i)' <=> Committed(i))
        /\ RuleOf(i)' = RuleOf(i) /\ InvalidatedBy(i)' = InvalidatedBy(i)
        /\ RegisteredBy(i)' = RegisteredBy(i)
  BY DEF LogKept, RowKept, RuleOf, InvalidatedBy, RegisteredBy, Value
<1>3. \A c : /\ Invalidations(c)' = Invalidations(c)
             /\ Registrations(c)' = Registrations(c)
  BY <1>1, <1>2 DEF Invalidations, Registrations
<1>4. Valuations' = Valuations
  BY <1>1, <1>2 DEF Valuations
<1>5. ASSUME NEW g, History(g) PROVE History(g)'
  BY <1>3, <1>4, <1>5 DEF History
<1> QED BY <1>3, <1>4, <1>5

-----------------------------------------------------------------------------
(* What the statements do to the tables.                                   *)

LEMMA SameLog ==
  ASSUME Ledger, UNCHANGED event_log
  PROVE  LogKept
BY DEF Ledger, RowsOK, LogKept, RowKept, Indices, Committed

LEMMA SameOutbox ==
  ASSUME Ledger, UNCHANGED outbox
  PROVE  OutboxKept
BY DEF Ledger, OutboxOK, OutboxKept

LEMMA SameAudit ==
  ASSUME Ledger, UNCHANGED audit_log
  PROVE  AuditKept
BY DEF Ledger, AuditOK, AuditKept

LEMMA MarkedRow ==
  ASSUME NEW r, IsRow(r), NEW status, NEW q, q = [r EXCEPT !.status = status]
  PROVE  /\ IsRow(q) /\ q.event = r.event /\ q.cause = r.cause
         /\ q.plan = r.plan /\ q.status = status
BY DEF IsRow, RowFields

LEMMA Marking ==
  ASSUME Ledger, NEW k \in Indices, ~Committed(k), NEW status,
         status # "COMMITTED",
         event_log' = [event_log EXCEPT ![k].status = status]
  PROVE  LogKept
<1> DEFINE r == event_log[k]
           q == [r EXCEPT !.status = status]
<1>1. IsRow(r) /\ IsLog(event_log) /\ k \in DOMAIN event_log
  BY DEF Ledger, RowsOK, Indices
<1>2. /\ IsRow(q) /\ q.event = r.event /\ q.cause = r.cause
      /\ q.plan = r.plan /\ q.status = status
  <2>1. q = [r EXCEPT !.status = status]
    OBVIOUS
  <2> HIDE DEF q, r
  <2> QED BY <1>1, <2>1, MarkedRow
<1>3. event_log' = [event_log EXCEPT ![k] = q]
  OBVIOUS
<1> HIDE DEF q
<1>4. /\ IsLog(event_log') /\ Indices' = Indices /\ event_log'[k] = q
      /\ \A i \in Indices : i # k => event_log'[i] = event_log[i]
  BY <1>1, <1>3, Updated DEF Indices
<1> QED BY <1>2, <1>4 DEF LogKept, RowKept, Committed, Ledger, RowsOK

LEMMA Emitting ==
  ASSUME Ledger, NEW e, event_log' = Append(event_log, NewRow(e, NoPlan))
  PROVE  LogKept
<1> PICK r : r = NewRow(e, NoPlan)
  OBVIOUS
<1>1. IsRow(r) /\ r.cause = NoPlan /\ r.status = "PENDING"
  BY DEF NewRow, IsRow, RowFields
<1>2. IsLog(event_log)
  BY DEF Ledger, RowsOK
<1>3. Extends(event_log', event_log, r)
  BY <1>2, Appended
<1>4. PICK n \in Nat \ {0} :
        /\ IsLog(event_log') /\ n \notin Indices /\ Indices' = Indices \cup {n}
        /\ event_log'[n] = r
        /\ \A i \in Indices : event_log'[i] = event_log[i]
  BY <1>3 DEF Extends, Indices
<1> QED BY <1>1, <1>4 DEF LogKept, RowKept, Committed, Ledger, RowsOK

LEMMA Auditing ==
  ASSUME Ledger, NEW status, status # "COMMITTED", Audit(status)
  PROVE  AuditKept
<1>1. IsLog(audit_log)
  BY DEF Ledger, AuditOK
<1> PICK r : r = [event |-> process.event, status |-> status]
  OBVIOUS
<1>2. Extends(audit_log', audit_log, r)
  BY <1>1, Appended DEF Audit
<1> QED BY <1>2 DEF Extends, AuditKept

LEMMA Statement ==
  ASSUME Ledger, NEW k \in DOMAIN outbox, NEW status,
         outbox' = [outbox EXCEPT ![k].status = status]
  PROVE  /\ OutboxKept /\ outbox'[k].status = status
         /\ \A i \in DOMAIN outbox : i # k => outbox'[i] = outbox[i]
<1> DEFINE r == outbox[k]
           q == [r EXCEPT !.status = status]
<1>1. IsEntry(r) /\ IsLog(outbox)
  BY DEF Ledger, OutboxOK
<1>2. IsEntry(q) /\ q.key = r.key /\ q.status = status
  <2>1. q = [r EXCEPT !.status = status]
    OBVIOUS
  <2> HIDE DEF q, r
  <2> QED BY <1>1, <2>1 DEF IsEntry
<1>3. outbox' = [outbox EXCEPT ![k] = q]
  OBVIOUS
<1> HIDE DEF q
<1>4. /\ IsLog(outbox') /\ DOMAIN outbox' = DOMAIN outbox /\ outbox'[k] = q
      /\ \A i \in DOMAIN outbox : i # k => outbox'[i] = outbox[i]
  BY <1>1, <1>3, Updated
<1> QED BY <1>2, <1>4 DEF OutboxKept, Ledger, OutboxOK

(* What the dispatchers rely on stays while they rest.                     *)
LEMMA FlushRests ==
  ASSUME FlushOK, UNCHANGED dispatching, \A p : Done(p) => Done(p)',
         DOMAIN outbox \subseteq DOMAIN outbox',
         \A k \in DOMAIN outbox : outbox'[k] = outbox[k],
         \A k \in DOMAIN outbox' \ DOMAIN outbox :
           outbox'[k].status # "DISPATCHED"
  PROVE  FlushOK'
<1>1. batch' = batch /\ sending' = sending /\ received' = received
  BY DEF dispatching
<1>2. \A d, k : Visits(d, k)' <=> Visits(d, k)
  BY <1>1 DEF Visits
<1> QED BY <1>1, <1>2 DEF FlushOK

-----------------------------------------------------------------------------
(* What the action of each rule does to the graph.                         *)

Effect(g, rule, ctx, h) ==
  /\ rule \in Dispatching => h = g
  /\ rule = "R001" =>
       /\ Value(ctx, "verification.claim_id") \in Claims
       /\ h = Invalidated(g, Value(ctx, "verification.claim_id"))
  /\ rule = "R006" => h = WithDeficit(g, Value(ctx, "claim.id"))
  /\ rule = "R008" =>
       h = [g EXCEPT !.stage = "VALUATION", !.revision = @ + 1]

LEMMA Outcomes ==
  ASSUME NEW g, NEW rule \in RuleIds, NEW ctx, NEW a,
         a = Applied(g, Planned(rule, ctx)), a.ok
  PROVE  /\ a.dispatch <=> rule \in Dispatching
         /\ a.events = <<>> <=> rule \in Dispatching
         /\ Effect(g, rule, ctx, a.graph)
<1> DEFINE action == Planned(rule, ctx)
<1>1. \A e : <<e>> # <<>>
  OBVIOUS
<1>2. CASE rule = "R001"
  BY <1>1, <1>2 DEF Planned, Applied, Dispatching, Effect
<1>3. CASE rule = "R006"
  BY <1>1, <1>3 DEF Planned, Applied, Dispatching, Effect
<1>4. CASE rule = "R008"
  BY <1>1, <1>4 DEF Planned, Applied, Dispatching, Effect
<1>5. CASE rule \in Dispatching
  <2>1. action.type = "DISPATCH"
    BY <1>5 DEF Planned, Dispatching
  <2>2. rule \notin {"R001", "R006", "R008"}
    BY <1>5 DEF Dispatching
  <2> HIDE DEF action
  <2>3. a = Applied(g, action)
    BY DEF action
  <2>4. CASE action.capability \in Capabilities
    <3>1. a = [ok |-> TRUE, graph |-> g, dispatch |-> TRUE, events |-> <<>>]
      BY <2>1, <2>3, <2>4 DEF Applied
    <3> QED BY <1>5, <2>2, <3>1 DEF Effect
  <2>5. CASE action.capability \notin Capabilities
    <3>1. a = [ok |-> FALSE, graph |-> g, dispatch |-> FALSE, events |-> <<>>]
      BY <2>1, <2>3, <2>5 DEF Applied
    <3> QED BY <3>1
  <2> QED BY <2>4, <2>5
<1> QED BY <1>2, <1>3, <1>4, <1>5 DEF RuleIds, Dispatching

LEMMA InvalidatedGraph ==
  ASSUME NEW g, IsGraph(g), NEW c \in Claims, NEW h, h = Invalidated(g, c)
  PROVE  /\ IsGraph(h)
         /\ h.stage = g.stage /\ h.deficits = g.deficits /\ h.links = g.links
         /\ h.nodes[c].version = g.nodes[c].version + 1
         /\ h.nodes[c].invalidated
         /\ \A x \in Claims : x # c => h.nodes[x] = g.nodes[x]
<1> PICK n : n = g.nodes[c]
  OBVIOUS
<1> PICK m : m = [n EXCEPT !.invalidated = TRUE, !.version = @ + 1]
  OBVIOUS
<1>1. IsNode(n)
  BY DEF IsGraph
<1>2. /\ m = [x \in NodeFields |-> m[x]] /\ m.data = n.data
      /\ m.version = n.version + 1 /\ m.invalidated = TRUE
  BY <1>1 DEF IsNode, NodeFields
<1>3. IsNode(m)
  <2>1. m.version \in Nat \ {0} /\ m.invalidated \in BOOLEAN
    BY <1>1, <1>2 DEF IsNode
  <2>2. DOMAIN m.data \subseteq ClaimData
    BY <1>1, <1>2 DEF IsNode
  <2> QED BY <1>2, <2>1, <2>2 DEF IsNode
<1> PICK ns : ns = [g.nodes EXCEPT ![c] = m]
  OBVIOUS
<1>4. /\ ns = [x \in Claims |-> ns[x]] /\ ns[c] = m
      /\ \A x \in Claims : x # c => ns[x] = g.nodes[x]
  BY DEF IsGraph
<1>5. h = [g EXCEPT !.nodes = ns, !.revision = @ + 1]
  BY DEF Invalidated
<1>6. /\ h = [x \in GraphFields |-> h[x]] /\ h.nodes = ns
      /\ h.stage = g.stage /\ h.deficits = g.deficits /\ h.links = g.links
      /\ h.gate = g.gate
  BY <1>5 DEF IsGraph, GraphFields
<1>7. IsGraph(h)
  BY <1>3, <1>4, <1>6 DEF IsGraph
<1>8. h.nodes[c] = m /\ \A x \in Claims : x # c => h.nodes[x] = g.nodes[x]
  BY <1>4, <1>6
<1>9. h.nodes[c].version = g.nodes[c].version + 1 /\ h.nodes[c].invalidated
  BY <1>2, <1>8
<1> QED BY <1>6, <1>7, <1>8, <1>9

LEMMA DeficitGraph ==
  ASSUME NEW g, IsGraph(g), NEW c, NEW h, h = WithDeficit(g, c)
  PROVE  /\ IsGraph(h)
         /\ h.stage = g.stage /\ h.nodes = g.nodes /\ g.links \subseteq h.links
         /\ h.deficits = g.deficits \cup {c}
         /\ c \in g.deficits => h = g
         /\ c \notin g.deficits => h.links = g.links \cup {<<c, "DATA_DEFICIT">>}
<1>1. CASE c \in g.deficits
  BY <1>1 DEF WithDeficit
<1>2. CASE c \notin g.deficits
  <2> PICK f : f = [g EXCEPT !.deficits = @ \cup {c}, !.revision = @ + 1]
    OBVIOUS
  <2>1. /\ f = [x \in GraphFields |-> f[x]] /\ f.nodes = g.nodes
        /\ f.stage = g.stage /\ f.deficits = g.deficits \cup {c}
        /\ f.links = g.links /\ f.gate = g.gate
    BY DEF IsGraph, GraphFields
  <2>2. h = AddEdge(f, c, "DATA_DEFICIT")
    BY <1>2 DEF WithDeficit
  <2>3. /\ h = [x \in GraphFields |-> h[x]] /\ h.nodes = f.nodes
        /\ h.stage = f.stage /\ h.deficits = f.deficits /\ h.gate = f.gate
        /\ h.links = f.links \cup {<<c, "DATA_DEFICIT">>}
    BY <2>1, <2>2 DEF AddEdge, GraphFields
  <2>4. IsGraph(h)
    BY <2>1, <2>3 DEF IsGraph
  <2> QED BY <1>2, <2>1, <2>3, <2>4
<1> QED BY <1>1, <1>2

LEMMA ValuationGraph ==
  ASSUME NEW g, IsGraph(g),
         NEW h, h = [g EXCEPT !.stage = "VALUATION", !.revision = @ + 1]
  PROVE  /\ IsGraph(h) /\ h.stage = "VALUATION" /\ h.nodes = g.nodes
         /\ h.deficits = g.deficits /\ h.links = g.links
<1>1. /\ h = [x \in GraphFields |-> h[x]] /\ h.stage = "VALUATION"
      /\ h.nodes = g.nodes /\ h.deficits = g.deficits /\ h.links = g.links
      /\ h.gate = g.gate
  BY DEF IsGraph, GraphFields
<1> QED BY <1>1 DEF IsGraph, Stages

LEMMA LinkedGraph ==
  ASSUME NEW g, IsGraph(g), NEW c, NEW type, type # "DATA_DEFICIT",
         NEW h, h = AddEdge(g, c, type)
  PROVE  /\ IsGraph(h) /\ h.stage = g.stage /\ h.nodes = g.nodes
         /\ h.deficits = g.deficits /\ g.links \subseteq h.links
         /\ \A x : <<x, "DATA_DEFICIT">> \in h.links
                   <=> <<x, "DATA_DEFICIT">> \in g.links
<1>1. CASE <<c, type>> \in g.links
  BY <1>1 DEF AddEdge
<1>2. CASE <<c, type>> \notin g.links
  <2>1. /\ h = [x \in GraphFields |-> h[x]] /\ h.nodes = g.nodes
        /\ h.stage = g.stage /\ h.deficits = g.deficits /\ h.gate = g.gate
        /\ h.links = g.links \cup {<<c, type>>}
    BY <1>2 DEF AddEdge, IsGraph, GraphFields
  <2>2. IsGraph(h)
    BY <2>1 DEF IsGraph
  <2> QED BY <2>1, <2>2
<1> QED BY <1>1, <1>2

-----------------------------------------------------------------------------
(* The transaction of commit_plan, as it shows in the tables: the event is *)
(* COMMITTED with the plan p, and its audit row is joined by an outbox row *)
(* or by a generated event, as the rule has it.                            *)

CommittedRow(i, p) ==
  /\ IsRow(event_log'[i])
  /\ event_log'[i].event = event_log[i].event
  /\ event_log'[i].cause = event_log[i].cause
  /\ event_log'[i].plan = p /\ Committed(i)'

GeneratedRow(j, p) ==
  IsRow(event_log'[j]) /\ event_log'[j].cause = p /\ ~Committed(j)'

Entry(p) == [key |-> p, status |-> "PENDING"]

Commits(p) ==
  /\ p.event \in Indices /\ ~Committed(p.event) /\ p # NoPlan
  /\ IsLog(event_log')
  /\ CommittedRow(p.event, p)
  /\ \A i \in Indices : i # p.event => RowKept(i)
  /\ IF p.rule \in Dispatching
     THEN /\ Indices' = Indices
          /\ Extends(outbox', outbox, Entry(p))
     ELSE /\ \E n : /\ n \notin Indices /\ Indices' = Indices \cup {n}
                    /\ GeneratedRow(n, p)
          /\ UNCHANGED outbox
  /\ Extends(audit_log', audit_log, AuditRow(p.event))

LEMMA DoneByCommit ==
  ASSUME NEW p, Commits(p)
  PROVE  Done(p)' /\ \A q : Done(q) => Done(q)'
<1>1. Indices \subseteq Indices'
  BY DEF Commits
<1>2. Done(p)'
  BY <1>1 DEF Commits, CommittedRow, Done
<1>3. ASSUME NEW q, Done(q) PROVE Done(q)'
  BY <1>1, <1>3 DEF Commits, RowKept, Done
<1> QED BY <1>2, <1>3

LEMMA LedgerByCommit ==
  ASSUME Ledger, NEW p, Commits(p)
  PROVE  Ledger'
<1> PICK i0 : i0 = p.event
  OBVIOUS
<1>1. /\ i0 \in Indices /\ ~Committed(i0) /\ CommittedRow(i0, p)
      /\ Indices \subseteq Indices'
      /\ \A i \in Indices : i # i0 => RowKept(i)
  BY DEF Commits
<1>2. Done(p)' /\ \A q : Done(q) => Done(q)'
  BY DoneByCommit
<1>3. \A i \in Indices' : i \notin Indices =>
        GeneratedRow(i, p) /\ p.rule \notin Dispatching
  BY DEF Commits
<1>4. \A i \in Indices : /\ event_log'[i].cause = event_log[i].cause
                         /\ Committed(i) => event_log'[i].plan = event_log[i].plan
  BY <1>1 DEF RowKept, CommittedRow
<1>5. \A i \in Indices' : Committed(i)' => i \in Indices /\ (i = i0 \/ Committed(i))
  BY <1>1, <1>3 DEF GeneratedRow, RowKept
<1>6. \A i \in Indices : event_log[i].cause # p
  BY <1>1 DEF Ledger, ChildrenOK, Done, Commits
<1>7. \A k \in DOMAIN outbox : outbox[k].key # p
  BY <1>1 DEF Ledger, OutboxOK, Done
<1>8. RowsOK'
  <2>1. \A i \in Indices' : IsRow(event_log'[i])
    BY <1>1, <1>3 DEF GeneratedRow, CommittedRow, RowKept
  <2>2. \A i \in Indices' : Committed(i)' => event_log'[i].plan.event = i
    BY <1>1, <1>4, <1>5 DEF CommittedRow, Ledger, RowsOK
  <2> QED BY <2>1, <2>2 DEF RowsOK, Commits
<1>9. ChildrenOK'
  <2>1. ASSUME NEW j \in Indices', event_log'[j].cause # NoPlan
        PROVE  /\ Done(event_log[j].cause)'
               /\ event_log'[j].cause.rule \notin Dispatching
               /\ \A i \in Indices' : event_log'[i].cause = event_log'[j].cause
                                      => i = j
    <3>1. CASE j \in Indices
      <4> PICK q : q = event_log[j].cause
        OBVIOUS
      <4>1. event_log'[j].cause = q /\ q # NoPlan
        BY <1>4, <2>1, <3>1
      <4>2. /\ Done(q) /\ q.rule \notin Dispatching
            /\ \A i \in Indices : event_log[i].cause = q => i = j
        BY <3>1, <4>1 DEF Ledger, ChildrenOK
      <4>3. q # p
        BY <1>6, <3>1
      <4>4. \A i \in Indices' : event_log'[i].cause = q => i = j
        BY <1>3, <1>4, <4>2, <4>3 DEF GeneratedRow
      <4> QED BY <1>2, <4>1, <4>2, <4>4
    <3>2. CASE j \notin Indices
      <4>1. event_log'[j].cause = p /\ p.rule \notin Dispatching
        BY <1>3, <3>2 DEF GeneratedRow
      <4>2. \A i \in Indices' : i \notin Indices => i = j
        BY <2>1, <3>2, <4>1 DEF Commits
      <4>3. \A i \in Indices' : event_log'[i].cause = p => i = j
        BY <1>4, <1>6, <4>2
      <4> QED BY <1>2, <4>1, <4>3
    <3> QED BY <3>1, <3>2
  <2>2. ASSUME NEW i \in Indices', Committed(i)', RuleOf(i)' \notin Dispatching
        PROVE  \E j \in Indices' : event_log'[j].cause = event_log'[i].plan
    <3>1. CASE i = i0
      <4>1. event_log'[i].plan = p /\ p.rule \notin Dispatching
        BY <1>1, <2>2, <3>1 DEF CommittedRow, RuleOf
      <4>2. \E n \in Indices' : GeneratedRow(n, p)
        BY <4>1 DEF Commits
      <4> QED BY <4>1, <4>2 DEF GeneratedRow
    <3>2. CASE i # i0
      <4>1. /\ i \in Indices /\ Committed(i)
            /\ event_log'[i].plan = event_log[i].plan
        BY <1>4, <1>5, <2>2, <3>2
      <4>2. RuleOf(i) \notin Dispatching
        BY <2>2, <4>1 DEF RuleOf
      <4>3. PICK j \in Indices : event_log[j].cause = event_log[i].plan
        BY <4>1, <4>2 DEF Ledger, ChildrenOK
      <4> QED BY <1>1, <1>4, <4>1, <4>3
    <3> QED BY <3>1, <3>2
  <2> QED BY <2>1, <2>2 DEF ChildrenOK
<1>10. OutboxOK'
  <2>1. CASE p.rule \in Dispatching
    <3>1. PICK n : /\ IsLog(outbox') /\ n \notin DOMAIN outbox
                   /\ DOMAIN outbox' = DOMAIN outbox \cup {n}
                   /\ outbox'[n] = Entry(p)
                   /\ \A k \in DOMAIN outbox : outbox'[k] = outbox[k]
      BY <2>1 DEF Commits, Extends
    <3>2. IsEntry(outbox'[n]) /\ outbox'[n].key = p
      BY <3>1 DEF Entry, IsEntry
    <3>3. ASSUME NEW k \in DOMAIN outbox'
          PROVE  /\ IsEntry(outbox'[k])
                 /\ Done(outbox[k].key)' /\ outbox'[k].key.rule \in Dispatching
                 /\ \A i \in DOMAIN outbox' :
                      outbox'[i].key = outbox'[k].key => i = k
      <4>1. CASE k = n
        <5>1. \A i \in DOMAIN outbox' : outbox'[i].key = p => i = n
          BY <1>7, <3>1
        <5> QED BY <1>2, <2>1, <3>2, <4>1, <5>1
      <4>2. CASE k # n
        <5> PICK q : q = outbox[k].key
          OBVIOUS
        <5>1. k \in DOMAIN outbox /\ outbox'[k] = outbox[k]
          BY <3>1, <4>2
        <5>2. /\ IsEntry(outbox[k]) /\ Done(q) /\ q.rule \in Dispatching /\ q # p
              /\ \A i \in DOMAIN outbox : outbox[i].key = q => i = k
          BY <1>7, <5>1 DEF Ledger, OutboxOK
        <5>3. \A i \in DOMAIN outbox' : outbox'[i].key = q => i = k
          BY <3>1, <3>2, <5>2
        <5>4. outbox'[k].key = q
          BY <5>1
        <5> QED BY <1>2, <5>1, <5>2, <5>3, <5>4
      <4> QED BY <4>1, <4>2
    <3>4. ASSUME NEW i \in Indices', Committed(i)', RuleOf(i)' \in Dispatching
          PROVE  \E k \in DOMAIN outbox' : outbox'[k].key = event_log'[i].plan
      <4>1. CASE i = i0
        BY <1>1, <3>1, <3>2, <4>1 DEF CommittedRow
      <4>2. CASE i # i0
        <5>1. /\ i \in Indices /\ Committed(i)
              /\ event_log'[i].plan = event_log[i].plan
          BY <1>4, <1>5, <3>4, <4>2
        <5>2. RuleOf(i) \in Dispatching
          BY <3>4, <5>1 DEF RuleOf
        <5>3. PICK k \in DOMAIN outbox : outbox[k].key = event_log[i].plan
          BY <5>1, <5>2 DEF Ledger, OutboxOK
        <5> QED BY <3>1, <5>1, <5>3
      <4> QED BY <4>1, <4>2
    <3> QED BY <3>1, <3>3, <3>4 DEF OutboxOK
  <2>2. CASE p.rule \notin Dispatching
    <3>1. outbox' = outbox
      BY <2>2 DEF Commits
    <3>2. ASSUME NEW i \in Indices', Committed(i)', RuleOf(i)' \in Dispatching
          PROVE  \E k \in DOMAIN outbox' : outbox'[k].key = event_log'[i].plan
      <4>1. i # i0
        BY <1>1, <2>2, <3>2 DEF CommittedRow, RuleOf
      <4>2. /\ i \in Indices /\ Committed(i)
            /\ event_log'[i].plan = event_log[i].plan
        BY <1>4, <1>5, <3>2, <4>1
      <4>3. RuleOf(i) \in Dispatching
        BY <3>2, <4>2 DEF RuleOf
      <4> QED BY <3>1, <4>2, <4>3 DEF Ledger, OutboxOK
    <3>3. \A k \in DOMAIN outbox' :
            /\ IsEntry(outbox'[k])
            /\ Done(outbox[k].key)' /\ outbox'[k].key.rule \in Dispatching
            /\ \A i \in DOMAIN outbox' : outbox'[i].key = outbox'[k].key => i = k
      BY <1>2, <3>1 DEF Ledger, OutboxOK
    <3> QED BY <3>1, <3>2, <3>3 DEF Ledger, OutboxOK
  <2> QED BY <2>1, <2>2
<1>11. AuditOK'
  <2>1. PICK n : /\ IsLog(audit_log') /\ n \notin DOMAIN audit_log
                 /\ DOMAIN audit_log' = DOMAIN audit_log \cup {n}
                 /\ audit_log'[n] = AuditRow(i0)
                 /\ \A a \in DOMAIN audit_log : audit_log'[a] = audit_log[a]
    BY DEF Commits, Extends
  <2>2. \A a \in DOMAIN audit_log : audit_log[a] # AuditRow(i0)
    BY <1>1 DEF Ledger, AuditOK, AuditRow
  <2>3. ASSUME NEW a \in DOMAIN audit_log', audit_log'[a].status = "COMMITTED"
        PROVE  /\ audit_log'[a].event \in Indices'
               /\ Committed(audit_log[a].event)'
               /\ \A b \in DOMAIN audit_log' :
                    audit_log'[b] = audit_log'[a] => b = a
    <3>1. CASE a = n
      <4>1. audit_log'[a].event = i0 /\ Committed(i0)' /\ i0 \in Indices'
        BY <1>1, <2>1, <3>1 DEF AuditRow, CommittedRow
      <4> QED BY <2>1, <2>2, <3>1, <4>1
    <3>2. CASE a # n
      <4> PICK r : r = audit_log[a]
        OBVIOUS
      <4>1. /\ a \in DOMAIN audit_log /\ audit_log'[a] = r
            /\ r.status = "COMMITTED"
        BY <2>1, <2>3, <3>2
      <4>2. /\ r.event \in Indices /\ Committed(r.event) /\ r # AuditRow(i0)
            /\ \A b \in DOMAIN audit_log : audit_log[b] = r => b = a
        BY <2>2, <4>1 DEF Ledger, AuditOK
      <4>3. r.event \in Indices' /\ Committed(r.event)'
        BY <1>1, <4>2 DEF RowKept
      <4> QED BY <2>1, <4>1, <4>2, <4>3
    <3> QED BY <3>1, <3>2
  <2>4. ASSUME NEW i \in Indices', Committed(i)'
        PROVE  \E a \in DOMAIN audit_log' : audit_log'[a] = AuditRow(i)
    BY <1>5, <2>1, <2>4 DEF Ledger, AuditOK
  <2> QED BY <2>1, <2>3, <2>4 DEF AuditOK, AuditRow
<1> QED BY <1>8, <1>9, <1>10, <1>11 DEF Ledger

(* The commit adds its event to the history of its rule, and to no other.  *)
LEMMA HistoryByCommit ==
  ASSUME Ledger, NEW p, Commits(p), p.rule \in RuleIds,
         NEW g, IsGraph(g), History(g), NEW h,
         p.rule \in Dispatching => h = g,
         p.rule = "R001" => /\ InvalidatedBy(p.event) \in Claims
                            /\ h = Invalidated(g, InvalidatedBy(p.event)),
         p.rule = "R006" => \E c : /\ h = WithDeficit(g, c)
                                   /\ \A x \in Claims :
                                        x = c <=> RegisteredBy(p.event) = x,
         p.rule = "R008" =>
           h = [g EXCEPT !.stage = "VALUATION", !.revision = @ + 1]
  PROVE  History(h)' /\ IsGraph(h) /\ g.links \subseteq h.links
<1> PICK i0 : i0 = p.event
  OBVIOUS
<1>1. /\ i0 \in Indices /\ ~Committed(i0) /\ CommittedRow(i0, p)
      /\ Indices \subseteq Indices'
      /\ \A i \in Indices : i # i0 => RowKept(i)
      /\ \A i \in Indices' : i \notin Indices => ~Committed(i)'
  BY DEF Commits, GeneratedRow
<1>2. \A i \in Indices : i # i0 =>
        /\ (Committed(i)' <=> Committed(i)) /\ RuleOf(i)' = RuleOf(i)
        /\ InvalidatedBy(i)' = InvalidatedBy(i)
        /\ RegisteredBy(i)' = RegisteredBy(i)
  BY <1>1 DEF RowKept, RuleOf, InvalidatedBy, RegisteredBy, Value
<1>3. /\ Committed(i0)' /\ RuleOf(i0)' = p.rule
      /\ InvalidatedBy(i0)' = InvalidatedBy(i0)
      /\ RegisteredBy(i0)' = RegisteredBy(i0)
  BY <1>1 DEF CommittedRow, RuleOf, InvalidatedBy, RegisteredBy, Value
<1>4. /\ \A c : Invalidations(c)' =
                  IF p.rule = "R001" /\ InvalidatedBy(i0) = c
                  THEN Invalidations(c) \cup {i0} ELSE Invalidations(c)
      /\ \A c : Registrations(c)' =
                  IF p.rule = "R006" /\ RegisteredBy(i0) = c
                  THEN Registrations(c) \cup {i0} ELSE Registrations(c)
      /\ Valuations' = IF p.rule = "R008" THEN Valuations \cup {i0}
                       ELSE Valuations
  <2>1. ASSUME NEW c
        PROVE  Invalidations(c)' = IF p.rule = "R001" /\ InvalidatedBy(i0) = c
                                   THEN Invalidations(c) \cup {i0}
                                   ELSE Invalidations(c)
    BY <1>1, <1>2, <1>3 DEF Invalidations
  <2>2. ASSUME NEW c
        PROVE  Registrations(c)' = IF p.rule = "R006" /\ RegisteredBy(i0) = c
                                   THEN Registrations(c) \cup {i0}
                                   ELSE Registrations(c)
    BY <1>1, <1>2, <1>3 DEF Registrations
  <2>3. Valuations' = IF p.rule = "R008" THEN Valuations \cup {i0}
                      ELSE Valuations
    BY <1>1, <1>2, <1>3 DEF Valuations
  <2> QED BY <2>1, <2>2, <2>3
<1>5. \A c : IsFiniteSet(Invalidations(c)) /\ i0 \notin Invalidations(c)
  <2>1. IsFiniteSet(Indices)
    BY LogShape DEF Ledger, RowsOK, Indices
  <2>2. ASSUME NEW c
        PROVE  IsFiniteSet(Invalidations(c)) /\ i0 \notin Invalidations(c)
    <3>1. Invalidations(c) \subseteq Indices /\ i0 \notin Invalidations(c)
      BY <1>1 DEF Invalidations
    <3> QED BY <2>1, <3>1, FS_Subset
  <2> QED BY <2>2
<1>6. \A c \in Claims :
        /\ g.nodes[c].version = 1 + Cardinality(Invalidations(c))
        /\ g.nodes[c].invalidated <=> Invalidations(c) # {}
        /\ c \in g.deficits <=> Registrations(c) # {}
        /\ c \in g.deficits <=> <<c, "DATA_DEFICIT">> \in g.links
  BY DEF History
<1>7. g.stage = "VALUATION" <=> Valuations # {}
  BY DEF History
<1>8. CASE p.rule \in Dispatching
  <2>1. /\ \A c : Invalidations(c)' = Invalidations(c)
        /\ \A c : Registrations(c)' = Registrations(c)
        /\ Valuations' = Valuations
    BY <1>4, <1>8 DEF Dispatching
  <2> QED BY <1>6, <1>7, <1>8, <2>1 DEF History
<1>9. CASE p.rule = "R001"
  <2> PICK c0 : c0 = InvalidatedBy(i0)
    OBVIOUS
  <2>1. c0 \in Claims /\ h = Invalidated(g, c0)
    BY <1>9
  <2>2. /\ Invalidations(c0)' = Invalidations(c0) \cup {i0}
        /\ \A c : c # c0 => Invalidations(c)' = Invalidations(c)
        /\ \A c : Registrations(c)' = Registrations(c)
        /\ Valuations' = Valuations
    BY <1>4, <1>9
  <2>3. /\ IsGraph(h) /\ h.stage = g.stage /\ h.deficits = g.deficits
        /\ h.links = g.links
        /\ h.nodes[c0].version = g.nodes[c0].version + 1
        /\ h.nodes[c0].invalidated
        /\ \A x \in Claims : x # c0 => h.nodes[x] = g.nodes[x]
    BY <2>1, InvalidatedGraph
  <2>4. Cardinality(Invalidations(c0)') = Cardinality(Invalidations(c0)) + 1
        /\ Cardinality(Invalidations(c0)) \in Nat
    <3> PICK S : S = Invalidations(c0)
      OBVIOUS
    <3>1. IsFiniteSet(S) /\ i0 \notin S /\ Invalidations(c0)' = S \cup {i0}
      BY <1>5, <2>2
    <3>2. Cardinality(S \cup {i0}) = Cardinality(S) + 1
      BY <3>1, FS_AddElement
    <3>3. Cardinality(S) \in Nat
      BY <3>1, FS_CardinalityType
    <3> QED BY <3>1, <3>2, <3>3
  <2>5. ASSUME NEW c \in Claims
        PROVE  /\ h.nodes[c].version = 1 + Cardinality(Invalidations(c)')
               /\ h.nodes[c].invalidated <=> Invalidations(c)' # {}
    <3>1. CASE c = c0
      <4> PICK v, m, n : /\ v = g.nodes[c0].version
                         /\ m = Cardinality(Invalidations(c0))
                         /\ n = Cardinality(Invalidations(c0)')
        OBVIOUS
      <4>0. v = 1 + m /\ h.nodes[c0].version = v + 1 /\ n = m + 1 /\ m \in Nat
        BY <1>6, <2>1, <2>3, <2>4
      <4>1. h.nodes[c0].version = 1 + n
        BY <4>0
      <4>2. h.nodes[c].invalidated /\ Invalidations(c)' # {}
        BY <2>2, <2>3, <3>1
      <4> QED BY <3>1, <4>1, <4>2
    <3>2. CASE c # c0
      BY <1>6, <2>2, <2>3, <3>2
    <3> QED BY <3>1, <3>2
  <2>6. \A c \in Claims :
          /\ c \in h.deficits <=> Registrations(c)' # {}
          /\ c \in h.deficits <=> <<c, "DATA_DEFICIT">> \in h.links
    BY <1>6, <2>2, <2>3
  <2>7. h.stage = "VALUATION" <=> Valuations' # {}
    BY <1>7, <2>2, <2>3
  <2> QED BY <2>3, <2>5, <2>6, <2>7 DEF History
<1>10. CASE p.rule = "R006"
  <2>1. PICK c0 : /\ h = WithDeficit(g, c0)
                  /\ \A x \in Claims : x = c0 <=> RegisteredBy(i0) = x
    BY <1>10
  <2>2. /\ \A c : Invalidations(c)' = Invalidations(c)
        /\ \A c \in Claims : c # c0 => Registrations(c)' = Registrations(c)
        /\ \A c \in Claims : c = c0 => Registrations(c)' # {}
        /\ Valuations' = Valuations
    BY <1>4, <1>10, <2>1
  <2>3. /\ IsGraph(h)
        /\ h.stage = g.stage /\ h.nodes = g.nodes /\ g.links \subseteq h.links
        /\ h.deficits = g.deficits \cup {c0}
        /\ c0 \in g.deficits => h = g
        /\ c0 \notin g.deficits => h.links = g.links \cup {<<c0, "DATA_DEFICIT">>}
    BY <2>1, DeficitGraph
  <2>4. ASSUME NEW c \in Claims
        PROVE  /\ c \in h.deficits <=> Registrations(c)' # {}
               /\ c \in h.deficits <=> <<c, "DATA_DEFICIT">> \in h.links
    <3>1. c \in h.deficits <=> Registrations(c)' # {}
      BY <1>6, <2>2, <2>3
    <3>2. c \in h.deficits <=> <<c, "DATA_DEFICIT">> \in h.links
      <4>1. CASE c0 \in g.deficits
        BY <1>6, <2>3, <4>1
      <4>2. CASE c0 \notin g.deficits
        <5>1. <<c, "DATA_DEFICIT">> = <<c0, "DATA_DEFICIT">> <=> c = c0
          OBVIOUS
        <5> QED BY <1>6, <2>3, <4>2, <5>1
      <4> QED BY <4>1, <4>2
    <3> QED BY <3>1, <3>2
  <2>5. \A c \in Claims :
          /\ h.nodes[c].version = 1 + Cardinality(Invalidations(c)')
          /\ h.nodes[c].invalidated <=> Invalidations(c)' # {}
    BY <1>6, <2>2, <2>3
  <2>6. h.stage = "VALUATION" <=> Valuations' # {}
    BY <1>7, <2>2, <2>3
  <2> QED BY <2>3, <2>4, <2>5, <2>6 DEF History
<1>11. CASE p.rule = "R008"
  <2>1. /\ \A c : Invalidations(c)' = Invalidations(c)
        /\ \A c : Registrations(c)' = Registrations(c)
        /\ Valuations' # {}
    BY <1>4, <1>11
  <2>2. h = [g EXCEPT !.stage = "VALUATION", !.revision = @ + 1]
    BY <1>11
  <2>3. /\ IsGraph(h) /\ h.stage = "VALUATION" /\ h.nodes = g.nodes
        /\ h.deficits = g.deficits /\ h.links = g.links
    BY <2>2, ValuationGraph
  <2> QED BY <1>6, <2>1, <2>3 DEF History
<1> QED BY <1>8, <1>9, <1>10, <1>11 DEF RuleIds, Dispatching

LEMMA Completing ==
  ASSUME NEW s, IsLog(s), NEW p, p.event \in DOMAIN s, IsRow(s[p.event]),
         NEW t, t = Completed(s, p)
  PROVE  /\ IsLog(t) /\ DOMAIN t = DOMAIN s
         /\ \A i \in DOMAIN s : i # p.event => t[i] = s[i]
         /\ IsRow(t[p.event]) /\ t[p.event].status = "COMMITTED"
         /\ t[p.event].plan = p /\ t[p.event].event = s[p.event].event
         /\ t[p.event].cause = s[p.event].cause
<1> PICK i0, r : i0 = p.event /\ r = s[i0]
  OBVIOUS
<1> PICK q : q = [r EXCEPT !.status = "COMMITTED"]
  OBVIOUS
<1> PICK w : w = [q EXCEPT !.plan = p]
  OBVIOUS
<1> PICK u : u = [s EXCEPT ![i0] = q]
  OBVIOUS
<1>1. /\ IsRow(q) /\ q.event = r.event /\ q.cause = r.cause
      /\ q.status = "COMMITTED"
  BY MarkedRow
<1>2. /\ IsRow(w) /\ w.event = r.event /\ w.cause = r.cause
      /\ w.status = "COMMITTED" /\ w.plan = p
  BY <1>1 DEF IsRow, RowFields
<1>3. /\ IsLog(u) /\ DOMAIN u = DOMAIN s /\ u[i0] = q
      /\ \A i \in DOMAIN s : i # i0 => u[i] = s[i]
  BY Updated
<1>4. t = [u EXCEPT ![i0] = w]
  BY <1>3 DEF Completed
<1>5. /\ IsLog(t) /\ DOMAIN t = DOMAIN u /\ t[i0] = w
      /\ \A i \in DOMAIN u : i # i0 => t[i] = u[i]
  <2>1. IsLog(u) /\ i0 \in DOMAIN u
    BY <1>3
  <2> QED BY <1>4, <2>1, Updated
<1> QED BY <1>2, <1>3, <1>5

LEMMA CommitPlanCommits ==
  ASSUME IInv, CommitPlan
  PROVE  /\ Commits(Current) /\ IsGraph(graph_state') /\ History(graph_state)'
         /\ graph.links \subseteq graph_state'.links
<1>a. PICK p : p = Current
  OBVIOUS
<1>b. PICK i0, ctx, g : i0 = process.event /\ ctx = process.seen /\ g = graph
  OBVIOUS
<1>c. PICK e : e = event_log[i0].event
  OBVIOUS
<1>d. PICK a : a = Applied(g, Planned(p.rule, ctx))
  OBVIOUS
<1>1. p.event = i0 /\ p.rule = Decided
  BY <1>a, <1>b DEF Current, Plan
<1>2. /\ process.at = "claimed" /\ g = process.base /\ a = Outcome /\ a.ok
      /\ Decided \notin {"NO_MATCH", "R401"}
  BY <1>1, <1>b, <1>d DEF CommitPlan, Fresh, Outcome, Matched
<1>3. /\ i0 \in Indices /\ ~Committed(i0)
      /\ ctx = Over(e.payload, RuleState(g, e.entity))
      /\ Decided = Decision(e.type, ctx)
  BY <1>2, <1>b, <1>c DEF IInv, ProcessOK, Decided
<1>4. p.rule \in RuleIds
  BY <1>1, <1>2, <1>3, DecisionRange
<1>5. IsGraph(g) /\ History(g)
  BY <1>2, <1>b DEF IInv, GraphsOK
<1>6. /\ graph_state' = a.graph
      /\ outbox' = IF a.dispatch THEN Enqueued(p) ELSE outbox
      /\ event_log' = Completed(Generated(event_log, p, a.events), p)
      /\ Audit("COMMITTED")
  BY <1>2, <1>a DEF CommitPlan, CommitTransaction
<1>7. /\ IsLog(event_log) /\ IsLog(outbox) /\ IsLog(audit_log)
      /\ \A i \in Indices : IsRow(event_log[i])
  BY DEF IInv, Ledger, RowsOK, OutboxOK, AuditOK
<1>8. i0 # 0 /\ p # NoPlan
  <2>1. i0 # 0
    BY <1>3, <1>7, LogShape DEF Indices
  <2> QED BY <1>1, <2>1 DEF NoPlan, Plan
<1>9. /\ a.dispatch <=> p.rule \in Dispatching
      /\ a.events = <<>> <=> p.rule \in Dispatching
      /\ Effect(g, p.rule, ctx, a.graph)
  BY <1>2, <1>4, <1>d, Outcomes
<1>10. /\ \A i \in Indices : event_log[i].cause # p
       /\ \A k \in DOMAIN outbox : outbox[k].key # p
  <2>1. ~Done(p)
    BY <1>1, <1>3 DEF Done
  <2> QED BY <1>8, <2>1 DEF IInv, Ledger, ChildrenOK, OutboxOK
<1>11. Extends(audit_log', audit_log, AuditRow(i0))
  BY <1>6, <1>7, <1>b, Appended DEF Audit, AuditRow
<1>12. Commits(p)
  <2>1. CASE p.rule \in Dispatching
    <3>1. outbox' = Append(outbox, Entry(p))
      BY <1>6, <1>9, <1>10, <2>1 DEF Enqueued, Entry
    <3>2. Extends(outbox', outbox, Entry(p))
      BY <1>7, <3>1, Appended
    <3>3. event_log' = Completed(event_log, p)
      BY <1>6, <1>9, <2>1 DEF Generated
    <3>a. PICK s, t : s = event_log /\ t = event_log'
      OBVIOUS
    <3>4. IsLog(s) /\ i0 \in DOMAIN s /\ IsRow(s[i0]) /\ t = Completed(s, p)
      BY <1>3, <1>7, <3>3, <3>a DEF Indices
    <3>5. /\ IsLog(t) /\ DOMAIN t = DOMAIN s
          /\ \A i \in DOMAIN s : i # i0 => t[i] = s[i]
          /\ IsRow(t[i0]) /\ t[i0].status = "COMMITTED"
          /\ t[i0].plan = p /\ t[i0].event = s[i0].event
          /\ t[i0].cause = s[i0].cause
      BY <1>1, <3>4, Completing
    <3>6. CommittedRow(i0, p)
      BY <3>5, <3>a DEF CommittedRow, Committed
    <3>7. \A i \in Indices : i # i0 => RowKept(i)
      BY <1>7, <3>5, <3>a DEF RowKept, Committed, Indices
    <3>8. IsLog(event_log') /\ Indices' = Indices
      BY <3>5, <3>a DEF Indices
    <3> QED BY <1>1, <1>3, <1>8, <1>11, <2>1, <3>2, <3>6, <3>7, <3>8
            DEF Commits
  <2>2. CASE p.rule \notin Dispatching
    <3>1. outbox' = outbox
      BY <1>6, <1>9, <2>2
    <3>a. PICK x : x = NewRow(a.events[1], p)
      OBVIOUS
    <3>b. PICK s, t, u : /\ s = event_log /\ t = event_log'
                       /\ u = Append(event_log, x)
      OBVIOUS
    <3>2. t = Completed(u, p)
      BY <1>6, <1>9, <1>10, <2>2, <3>a, <3>b DEF Generated
    <3>3. PICK n : /\ n \notin DOMAIN s /\ DOMAIN u = DOMAIN s \cup {n}
                   /\ IsLog(u) /\ u[n] = x
                   /\ \A i \in DOMAIN s : u[i] = s[i]
      <4>1. Extends(u, s, x)
        BY <1>7, <3>b, Appended
      <4> QED BY <4>1 DEF Extends
    <3>4. IsRow(x) /\ x.cause = p /\ x.status = "PENDING"
      BY <3>a DEF NewRow, IsRow, RowFields
    <3>5. i0 \in DOMAIN u /\ IsRow(u[i0]) /\ i0 # n /\ i0 \in DOMAIN s
      BY <1>3, <1>7, <3>3, <3>b DEF Indices
    <3>6. /\ IsLog(t) /\ DOMAIN t = DOMAIN u
          /\ \A i \in DOMAIN u : i # i0 => t[i] = u[i]
          /\ IsRow(t[i0]) /\ t[i0].status = "COMMITTED"
          /\ t[i0].plan = p /\ t[i0].event = u[i0].event
          /\ t[i0].cause = u[i0].cause
      <4>1. /\ IsLog(u) /\ p.event \in DOMAIN u /\ IsRow(u[p.event])
            /\ t = Completed(u, p)
        BY <1>1, <3>2, <3>3, <3>5
      <4> QED BY <1>1, <4>1, Completing
    <3>7. CommittedRow(i0, p)
      BY <3>3, <3>5, <3>6, <3>b DEF CommittedRow, Committed
    <3>8. \A i \in Indices : i # i0 => RowKept(i)
      BY <1>7, <3>3, <3>6, <3>b DEF RowKept, Committed, Indices
    <3>9. IsLog(event_log') /\ n \notin Indices /\ Indices' = Indices \cup {n}
      BY <3>3, <3>6, <3>b DEF Indices
    <3>10. GeneratedRow(n, p)
      BY <3>3, <3>4, <3>5, <3>6, <3>b DEF GeneratedRow, Committed
    <3> QED BY <1>1, <1>3, <1>8, <1>11, <2>2, <3>1, <3>7, <3>8, <3>9, <3>10
            DEF Commits
  <2> QED BY <2>1, <2>2
<1>13. /\ Value(ctx, "verification.claim_id") = InvalidatedBy(i0)
       /\ \A x \in Claims : x = Value(ctx, "claim.id") <=> RegisteredBy(i0) = x
  <2>1. /\ Value(ctx, "verification.claim_id")
             = Value(e.payload, "verification.claim_id")
        /\ Value(ctx, "claim.id")
             = IF "claim.id" \in DOMAIN e.payload THEN e.payload["claim.id"]
               ELSE IF e.entity \in Claims THEN e.entity ELSE None
    BY <1>3, <1>5, SeenPaths
  <2>2. RegisteredBy(i0) = IF "claim.id" \in DOMAIN e.payload
                           THEN e.payload["claim.id"] ELSE e.entity
    BY <1>c DEF RegisteredBy
  <2> QED BY <1>c, <2>1, <2>2, ClaimsAssumption DEF InvalidatedBy
<1>14. History(a.graph)' /\ IsGraph(a.graph) /\ g.links \subseteq a.graph.links
  <2>1. p.rule = "R006" => \E c : /\ a.graph = WithDeficit(g, c)
                                  /\ \A x \in Claims :
                                       x = c <=> RegisteredBy(p.event) = x
    BY <1>1, <1>9, <1>13 DEF Effect
  <2>2. p.rule = "R001" => /\ InvalidatedBy(p.event) \in Claims
                           /\ a.graph = Invalidated(g, InvalidatedBy(p.event))
    BY <1>1, <1>9, <1>13 DEF Effect
  <2>3. Ledger
    BY DEF IInv
  <2>a. PICK h : h = a.graph
    OBVIOUS
  <2>4. /\ p.rule \in Dispatching => h = g
        /\ p.rule = "R001" => /\ InvalidatedBy(p.event) \in Claims
                              /\ h = Invalidated(g, InvalidatedBy(p.event))
        /\ p.rule = "R006" => \E c : /\ h = WithDeficit(g, c)
                                     /\ \A x \in Claims :
                                          x = c <=> RegisteredBy(p.event) = x
        /\ p.rule = "R008" =>
             h = [g EXCEPT !.stage = "VALUATION", !.revision = @ + 1]
    BY <1>9, <2>1, <2>2, <2>a DEF Effect
  <2>5. History(h)' /\ IsGraph(h) /\ g.links \subseteq h.links
    BY <1>4, <1>5, <1>12, <2>3, <2>4, HistoryByCommit
  <2> QED BY <2>5, <2>a
<1> QED BY <1>6, <1>12, <1>14, <1>a, <1>b

-----------------------------------------------------------------------------
(* The invariant holds initially, and every action preserves it.           *)

LEMMA InvInit == Init => IInv
<1> SUFFICES ASSUME Init PROVE IInv
  OBVIOUS
<1>1. /\ event_log = <<>> /\ outbox = <<>> /\ audit_log = <<>>
      /\ graph_state \in InitialGraphs /\ graph = graph_state /\ process = Idle
      /\ batch = [d \in Dispatchers |-> {}]
      /\ sending = [d \in Dispatchers |-> "no"] /\ received = {}
  BY DEF Init
<1>2. IsLog(<<>>) /\ DOMAIN <<>> = {}
  <2>1. <<>> \in Seq({})
    OBVIOUS
  <2> QED BY <2>1 DEF IsLog
<1>3. Indices = {} /\ DOMAIN outbox = {} /\ DOMAIN audit_log = {}
  BY <1>1, <1>2 DEF Indices
<1>4. Ledger
  <2>1. RowsOK
    BY <1>1, <1>2, <1>3 DEF RowsOK
  <2>2. ChildrenOK
    BY <1>3 DEF ChildrenOK
  <2>3. OutboxOK
    BY <1>1, <1>2, <1>3 DEF OutboxOK
  <2>4. AuditOK
    BY <1>1, <1>2, <1>3 DEF AuditOK
  <2> QED BY <2>1, <2>2, <2>3, <2>4 DEF Ledger
<1>5. ProcessOK
  BY <1>1 DEF ProcessOK, Idle, ProcessFields
<1>6. GraphsOK
  <2>1. IsGraph(graph_state) /\ IsUntouched(graph_state)
    BY <1>1, GraphsAssumption
  <2>2. /\ \A c : Invalidations(c) = {} /\ Registrations(c) = {}
        /\ Valuations = {} /\ Cardinality({}) = 0
    BY <1>3, FS_EmptySet DEF Invalidations, Registrations, Valuations
  <2>3. History(graph_state)
    BY <2>1, <2>2 DEF History, IsUntouched
  <2> QED BY <1>1, <2>1, <2>3 DEF GraphsOK
<1>7. FlushOK
  BY <1>1, <1>3 DEF FlushOK
<1> QED BY <1>4, <1>5, <1>6, <1>7 DEF IInv

LEMMA ProcessRests ==
  ASSUME ProcessOK, UNCHANGED <<event_log, graph_state, graph, process>>
  PROVE  ProcessOK'
BY DEF ProcessOK, Indices, Committed

LEMMA GraphsRest ==
  ASSUME GraphsOK, LogKept, UNCHANGED <<graph_state, graph>>,
         process'.at \in {"idle", "claimed"} => process.at \in {"idle", "claimed"}
  PROVE  GraphsOK'
<1>1. \A g : History(g) => History(g)'
  BY HistoryKept
<1> PICK g, h : g = graph_state /\ h = graph
  OBVIOUS
<1>2. History(g)' /\ (process'.at \in {"idle", "claimed"} => History(h)')
  BY <1>1 DEF GraphsOK
<1>3. History(graph_state)' /\ (process'.at \in {"idle", "claimed"} => History(graph)')
  BY <1>2
<1> QED BY <1>3 DEF GraphsOK

(* Steps of the process that add or close rows without a commit.           *)
LEMMA QuietStep ==
  ASSUME IInv, LogKept, AuditKept, ProcessOK',
         UNCHANGED <<outbox, graph_state, graph, dispatching>>,
         process'.at \in {"idle", "claimed"} => process.at \in {"idle", "claimed"}
  PROVE  IInv'
<1>1. OutboxKept
  BY SameOutbox DEF IInv
<1>2. Ledger'
  BY <1>1, LedgerKept DEF IInv
<1>3. GraphsOK'
  BY GraphsRest DEF IInv
<1>4. \A p : Done(p) => Done(p)'
  BY DoneStays
<1>5. FlushOK'
  BY <1>4, FlushRests DEF IInv
<1> QED BY <1>2, <1>3, <1>5 DEF IInv

LEMMA IdleOK ==
  ASSUME process' = Idle \/ process' = Down
  PROVE  ProcessOK' /\ process'.at \in {"idle", "down"}
BY DEF ProcessOK, Idle, Down, ProcessFields

LEMMA EmitStep ==
  ASSUME IInv, Emit
  PROVE  IInv'
<1>1. LogKept
  BY Emitting DEF Emit, IInv
<1>2. AuditKept
  BY SameAudit DEF Emit, IInv
<1>3. ProcessOK'
  BY DEF Emit, IInv, ProcessOK
<1> QED BY <1>1, <1>2, <1>3, QuietStep DEF Emit

LEMMA ClaimStep ==
  ASSUME IInv, ClaimNextEvent
  PROVE  IInv'
<1>1. PICK i \in Claimable :
        /\ event_log' = [event_log EXCEPT ![i].status = "PROCESSING"]
        /\ process' = [at |-> "claimed", event |-> i, base |-> graph,
                       seen |-> Context(event_log[i].event), next |-> None,
                       decision |-> Decision(event_log[i].event.type,
                                             Context(event_log[i].event))]
  BY DEF ClaimNextEvent
<1>2. i \in Indices /\ ~Committed(i)
  BY DEF Claimable, Open, Committed
<1>3. LogKept
  BY <1>1, <1>2, Marking DEF IInv
<1>4. AuditKept
  BY SameAudit DEF ClaimNextEvent, IInv
<1>5. ProcessOK'
  <2> PICK e : e = event_log[i].event
    OBVIOUS
  <2>1. i \in Indices' /\ event_log'[i].event = e /\ ~Committed(i)'
    BY <1>2, <1>3 DEF LogKept, RowKept
  <2>2. /\ process'.at = "claimed" /\ process'.event = i /\ process'.base = graph
        /\ process'.seen = Context(e)
        /\ process'.decision = Decision(e.type, Context(e))
        /\ process' = [x \in ProcessFields |-> process'[x]]
    BY <1>1 DEF ProcessFields
  <2>3. Context(e) = Over(e.payload, RuleState(graph, e.entity))
    BY DEF Context
  <2> QED BY <2>1, <2>2, <2>3 DEF ProcessOK
<1> QED BY <1>1, <1>3, <1>4, <1>5, QuietStep DEF ClaimNextEvent

(* The event in process is closed without a commit, or left open.          *)
LEMMA CloseStep ==
  ASSUME IInv, process.at = "claimed", process' = Idle, AuditKept,
         UNCHANGED <<outbox, graph_state, graph, dispatching>>,
         NEW status, status # "COMMITTED",
         event_log' \in {event_log,
                         [event_log EXCEPT ![process.event].status = status]}
  PROVE  IInv'
<1>1. process.event \in Indices /\ ~Committed(process.event)
  BY DEF IInv, ProcessOK
<1> PICK i : i = process.event
  OBVIOUS
<1>2. LogKept
  <2>1. CASE event_log' = event_log
    BY <2>1, SameLog DEF IInv
  <2>2. CASE event_log' = [event_log EXCEPT ![i].status = status]
    BY <1>1, <2>2, Marking DEF IInv
  <2> QED BY <2>1, <2>2
<1> QED BY <1>2, IdleOK, QuietStep

LEMMA CrashStep ==
  ASSUME IInv, UNCHANGED <<db, graph, dispatching>>, process' = Down
  PROVE  IInv'
<1>1. LogKept /\ AuditKept
  BY SameLog, SameAudit DEF IInv, db
<1>2. ProcessOK' /\ process'.at = "down"
  BY IdleOK DEF Down
<1> QED BY <1>1, <1>2, QuietStep DEF db

(* Steps that touch nothing but the graphs and the process.                *)
LEMMA MemoryStep ==
  ASSUME IInv, UNCHANGED <<event_log, outbox, audit_log, dispatching>>,
         ProcessOK', GraphsOK'
  PROVE  IInv'
<1>1. LogKept /\ OutboxKept /\ AuditKept
  BY SameLog, SameOutbox, SameAudit DEF IInv
<1>2. Ledger'
  BY <1>1, LedgerKept DEF IInv
<1>3. \A p : Done(p) => Done(p)'
  BY <1>1, DoneStays
<1>4. FlushOK'
  BY <1>3, FlushRests DEF IInv
<1> QED BY <1>2, <1>4 DEF IInv

LEMMA SameHistory ==
  ASSUME UNCHANGED event_log
  PROVE  \A g : History(g)' <=> History(g)
BY DEF History, Invalidations, Registrations, Valuations, Indices, Committed,
       RuleOf, InvalidatedBy, RegisteredBy

LEMMA LinkStep ==
  ASSUME IInv, LinkEvidence
  PROVE  IInv' /\ graph.links \subseteq graph'.links
<1> PICK g, h : g = graph /\ h = graph'
  OBVIOUS
<1>1. PICK c, type : type # "DATA_DEFICIT" /\ h = AddEdge(g, c, type)
  BY DEF LinkEvidence
<1>2. /\ IsGraph(g) /\ History(g) /\ History(graph_state) /\ IsGraph(graph_state)
      /\ process.at \in {"idle", "claimed"}
  BY DEF LinkEvidence, IInv, GraphsOK
<1>3. /\ IsGraph(h) /\ h.stage = g.stage /\ h.nodes = g.nodes
      /\ h.deficits = g.deficits /\ g.links \subseteq h.links
      /\ \A x : <<x, "DATA_DEFICIT">> \in h.links
                <=> <<x, "DATA_DEFICIT">> \in g.links
  BY <1>1, <1>2, LinkedGraph
<1>4. History(h)
  BY <1>2, <1>3 DEF History
<1>5. /\ UNCHANGED <<event_log, outbox, audit_log, graph_state, process, dispatching>>
  BY DEF LinkEvidence, db
<1>6. GraphsOK'
  <2>1. History(h)' /\ History(graph_state)'
    <3> PICK gs : gs = graph_state
      OBVIOUS
    <3>1. History(h)' /\ History(gs)'
      BY <1>2, <1>4, <1>5, SameHistory
    <3> QED BY <1>5, <3>1
  <2> QED BY <1>2, <1>3, <1>5, <2>1 DEF GraphsOK
<1>7. ProcessOK'
  BY <1>2, <1>5 DEF IInv, ProcessOK, Indices, Committed
<1> QED BY <1>3, <1>5, <1>6, <1>7, MemoryStep

LEMMA PersistStep ==
  ASSUME IInv, PersistGraph
  PROVE  IInv'
<1>1. /\ graph_state' = graph /\ process.at = "idle"
      /\ UNCHANGED <<event_log, outbox, audit_log, graph, process, dispatching>>
  BY DEF PersistGraph
<1> PICK g : g = graph
  OBVIOUS
<1>2. IsGraph(g) /\ History(g)
  BY <1>1 DEF IInv, GraphsOK
<1>3. History(g)'
  BY <1>1, <1>2, SameHistory
<1>4. GraphsOK'
  BY <1>1, <1>2, <1>3 DEF GraphsOK
<1>5. ProcessOK'
  BY <1>1 DEF IInv, ProcessOK
<1> QED BY <1>1, <1>4, <1>5, MemoryStep

(* Publishing a commit, or loading the graph after a crash.                *)
LEMMA LoadStep ==
  ASSUME IInv, UNCHANGED <<db, dispatching>>, process' = Idle,
         graph' = graph_state
  PROVE  IInv'
<1> PICK g : g = graph_state
  OBVIOUS
<1>1. IsGraph(g) /\ History(g)'
  BY SameHistory DEF IInv, GraphsOK, db
<1>2. GraphsOK'
  BY <1>1 DEF GraphsOK, db
<1> QED BY <1>2, IdleOK, MemoryStep DEF db

LEMMA CommitStep ==
  ASSUME IInv, CommitPlan
  PROVE  IInv'
<1>1. /\ Commits(Current) /\ IsGraph(graph_state') /\ History(graph_state)'
      /\ graph.links \subseteq graph_state'.links
  BY CommitPlanCommits
<1> PICK p : p = Current
  OBVIOUS
<1>2. Commits(p)
  BY <1>1
<1>3. Ledger'
  BY <1>2, LedgerByCommit DEF IInv
<1>4. /\ UNCHANGED <<graph, dispatching>>
      /\ process' = [process EXCEPT !.at = "committed", !.next = graph_state']
  BY DEF CommitPlan, CommitTransaction
<1>5. /\ process' = [x \in ProcessFields |-> process'[x]]
      /\ process'.at = "committed" /\ process'.next = graph_state'
  BY <1>4 DEF IInv, ProcessOK, ProcessFields
<1>6. ProcessOK'
  BY <1>1, <1>4, <1>5 DEF ProcessOK
<1>7. GraphsOK'
  BY <1>1, <1>4, <1>5 DEF GraphsOK, IInv
<1>8. \A q : Done(q) => Done(q)'
  BY <1>2, DoneByCommit
<1>9. /\ DOMAIN outbox \subseteq DOMAIN outbox'
      /\ \A k \in DOMAIN outbox : outbox'[k] = outbox[k]
      /\ \A k \in DOMAIN outbox' \ DOMAIN outbox :
           outbox'[k].status # "DISPATCHED"
  <2>1. CASE p.rule \in Dispatching
    <3>1. Extends(outbox', outbox, Entry(p))
      BY <1>2, <2>1 DEF Commits
    <3>2. Entry(p).status = "PENDING"
      BY DEF Entry
    <3> QED BY <3>1, <3>2 DEF Extends
  <2>2. CASE p.rule \notin Dispatching
    BY <1>2, <2>2 DEF Commits
  <2> QED BY <2>1, <2>2
<1>10. FlushOK'
  BY <1>4, <1>8, <1>9, FlushRests DEF IInv
<1> QED BY <1>3, <1>6, <1>7, <1>10 DEF IInv

(* The steps of a dispatcher.                                              *)
LEMMA DispatcherStep ==
  ASSUME IInv, UNCHANGED <<event_log, audit_log, graph_state, graph, process>>,
         OutboxKept, FlushOK'
  PROVE  IInv'
<1>1. LogKept /\ AuditKept
  BY SameLog, SameAudit DEF IInv
<1>2. Ledger'
  BY <1>1, LedgerKept DEF IInv
<1>3. ProcessOK'
  BY ProcessRests DEF IInv
<1>4. GraphsOK'
  BY <1>1, GraphsRest DEF IInv
<1> QED BY <1>2, <1>3, <1>4 DEF IInv

LEMMA SameDone ==
  ASSUME UNCHANGED event_log
  PROVE  \A p : Done(p)' <=> Done(p)
BY DEF Done, Indices, Committed

LEMMA BeginStep ==
  ASSUME IInv, NEW d \in Dispatchers, BeginFlush(d)
  PROVE  IInv'
<1> PICK new : new = {k \in DOMAIN outbox : NotYet(k)}
  OBVIOUS
<1>1. /\ batch[d] = {} /\ batch' = [batch EXCEPT ![d] = new]
      /\ UNCHANGED <<event_log, outbox, audit_log, graph_state, graph, process,
                     sending, received>>
  BY DEF BeginFlush, db
<1>2. OutboxKept
  BY <1>1, SameOutbox DEF IInv
<1>3. new # {} /\ new \subseteq DOMAIN outbox
  BY DEF BeginFlush
<1>4. /\ batch' = [e \in Dispatchers |-> batch'[e]] /\ batch'[d] = new
      /\ \A e \in Dispatchers : e # d => batch'[e] = batch[e]
  BY <1>1 DEF IInv, FlushOK
<1>5. sending[d] = "no"
  BY <1>1 DEF IInv, FlushOK
<1>6. \A e \in Dispatchers : \A k : e # d => (Visits(e, k)' <=> Visits(e, k))
  BY <1>4 DEF Visits
<1>7. \A p : Done(p)' <=> Done(p)
  BY <1>1, SameDone
<1>8. FlushOK'
  BY <1>1, <1>3, <1>4, <1>5, <1>6, <1>7 DEF IInv, FlushOK
<1> QED BY <1>1, <1>2, <1>8, DispatcherStep

LEMMA MarkStep ==
  ASSUME IInv, NEW d \in Dispatchers, MarkSending(d)
  PROVE  IInv'
<1>1. /\ sending' = [sending EXCEPT ![d] = "marked"]
      /\ UNCHANGED <<event_log, audit_log, graph_state, graph, process, batch,
                     received>>
  BY DEF MarkSending
<1>2. PICK k \in batch[d] :
        outbox' = IF NotYet(k) THEN [outbox EXCEPT ![k].status = "SENDING"]
                  ELSE outbox
  BY DEF MarkSending
<1>3. k \in DOMAIN outbox
  BY DEF IInv, FlushOK
<1>4. /\ OutboxKept
      /\ \A i \in DOMAIN outbox :
           outbox'[i].status = "DISPATCHED" => outbox[i].status = "DISPATCHED"
  <2>1. CASE outbox' = outbox
    BY <2>1, SameOutbox DEF IInv
  <2>2. CASE outbox' = [outbox EXCEPT ![k].status = "SENDING"]
    <3>1. /\ OutboxKept /\ outbox'[k].status = "SENDING"
          /\ \A i \in DOMAIN outbox : i # k => outbox'[i] = outbox[i]
      BY <1>3, <2>2, Statement DEF IInv
    <3> QED BY <3>1
  <2> QED BY <1>2, <2>1, <2>2
<1>5. \A p : Done(p)' <=> Done(p)
  BY <1>1, SameDone
<1>6. \A e, i : Visits(e, i)' <=> Visits(e, i)
  BY <1>1 DEF Visits
<1>7. /\ sending' = [e \in Dispatchers |-> sending'[e]] /\ sending'[d] = "marked"
      /\ \A e \in Dispatchers : e # d => sending'[e] = sending[e]
  BY <1>1 DEF IInv, FlushOK
<1>8. FlushOK'
  BY <1>1, <1>2, <1>4, <1>5, <1>6, <1>7 DEF IInv, FlushOK, OutboxKept
<1> QED BY <1>1, <1>4, <1>8, DispatcherStep

LEMMA SendStep ==
  ASSUME IInv, NEW d \in Dispatchers, Send(d)
  PROVE  IInv'
<1>1. /\ sending' = [sending EXCEPT ![d] = "sent"]
      /\ UNCHANGED <<event_log, outbox, audit_log, graph_state, graph, process,
                     batch>>
  BY DEF Send, db
<1>2. PICK k \in batch[d] :
        Visits(d, k) /\ received' = received \cup {outbox[k].key}
  BY DEF Send
<1>3. k \in DOMAIN outbox /\ Done(outbox[k].key)
  BY DEF IInv, FlushOK, Ledger, OutboxOK
<1>4. \A i \in batch[d] : Visits(d, i) => i = k
  <2>1. batch[d] \subseteq Nat
    BY LogShape DEF IInv, FlushOK, Ledger, OutboxOK
  <2> QED BY <1>2, <2>1 DEF Visits
<1>5. OutboxKept
  BY <1>1, SameOutbox DEF IInv
<1>6. \A p : Done(p)' <=> Done(p)
  BY <1>1, SameDone
<1>7. \A e, i : Visits(e, i)' <=> Visits(e, i)
  BY <1>1 DEF Visits
<1>8. /\ sending' = [e \in Dispatchers |-> sending'[e]]
      /\ \A e \in Dispatchers : e # d => sending'[e] = sending[e]
  BY <1>1 DEF IInv, FlushOK
<1>9. FlushOK'
  BY <1>1, <1>2, <1>3, <1>4, <1>6, <1>7, <1>8 DEF IInv, FlushOK
<1> QED BY <1>1, <1>5, <1>9, DispatcherStep

LEMMA FinishStep ==
  ASSUME IInv, NEW d \in Dispatchers, Finish(d)
  PROVE  IInv'
<1>1. /\ sending[d] = "sent" /\ sending' = [sending EXCEPT ![d] = "no"]
      /\ UNCHANGED <<event_log, audit_log, graph_state, graph, process, received>>
  BY DEF Finish
<1>2. PICK k \in batch[d] :
        /\ Visits(d, k)
        /\ outbox' = [outbox EXCEPT ![k].status = "DISPATCHED"]
        /\ batch' = [batch EXCEPT ![d] = @ \ {k}]
  BY DEF Finish
<1>3. k \in DOMAIN outbox /\ outbox[k].key \in received
  BY <1>1, <1>2 DEF IInv, FlushOK
<1>4. /\ OutboxKept
      /\ \A i \in DOMAIN outbox : i # k => outbox'[i] = outbox[i]
  BY <1>2, <1>3, Statement DEF IInv
<1>5. \A p : Done(p)' <=> Done(p)
  BY <1>1, SameDone
<1>6. /\ batch' = [e \in Dispatchers |-> batch'[e]]
      /\ batch'[d] \subseteq batch[d]
      /\ \A e \in Dispatchers : e # d => batch'[e] = batch[e]
  BY <1>2 DEF IInv, FlushOK
<1>7. /\ sending' = [e \in Dispatchers |-> sending'[e]] /\ sending'[d] = "no"
      /\ \A e \in Dispatchers : e # d => sending'[e] = sending[e]
  BY <1>1 DEF IInv, FlushOK
<1>8. \A e \in Dispatchers : \A i : e # d => (Visits(e, i)' <=> Visits(e, i))
  BY <1>6 DEF Visits
<1>9. FlushOK'
  BY <1>1, <1>3, <1>4, <1>5, <1>6, <1>7, <1>8 DEF IInv, FlushOK, OutboxKept
<1> QED BY <1>1, <1>4, <1>9, DispatcherStep

LEMMA AbortStep ==
  ASSUME IInv, NEW d \in Dispatchers, AbortFlush(d)
  PROVE  IInv'
<1>1. /\ batch' = [batch EXCEPT ![d] = {}]
      /\ sending' = [sending EXCEPT ![d] = "no"]
      /\ UNCHANGED <<event_log, outbox, audit_log, graph_state, graph, process,
                     received>>
  BY DEF AbortFlush, db
<1>2. OutboxKept
  BY <1>1, SameOutbox DEF IInv
<1>3. \A p : Done(p)' <=> Done(p)
  BY <1>1, SameDone
<1>4. /\ batch' = [e \in Dispatchers |-> batch'[e]] /\ batch'[d] = {}
      /\ \A e \in Dispatchers : e # d => batch'[e] = batch[e]
      /\ sending' = [e \in Dispatchers |-> sending'[e]] /\ sending'[d] = "no"
      /\ \A e \in Dispatchers : e # d => sending'[e] = sending[e]
  BY <1>1 DEF IInv, FlushOK
<1>5. \A e \in Dispatchers : \A i : e # d => (Visits(e, i)' <=> Visits(e, i))
  BY <1>4 DEF Visits
<1>6. FlushOK'
  BY <1>1, <1>3, <1>4, <1>5 DEF IInv, FlushOK
<1> QED BY <1>1, <1>2, <1>6, DispatcherStep

LEMMA StutterStep ==
  ASSUME IInv, UNCHANGED vars
  PROVE  IInv'
<1>1. UNCHANGED <<event_log, outbox, audit_log, graph_state, graph, process,
                  batch, sending, received>>
  BY DEF vars
<1>2. OutboxKept
  BY <1>1, SameOutbox DEF IInv
<1>3. FlushOK'
  <2>1. \A p : Done(p)' <=> Done(p)
    BY <1>1, SameDone
  <2>2. \A e, i : Visits(e, i)' <=> Visits(e, i)
    BY <1>1 DEF Visits
  <2> QED BY <1>1, <2>1, <2>2 DEF IInv, FlushOK
<1> QED BY <1>1, <1>2, <1>3, DispatcherStep

LEMMA InvStep ==
  ASSUME IInv, [Next]_vars
  PROVE  IInv'
<1>1. CASE Emit
  BY <1>1, EmitStep
<1>2. CASE LinkEvidence
  BY <1>2, LinkStep
<1>3. CASE PersistGraph
  BY <1>3, PersistStep
<1>4. CASE ClaimNextEvent
  BY <1>4, ClaimStep
<1>5. CASE NoMatch
  <2>1. AuditKept
    BY <1>5, Auditing DEF NoMatch, IInv
  <2> QED BY <1>5, <2>1, CloseStep DEF NoMatch
<1>6. CASE CommitPlan
  BY <1>6, CommitStep
<1>7. CASE Publish
  <2>1. process.next = graph_state
    BY <1>7 DEF Publish, IInv, ProcessOK
  <2> QED BY <1>7, <2>1, LoadStep DEF Publish
<1>8. CASE Fail
  <2>1. AuditKept
    BY <1>8, SameAudit DEF Fail, IInv
  <2> QED BY <1>8, <2>1, CloseStep DEF Fail
<1>9. CASE TransactionFails
  <2>1. AuditKept
    BY <1>9, SameAudit DEF TransactionFails, IInv
  <2> QED BY <1>9, <2>1, CloseStep DEF TransactionFails
<1>10. CASE Crash
  BY <1>10, CrashStep DEF Crash
<1>11. CASE Restart
  BY <1>11, LoadStep DEF Restart
<1>12. CASE \E d \in Dispatchers : Flush(d) \/ AbortFlush(d)
  BY <1>12, BeginStep, MarkStep, SendStep, FinishStep, AbortStep DEF Flush
<1>13. CASE UNCHANGED vars
  BY <1>13, StutterStep
<1> QED BY <1>1, <1>2, <1>3, <1>4, <1>5, <1>6, <1>7, <1>8, <1>9, <1>10, <1>11,
           <1>12, <1>13 DEF Next, ProcessNext

LEMMA Invariance == Spec => []IInv
<1>1. Init => IInv
  BY InvInit
<1>2. IInv /\ [Next]_vars => IInv'
  BY InvStep
<1> QED BY <1>1, <1>2, PTL DEF Spec

(* INV-006, INV-008, INV-009, INV-012.  Whatever is emitted, linked or     *)
(* persisted, wherever the process or a dispatcher dies and however often  *)
(* they come back: the transaction of commit_plan leaves one audit row and *)
(* one outbox row or generated event per COMMITTED event, and no other     *)
(* event has one.                                                          *)
THEOREM CommittedWhole == Spec => []CommitIsWhole
<1>1. IInv => CommitIsWhole
  BY InvImplies
<1> QED BY <1>1, Invariance, PTL

(* The graph in the database, and the one in memory between two events, is *)
(* the fold of the committed events: commit_plan applies the action of the *)
(* rule to a clone of the current graph and stores it with the event, and  *)
(* neither a crash before self.graph is assigned nor a failed transaction  *)
(* makes the two drift apart.                                              *)
THEOREM GraphFoldsTheLog == Spec => []GraphIsItsHistory
<1>1. IInv => GraphIsItsHistory
  BY InvImplies
<1> QED BY <1>1, Invariance, PTL

(* INV-010, INV-011.  Any number of dispatchers may flush the same rows,   *)
(* die between send and UPDATE and send again: to a receiver that drops    *)
(* repeated keys each committed event is dispatched once at most, no other *)
(* event ever, and a DISPATCHED row has been received.                     *)
THEOREM SentEffectivelyOnce == Spec => []EffectivelyOnce
<1>1. IInv => EffectivelyOnce
  BY InvImplies
<1> QED BY <1>1, Invariance, PTL

LEMMA OnlyCommitPlanCommits ==
  ASSUME IInv, [Next]_vars, ~CommitPlan
  PROVE  LogKept
<1>1. CASE UNCHANGED event_log
  BY <1>1, SameLog DEF IInv
<1>2. CASE Emit
  BY <1>2, Emitting DEF Emit, IInv
<1>3. CASE ClaimNextEvent
  <2>1. PICK i \in Claimable :
          event_log' = [event_log EXCEPT ![i].status = "PROCESSING"]
    BY <1>3 DEF ClaimNextEvent
  <2>2. i \in Indices /\ ~Committed(i)
    BY DEF Claimable, Open, Committed
  <2> QED BY <2>1, <2>2, Marking DEF IInv
<1>4. CASE NoMatch \/ Fail \/ TransactionFails
  <2> PICK i : i = process.event
    OBVIOUS
  <2>1. i \in Indices /\ ~Committed(i)
    BY <1>4 DEF NoMatch, Fail, TransactionFails, IInv, ProcessOK
  <2>2. \/ event_log' = event_log
        \/ event_log' = [event_log EXCEPT ![i].status = "NO_MATCH"]
        \/ event_log' = [event_log EXCEPT ![i].status = "FAILED"]
    BY <1>4 DEF NoMatch, Fail, TransactionFails
  <2>3. ASSUME NEW status \in {"NO_MATCH", "FAILED"},
               event_log' = [event_log EXCEPT ![i].status = status]
        PROVE  LogKept
    BY <2>1, <2>3, Marking DEF IInv
  <2> QED BY <1>1, <2>2, <2>3
<1> QED BY <1>1, <1>2, <1>3, <1>4
        DEF Next, ProcessNext, LinkEvidence, PersistGraph, Publish, Crash,
            Restart, Flush, BeginFlush, MarkSending, Send, Finish, AbortFlush,
            db, vars

Fresher ==
  /\ \A i \in Indices :
       event_log[i].status # "COMMITTED" /\ event_log'[i].status = "COMMITTED"
       => RuleOf(i)' = Decision(event_log[i].event.type,
                                Context(event_log[i].event))
  /\ process.at # "down" => graph.links \subseteq graph'.links

LEMMA NoStaleStep ==
  ASSUME IInv, [Next]_vars
  PROVE  Fresher
<1>1. ASSUME NEW i \in Indices, event_log[i].status # "COMMITTED",
             event_log'[i].status = "COMMITTED"
      PROVE  RuleOf(i)' = Decision(event_log[i].event.type,
                                   Context(event_log[i].event))
  <2>1. CommitPlan
    <3>1. ~LogKept
      BY <1>1 DEF LogKept, RowKept, Committed
    <3> QED BY <3>1, OnlyCommitPlanCommits
  <2>2. PICK p : p = Current
    OBVIOUS
  <2>3. Commits(p)
    BY <2>1, <2>2, CommitPlanCommits
  <2>4. p.event = process.event /\ p.rule = Decided
    BY <2>2 DEF Current, Plan
  <2>5. i = process.event /\ event_log'[i].plan = p
    BY <1>1, <2>3, <2>4 DEF Commits, RowKept, CommittedRow, Committed
  <2>6. PICK e : e = event_log[i].event
    OBVIOUS
  <2>7. /\ process.seen = Over(e.payload, RuleState(process.base, e.entity))
        /\ Decided = Decision(e.type, process.seen)
    BY <2>1, <2>5, <2>6 DEF CommitPlan, IInv, ProcessOK, Decided
  <2>8. process.seen = Context(e)
    BY <2>1, <2>7 DEF CommitPlan, Fresh, Context
  <2> QED BY <2>4, <2>5, <2>6, <2>7, <2>8 DEF RuleOf
<1>2. ASSUME process.at # "down"
      PROVE  graph.links \subseteq graph'.links
  <2>1. CASE LinkEvidence
    BY <2>1, LinkStep
  <2>2. CASE Publish
    BY <2>2 DEF Publish, IInv, ProcessOK
  <2>3. CASE UNCHANGED graph
    BY <2>3
  <2> QED BY <1>2, <2>1, <2>2, <2>3
          DEF Next, ProcessNext, Emit, PersistGraph, ClaimNextEvent, NoMatch,
              CommitPlan, CommitTransaction, Fail, TransactionFails, Crash,
              Restart, Flush, BeginFlush, MarkSending, Send, Finish,
              AbortFlush, vars
<1> QED BY <1>1, <1>2 DEF Fresher

(* INV-003, INV-005.  The rule an event is committed with is the one the   *)
(* engine decides over the graph of that moment, whatever was linked since *)
(* it was planned: commit_plan compares the hash of the current graph with *)
(* the plan's.  And no step of a live process takes a link away again.     *)
THEOREM CommittedFresh == Spec => NeverCommittedStale
<1>1. IInv /\ [Next]_vars => [Fresher]_vars
  BY NoStaleStep
<1> QED BY <1>1, Invariance, PTL DEF Spec, NeverCommittedStale, Fresher
=============================================================================
