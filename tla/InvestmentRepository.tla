----------------------- MODULE InvestmentRepository ------------------------
(***************************************************************************)
(* Processes that call the investment repository over one PostgreSQL       *)
(* database, statement by statement, under READ COMMITTED: a statement     *)
(* sees what has been committed and what its own transaction wrote.        *)
(*                                                                         *)
(*   SELECT ... FOR UPDATE  waits for who locked the row or refers to it   *)
(*   INSERT                 waits for who is inserting the same key, and   *)
(*                          for who has locked a row it refers to          *)
(*   a cycle of waits       one of its transactions is aborted             *)
(*                                                                         *)
(* An exception rolls the transaction back and ends the call; a crash does *)
(* the same, and the caller calls again.                                   *)
(***************************************************************************)
EXTENDS RepositoryCalls

CONSTANTS
  Procs,
  Scenarios,    \* [stored, edges, calls, crashes, damage]: what is there, what
                \* is called, how often a process may stop and how many rows
                \* may be changed by hand
  Requests,     \* name of a call -> the operation and its arguments
  MaxNow        \* bound on the clock

ASSUME ClockAssumption == MaxNow \in Nat \ {0}

ASSUME RequestsAssumption ==
  /\ "none" \notin DOMAIN Requests
  /\ \A name \in DOMAIN Requests : IsRequest(Requests[name])

\* Name of a call -> when it is made -> its statements.
Programs == [name \in DOMAIN Requests |->
               [t \in 1 .. MaxNow |-> Perform(Requests[name], t)]]

-----------------------------------------------------------------------------
(* What a database is that earlier calls have left.                        *)

SameKey(e, f) ==
  e.source = f.source /\ e.type = f.type /\ e.target = f.target

\* What a revision and the row it replaces agree on.
Succeeds(new, old) ==
  /\ old.time < new.time
  /\ new.kind = old.kind
  /\ new.kind = "Metric" => new.series = old.series

IsHistory(stored, edges) ==
  /\ IsFiniteSet(stored)
  /\ \A n \in stored :
       /\ IsRow(n)
       /\ n.supersedes # NoId =>
            \E m \in stored : /\ m.id = n.supersedes /\ m.kind \notin Bare
                              /\ Succeeds(n, m)
  /\ \A m, n \in stored :
       \/ m.id = n.id
       \/ n.supersedes # NoId /\ m.supersedes = n.supersedes
       => m = n
  /\ \A e \in edges : e = [x \in EdgeFields |-> e[x]]
  /\ \A e, f \in edges : SameKey(e, f) => e = f

ASSUME ScenarioAssumption ==
  \A s \in Scenarios : /\ s.calls \subseteq DOMAIN Requests
                        /\ IsHistory(s.stored, s.edges)

\* An id is a digest of what its node says (_expected_identity), so it names
\* the kind of the node and the inputs of a calculation; the inputs have to be
\* there before the id that is made from theirs.
Told == (UNION {s.stored : s \in Scenarios})
        \cup (UNION {RowsOf(Requests[name]) : name \in DOMAIN Requests})
Derives(e) == \A n \in Told :
  n.id = e.source /\ n.kind = "Calculation" /\ e.type = "DERIVED_FROM"
  => e.target \in ToSet(n.uses)
ASSUME IdentityAssumption ==
  /\ \A m, n \in Told :
       m.id = n.id => /\ m.kind = n.kind
                      /\ m.kind = "Calculation" => m.uses = n.uses
  /\ \A C \in SUBSET {n \in Told : n.kind = "Calculation"} :
       C # {} => \E n \in C : \A m \in C : m.id \notin ToSet(n.uses)
  /\ \A s \in Scenarios : \A e \in s.edges : Derives(e)

VARIABLES
  g,        \* the committed database
  tx,       \* per process, the rows and locks of its open transaction
  call,     \* per process, the call it is in, or "none"
  todo,     \* per process, the statements that are left
  began,    \* per process, when its transaction began
  mem,      \* per process, what it has read for later
  possible, \* per process, what its read could have answered since it began
  outcome,  \* per call, "pending", "ok" or why it failed
  now,
  crashes, damage  \* how many are left

reader == <<mem, possible>>
bounds == <<now, crashes, damage>>
vars   == <<g, tx, call, todo, began, reader, outcome, bounds>>

Empty == <<>>
Closed == [nodes |-> Empty, facts |-> Empty, edges |-> {},
           locks |-> {}, shares |-> {}]
NodeLock(id) == <<"domain_nodes", id>>
FactLock(id) == <<"facts", id>>

\* What is written over what is there.
Over(new, old) == [id \in DOMAIN new \cup DOMAIN old |->
                     IF id \in DOMAIN new THEN new[id] ELSE old[id]]
With(rows, id, row) == [i \in DOMAIN rows \cup {id} |->
                          IF i = id THEN row ELSE rows[i]]

View(p) == [nodes |-> Over(tx[p].nodes, g.nodes),
            facts |-> Over(tx[p].facts, g.facts),
            edges |-> tx[p].edges \cup g.edges]

Init ==
  /\ \E s \in Scenarios :
       /\ g = [nodes |-> [id \in {n.id : n \in s.stored} |->
                            Row(CHOOSE n \in s.stored : n.id = id)],
               facts |-> [id \in {n.id : n \in {m \in s.stored :
                                                  m.kind \notin Bare}} |->
                            CHOOSE n \in s.stored : n.id = id],
               edges |-> s.edges]
       /\ outcome = [name \in s.calls |-> "pending"]
       /\ crashes = s.crashes /\ damage = s.damage
  /\ tx = [p \in Procs |-> Closed]
  /\ call = [p \in Procs |-> "none"] /\ todo = [p \in Procs |-> <<>>]
  /\ began = [p \in Procs |-> 0]
  /\ mem = [p \in Procs |-> {}] /\ possible = [p \in Procs |-> {}]
  /\ now = 1

-----------------------------------------------------------------------------
(* Waiting.                                                                *)

Holds(q, lock) == lock \in tx[q].locks
Refers(q, lock) == lock \in tx[q].locks \cup tx[q].shares

\* The processes whose transactions the next statement of p waits for.
WaitsFor(p) ==
  LET s == Head(todo[p])
      others == Procs \ {p}
  IN IF todo[p] = <<>> THEN {}
     ELSE CASE s.do = "source" /\ s.lock ->
                 {q \in others : Refers(q, NodeLock(s.node.id))}
            [] s.do = "revise" ->
                 {q \in others : Refers(q, FactLock(s.node.supersedes))}
            [] s.do = "insert node" ->
                 {q \in others : s.node.id \in DOMAIN tx[q].nodes}
            [] s.do = "insert fact" ->
                 {q \in others :
                    \/ \E id \in DOMAIN tx[q].facts :
                         \/ id = s.node.id
                         \/ /\ s.node.supersedes # NoId
                            /\ tx[q].facts[id].supersedes = s.node.supersedes
                    \/ Holds(q, NodeLock(s.node.id))
                    \/ Holds(q, FactLock(s.node.supersedes))}
            [] s.do = "insert edge" ->
                 {q \in others :
                    \/ \E e \in tx[q].edges : SameKey(e, s.edge)
                    \/ Holds(q, NodeLock(s.edge.source))
                    \/ Holds(q, NodeLock(s.edge.target))}
            [] OTHER -> {}

\* p is on a cycle of waits.
Deadlocked(p) ==
  \E S \in SUBSET Procs :
    /\ p \in S
    /\ \A q \in S : /\ WaitsFor(q) \cap S # {}
                    /\ \E r \in S : q \in WaitsFor(r)

-----------------------------------------------------------------------------
(* Calls.                                                                  *)

\* The links of a metric or a claim, and the evidence behind such links.
LinksOf(d, s) == IF s.of = "Claim" THEN ClaimLinks(d, s.id)
                 ELSE MetricLinks(d, s.id)
EvidenceFrom(d, s, links) ==
  IF s.of = "Claim" THEN EvidenceForClaimFrom(d, s.id, links, s.cutoff)
  ELSE EvidenceForMetricFrom(d, s.id, links, s.cutoff)

\* What the read of p would answer from the database d in one go.
Atomic(s, d) == IF s.do = "candidates" THEN LatestEvidenceAt(d, s.id, s.cutoff)
                ELSE EvidenceFrom(d, s, LinksOf(d, s))
Reading(p) == /\ todo[p] # <<>> /\ mem[p] # {}
              /\ Last(todo[p]).do \in {"candidates", "lineage"}

Call(p, name) ==
  /\ call[p] = "none" /\ outcome[name] = "pending"
  /\ \A q \in Procs : call[q] # name
  /\ call' = [call EXCEPT ![p] = name]
  /\ todo' = [todo EXCEPT ![p] = Programs[name][now]]
  /\ began' = [began EXCEPT ![p] = now]
  /\ UNCHANGED <<g, tx, reader, outcome, bounds>>

\* The call of p ends, its transaction with it.
Leaves(p) ==
  /\ call' = [call EXCEPT ![p] = "none"] /\ todo' = [todo EXCEPT ![p] = <<>>]
  /\ tx' = [tx EXCEPT ![p] = Closed] /\ began' = [began EXCEPT ![p] = 0]
  /\ mem' = [mem EXCEPT ![p] = {}] /\ possible' = [possible EXCEPT ![p] = {}]
  /\ UNCHANGED g

Ends(p, how) == /\ Leaves(p)
                /\ outcome' = [outcome EXCEPT ![call[p]] = how]
                /\ UNCHANGED bounds

Executes(p, kind) ==
  /\ todo[p] # <<>> /\ Head(todo[p]).do = kind
  /\ WaitsFor(p) = {}

\* p goes on, after its next k statements, with the transaction t.  What a
\* service resolves is read before the transaction that writes begins.
GoesOn(p, k, t) ==
  /\ todo' = [todo EXCEPT ![p] = SubSeq(@, k + 1, Len(@))]
  /\ tx' = [tx EXCEPT ![p] = t]
  /\ began' = IF Head(todo[p]).do = "resolve" THEN [began EXCEPT ![p] = now]
              ELSE began
  /\ UNCHANGED <<g, call, reader, outcome, bounds>>

\* A check: it lets p go on, or raises.
Checks(p, fault) == IF fault = "" THEN GoesOn(p, 1, tx[p]) ELSE Ends(p, fault)

\* The commit, with what readers could have answered from then on.
CommitTx(p) ==
  /\ Executes(p, "commit")
  /\ LET d == View(p)
     IN /\ g' = d
        /\ possible' = [q \in Procs |->
             IF Reading(q) THEN possible[q] \cup {Atomic(Last(todo[q]), d)}
             ELSE possible[q]]
  /\ tx' = [tx EXCEPT ![p] = Closed]
  /\ mem' = [mem EXCEPT ![p] = {}]
  /\ UNCHANGED bounds
  /\ IF Len(todo[p]) = 1
     THEN /\ call' = [call EXCEPT ![p] = "none"]
          /\ todo' = [todo EXCEPT ![p] = <<>>]
          /\ began' = [began EXCEPT ![p] = 0]
          /\ outcome' = [outcome EXCEPT ![call[p]] = "ok"]
     ELSE /\ todo' = [todo EXCEPT ![p] = Tail(@)]
          /\ began' = [began EXCEPT ![p] = now]
          /\ UNCHANGED <<call, outcome>>

AbortDeadlocked(p) == Deadlocked(p) /\ Ends(p, "deadlock")

-----------------------------------------------------------------------------
(* Nodes.                                                                  *)

NodeMatches(p, n) == View(p).nodes[n.id] = Row(n)
FactMatches(p, n) == View(p).facts[n.id] = n
HasNode(p, n) == n.id \in DOMAIN View(p).nodes
HasFact(p, n) == n.id \in DOMAIN View(p).facts

\* _assert_existing_node_matches and the assertion on the projection.
Replay(p, n) == IF ~NodeMatches(p, n) THEN "collision"
                ELSE IF ~FactMatches(p, n) THEN "mismatch" ELSE ""

\* What is there of n, from a read that found the node and one that found the
\* projection: nothing, so it is written; all of it, so it is compared.
Decides(p, node, fact) ==
  LET s == Head(todo[p])
  IN IF node /\ ~fact THEN Ends(p, "write lost")
     ELSE IF fact /\ ~node THEN Ends(p, "orphan")
     ELSE IF ~node THEN GoesOn(p, 1, tx[p])
     ELSE IF Replay(p, s.node) # "" THEN Ends(p, Replay(p, s.node))
     ELSE GoesOn(p, 1 + s.skip, tx[p])

NodeRead(p) ==
  /\ Executes(p, "node there")
  /\ mem' = [mem EXCEPT ![p] = IF HasNode(p, Head(todo[p]).node)
                               THEN {"there"} ELSE {}]
  /\ todo' = [todo EXCEPT ![p] = Tail(@)]
  /\ UNCHANGED <<g, tx, call, began, possible, outcome, bounds>>

FactRead(p) ==
  /\ Executes(p, "fact there")
  /\ Decides(p, mem[p] # {}, HasFact(p, Head(todo[p]).node))

BothRead(p) ==
  /\ Executes(p, "both there")
  /\ Decides(p, HasNode(p, Head(todo[p]).node), HasFact(p, Head(todo[p]).node))

NodeInsert(p) ==
  LET n == Head(todo[p]).node
  IN /\ Executes(p, "insert node")
     /\ IF ~HasNode(p, n)
        THEN GoesOn(p, 1, [tx[p] EXCEPT !.nodes = With(@, n.id, Row(n))])
        ELSE Checks(p, IF NodeMatches(p, n) THEN "" ELSE "collision")

\* The row must refer to its node; no two rows may replace the same one.
FactInsert(p) ==
  LET n == Head(todo[p]).node
      lost == Head(todo[p]).there = "refuse"
      branch == \E id \in DOMAIN View(p).facts :
                  View(p).facts[id].supersedes = n.supersedes /\ id # n.id
  IN /\ Executes(p, "insert fact")
     /\ IF HasFact(p, n)
        THEN Checks(p, IF lost THEN "write lost"
                       ELSE IF FactMatches(p, n) THEN "" ELSE "mismatch")
        ELSE IF ~HasNode(p, n) THEN Ends(p, "foreign key")
        ELSE IF n.supersedes # NoId /\ branch THEN Ends(p, "unique")
        ELSE GoesOn(p, 1, [tx[p] EXCEPT
               !.facts = With(@, n.id, n),
               !.shares = @ \cup {NodeLock(n.id)}
                          \cup (IF n.supersedes = NoId THEN {}
                                ELSE {FactLock(n.supersedes)})])

\* A plausible bug: a revision may be as old as what it replaces.
FaultyRevision(d, n) ==
  IF \/ n.supersedes \notin DOMAIN d.facts
     \/ d.facts[n.supersedes].kind # n.kind
  THEN "no predecessor"
  ELSE IF n.time < d.facts[n.supersedes].time THEN "not later"
  ELSE IF \E id \in SuccessorsOf(d, n.supersedes) : id # n.id THEN "branch"
  ELSE ""

\* The revision n against the row it replaces, which stays locked.
Revision(d, n) ==
  IF \/ n.supersedes \notin DOMAIN d.facts
     \/ d.facts[n.supersedes].kind # n.kind
  THEN "no predecessor"
  ELSE IF n.kind = "Metric" /\ ~StoredNodeIntegrity(d, n.supersedes)
       THEN "integrity"
  ELSE IF n.kind = "Metric" /\ d.facts[n.supersedes].series # n.series
       THEN "key mismatch"
  ELSE IF n.time <= d.facts[n.supersedes].time THEN "not later"
  ELSE IF \E id \in SuccessorsOf(d, n.supersedes) : id # n.id THEN "branch"
  ELSE ""

Revise(p) ==
  LET n == Head(todo[p]).node
  IN /\ Executes(p, "revise")
     /\ IF Revision(View(p), n) # "" THEN Ends(p, Revision(View(p), n))
        ELSE GoesOn(p, 1, [tx[p] EXCEPT
                             !.locks = @ \cup {FactLock(n.supersedes)}])

-----------------------------------------------------------------------------
(* Edges.                                                                  *)

\* A plausible bug: FOR UPDATE is forgotten.
FaultySourceRead(p) ==
  LET s == Head(todo[p])
  IN /\ Executes(p, "source")
     /\ Checks(p, IF ~HasNode(p, s.node) \/ ~HasFact(p, s.node) THEN "no source"
                  ELSE Replay(p, s.node))

\* The source node, its projection and their agreement.
SourceRead(p) ==
  LET s == Head(todo[p])
  IN /\ Executes(p, "source")
     /\ IF ~HasNode(p, s.node) \/ ~HasFact(p, s.node)
        THEN Ends(p, "no source")
        ELSE IF Replay(p, s.node) # "" THEN Ends(p, Replay(p, s.node))
        ELSE GoesOn(p, 1, [tx[p] EXCEPT
               !.locks = IF s.lock THEN @ \cup {NodeLock(s.node.id)} ELSE @])

\* What is wrong with the targets: types, and the rule of the aggregate.
Misfit(d, s) ==
  IF \E id \in s.ids : ~Stored(d, id) THEN "no target"
  ELSE IF \E id \in s.ids : KindOf(d, id) \notin s.kinds THEN "target type"
  ELSE IF s.rule = "cohort" /\ \E id \in s.ids : IsFailed(LoadExactEstimate(d, id))
       THEN "target integrity"
  ELSE IF s.rule = "cohort" /\ \E id \in s.ids :
            \/ d.facts[id].cohort # s.node.cohort
            \/ d.facts[id].time # s.node.time
       THEN "semantic mismatch"
  ELSE IF s.rule = "rationale"
          /\ {id \in s.ids : KindOf(d, id) = "Claim"} # ToSet(s.node.uses)
       THEN "rationale mismatch"
  ELSE ""

TargetsRead(p) == Executes(p, "fit") /\ Checks(p, Misfit(View(p), Head(todo[p])))

ReachRead(p) ==
  LET s == Head(todo[p])
      inner == {id \in s.ids : KindOf(g, id) = "Calculation"}
  IN /\ Executes(p, "acyclic")
     /\ Checks(p, IF \E id \in inner : DependencyReaches(View(p), id, s.node.id)
                  THEN "cycle" ELSE "")

SetOf(p) == Targets(EdgesOf(View(p), Head(todo[p]).node.id, Head(todo[p]).type))

\* Legal states: empty -> complete aggregate write, exact set -> replay.
ExistingRead(p) ==
  LET s == Head(todo[p])
  IN /\ Executes(p, "existing")
     /\ IF SetOf(p) = {} THEN GoesOn(p, 1, tx[p])
        ELSE IF SetOf(p) = s.ids THEN GoesOn(p, 1 + s.skip, tx[p])
        ELSE Ends(p, "set mismatch")

PersistedRead(p) ==
  /\ Executes(p, "persisted")
  /\ Checks(p, IF SetOf(p) = Head(todo[p]).ids THEN "" ELSE "set mismatch")

EndpointsRead(p) ==
  LET s == Head(todo[p])
      d == View(p)
  IN /\ Executes(p, "endpoints")
     /\ Checks(p, IF ~Stored(d, s.edge.source) THEN "no source"
                  ELSE IF KindOf(d, s.edge.source) # s.kind THEN "source type"
                  ELSE IF ~Stored(d, s.edge.target) THEN "no target"
                  ELSE IF KindOf(d, s.edge.target) # "Evidence"
                       THEN "target type"
                  ELSE "")

EdgeInsert(p) ==
  LET s == Head(todo[p])
      e == [s.edge EXCEPT !.at = IF @ = Current THEN began[p] ELSE @]
      there == {f \in View(p).edges : SameKey(e, f)}
  IN /\ Executes(p, "insert edge")
     /\ IF there = {}
        THEN GoesOn(p, 1, [tx[p] EXCEPT
               !.edges = @ \cup {e},
               !.shares = @ \cup {NodeLock(e.source), NodeLock(e.target)}])
        ELSE Checks(p, IF s.there = "refuse" THEN "set mismatch"
                       ELSE IF s.there = "unique" THEN "unique"
                       ELSE IF e \in there THEN "" ELSE "edge collision")

-----------------------------------------------------------------------------
(* The services, and the reads of several statements.                      *)

Refuse(p) == Executes(p, "refuse") /\ Ends(p, "refused")

\* The service reads in transactions that are over when it writes.
Resolve(p) ==
  LET s == Head(todo[p])
      d == ValuationInputsByIdsAt(g, s.ids, s.cutoff)
      secured == IsNode(LoadExactSecurity(g, s.node.series))
  IN /\ Executes(p, "resolve")
     /\ Checks(p, IF s.node.time > s.cutoff THEN "as of after cutoff"
                  ELSE IF ~secured THEN "no security"
                  ELSE IF IsFailed(d) THEN "not visible"
                  ELSE IF EvaluateDcf(d.inputs, s.node.cohort)
                          # [value |-> s.node.value]
                       THEN "dcf" ELSE "")

Verify(p) ==
  LET n == Head(todo[p]).node
  IN /\ Executes(p, "verify")
     /\ Checks(p, IF VerifyValuation(View(p), n.id) = n THEN ""
                  ELSE "not verified")

\* A plausible bug: the walk starts where it was asked to.
FaultyWalkUp(p) ==
  LET s == Head(todo[p])
  IN /\ Executes(p, "walk up")
     /\ mem' = [mem EXCEPT ![p] = {s.id}]
     /\ possible' = [possible EXCEPT ![p] = {Atomic(Last(todo[p]), g)}]
     /\ todo' = [todo EXCEPT ![p] = Tail(@)]
     /\ UNCHANGED <<g, tx, call, began, outcome, bounds>>

\* Up the chain to its root: what is above a stored revision never changes,
\* so these statements are one.  mem is the part of the chain that is known.
WalkUp(p) ==
  LET s == Head(todo[p])
  IN /\ Executes(p, "walk up")
     /\ IF s.id \notin DOMAIN g.facts THEN Ends(p, "ok")
        ELSE /\ mem' = [mem EXCEPT ![p] = {Root(g, s.id)}]
             /\ possible' = [possible EXCEPT ![p] = {Atomic(Last(todo[p]), g)}]
             /\ todo' = [todo EXCEPT ![p] = Tail(@)]
             /\ UNCHANGED <<g, tx, call, began, outcome, bounds>>

\* Down the chain, a statement for each revision.
WalkDown(p) ==
  LET next == (UNION {SuccessorsOf(g, id) : id \in mem[p]}) \ mem[p]
  IN /\ Executes(p, "walk down")
     /\ IF next = {}
        THEN todo' = [todo EXCEPT ![p] = Tail(@)] /\ UNCHANGED mem
        ELSE mem' = [mem EXCEPT ![p] = @ \cup next] /\ UNCHANGED todo
     /\ UNCHANGED <<g, tx, call, began, possible, outcome, bounds>>

\* The rows an answer serves.
Served(answer) ==
  IF IsNode(answer) THEN {answer}
  ELSE IF "inputs" \in DOMAIN answer THEN answer.inputs
  ELSE IF "evidence" \in DOMAIN answer THEN {pair[2] : pair \in answer.evidence}
  ELSE {}

\* What the database would have answered at the moments of the call of p; an
\* answer that does not fit them is torn.
Moments(p) == possible[p] \cup {Atomic(Last(todo[p]), g)}
Returns(p, fits) == Ends(p, IF fits THEN "ok" ELSE "torn")

\* evidence_at for each revision of the chain, in its order.
Candidates(p) ==
  LET s == Head(todo[p])
      seen == {EvidenceAt(g, id, s.cutoff) : id \in mem[p]} \ {None}
      answer == IF \E n \in seen : IsFailed(n) THEN Failed("integrity")
                ELSE IF seen = {} THEN None
                ELSE CHOOSE n \in seen : \A m \in seen : m.time <= n.time
  IN /\ Executes(p, "candidates")
     /\ Returns(p, answer \in Moments(p))

\* The links; the lineages of their evidence are read after that, and may be
\* newer: the answer may miss what has been linked since.
Links(p) ==
  LET s == Head(todo[p])
  IN /\ Executes(p, "links")
     /\ mem' = [mem EXCEPT ![p] = {LinksOf(g, s)}]
     /\ possible' = [possible EXCEPT ![p] = {Atomic(Last(todo[p]), g)}]
     /\ todo' = [todo EXCEPT ![p] = Tail(@)]
     /\ UNCHANGED <<g, tx, call, began, outcome, bounds>>

LineageRead(p) ==
  LET s == Head(todo[p])
      answer == EvidenceFrom(g, s, UNION mem[p])
  IN /\ Executes(p, "lineage")
     /\ Returns(p, \E a \in Moments(p) :
                     \/ IsFailed(a)
                     \/ ~IsFailed(answer) /\ Served(answer) \subseteq Served(a))

-----------------------------------------------------------------------------
(* The environment.                                                        *)

Tick == /\ now < MaxNow
        /\ now' = now + 1
        /\ UNCHANGED <<g, tx, call, todo, began, reader, outcome, crashes,
                       damage>>

\* The process stops; its caller will call again.
Crash(p) ==
  /\ call[p] # "none" /\ crashes > 0
  /\ crashes' = crashes - 1
  /\ Leaves(p)
  /\ UNCHANGED <<outcome, now, damage>>

Altered(n) == [n EXCEPT !.value = @ + 1]

\* One row is changed by hand: a projection, or the payload of a node, is
\* altered, or a projection is deleted.
Damage ==
  /\ damage > 0 /\ \A p \in Procs : call[p] = "none"
  /\ \E id \in DOMAIN g.nodes :
       \/ g' = [g EXCEPT !.nodes[id].payload = Altered(@)]
       \/ /\ id \in DOMAIN g.facts
          /\ \/ g' = [g EXCEPT !.facts[id] = Altered(@)]
             \/ /\ SuccessorsOf(g, id) = {}
                /\ g' = [g EXCEPT !.facts = [i \in DOMAIN @ \ {id} |-> @[i]]]
  /\ damage' = damage - 1
  /\ UNCHANGED <<tx, call, todo, began, reader, outcome, now, crashes>>

Statements(p) ==
  \/ NodeRead(p) \/ FactRead(p) \/ BothRead(p) \/ NodeInsert(p) \/ FactInsert(p)
  \/ Revise(p) \/ SourceRead(p) \/ TargetsRead(p) \/ ReachRead(p)
  \/ ExistingRead(p) \/ EdgeInsert(p) \/ PersistedRead(p) \/ EndpointsRead(p)
  \/ Refuse(p) \/ Resolve(p) \/ Verify(p)
  \/ WalkUp(p) \/ WalkDown(p) \/ Candidates(p) \/ Links(p) \/ LineageRead(p)
  \/ CommitTx(p) \/ AbortDeadlocked(p)

Next == \/ Tick \/ Damage
        \/ \E p \in Procs : \/ Crash(p) \/ Statements(p)
                            \/ \E name \in DOMAIN outcome : Call(p, name)

Spec == Init /\ [][Next]_vars

-----------------------------------------------------------------------------
(* What is asked of the database d about the node id at the cutoff c.      *)
(* claim_at is left out: it does not look at its cutoff.  So is a          *)
(* valuation that has no dependencies yet, which has no inputs to tell.    *)

Cutoffs == 0 .. MaxNow

Answers(d, id, c) ==
  LET s == d.facts[id].series
      kind == d.facts[id].kind
  IN CASE kind = "Evidence" ->
            <<EvidenceAt(d, id, c), LatestEvidenceAt(d, id, c)>>
       [] kind = "Metric" ->
            <<ActiveMetricAt(d, id, c), EvidenceForMetricAt(d, id, c)>>
       [] kind = "Claim" -> <<EvidenceForClaimAt(d, id, c)>>
       [] kind = "Calculation" -> <<CalculationAt(d, id, c)>>
       [] kind = "Catalyst" ->
            <<CatalystAt(d, id, c), LatestCatalystAt(d, s, c)>>
       [] kind = "CatalystImpact" ->
            <<CatalystImpactAt(d, id, c), LatestCatalystImpactAt(d, s, c)>>
       [] kind = "Forecast" ->
            <<ForecastAt(d, id, c), LatestForecastAt(d, s, c)>>
       [] kind = "Risk" -> <<RiskAt(d, id, c), LatestRiskAt(d, s, c)>>
       [] kind = "Recommendation" ->
            <<RecommendationAt(d, id, c), LatestRecommendationAt(d, s, c)>>
       [] kind = "Estimate" ->
            <<EstimateAt(d, id, c), LatestEstimateAt(d, s, c)>>
       [] kind = "Valuation" ->
            <<ValuationAt(d, id, c), LatestValuationAt(d, s, c)>>
            \o (IF Dependencies(d, id) = {} THEN <<>>
                ELSE <<ValuationInputsAt(d, id, c)>>)

-----------------------------------------------------------------------------
(* Properties.                                                             *)

\* Whatever order concurrent add_evidence and add_metric calls take, a
\* revision chain does not branch and goes forward in time, within one kind and
\* one metric key (_validate_revision_append, _validate_metric_revision_append).
ChainsAreLinear ==
  \A id \in DOMAIN g.facts :
    /\ Cardinality(SuccessorsOf(g, id)) <= 1
    /\ \A i \in SuccessorsOf(g, id) :
         /\ g.facts[id].time < g.facts[i].time
         /\ g.facts[i].kind = g.facts[id].kind
         /\ g.facts[i].kind = "Metric" => g.facts[i].series = g.facts[id].series

\* The sets of edges that a call has asked for.
Asked(name) == {s \in ToSet(Programs[name][1]) : s.do = "existing"}
IsWhole(s) == Targets(EdgesOf(g, s.node.id, s.type)) = s.ids

\* The sets that are compared and written with their source locked.
Guarded(s) == /\ s.do = "existing"
              /\ s.type \in {"CONTAINS", "DERIVED_FROM"} \/ s.node.kind = "Valuation"

\* An aggregate whose writer locks its source stays exactly the set that the
\* callers who were told it is stored asked for, however their statements
\* interleave.
AggregatesAreWhole ==
  \A name \in DOMAIN outcome : outcome[name] = "ok" =>
    \A s \in Asked(name) : Guarded(s) => IsWhole(s)

\* The comment in add_catalyst_affects and add_risk_affects: an aggregate is
\* empty or complete.
AffectsSetsAreWhole ==
  \A name \in DOMAIN outcome : outcome[name] = "ok" =>
    \A s \in Asked(name) : s.type = "AFFECTS" => IsWhole(s)

\* Research can be repeated: rows that become known after a cutoff change no
\* answer that the repository could give at that cutoff.
Learns(c) ==
  /\ \A id \in DOMAIN g'.facts \ DOMAIN g.facts : g'.facts[id].time > c
  /\ \A e \in g'.edges \ g.edges : e.at > c
Keeps(old, new) == \A k \in DOMAIN old : ~IsFailed(old[k]) => new[k] = old[k]
LateKnowledgeKeepsAnswers ==
  [][g' # g /\ damage' = damage =>
       \A c \in Cutoffs : Learns(c) =>
         \A id \in DOMAIN g.facts : Keeps(Answers(g, id, c), Answers(g', id, c))
    ]_vars

\* No lookahead: all that a visible calculation or a valuation stands on,
\* through any number of calculations, was known by the cutoff, and so was
\* each link on the way (calculation_at, valuation_inputs_at).
KnownBy(id, c) ==
  LET known[i \in DOMAIN g.facts] ==
        IF g.facts[i].kind = "Calculation"
        THEN \A e \in Provenance(g, i) :
               ~(e.at > c) /\ e.target \in DOMAIN g.facts /\ known[e.target]
        ELSE /\ g.facts[i].time <= c
             /\ g.facts[i].kind = "Metric" => g.facts[i].published <= c
  IN known[id]
NothingAheadOfTheCutoff ==
  \A id \in DOMAIN g.facts, c \in Cutoffs :
    g.facts[id].kind \in {"Calculation", "Valuation"} =>
      \A answer \in ToSet(Answers(g, id, c)) : \A n \in Served(answer) :
        KnownBy(n.id, c)

\* A row that was altered by hand, in its node or in its projection, is never
\* part of an answer.
TamperedRowsAreNeverServed ==
  \A id \in DOMAIN g.facts, c \in Cutoffs :
    \A answer \in ToSet(Answers(g, id, c)) : \A n \in Served(answer) :
      n = g.nodes[n.id].digest

\* A read of several statements answers what the database would have answered
\* at one moment of the call, although no snapshot is held between them.  The
\* evidence of a metric or a claim may be less than at any moment, but it was
\* all there at one, and if the read fails then a moment would have failed.
ReadsAreAtomic == \A name \in DOMAIN outcome : outcome[name] # "torn"

\* A metric that was ingested from a filing is never without its evidence,
\* even if the process stops between the two transactions of the service and
\* nobody calls it again.
MetricsAreBacked ==
  \A id \in DOMAIN g.facts :
    g.facts[id].kind = "Metric" /\ g.facts[id].role = "revenue" =>
      /\ MetricLinks(g, id) # {}
      /\ Targets(MetricLinks(g, id)) \subseteq DOMAIN g.facts

\* A valuation that the service may write is reproduced by its dependencies
\* from the moment it is there, whoever else writes it.
ValuationsReproduce ==
  \A name \in DOMAIN outcome :
    LET r == Requests[name]
    IN r.op \in {"execute_valuation", "persist_verified_valuation"}
       /\ r.node.id \in DOMAIN g.facts => VerifyValuation(g, r.node.id) = r.node

\* What a service writes in several steps is never there in part.
ServicesWriteWhole == MetricsAreBacked /\ ValuationsReproduce

\* Two callers that write the same thing both succeed, however they
\* interleave, unless the write looks for its node in two reads or is stamped
\* with the time of its fetch.
TwoReads == {"add_estimate", "add_catalyst", "add_catalyst_impact",
             "add_forecast", "add_calculation"}
Stamped  == {"ingest_filing", "ingest_financial_fact"}
IdenticalAddsAgree ==
  \A a, b \in DOMAIN outcome :
    a # b /\ Requests[a] = Requests[b] /\ Requests[a].op \notin TwoReads \cup Stamped
    => {outcome[a], outcome[b]} \subseteq {"pending", "ok"}

\* Ingesting a filing again does nothing (the replay tests).
ReplayIsIdempotent ==
  \A a, b \in DOMAIN outcome :
    outcome[a] = "ok" /\ Requests[a] = Requests[b] => outcome[b] # "collision"

=============================================================================
