----------------------------- MODULE MemoryGraph ----------------------------
(***************************************************************************)
(* MemoryGraph as the runtimes use it (src/aodsl/runtime.py): the snapshot *)
(* a rule sees, and what the committed action of a rule does to a clone of *)
(* the graph.  A graph is                                                  *)
(*                                                                         *)
(*   nodes     per claim: version, whether invalidated, and its data       *)
(*   links     <<claim, type>> for every outgoing edge type                *)
(*   deficits  claims c with a node DD-c-DATA_NOT_DISCLOSED                *)
(*   stage, gate, revision                                                 *)
(*                                                                         *)
(* canonical_hash stands for the graph itself: equal hashes, equal graphs. *)
(***************************************************************************)
EXTENDS RuleEngine

CONSTANT Claims   \* ids of the CLAIM nodes

ClaimData == {"claim.required_calculation", "claim.data_deficit_type",
              "claim.search_count"}

Stages == {"RESEARCH", "FUNDAMENTAL", "VALUATION"}

GraphFields == {"revision", "stage", "gate", "nodes", "links", "deficits"}
NodeFields  == {"version", "invalidated", "data"}

IsNode(n) ==
  /\ n = [x \in NodeFields |-> n[x]]
  /\ n.version \in Nat \ {0} /\ n.invalidated \in BOOLEAN
  /\ DOMAIN n.data \subseteq ClaimData

IsGraph(g) ==
  /\ g = [x \in GraphFields |-> g[x]]
  /\ g.stage \in Stages
  /\ DOMAIN g.gate \in {{}, GateFlags}
  /\ g.nodes = [c \in Claims |-> g.nodes[c]]
  /\ \A c \in Claims : IsNode(g.nodes[c])

\* A graph before the first event: no action of a rule has changed it.
IsUntouched(g) ==
  /\ \A c \in Claims : g.nodes[c].version = 1 /\ ~g.nodes[c].invalidated
  /\ g.deficits = {} /\ \A c \in Claims : <<c, "DATA_DEFICIT">> \notin g.links
  /\ g.stage # "VALUATION"

\* add_edge: an edge that is there already changes nothing.
AddEdge(g, c, type) ==
  IF <<c, type>> \in g.links THEN g
  ELSE [g EXCEPT !.links = @ \cup {<<c, type>>}, !.revision = @ + 1]

\* f, and what g knows besides.
Over(f, g) ==
  [p \in DOMAIN f \cup DOMAIN g |-> IF p \in DOMAIN f THEN f[p] ELSE g[p]]

GraphFacts(g) ==
  LET gate == IF g.gate = <<>> THEN {}
              ELSE GateFlags \cup {"gate.critical_confidence"}
  IN [p \in {"stage"} \cup gate |->
        CASE p = "stage" -> g.stage
          [] p \in GateFlags -> g.gate[p]
          [] OTHER -> 50]

ClaimFacts(g, c) ==
  LET data == g.nodes[c].data
      derived == {"claim.id", "claim.calculation_exists",
                  "claim.verification_exists"}
  IN [p \in derived \cup DOMAIN data |->
        CASE p = "claim.id" -> c
          [] p = "claim.calculation_exists" -> <<c, "CALCULATION">> \in g.links
          [] p = "claim.verification_exists" -> <<c, "VERIFICATION">> \in g.links
          [] OTHER -> data[p]]

\* rule_state: a claim's facts, or none if the entity is something else.
RuleState(g, entity) ==
  Over(GraphFacts(g), IF entity \in Claims THEN ClaimFacts(g, entity) ELSE <<>>)

-----------------------------------------------------------------------------
(* An event is [type, entity, payload, note]; the payload is a partial     *)
(* function from paths, `note` the mutation that generated it.             *)

Event(type, entity, payload, note) ==
  [type |-> type, entity |-> entity, payload |-> payload, note |-> note]

Invalidated(g, c) ==
  LET node == [g.nodes[c] EXCEPT !.invalidated = TRUE, !.version = @ + 1]
  IN [g EXCEPT !.nodes = [@ EXCEPT ![c] = node], !.revision = @ + 1]

WithDeficit(g, c) ==
  IF c \in g.deficits THEN g
  ELSE AddEdge([g EXCEPT !.deficits = @ \cup {c}, !.revision = @ + 1],
               c, "DATA_DEFICIT")

(* The loop of commit_plan over the one action of a rule: the graph after  *)
(* it, the outbox rows and the events it generates; or an error, D404 for  *)
(* a capability without provider and G404 for a target that is no node.    *)
Applied(g, action) ==
  LET Result(g2, dispatch, events) ==
        [ok |-> TRUE, graph |-> g2, dispatch |-> dispatch, events |-> events]
      Error == [ok |-> FALSE, graph |-> g, dispatch |-> FALSE, events |-> <<>>]
      c == action.target
  IN CASE action.type = "DISPATCH" ->
            IF action.capability \in Capabilities
            THEN Result(g, TRUE, <<>>) ELSE Error
       [] action.type = "INVALIDATE" ->
            IF c \in Claims
            THEN Result(Invalidated(g, c), FALSE,
                        <<Event("graph.changed", c, <<>>, "INVALIDATE")>>)
            ELSE Error
       [] action.type = "CREATE" ->
            Result(WithDeficit(g, c), FALSE,
                   <<Event("graph.changed", c, <<>>, "CREATE")>>)
       [] action.type = "TRANSITION" ->
            IF g.stage = "FUNDAMENTAL"
            THEN Result([g EXCEPT !.stage = "VALUATION", !.revision = @ + 1],
                        FALSE,
                        <<Event("stage.changed", "stage", <<>>, "TRANSITION")>>)
            ELSE Error
=============================================================================
