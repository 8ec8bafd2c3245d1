---------------------------- MODULE RuleDecision ----------------------------
(***************************************************************************)
(* The rule engine while data is still arriving.  `world` holds the value  *)
(* every path will have in the end; `known` the paths recorded so far.     *)
(* The application records them one by one, except that the three paths a  *)
(* claim node projects appear together, and its data only with the claim.  *)
(***************************************************************************)
EXTENDS RuleEngine

CONSTANT Worlds   \* [trigger, facts]: the situations considered

VARIABLES world, known

vars == <<world, known>>

ClaimPaths == {"claim.id", "claim.calculation_exists", "claim.verification_exists"}
ClaimData  == {"claim.required_calculation", "claim.data_deficit_type",
               "claim.search_count"}

\* What MemoryGraph.rule_state always projects of a claim, and its types.
ASSUME WorldsAssumption ==
  \A w \in Worlds :
    LET f == w.facts IN
    /\ "claim.id" \in DOMAIN f => ClaimPaths \subseteq DOMAIN f
    /\ \A p \in ClaimPaths \ {"claim.id"} : p \in DOMAIN f => f[p] \in BOOLEAN
    /\ "claim.search_count" \in DOMAIN f => f["claim.search_count"] \in Int

Context(paths) == [p \in paths |-> world.facts[p]]

TypeOK ==
  /\ world \in Worlds
  /\ known \subseteq DOMAIN world.facts
  /\ known \cap (ClaimPaths \cup ClaimData) # {} => ClaimPaths \subseteq known

\* MemoryGraph always has a stage.
Init ==
  /\ world \in Worlds
  /\ known = {"stage"} \cap DOMAIN world.facts

AddClaim ==
  /\ "claim.id" \in DOMAIN world.facts \ known
  /\ known' = known \cup ClaimPaths

Record(p) ==
  /\ p \in DOMAIN world.facts \ (known \cup ClaimPaths)
  /\ p \in ClaimData => "claim.id" \in known
  /\ known' = known \cup {p}

Next ==
  /\ AddClaim \/ \E p \in DOMAIN world.facts : Record(p)
  /\ UNCHANGED world

Spec == Init /\ [][Next]_vars

-----------------------------------------------------------------------------
Decided(paths) == Decision(world.trigger, Context(paths))

(* INV-013, INV-016.  What the engine decides on partial data it still     *)
(* decides when more of the data is in: UNKNOWN is never taken for FALSE,  *)
(* in any rule or between rules.  Recording that a claim requires a        *)
(* calculation is the exception: it is a new demand, and R004 asks for     *)
(* EXISTS.                                                                 *)
DecisionStands ==
  [][Definite(Decided(known)) /\ "claim.required_calculation" \notin known' \ known
     => Decision(world.trigger, Context(known')) = Decided(known)]_vars

(* The stage gate is the last rule, so it is reached only over a claim     *)
(* with nothing left to do, and known to have nothing left to do: its      *)
(* required calculation made, verified, its data not undisclosed and no    *)
(* search left.  Missing claim data never opens the gate.                  *)
ValuationComesLast ==
  Decided(known) = "R008" =>
    /\ ClaimPaths \cup {"claim.data_deficit_type"} \subseteq known
    /\ "claim.required_calculation" \in known
       => world.facts["claim.calculation_exists"]
    /\ world.facts["claim.verification_exists"]
    /\ world.facts["claim.data_deficit_type"] # "DATA_NOT_DISCLOSED"
    /\ world.facts["claim.data_deficit_type"] = "DATA_NOT_FOUND"
       => "claim.search_count" \in known /\ world.facts["claim.search_count"] >= 3
=============================================================================
