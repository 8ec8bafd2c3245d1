----------------------------- MODULE RuleEngine -----------------------------
(***************************************************************************)
(* Three-valued rule evaluation and the production rules R001-R008         *)
(* (src/aodsl/runtime.py).  What a predicate may look at, the event's      *)
(* payload and the projected graph state, is one partial function from     *)
(* paths to values: a path that is not in its domain is a missing value,   *)
(* as Evaluator.get returns None.                                          *)
(***************************************************************************)
EXTENDS Integers, Sequences

CONSTANT None   \* what a missing path evaluates to

Value(ctx, path) == IF path \in DOMAIN ctx THEN ctx[path] ELSE None

-----------------------------------------------------------------------------
(* Predicates.  Every production rule is a conjunction of comparisons with *)
(* a constant and of existence tests.                                      *)

Eq(path, v)      == [op |-> "==", path |-> path, arg |-> v]
Less(path, v)    == [op |-> "<",  path |-> path, arg |-> v]
AtLeast(path, v) == [op |-> ">=", path |-> path, arg |-> v]
Exists(path)     == [op |-> "EXISTS", path |-> path, arg |-> None]

Holds(test, ctx) ==
  CASE test.op = "=="     -> ctx[test.path] = test.arg
    [] test.op = "<"      -> ctx[test.path] < test.arg
    [] test.op = ">="     -> ctx[test.path] >= test.arg
    [] test.op = "EXISTS" -> TRUE

\* A comparison with a missing value is UNKNOWN; EXISTS is always definite.
Truth(test, ctx) ==
  IF test.path \in DOMAIN ctx
  THEN IF Holds(test, ctx) THEN "TRUE" ELSE "FALSE"
  ELSE IF test.op = "EXISTS" THEN "FALSE" ELSE "UNKNOWN"

FaultyAllOf(tests, ctx) ==
  IF \A i \in DOMAIN tests : Truth(tests[i], ctx) = "TRUE"
  THEN "TRUE" ELSE "FALSE"

\* LogicalExpr AND: FALSE wins over UNKNOWN, UNKNOWN over TRUE.
AllOf(tests, ctx) ==
  LET truths == {Truth(tests[i], ctx) : i \in DOMAIN tests} IN
  IF "FALSE" \in truths THEN "FALSE"
  ELSE IF "UNKNOWN" \in truths THEN "UNKNOWN" ELSE "TRUE"

-----------------------------------------------------------------------------
GateFlags == {"gate.required_claims_complete", "gate.required_evidence_complete",
              "gate.required_calculations_complete", "gate.verification_complete",
              "gate.critical_conflicts_resolved",
              "gate.critical_data_deficits_registered"}

Capabilities == {"RESEARCH_SOURCE", "CALCULATE_FINANCIAL_METRIC",
                 "VERIFY_CLAIM", "ADVERSARIAL_ANALYSIS"}

Rule(id, trigger, when) == [id |-> id, trigger |-> trigger, when |-> when]

(* The rules in the order RuleEngine tries them: by falling priority.      *)
Rules == <<
  Rule("R001", "verification.completed",
       << Eq("verification.status", "REJECTED"),
          AtLeast("verification.retry_count", 3) >>),
  Rule("R002", "conflict.created",
       << Eq("conflict.type", "DIRECT_CONTRADICTION"),
          Eq("conflict.materiality", "CRITICAL") >>),
  Rule("R003", "verification.completed",
       << Eq("verification.status", "REJECTED"),
          Less("verification.retry_count", 3) >>),
  Rule("R004", "graph.changed",
       << Exists("claim.required_calculation"),
          Eq("claim.calculation_exists", FALSE) >>),
  Rule("R005", "graph.changed",
       << Exists("claim.id"), Eq("claim.verification_exists", FALSE) >>),
  Rule("R006", "graph.changed",
       << Eq("claim.data_deficit_type", "DATA_NOT_DISCLOSED") >>),
  Rule("R007", "graph.changed",
       << Eq("claim.data_deficit_type", "DATA_NOT_FOUND"),
          Less("claim.search_count", 3) >>),
  Rule("R008", "graph.changed",
       << Eq("stage", "FUNDAMENTAL"),
          Eq("gate.required_claims_complete", TRUE),
          Eq("gate.required_evidence_complete", TRUE),
          Eq("gate.required_calculations_complete", TRUE),
          Eq("gate.verification_complete", TRUE),
          Eq("gate.critical_conflicts_resolved", TRUE),
          Eq("gate.critical_data_deficits_registered", TRUE),
          AtLeast("gate.critical_confidence", 50) >>) >>

FaultyDecision(trigger, ctx) ==
  LET hit == {i \in DOMAIN Rules : /\ Rules[i].trigger = trigger
                                   /\ AllOf(Rules[i].when, ctx) = "TRUE"} IN
  IF hit = {} THEN "NO_MATCH"
  ELSE LET i == CHOOSE j \in hit : \A k \in hit : j <= k IN Rules[i].id

(* RuleEngine.plan: the first rule of the trigger that is not FALSE decides: *)
(* its id, or R401 if it is UNKNOWN, or NO_MATCH if there is none.           *)
Decision(trigger, ctx) ==
  LET live == {i \in DOMAIN Rules : /\ Rules[i].trigger = trigger
                                    /\ AllOf(Rules[i].when, ctx) # "FALSE"} IN
  IF live = {} THEN "NO_MATCH"
  ELSE LET first == CHOOSE j \in live : \A k \in live : j <= k IN
       IF AllOf(Rules[first].when, ctx) = "UNKNOWN"
       THEN "R401" ELSE Rules[first].id

Definite(decision) == decision # "R401"

\* The one action of each rule, its fields evaluated in the same context.
Planned(rule, ctx) ==
  CASE rule = "R001" -> [type |-> "INVALIDATE", capability |-> None,
                         target |-> Value(ctx, "verification.claim_id")]
    [] rule = "R002" -> [type |-> "DISPATCH", capability |-> "ADVERSARIAL_ANALYSIS",
                         target |-> Value(ctx, "conflict.id")]
    [] rule = "R003" -> [type |-> "DISPATCH",
                         capability |-> Value(ctx, "verification.required_capability"),
                         target |-> Value(ctx, "verification.claim_id")]
    [] rule = "R004" -> [type |-> "DISPATCH", capability |-> "CALCULATE_FINANCIAL_METRIC",
                         target |-> Value(ctx, "claim.id")]
    [] rule = "R005" -> [type |-> "DISPATCH", capability |-> "VERIFY_CLAIM",
                         target |-> Value(ctx, "claim.id")]
    [] rule = "R006" -> [type |-> "CREATE", capability |-> None,
                         target |-> Value(ctx, "claim.id")]
    [] rule = "R007" -> [type |-> "DISPATCH", capability |-> "RESEARCH_SOURCE",
                         target |-> Value(ctx, "claim.id")]
    [] rule = "R008" -> [type |-> "TRANSITION", capability |-> None,
                         target |-> "stage"]
=============================================================================
