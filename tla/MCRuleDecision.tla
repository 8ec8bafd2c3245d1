--------------------------- MODULE MCRuleDecision ---------------------------
(* Every combination of the values the rules tell apart, at their          *)
(* boundaries; of the six stage-gate flags, which the rules treat alike,   *)
(* one is varied.                                                          *)
EXTENDS RuleDecision, TLC

Verified ==
  {("verification.status" :> w[1]) @@ ("verification.retry_count" :> w[2])
   @@ ("verification.claim_id" :> "claim")
   @@ ("verification.required_capability" :> "VERIFY_CLAIM") :
     w \in {"REJECTED", "VERIFIED"} \X {2, 3}}

Conflicting ==
  {("conflict.type" :> w[1]) @@ ("conflict.materiality" :> w[2])
   @@ ("conflict.id" :> "conflict") :
     w \in {"DIRECT_CONTRADICTION", "UNIT_CONFLICT"} \X {"HIGH", "CRITICAL"}}

Changed ==
  {[p \in ClaimPaths \cup ClaimData \cup GateFlags
          \cup {"stage", "gate.critical_confidence"} |->
      CASE p = "claim.id" -> "claim"
        [] p = "claim.required_calculation" -> "CAGR"
        [] p = "claim.calculation_exists" -> w[1]
        [] p = "claim.verification_exists" -> w[2]
        [] p = "claim.data_deficit_type" -> w[3]
        [] p = "claim.search_count" -> w[4]
        [] p = "stage" -> w[5]
        [] p = "gate.verification_complete" -> w[6]
        [] p = "gate.critical_confidence" -> w[7]
        [] OTHER -> TRUE] :
     w \in BOOLEAN \X BOOLEAN \X {"NONE", "DATA_NOT_FOUND", "DATA_NOT_DISCLOSED"}
           \X {2, 3} \X {"RESEARCH", "FUNDAMENTAL"} \X BOOLEAN \X {49, 50}}

MCWorlds ==
  {[trigger |-> "verification.completed", facts |-> f] : f \in Verified}
  \cup {[trigger |-> "conflict.created", facts |-> f] : f \in Conflicting}
  \cup {[trigger |-> "graph.changed", facts |-> f] : f \in Changed}
=============================================================================
