-------------------------- MODULE MCCausalRuntime ---------------------------
(* One claim whose undisclosed data makes R006 trigger itself, or with a   *)
(* verdict that invalidates it; events are repeated with every fingerprint *)
(* the rules generate.                                                     *)
EXTENDS CausalRuntime, TLC

CONSTANTS c1, m1, m2

MCClaims == {c1}

Verdict ==
  ("verification.status" :> "REJECTED") @@ ("verification.retry_count" :> 3)
  @@ ("verification.claim_id" :> c1)

Registered == Event("graph.changed", c1, <<>>, "CREATE")
Rejected   == Event("verification.completed", c1, Verdict, "")

MCInputs == {Registered, Rejected}

GraphWith(stage, gate, deficit) ==
  [revision |-> 1, stage |-> stage, gate |-> gate,
   links |-> {<<c1, "VERIFICATION">>},
   nodes |-> [c \in Claims |-> [version |-> 1, invalidated |-> FALSE,
                                data |-> "claim.data_deficit_type" :> deficit]],
   deficits |-> {}]

MCGraphs == {GraphWith("RESEARCH", <<>>, "DATA_NOT_DISCLOSED"),
             GraphWith("FUNDAMENTAL", [f \in GateFlags |-> TRUE], "NONE"),
             GraphWith("FUNDAMENTAL", <<>>, "NONE")}
=============================================================================
