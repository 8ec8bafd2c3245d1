-------------------------- MODULE MCDurableRuntime --------------------------
(* One claim; graphs in which it lacks a calculation, lacks a verification, *)
(* or is not disclosed, with the stage gate open or still without data.     *)
EXTENDS DurableRuntime, TLC

CONSTANTS c1, d1, d2

MCClaims == {c1}

Verdict(retries) ==
  ("verification.status" :> "REJECTED") @@ ("verification.retry_count" :> retries)
  @@ ("verification.claim_id" :> c1)
  @@ ("verification.required_capability" :> "VERIFY_CLAIM")

Changed  == Event("graph.changed", c1, <<>>, "")
Rejected == Event("verification.completed", c1, Verdict(3), "")
Poison   == Event("verification.completed", c1,
                  "verification.status" :> "REJECTED", "")
Homeless == Event("verification.completed", c1,
                  ("verification.status" :> "REJECTED")
                  @@ ("verification.retry_count" :> 3), "")

MCInputs == {Changed, Rejected, Poison}
AllInputs == MCInputs \cup {Homeless}

OpenGate == [f \in GateFlags |-> TRUE]

GraphWith(stage, gate, links, data) ==
  [revision |-> 1, stage |-> stage, gate |-> gate, links |-> links,
   nodes |-> [c \in Claims |-> [version |-> 1, invalidated |-> FALSE, data |-> data]],
   deficits |-> {}]

Deficit(d) == "claim.data_deficit_type" :> d

ToCalculate == GraphWith("RESEARCH", <<>>, {<<c1, "VERIFICATION">>},
                         Deficit("NONE") @@ ("claim.required_calculation" :> "CAGR"))
ToVerify    == GraphWith("RESEARCH", <<>>, {<<c1, "CALCULATION">>},
                         Deficit("NONE") @@ ("claim.required_calculation" :> "CAGR"))
Undisclosed == GraphWith("RESEARCH", <<>>, {<<c1, "VERIFICATION">>},
                         Deficit("DATA_NOT_DISCLOSED"))
ToValue     == GraphWith("FUNDAMENTAL", OpenGate, {<<c1, "VERIFICATION">>},
                         Deficit("NONE"))
GateUnknown == GraphWith("FUNDAMENTAL", <<>>, {<<c1, "VERIFICATION">>},
                         Deficit("NONE"))

LiveGraphs == {ToCalculate, ToVerify, ToValue, GateUnknown}
LoopGraphs == {Undisclosed}
=============================================================================
