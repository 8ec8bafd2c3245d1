----------------------------- MODULE MCEndToEnd -----------------------------
(* Two event workers and two dispatchers on one event and its dispatch.    *)
EXTENDS EndToEnd

CONSTANTS w1, w2, d1, d2

MCWorkers     == {w1, w2}
MCDispatchers == {d1, d2}
MCKeyOf       == [e \in Events |-> e]
=============================================================================
