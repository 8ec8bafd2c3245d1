-------------------------- MODULE MCGracefulHandoff -------------------------
(* Two workers over one event and one outbox row.                          *)
EXTENDS GracefulHandoff

CONSTANTS w1, w2

MCWorkers == {w1, w2}
MCKind    == [i \in Items |-> IF i = 3 THEN "outbox" ELSE "event"]
=============================================================================
