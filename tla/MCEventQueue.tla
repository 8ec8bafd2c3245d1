---------------------------- MODULE MCEventQueue ----------------------------
(* Two workers, two events, leases of 2 ticks, readings up to 2 ticks old: *)
(* a lease may be granted already expired.                                 *)
EXTENDS EventQueue, TLC

CONSTANTS w1, w2

MCWorkers == {w1, w2}
WorkerSymmetry == Permutations(MCWorkers)
=============================================================================
