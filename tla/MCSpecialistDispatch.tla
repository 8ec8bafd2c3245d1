------------------------ MODULE MCSpecialistDispatch ------------------------
(* Two dispatchers over two rows; agents return one of two result ids, so  *)
(* two rows may be given the same one.                                     *)
EXTENDS SpecialistDispatch

CONSTANTS d1, d2, k1, k2, r1, r2

MCWorkers   == {d1, d2}
MCKeys      == {k1, k2}
MCResultIds == {r1, r2}
=============================================================================
