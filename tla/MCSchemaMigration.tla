--------------------------- MODULE MCSchemaMigration ------------------------
(* Two processes under each of the three managers: releases of three        *)
(* migrations on SQLite, and releases at the versions of the domain schema   *)
(* that change what may be stored.                                          *)
EXTENDS SchemaMigration

CONSTANTS p1, p2

MCProcs    == {p1, p2}
MCManagers == {"versioned", "exclusive", "advisory"}
MCReleases == [m \in MCManagers |->
                 IF m = "advisory" THEN {1, 2, 3, 5, 10, 18, 20, CurrentVersion}
                 ELSE 1 .. 3]
=============================================================================
