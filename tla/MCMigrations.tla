--------------------------- MODULE MCMigrations ---------------------------
(* Two servers, each of which may be started in an early, a middle or the    *)
(* current release.                                                        *)
EXTENDS Migrations, TLC

CONSTANTS s1, s2

MCServers == {s1, s2}

(* The servers are treated alike; the run checks no liveness.              *)
Symmetry == Permutations(MCServers)
=============================================================================
