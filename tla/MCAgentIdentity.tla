-------------------------- MODULE MCAgentIdentity --------------------------
(* Two processes in one checkout and one in another, which only registers:   *)
(* no process ever sees what commands other than register do elsewhere.    *)
EXTENDS AgentIdentity, TLC

CONSTANTS p1, p2, q1, k1, k2, a, b, t1, t2, t3

MCProcesses == {p1, p2, q1}
MCCheckouts == {k1, k2}
MCIn == p1 :> k1 @@ p2 :> k1 @@ q1 :> k2
MCRuns == [p \in MCProcesses |-> IF p = q1 THEN {} ELSE Kinds]
MCNames == {a, b}
MCTokens == {t1, t2, t3}

(* The processes of one checkout, the names and the tokens are treated      *)
(* alike; the run checks no liveness.                                      *)
Symmetry == Permutations({p1, p2}) \cup Permutations(MCTokens) \cup Permutations(MCNames)
=============================================================================
