---------------------------- MODULE MCTaskClaims ----------------------------
(* A small instance of TaskClaims for TLC: one task, so that everything      *)
(* happens to the same row, two agents and the anonymous caller.  A claim    *)
(* asks for a longer lease than an update renews with, and the clock runs    *)
(* far enough for both to expire while another request is in flight.         *)
EXTENDS TaskClaims, TLC

CONSTANT t1

MCDeps == t1 :> {}
MCPriority == t1 :> 1
MCCreatedAt == t1 :> 0
MCFilters == {{t1}}
AgentSymmetry == Permutations(Agents)
=============================================================================
