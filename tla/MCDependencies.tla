--------------------------- MODULE MCDependencies ---------------------------
(* Small instances of Dependencies for TLC, on three tasks.  Callers ask    *)
(* for any edge, a task's edge to itself included, or only for the three    *)
(* with which two racing walks make a cycle for a third walk to run into.   *)
EXTENDS Dependencies

CONSTANTS t1, t2, t3

AnyEdge == Tasks \X Tasks
EdgesIntoCycle == {<<t2, t3>>, <<t3, t2>>, <<t1, t2>>}
=============================================================================
