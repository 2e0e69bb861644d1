--------------------------- MODULE DependencyGraph ---------------------------
(* What the task dependencies promise: one acyclic graph over the tasks that *)
(* exist.  An edge <<t, d>> says that t waits for d.  Adding an edge is one  *)
(* indivisible decision here; module Dependencies shows how the server takes *)
(* it in many statements.                                                    *)
CONSTANT Tasks

VARIABLES
    live,   \* tasks that exist
    deps    \* the edges

vars == <<live, deps>>

(* A set of tasks that contains what its members wait for.                 *)
Closed(S, edges) == \A x \in S, y \in Tasks : <<x, y>> \in edges => y \in S

(* x waits for y, directly or through others, or is y: every closed set    *)
(* with x has y.                                                           *)
Leads(x, y, edges) == \A S \in SUBSET Tasks : x \in S /\ Closed(S, edges) => y \in S

Init ==
    /\ live = {}
    /\ deps = {}

Create(t) ==
    /\ live' = live \cup {t}
    /\ UNCHANGED deps

(* The edges of a deleted task go with it.                                 *)
Delete(t) ==
    /\ live' = live \ {t}
    /\ deps' = {e \in deps : e[1] # t /\ e[2] # t}

Add(t, d) ==
    /\ t \in live /\ d \in live
    /\ ~Leads(d, t, deps)
    /\ deps' = deps \cup {<<t, d>>}
    /\ UNCHANGED live

Remove(t, d) ==
    /\ deps' = deps \ {<<t, d>>}
    /\ UNCHANGED live

Next ==
    \/ \E t \in Tasks : Create(t) \/ Delete(t)
    \/ \E t, d \in Tasks : Add(t, d) \/ Remove(t, d)

Spec == Init /\ [][Next]_vars

-----------------------------------------------------------------------------
(* Among any tasks there is one that waits for none of them: no cycle, so  *)
(* some unfinished task can always be worked on.                           *)
Acyclic ==
    \A S \in SUBSET Tasks :
        S # {} => \E x \in S : \A y \in S : <<x, y>> \notin deps

(* Only existing tasks wait or are waited for.                             *)
EdgesJoinTasks == deps \subseteq live \X live
=============================================================================
