---------------------------- MODULE Dependencies ----------------------------
(* How the server keeps the dependency graph: AddDependency looks both      *)
(* tasks up, walks the graph from the new prerequisite with one query per   *)
(* task, and inserts the edge when the walk did not meet the waiting task.   *)
(* Each query and the insert are atomic; requests of other clients run      *)
(* between them.  Deleting an edge or a task is a single statement.         *)
(*                                                                          *)
(* The event that each change then appends to the task's history is no part *)
(* of the graph and is left out.                                            *)
CONSTANTS
    Tasks,     \* task ids that can ever be minted
    Clients,   \* callers, each with at most one AddDependency in flight
    Asked      \* the pairs <<t, d>> callers ask to add

ASSUME ConstantsAssumption == Tasks # {} /\ Asked \subseteq Tasks \X Tasks

VARIABLES
    unborn,   \* task ids not minted yet
    live,     \* tasks that have a row
    deps,     \* rows of task_deps: <<task_id, depends_on_task_id>>
    req       \* req[c]: the AddDependency request of client c

vars == <<unborn, live, deps, req>>

Graph == INSTANCE DependencyGraph WITH Tasks <- Tasks, live <- live, deps <- deps

Steps == {"idle", "findTask", "findOther", "walk", "insert", "refused"}

(* task is to wait for other; visited and open are the walk; before is the *)
(* graph as it was when the walk began (history).                          *)
Request == [at: Steps, task: Tasks, other: Tasks,
            visited: SUBSET Tasks, open: SUBSET Tasks, before: SUBSET (Tasks \X Tasks)]

AddOf(t, d) ==
    [at |-> "findTask", task |-> t, other |-> d, visited |-> {}, open |-> {}, before |-> {}]

NoRequest == LET t == CHOOSE t \in Tasks : TRUE IN [AddOf(t, t) EXCEPT !.at = "idle"]

TypeOK ==
    /\ unborn \subseteq Tasks /\ live \subseteq Tasks
    /\ deps \subseteq Tasks \X Tasks
    /\ req \in [Clients -> Request]

Init ==
    /\ unborn = Tasks
    /\ live = {}
    /\ deps = {}
    /\ req = [c \in Clients |-> NoRequest]

-----------------------------------------------------------------------------
CreateTask(t) ==
    /\ t \in unborn
    /\ unborn' = unborn \ {t}
    /\ live' = live \cup {t}
    /\ UNCHANGED <<deps, req>>

(* The foreign keys of task_deps cascade.                                  *)
DeleteTask(t) ==
    /\ t \in live
    /\ live' = live \ {t}
    /\ deps' = {e \in deps : t \notin {e[1], e[2]}}
    /\ UNCHANGED <<unborn, req>>

DeleteDependency(t, d) ==
    /\ <<t, d>> \in deps
    /\ deps' = deps \ {<<t, d>>}
    /\ UNCHANGED <<unborn, live, req>>

-----------------------------------------------------------------------------
(* AddDependency.                                                          *)

Call(c, from, r) ==
    /\ req[c].at = from
    /\ req' = [req EXCEPT ![c] = r]
    /\ UNCHANGED <<unborn, live, deps>>

StartAdd(c, t, d) == Call(c, "idle", AddOf(t, d))

FindTask(c) ==
    /\ req[c].task \in live
    /\ Call(c, "findTask", [req[c] EXCEPT !.at = "findOther"])

(* A task that would wait for itself is turned away before the walk.       *)
FindOther(c) ==
    /\ req[c].other \in live /\ req[c].other # req[c].task
    /\ Call(c, "findOther",
            [req[c] EXCEPT !.at = "walk", !.open = {req[c].other}, !.before = deps])

NoPrerequisites(x) == {}

Dependents(x) == {y \in Tasks : <<y, x>> \in deps}

PrerequisiteRows(x) == {e \in deps : e[1] = x}

(* What one query of the walk returns for x.                               *)
Prerequisites(x) == {y \in Tasks : <<x, y>> \in deps}

NeverVisited(visited, x) == visited

Visit(visited, x) == visited \cup {x}

(* Tasks on the stack that were visited before are skipped; the order in   *)
(* which the stack yields the others is left open.                         *)
Walk(c) ==
    \E x \in req[c].open :
        LET visited == Visit(req[c].visited, x) IN
        /\ x # req[c].task
        /\ Call(c, "walk",
                [req[c] EXCEPT !.visited = visited,
                               !.open = (@ \ {x}) \cup (Prerequisites(x) \ visited)])

MeetTask(c) ==
    /\ req[c].task \in req[c].open
    /\ Call(c, "walk", [req[c] EXCEPT !.at = "refused"])

EndWalk(c) ==
    /\ req[c].open = {}
    /\ Call(c, "walk", [req[c] EXCEPT !.at = "insert"])

NoForeignKeys(t, d) == TRUE

ForeignKeysHold(t, d) == t \in live /\ d \in live

(* An edge that is there already counts as added.                          *)
Insert(c) ==
    LET t == req[c].task
        d == req[c].other
    IN  /\ req[c].at = "insert"
        /\ ForeignKeysHold(t, d)
        /\ deps' = deps \cup {<<t, d>>}
        /\ req' = [req EXCEPT ![c] = NoRequest]
        /\ UNCHANGED <<unborn, live>>

(* 404, 409 (on the task itself or on a cycle), a failed query, a crash.   *)
Refuse(c) == req[c].at # "idle" /\ Call(c, req[c].at, NoRequest)

-----------------------------------------------------------------------------
Advance(c) ==
    \/ FindTask(c) \/ FindOther(c)
    \/ Walk(c) \/ MeetTask(c) \/ EndWalk(c)
    \/ Insert(c) \/ Refuse(c)

Next ==
    \/ \E t \in Tasks : CreateTask(t) \/ DeleteTask(t)
    \/ \E t, d \in Tasks : DeleteDependency(t, d)
    \/ \E c \in Clients : (\E e \in Asked : StartAdd(c, e[1], e[2])) \/ Advance(c)

Spec == Init /\ [][Next]_vars

(* A handler runs on until it has answered; nothing says that anybody else *)
(* ever calls.                                                             *)
FairSpec == Spec /\ \A c \in Clients : WF_vars(Advance(c))

-----------------------------------------------------------------------------
(* Properties.                                                             *)

(* No chain of tasks waits for itself, whatever was deleted or created     *)
(* while AddDependency walked the graph.                                   *)
Acyclic == Graph!Acyclic

(* No edge dangles, although tasks are deleted between the look-ups of     *)
(* AddDependency and its insert.                                           *)
EdgesJoinTasks == Graph!EdgesJoinTasks

(* A dependency is turned away as closing a cycle only if it would have    *)
(* closed one in the graph the walk started from.                          *)
RefusalJustified ==
    \A c \in Clients :
        req[c].at = "refused" => Graph!Leads(req[c].other, req[c].task, req[c].before)

(* Statement by statement, the server does what a single decision on the   *)
(* whole graph would do.                                                   *)
ImplementsGraph == Graph!Spec

(* Every AddDependency is answered: the walk ends even in a graph that two  *)
(* racing walks have made cyclic and that others change under it.          *)
AddAnswered == \A c \in Clients : req[c].at # "idle" ~> req[c].at = "idle"
=============================================================================
