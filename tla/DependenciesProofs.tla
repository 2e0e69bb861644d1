------------------------- MODULE DependenciesProofs -------------------------
(* Proofs about Dependencies for every set of tasks.  What depends on the   *)
(* walk is proved for one AddDependency at a time (OneAdder): with two, the  *)
(* model checker finds a cycle.                                             *)
EXTENDS Dependencies, TLAPS

OneAdder == \A c, x \in Clients : c = x

-----------------------------------------------------------------------------
(* The inductive invariants.                                               *)

(* Deleting keeps what the walk has seen true: what a visited task waits   *)
(* for is visited or on the stack, and the waiting task is not visited.    *)
WalkCovers(r) ==
    /\ r.other \in r.visited \cup r.open
    /\ r.task \notin r.visited
    /\ \A x \in r.visited, y \in Tasks : <<x, y>> \in deps => y \in r.visited \cup r.open

(* The walk meets only what the first task led to when it began.           *)
WalkInside(r) ==
    /\ deps \subseteq r.before
    /\ \A S \in SUBSET Tasks :
          r.other \in S /\ Graph!Closed(S, r.before) => r.visited \cup r.open \subseteq S

WalkInv ==
    \A c \in Clients :
        /\ req[c].at \in {"findTask", "findOther"} => req[c].visited = {}
        /\ req[c].at = "walk" => WalkCovers(req[c]) /\ WalkInside(req[c])
        /\ req[c].at = "insert" => WalkCovers(req[c]) /\ req[c].open = {}

AddInv == TypeOK /\ WalkInv /\ RefusalJustified

-----------------------------------------------------------------------------
(* Typing.                                                                 *)

LEMMA RequestFacts ==
    /\ NoRequest \in Request /\ NoRequest.at = "idle"
    /\ \A t, d \in Tasks : AddOf(t, d) \in Request /\ AddOf(t, d).at = "findTask"
  <1>1. \A t, d \in Tasks : AddOf(t, d) \in Request /\ AddOf(t, d).at = "findTask"
    BY DEF AddOf, Request, Steps
  <1>2. (CHOOSE t \in Tasks : TRUE) \in Tasks
    BY ConstantsAssumption
  <1>3. NoRequest \in Request /\ NoRequest.at = "idle"
    BY <1>2 DEF NoRequest, AddOf, Request, Steps
  <1> QED BY <1>1, <1>3

LEMMA CallFacts ==
    ASSUME TypeOK, NEW c \in Clients, NEW from, NEW r \in Request, Call(c, from, r)
    PROVE  /\ TypeOK'
           /\ req'[c] = r
           /\ \A x \in Clients : x # c => req'[x] = req[x]
           /\ UNCHANGED <<unborn, live, deps>>
           /\ req[c].at = from
  BY DEF TypeOK, Call

(* The step of a request in which it only goes on.                         *)
Goes(c) ==
    \/ \E e \in Asked : StartAdd(c, e[1], e[2])
    \/ FindTask(c) \/ FindOther(c) \/ Walk(c) \/ MeetTask(c) \/ EndWalk(c) \/ Refuse(c)

LEMMA GoesFacts ==
    ASSUME TypeOK, NEW c \in Clients, Goes(c)
    PROVE  \E r \in Request : Call(c, req[c].at, r)
  <1> DEFINE q == req[c]
             Goal == \E r \in Request : Call(c, req[c].at, r)
  <1>0. /\ q \in Request /\ q.other \in Tasks /\ q.visited \subseteq Tasks /\ q.open \subseteq Tasks
        /\ deps \subseteq Tasks \X Tasks /\ Steps = {"idle", "findTask", "findOther", "walk", "insert", "refused"}
    BY DEF TypeOK, Request, Steps
  <1>1. ASSUME NEW r \in Request, NEW from, Call(c, from, r) PROVE Goal
    BY <1>1 DEF Call
  <1>2. ASSUME NEW e \in Asked, StartAdd(c, e[1], e[2]) PROVE Goal
    <2>1. e[1] \in Tasks /\ e[2] \in Tasks
      BY ConstantsAssumption
    <2> QED BY <1>1, <1>2, <2>1, RequestFacts DEF StartAdd
  <1>3. CASE FindTask(c)
    <2>1. [q EXCEPT !.at = "findOther"] \in Request
      BY <1>0 DEF Request
    <2> QED BY <1>1, <1>3, <2>1 DEF FindTask
  <1>4. CASE FindOther(c)
    <2>1. [q EXCEPT !.at = "walk", !.open = {q.other}, !.before = deps] \in Request
      BY <1>0 DEF Request
    <2> QED BY <1>1, <1>4, <2>1 DEF FindOther
  <1>5. CASE Walk(c)
    <2>1. PICK x \in q.open :
             Call(c, "walk", [q EXCEPT !.visited = Visit(q.visited, x),
                                       !.open = (@ \ {x}) \cup (Prerequisites(x) \ Visit(q.visited, x))])
      BY <1>5 DEF Walk
    <2>2. /\ Visit(q.visited, x) \in SUBSET Tasks
          /\ (q.open \ {x}) \cup (Prerequisites(x) \ Visit(q.visited, x)) \in SUBSET Tasks
      BY <1>0 DEF Visit, Prerequisites
    <2>3. \A v, o \in SUBSET Tasks : [q EXCEPT !.visited = v, !.open = o] \in Request
      BY <1>0 DEF Request
    <2>4. [q EXCEPT !.visited = Visit(q.visited, x),
                    !.open = (@ \ {x}) \cup (Prerequisites(x) \ Visit(q.visited, x))] \in Request
      BY <2>2, <2>3
    <2> QED BY <1>1, <2>1, <2>4
  <1>6. CASE MeetTask(c)
    <2>1. [q EXCEPT !.at = "refused"] \in Request
      BY <1>0 DEF Request
    <2> QED BY <1>1, <1>6, <2>1 DEF MeetTask
  <1>7. CASE EndWalk(c)
    <2>1. [q EXCEPT !.at = "insert"] \in Request
      BY <1>0 DEF Request
    <2> QED BY <1>1, <1>7, <2>1 DEF EndWalk
  <1>8. CASE Refuse(c)
    BY <1>1, <1>8, RequestFacts DEF Refuse
  <1> QED BY <1>2, <1>3, <1>4, <1>5, <1>6, <1>7, <1>8 DEF Goes

LEMMA TypeStep == TypeOK /\ [Next]_vars => TypeOK'
  <1> SUFFICES ASSUME TypeOK, [Next]_vars PROVE TypeOK'
    OBVIOUS
  <1>1. CASE UNCHANGED vars
    BY <1>1 DEF vars, TypeOK
  <1>2. ASSUME NEW t \in Tasks, CreateTask(t) \/ DeleteTask(t) PROVE TypeOK'
    BY <1>2 DEF CreateTask, DeleteTask, TypeOK
  <1>3. ASSUME NEW t \in Tasks, NEW d \in Tasks, DeleteDependency(t, d) PROVE TypeOK'
    BY <1>3 DEF DeleteDependency, TypeOK
  <1>4. ASSUME NEW c \in Clients, Goes(c) PROVE TypeOK'
    BY <1>4, GoesFacts, CallFacts
  <1>5. ASSUME NEW c \in Clients, Insert(c) PROVE TypeOK'
    <2>1. req[c].task \in Tasks /\ req[c].other \in Tasks
      BY DEF TypeOK, Request
    <2> QED BY <1>5, <2>1, RequestFacts DEF Insert, TypeOK
  <1> QED BY <1>1, <1>2, <1>3, <1>4, <1>5 DEF Next, Advance, Goes

-----------------------------------------------------------------------------
(* Edges join tasks: no assumption on the number of adders.                *)

LEMMA EdgesStep == TypeOK /\ EdgesJoinTasks /\ [Next]_vars => EdgesJoinTasks'
  <1> SUFFICES ASSUME TypeOK, EdgesJoinTasks, [Next]_vars PROVE EdgesJoinTasks'
    OBVIOUS
  <1> USE DEF EdgesJoinTasks, Graph!EdgesJoinTasks
  <1>1. CASE UNCHANGED vars
    BY <1>1 DEF vars
  <1>2. ASSUME NEW t \in Tasks, CreateTask(t) PROVE EdgesJoinTasks'
    BY <1>2 DEF CreateTask
  <1>3. ASSUME NEW t \in Tasks, DeleteTask(t) PROVE EdgesJoinTasks'
    BY <1>3 DEF DeleteTask
  <1>4. ASSUME NEW t \in Tasks, NEW d \in Tasks, DeleteDependency(t, d) PROVE EdgesJoinTasks'
    BY <1>4 DEF DeleteDependency
  <1>5. ASSUME NEW c \in Clients, Goes(c) PROVE EdgesJoinTasks'
    BY <1>5, GoesFacts, CallFacts
  <1>6. ASSUME NEW c \in Clients, Insert(c) PROVE EdgesJoinTasks'
    BY <1>6 DEF Insert, ForeignKeysHold
  <1> QED BY <1>1, <1>2, <1>3, <1>4, <1>5, <1>6 DEF Next, Advance, Goes

-----------------------------------------------------------------------------
(* The walk of the only adder.                                             *)

(* Both walk facts survive when edges only go away.                        *)
LEMMA FewerEdges ==
    ASSUME WalkInv, RefusalJustified, deps' \subseteq deps, req' = req
    PROVE  WalkInv' /\ RefusalJustified'
  BY DEF WalkInv, WalkCovers, WalkInside, RefusalJustified, Graph!Closed, Graph!Leads

LEMMA WalkStep ==
    ASSUME TypeOK, WalkInv, NEW c \in Clients, Goes(c)
    PROVE  /\ req'[c].at \in {"findTask", "findOther"} => req'[c].visited = {}
           /\ req'[c].at = "walk" => WalkCovers(req[c])' /\ WalkInside(req[c])'
           /\ req'[c].at = "insert" => WalkCovers(req[c])' /\ req'[c].open = {}
           /\ req'[c].at = "refused"
                 => Graph!Leads(req'[c].other, req'[c].task, req'[c].before)
  <1> DEFINE q == req[c]
             p == req'[c]
             Goal == /\ p.at \in {"findTask", "findOther"} => p.visited = {}
                     /\ p.at = "walk" => WalkCovers(req[c])' /\ WalkInside(req[c])'
                     /\ p.at = "insert" => WalkCovers(req[c])' /\ p.open = {}
                     /\ p.at = "refused" => Graph!Leads(p.other, p.task, p.before)
  <1>0. /\ q \in Request /\ q.task \in Tasks /\ q.other \in Tasks
        /\ q.visited \subseteq Tasks /\ q.open \subseteq Tasks
        /\ deps \subseteq Tasks \X Tasks
        /\ DOMAIN req = Clients
    BY DEF TypeOK, Request
  <1>1. UNCHANGED deps
    BY GoesFacts, CallFacts
  <1>2. ASSUME NEW e \in Asked, StartAdd(c, e[1], e[2]) PROVE Goal
    <2>1. e[1] \in Tasks /\ e[2] \in Tasks
      BY ConstantsAssumption
    <2>2. p.at = "findTask" /\ p.visited = {}
      BY <1>0, <1>2, <2>1 DEF StartAdd, Call, AddOf
    <2> QED BY <2>2
  <1>3. CASE FindTask(c)
    <2>1. p.at = "findOther" /\ p.visited = {}
      BY <1>0, <1>3 DEF FindTask, Call, Request, WalkInv
    <2> QED BY <2>1
  <1>4. CASE FindOther(c)
    <2>1. /\ p.at = "walk" /\ p.task = q.task /\ p.other = q.other
          /\ p.visited = q.visited /\ p.open = {q.other} /\ p.before = deps
      BY <1>0, <1>4 DEF FindOther, Call, Request
    <2>2. q.visited = {}
      BY <1>4 DEF FindOther, Call, WalkInv
    <2>3. WalkCovers(req[c])'
      BY <1>1, <2>1, <2>2 DEF WalkCovers
    <2>4. WalkInside(req[c])'
      BY <1>1, <2>1, <2>2 DEF WalkInside
    <2> QED BY <2>1, <2>3, <2>4
  <1>5. CASE Walk(c)
    <2>1. PICK x \in q.open :
             /\ x # q.task
             /\ Call(c, "walk", [q EXCEPT !.visited = Visit(q.visited, x),
                                    !.open = (@ \ {x}) \cup (Prerequisites(x) \ Visit(q.visited, x))])
      BY <1>5 DEF Walk
    <2>2. /\ q.at = "walk" /\ p.at = "walk" /\ p.task = q.task /\ p.other = q.other
          /\ p.before = q.before
          /\ p.visited = q.visited \cup {x}
          /\ p.open = (q.open \ {x}) \cup (Prerequisites(x) \ (q.visited \cup {x}))
      BY <1>0, <2>1 DEF Call, Visit, Request
    <2>3. WalkCovers(q) /\ WalkInside(q)
      BY <2>2 DEF WalkInv
    <2>4. WalkCovers(req[c])'
      BY <1>0, <1>1, <2>1, <2>2, <2>3 DEF WalkCovers, Prerequisites
    <2>5. WalkInside(req[c])'
      <3> SUFFICES ASSUME NEW S \in SUBSET Tasks, q.other \in S, Graph!Closed(S, q.before)
                   PROVE  p.visited \cup p.open \subseteq S
        BY <1>1, <2>2, <2>3 DEF WalkInside
      <3>1. q.visited \cup q.open \subseteq S
        BY <2>3 DEF WalkInside
      <3>2. Prerequisites(x) \subseteq S
        BY <2>1, <2>3, <3>1 DEF WalkInside, Prerequisites, Graph!Closed
      <3> QED BY <2>1, <2>2, <3>1, <3>2
    <2> QED BY <2>2, <2>4, <2>5
  <1>6. CASE MeetTask(c)
    <2>1. /\ q.at = "walk" /\ q.task \in q.open /\ p.at = "refused"
          /\ p.task = q.task /\ p.other = q.other /\ p.before = q.before
      BY <1>0, <1>6 DEF MeetTask, Call, Request
    <2>2. Graph!Leads(p.other, p.task, p.before)
      BY <2>1 DEF WalkInv, WalkInside, Graph!Leads
    <2> QED BY <2>1, <2>2
  <1>7. CASE EndWalk(c)
    <2>1. /\ q.at = "walk" /\ q.open = {} /\ p.at = "insert"
          /\ p.task = q.task /\ p.other = q.other
          /\ p.visited = q.visited /\ p.open = q.open
      BY <1>0, <1>7 DEF EndWalk, Call, Request
    <2>2. WalkCovers(req[c])'
      BY <1>1, <2>1 DEF WalkInv, WalkCovers
    <2> QED BY <2>1, <2>2
  <1>8. CASE Refuse(c)
    <2>1. p.at = "idle"
      BY <1>0, <1>8, RequestFacts DEF Refuse, Call
    <2> QED BY <2>1
  <1> QED BY <1>2, <1>3, <1>4, <1>5, <1>6, <1>7, <1>8 DEF Goes

LEMMA InvStep ==
    ASSUME OneAdder, AddInv, [Next]_vars
    PROVE  AddInv'
  <1>0. TypeOK /\ WalkInv /\ RefusalJustified /\ TypeOK'
    BY TypeStep DEF AddInv
  <1> SUFFICES WalkInv' /\ RefusalJustified'
    BY <1>0 DEF AddInv
  <1>1. CASE UNCHANGED vars
    BY <1>0, <1>1, FewerEdges DEF vars
  <1>2. ASSUME NEW t \in Tasks, CreateTask(t) \/ DeleteTask(t)
        PROVE  WalkInv' /\ RefusalJustified'
    BY <1>0, <1>2, FewerEdges DEF CreateTask, DeleteTask
  <1>3. ASSUME NEW t \in Tasks, NEW d \in Tasks, DeleteDependency(t, d)
        PROVE  WalkInv' /\ RefusalJustified'
    BY <1>0, <1>3, FewerEdges DEF DeleteDependency
  <1>4. ASSUME NEW c \in Clients, Goes(c) PROVE WalkInv' /\ RefusalJustified'
    <2>1. \A x \in Clients : x = c
      BY DEF OneAdder
    <2> QED BY <1>0, <1>4, <2>1, WalkStep DEF WalkInv, RefusalJustified
  <1>5. ASSUME NEW c \in Clients, Insert(c) PROVE WalkInv' /\ RefusalJustified'
    <2>1. \A x \in Clients : req'[x].at = "idle"
      BY <1>0, <1>5, RequestFacts DEF OneAdder, Insert, TypeOK
    <2> QED BY <2>1 DEF WalkInv, RefusalJustified
  <1> QED BY <1>1, <1>2, <1>3, <1>4, <1>5 DEF Next, Advance, Goes

LEMMA InitInv == Init => AddInv /\ EdgesJoinTasks
  <1> SUFFICES ASSUME Init PROVE AddInv /\ EdgesJoinTasks
    OBVIOUS
  <1>1. TypeOK
    BY RequestFacts DEF Init, TypeOK
  <1>2. \A c \in Clients : req[c].at = "idle"
    BY RequestFacts DEF Init
  <1>3. EdgesJoinTasks
    BY DEF Init, EdgesJoinTasks, Graph!EdgesJoinTasks
  <1> QED BY <1>1, <1>2, <1>3 DEF AddInv, WalkInv, RefusalJustified

-----------------------------------------------------------------------------
(* The detailed steps are steps of the graph.                              *)

(* When the walk has ended its tasks are closed and leave the waiting task *)
(* out, so the new edge closes no cycle.                                   *)
LEMMA StepSimulates ==
    ASSUME AddInv, [Next]_vars
    PROVE  [Graph!Next]_Graph!vars
  <1>0. TypeOK /\ WalkInv
    BY DEF AddInv
  <1>1. CASE UNCHANGED vars
    BY <1>1 DEF vars, Graph!vars
  <1>2. ASSUME NEW t \in Tasks, CreateTask(t) PROVE Graph!Next
    BY <1>2 DEF CreateTask, Graph!Next, Graph!Create
  <1>3. ASSUME NEW t \in Tasks, DeleteTask(t) PROVE Graph!Next
    BY <1>3 DEF DeleteTask, Graph!Next, Graph!Delete
  <1>4. ASSUME NEW t \in Tasks, NEW d \in Tasks, DeleteDependency(t, d) PROVE Graph!Next
    BY <1>4 DEF DeleteDependency, Graph!Next, Graph!Remove
  <1>5. ASSUME NEW c \in Clients, Goes(c) PROVE UNCHANGED Graph!vars
    BY <1>0, <1>5, GoesFacts, CallFacts DEF Graph!vars
  <1>6. ASSUME NEW c \in Clients, Insert(c) PROVE Graph!Next
    <2> DEFINE t == req[c].task
               d == req[c].other
               V == req[c].visited
    <2>1. t \in Tasks /\ d \in Tasks /\ V \in SUBSET Tasks
      BY <1>0 DEF TypeOK, Request
    <2>2. d \in V /\ t \notin V /\ Graph!Closed(V, deps)
      BY <1>0, <1>6 DEF Insert, WalkInv, WalkCovers, Graph!Closed
    <2>3. ~Graph!Leads(d, t, deps)
      BY <2>1, <2>2 DEF Graph!Leads
    <2>4. Graph!Add(t, d)
      BY <1>6, <2>3 DEF Insert, ForeignKeysHold, Graph!Add
    <2> QED BY <2>1, <2>4 DEF Graph!Next
  <1> QED BY <1>1, <1>2, <1>3, <1>4, <1>5, <1>6 DEF Next, Advance, Goes

(* An acyclic graph stays acyclic when an edge is added to a task that does *)
(* not lead back.                                                          *)
LEMMA AddKeepsAcyclic ==
    ASSUME NEW t \in Tasks, NEW d \in Tasks, Graph!Acyclic,
           ~Graph!Leads(d, t, deps), deps' \subseteq deps \cup {<<t, d>>}
    PROVE  Graph!Acyclic'
  <1>1. PICK V \in SUBSET Tasks : d \in V /\ Graph!Closed(V, deps) /\ t \notin V
    BY DEF Graph!Leads
  <1>2. ASSUME NEW S \in SUBSET Tasks, S # {}
        PROVE  \E x \in S : \A y \in S : <<x, y>> \notin deps'
    <2>1. CASE S \cap V = {}
      <3>1. PICK x \in S : \A y \in S : <<x, y>> \notin deps
        BY <1>2 DEF Graph!Acyclic
      <3>2. \A y \in S : y # d
        BY <1>1, <2>1
      <3> QED BY <3>1, <3>2
    <2>2. CASE S \cap V # {}
      <3>1. PICK x \in S \cap V : \A y \in S \cap V : <<x, y>> \notin deps
        <4>1. S \cap V \in SUBSET Tasks
          OBVIOUS
        <4> QED BY <2>2, <4>1 DEF Graph!Acyclic
      <3>2. \A y \in S : <<x, y>> \in deps => y \in V
        BY <1>1 DEF Graph!Closed
      <3>3. x # t
        BY <1>1
      <3> QED BY <3>1, <3>2, <3>3
    <2> QED BY <2>1, <2>2
  <1> QED BY <1>2 DEF Graph!Acyclic

LEMMA AcyclicStep ==
    ASSUME Graph!Acyclic, [Graph!Next]_Graph!vars
    PROVE  Graph!Acyclic'
  <1>1. ASSUME deps' \subseteq deps PROVE Graph!Acyclic'
    BY <1>1 DEF Graph!Acyclic
  <1>2. CASE UNCHANGED Graph!vars
    BY <1>1, <1>2 DEF Graph!vars
  <1>3. ASSUME NEW t \in Tasks, Graph!Create(t) \/ Graph!Delete(t) PROVE Graph!Acyclic'
    BY <1>1, <1>3 DEF Graph!Create, Graph!Delete
  <1>4. ASSUME NEW t \in Tasks, NEW d \in Tasks, Graph!Add(t, d) PROVE Graph!Acyclic'
    BY <1>4, AddKeepsAcyclic DEF Graph!Add
  <1>5. ASSUME NEW t \in Tasks, NEW d \in Tasks, Graph!Remove(t, d) PROVE Graph!Acyclic'
    BY <1>1, <1>5 DEF Graph!Remove
  <1> QED BY <1>2, <1>3, <1>4, <1>5 DEF Graph!Next

-----------------------------------------------------------------------------
(* The results.                                                            *)

(* Every variable keeps its type.                                          *)
THEOREM TypeCorrect == Spec => []TypeOK
  <1>1. Init => TypeOK
    BY InitInv DEF AddInv
  <1> QED BY <1>1, TypeStep, PTL DEF Spec

(* No edge dangles, however many callers add and delete at once.           *)
THEOREM NoDanglingEdge == Spec => []EdgesJoinTasks
  <1>1. Init => TypeOK /\ EdgesJoinTasks
    BY InitInv DEF AddInv
  <1> QED BY <1>1, TypeStep, EdgesStep, PTL DEF Spec

THEOREM Invariance ==
    ASSUME OneAdder
    PROVE  Spec => []AddInv
  <1>1. Init => AddInv
    BY InitInv
  <1>2. AddInv /\ [Next]_vars => AddInv'
    BY InvStep
  <1> QED BY <1>1, <1>2, PTL DEF Spec

(* One AddDependency at a time, among any deletions and creations, does    *)
(* what an indivisible decision on the whole graph does.                   *)
THEOREM Implements ==
    ASSUME OneAdder
    PROVE  Spec => ImplementsGraph
  <1>1. Init => Graph!Init
    BY DEF Init, Graph!Init
  <1>2. AddInv /\ [Next]_vars => [Graph!Next]_Graph!vars
    BY StepSimulates
  <1> QED BY <1>1, <1>2, Invariance, PTL DEF Spec, ImplementsGraph, Graph!Spec

(* The graph of such decisions has no cycle, and so neither has the        *)
(* server's as long as one AddDependency runs at a time.                   *)
THEOREM StaysAcyclic ==
    ASSUME OneAdder
    PROVE  Spec => []Acyclic
  <1>1. Graph!Init => Graph!Acyclic
    BY DEF Graph!Init, Graph!Acyclic
  <1>2. Graph!Acyclic /\ [Graph!Next]_Graph!vars => Graph!Acyclic'
    BY AcyclicStep
  <1>3. Graph!Spec => []Graph!Acyclic
    BY <1>1, <1>2, PTL DEF Graph!Spec
  <1> QED BY <1>3, Implements, PTL DEF ImplementsGraph, Acyclic

(* A dependency is refused for a cycle only if there was one to close.     *)
THEOREM RefusalsJustified ==
    ASSUME OneAdder
    PROVE  Spec => []RefusalJustified
  <1>1. AddInv => RefusalJustified
    BY DEF AddInv
  <1> QED BY <1>1, Invariance, PTL
=============================================================================
