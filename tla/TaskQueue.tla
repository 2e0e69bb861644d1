----------------------------- MODULE TaskQueue -----------------------------
(***************************************************************************)
(* The queue of a project: several tasks with priorities, labels, claims     *)
(* and prerequisites, the agents that take them one after the other with    *)
(* `taskline task next --claim`, and the people who create and move them.   *)
(*                                                                          *)
(* TaskClaims follows one claim statement by statement; here a request is   *)
(* one step and its answer another, which may be lost, and the questions    *)
(* are which task is handed out and whether every task gets its turn.       *)
(*                                                                          *)
(* "open" stands for the states from start to review, which the queue does  *)
(* not tell apart.  A lease is live until it runs out.  Edges are added one  *)
(* at a time, as DependencyGraph has it.  Whether the evidence for done is  *)
(* there is up to the agent (see TaskUpdate).                              *)
(***************************************************************************)
EXTENDS Integers, Sequences, FiniteSets

CONSTANTS
    Tasks,        \* task ids that can ever be minted
    Agents,       \* agents, each with one process that works on one task at a time
    Steady,       \* agents that do not leave for good
    Wants,        \* Wants[a]: the labels agent a asks for with --label
    Priorities,   \* priorities, numbers
    Names,        \* label names
    Key,          \* Key[n]: the name in lower case, as Go folds it
    Lower,        \* Lower[n]: the name in lower case, as SQLite folds it: ASCII only
    Malformed,    \* names that are blank, too long, or hold a comma or a tab
    MaxLabels,    \* labels on a task, 20 in the code
    Creations,    \* what is sent when a task is created
    LabelOps,     \* label operations sent: pairs of lists, to add and to remove
    MaxClock,     \* bound on created_at
    MaxMoves,     \* bound on what people do to existing tasks
    Nobody,       \* the empty owner
    None          \* no row; no task

ASSUME ConstantsAssumption ==
    /\ Steady \subseteq Agents
    /\ Malformed \subseteq Names
    /\ Wants \in [Agents -> SUBSET (Names \ Malformed)]
    /\ Priorities \subseteq Int /\ Priorities # {}
    /\ Key \in [Names -> STRING] /\ Lower \in [Names -> STRING]
    /\ Creations \subseteq [autoStart: BOOLEAN, priority: Priorities, labels: Seq(Names)]
    /\ LabelOps \subseteq [add: Seq(Names), remove: Seq(Names)]
    /\ MaxLabels \in Nat /\ MaxClock \in Nat /\ MaxMoves \in Nat
    /\ Nobody \notin Agents /\ None \notin Tasks

VARIABLES
    row,      \* row[t]: the row of t, or None
    deps,     \* the edges: <<t, d>> if t waits for d
    unborn,   \* tasks not created yet
    clock,    \* created_at of the task created last
    agent,    \* agent[a]: what the process of agent a is at
    moves,    \* what people have done so far to existing tasks
    aside     \* aside[a]: tasks in the name of a that, since they came to it, were
              \* not runnable or not wanted at some moment (history)

vars == <<row, deps, unborn, clock, agent, moves, aside>>

-----------------------------------------------------------------------------
(* Labels: what is sent is a list, what a task carries is a set without two  *)
(* names that differ only in case.  (Its order is shown and decides nothing.) *)

Acceptable(list) ==
    /\ Len(list) <= MaxLabels
    /\ \A i \in DOMAIN list : list[i] \notin Malformed

KeysOf(labels) == {Key[n] : n \in labels}

(* normalizeLabels keeps the first spelling of each label.                 *)
Normalized(list) ==
    {list[i] : i \in {k \in DOMAIN list : \A j \in 1 .. k - 1 : Key[list[j]] # Key[list[k]]}}

(* applyLabelOps: what is removed makes room for what is added, and a label  *)
(* that is there already keeps its spelling.                               *)
Applied(labels, op) ==
    LET kept == {n \in labels : Key[n] \notin KeysOf(Normalized(op.remove))} IN
    kept \cup {n \in Normalized(op.add) : Key[n] \notin KeysOf(kept)}

MergedOnly(labels, op) ==
    {new \in {Applied(labels, op)} : Acceptable(op.add) /\ Acceptable(op.remove)}

(* The result has to be acceptable again, or the operation is refused.      *)
Merged(labels, op) ==
    {new \in {Applied(labels, op)} :
        Acceptable(op.add) /\ Acceptable(op.remove) /\ Cardinality(new) <= MaxLabels}

(* The filter of the queries: every label asked for is there.              *)
HasLabels(t, labels) ==
    {Lower[n] : n \in labels} \subseteq {Lower[n] : n \in row[t].labels}

-----------------------------------------------------------------------------
States == {"pending", "open", "done"}

LabelSets ==
    {labels \in SUBSET (Names \ Malformed) :
        /\ IsFiniteSet(labels) /\ Cardinality(labels) <= MaxLabels
        /\ \A m, n \in labels : Key[m] = Key[n] => m = n}

Row == [state: States, priority: Priorities, created: Nat, labels: LabelSets,
        owner: Agents \cup {Nobody}, live: BOOLEAN]

ASSUME NoneAssumption == None \notin Row

(* idle: about to ask for the next task; claimed: the claim is committed     *)
(* and the answer under way; working: on the task it was told of; gone.    *)
Process == [at: {"idle", "claimed", "working", "gone"}, task: Tasks \cup {None}]

Idle == [at |-> "idle", task |-> None]

(* The type invariant: rows, agents and counters stay in their domains, and *)
(* the labels of a task are well-formed, few enough, and distinct in lower  *)
(* case whatever operations were applied.                                  *)
TypeOK ==
    /\ row \in [Tasks -> Row \cup {None}]
    /\ deps \subseteq Tasks \X Tasks
    /\ unborn \subseteq Tasks
    /\ clock \in 0 .. MaxClock
    /\ agent \in [Agents -> Process]
    /\ moves \in 0 .. MaxMoves
    /\ aside \in [Agents -> SUBSET Tasks]

Init ==
    /\ row = [t \in Tasks |-> None]
    /\ deps = {}
    /\ unborn = Tasks
    /\ clock = 0
    /\ agent = [a \in Agents |-> Idle]
    /\ moves = 0
    /\ aside = [a \in Agents |-> {}]

Live == {t \in Tasks : row[t] # None}

Graph == INSTANCE DependencyGraph WITH Tasks <- Tasks, live <- Live, deps <- deps

Needs(t) == {d \in Tasks : <<t, d>> \in deps}

-----------------------------------------------------------------------------
(* The queries.                                                            *)

Runnable(t) ==
    /\ t \in Live
    /\ row[t].state = "open"
    /\ \A d \in Needs(t) : row[d].state = "done"

FreshClaimable(a, t) ==
    /\ Runnable(t)
    /\ row[t].owner \in {Nobody, a}
    /\ HasLabels(t, Wants[a])

(* The condition of claimNextTaskID, its labels included.                  *)
Claimable(a, t) ==
    /\ Runnable(t)
    /\ row[t].owner \in {Nobody, a} \/ ~row[t].live
    /\ HasLabels(t, Wants[a])

(* Priority first, then age; tasks of one millisecond in any order.        *)
Before(t, u) ==
    \/ row[t].priority > row[u].priority
    \/ row[t].priority = row[u].priority /\ row[t].created < row[u].created

ChoiceByAge(a) ==
    {t \in Tasks : Claimable(a, t) /\ \A u \in Tasks : Claimable(a, u) => ~Before(u, t)}

(* What claimNextTaskID may select: own tasks come before all others.       *)
Choice(a) ==
    LET own == {t \in Tasks : Claimable(a, t) /\ row[t].owner = a}
        pool == IF own # {} THEN own ELSE {t \in Tasks : Claimable(a, t)} IN
    {t \in pool : \A u \in pool : ~Before(u, t)}

(* ListRunnableTasks: what caller c, an agent or nobody, is shown.         *)
ListRunnable(c, labels) ==
    {t \in Tasks : /\ Runnable(t)
                   /\ row[t].owner = Nobody \/ ~row[t].live \/ (c # Nobody /\ row[t].owner = c)
                   /\ HasLabels(t, labels)}

ListedByAge(c, t, u) == Before(t, u)

ListedBefore(c, t, u) ==
    IF c # Nobody /\ (row[t].owner = c) # (row[u].owner = c) THEN row[t].owner = c ELSE Before(t, u)

(* NextRunnableTask: the head of that list.                                *)
NextRunnable(c, labels) ==
    LET shown == ListRunnable(c, labels) IN
    {t \in shown : \A u \in shown : ~ListedBefore(c, u, t)}

(* ListTasks with an owner, or unclaimed; the filters of `taskline list`.   *)
ListTasks(states, owner, unclaimed, labels) ==
    {t \in Live : /\ states = {} \/ row[t].state \in states
                  /\ owner = Nobody \/ row[t].owner = owner
                  /\ unclaimed => row[t].owner = Nobody
                  /\ HasLabels(t, labels)}

(* `taskline list --runnable --mine`, which the client filters itself.      *)
RunnableAndMine(a) == {t \in ListRunnable(a, Wants[a]) : row[t].owner = a}

-----------------------------------------------------------------------------
(* What every step does to the history: a task that is not for its owner to *)
(* take now is set aside until it changes hands.                           *)
Remember ==
    aside' = [a \in Agents |->
                 {t \in Live' : row'[t].owner = a
                                /\ (t \in aside[a] \/ ~Runnable(t)' \/ ~HasLabels(t, Wants[a])')}]

(* People, and agents acting as people.                                    *)

Create(t, new, now) ==
    /\ t \in unborn
    /\ Acceptable(new.labels)
    /\ unborn' = unborn \ {t}
    /\ clock' = now
    /\ row' = [row EXCEPT ![t] = [state |-> IF new.autoStart THEN "open" ELSE "pending",
                                  priority |-> new.priority,
                                  created |-> now, labels |-> Normalized(new.labels),
                                  owner |-> Nobody, live |-> FALSE]]
    /\ UNCHANGED <<deps, agent, moves>>

Intervene ==
    /\ moves < MaxMoves
    /\ moves' = moves + 1
    /\ UNCHANGED <<unborn, clock, agent>>

Change(t, new) ==
    /\ t \in Live
    /\ row' = [row EXCEPT ![t] = new]
    /\ UNCHANGED deps
    /\ Intervene

(* Forced, for the task may be claimed.                                    *)
Move(t, s) == row[t].state # s /\ Change(t, [row[t] EXCEPT !.state = s])

Prioritize(t, p) == row[t].priority # p /\ Change(t, [row[t] EXCEPT !.priority = p])

Relabel(t, op) == \E new \in Merged(row[t].labels, op) : Change(t, [row[t] EXCEPT !.labels = new])

ForceRelease(t) == row[t].owner # Nobody /\ Change(t, [row[t] EXCEPT !.owner = Nobody, !.live = FALSE])

Delete(t) ==
    /\ row' = [row EXCEPT ![t] = None]
    /\ Graph!Delete(t)
    /\ Intervene

AddDependency(t, d) == UNCHANGED row /\ Graph!Add(t, d) /\ Intervene

DeleteDependency(t, d) == <<t, d>> \in deps /\ UNCHANGED row /\ Graph!Remove(t, d) /\ Intervene

-----------------------------------------------------------------------------
(* Agents.                                                                 *)

Becomes(a, at, t) ==
    /\ agent' = [agent EXCEPT ![a] = [at |-> at, task |-> t]]
    /\ UNCHANGED <<deps, unborn, clock, moves>>

ClaimNext(a) ==
    /\ agent[a].at = "idle"
    /\ \E t \in Choice(a) :
          /\ row' = [row EXCEPT ![t].owner = a, ![t].live = TRUE]
          /\ Becomes(a, "claimed", t)

(* The task is read back for the answer.                                   *)
Told(a) ==
    /\ agent[a].at = "claimed" /\ agent[a].task \in Live
    /\ Becomes(a, "working", agent[a].task)
    /\ UNCHANGED row

(* The read, the event or the connection failed; the agent asks again.      *)
Unanswered(a) ==
    /\ agent[a].at = "claimed"
    /\ Becomes(a, "idle", None)
    /\ UNCHANGED row

Works(a) == agent[a].at = "working"
Owned(a) == agent[a].task \in Live /\ row[agent[a].task].owner = a

(* An update that moves the task to done; it renews the agent's own lease.  *)
Finish(a) ==
    LET t == agent[a].task IN
    /\ Works(a) /\ t \in Live /\ row[t].owner \in {a, Nobody}
    /\ row' = [row EXCEPT ![t].state = "done", ![t].live = row[t].owner = a]
    /\ Becomes(a, "idle", None)

Refused(a) ==
    /\ Works(a)
    /\ agent[a].task \in Live => row[agent[a].task].owner \notin {a, Nobody}
    /\ Becomes(a, "idle", None)
    /\ UNCHANGED row

(* Without a release the task would come back at once.                     *)
GiveUp(a) ==
    /\ Works(a) /\ Owned(a)
    /\ row' = [row EXCEPT ![agent[a].task].owner = Nobody, ![agent[a].task].live = FALSE]
    /\ Becomes(a, "idle", None)

(* A heartbeat asks for the owner only, not for a lease that is still live. *)
Heartbeat(a) ==
    /\ Works(a) /\ Owned(a) /\ ~row[agent[a].task].live
    /\ row' = [row EXCEPT ![agent[a].task].live = TRUE]
    /\ UNCHANGED <<deps, unborn, clock, agent, moves>>

(* A process ends, and its agent comes back or does not.                   *)
Leave(a) ==
    /\ a \notin Steady /\ agent[a].at # "gone"
    /\ Becomes(a, "gone", None)
    /\ UNCHANGED row

Return(a) ==
    /\ agent[a].at = "gone"
    /\ Becomes(a, "idle", None)
    /\ UNCHANGED row

Expire(t) ==
    /\ t \in Live /\ row[t].live
    /\ row' = [row EXCEPT ![t].live = FALSE]
    /\ UNCHANGED <<deps, unborn, clock, agent, moves>>

Act(a) ==
    \/ ClaimNext(a) \/ Told(a) \/ Unanswered(a) \/ Finish(a) \/ Refused(a)
    \/ GiveUp(a) \/ Heartbeat(a) \/ Leave(a) \/ Return(a)

Next ==
    /\ \/ \E t \in Tasks, new \in Creations, now \in clock .. MaxClock : Create(t, new, now)
       \/ \E t, d \in Tasks : AddDependency(t, d) \/ DeleteDependency(t, d)
       \/ \E t \in Live :
             \/ \E s \in States : Move(t, s)
             \/ \E p \in Priorities : Prioritize(t, p)
             \/ \E op \in LabelOps : Relabel(t, op)
             \/ ForceRelease(t) \/ Delete(t) \/ Expire(t)
       \/ \E a \in Agents : Act(a)
    /\ Remember

Spec == Init /\ [][Next]_vars

(* Time passes, so a lease that nobody renews runs out; a call ends, and    *)
(* not for ever without an answer while the claim lasts.  Of agents: who is *)
(* told of tasks again and again ends one of them (or leaves, unless it is  *)
(* steady), and a steady agent for which there is a task again and again    *)
(* asks in time for one.                                                   *)
Fairness ==
    /\ \A t \in Tasks : WF_vars(Expire(t) /\ Remember)
    /\ \A a \in Agents :
          /\ WF_vars((Told(a) \/ Unanswered(a)) /\ Remember)
          /\ SF_vars(Told(a) /\ Owned(a) /\ Remember)
          /\ WF_vars(Refused(a) /\ Remember) /\ SF_vars(Finish(a) /\ Remember)
    /\ \A a \in Steady : SF_vars(ClaimNext(a) /\ Remember)

FairSpec == Spec /\ Fairness

-----------------------------------------------------------------------------
(* Properties.                                                             *)

(* However many answers an agent loses, asking again does not pile up claims *)
(* in its name: of the tasks it owns at most one has been within its reach  *)
(* ever since it got it.  (A task it finished and that was reopened, or one *)
(* that was parked meanwhile, may come back beside it.)                    *)
OneTaskAtATime ==
    \A a \in Agents : \A t, u \in Live :
        row[t].owner = a /\ row[u].owner = a /\ {t, u} \cap aside[a] = {} => t = u

(* The preview shows the task that asking with --claim would hand out; if   *)
(* `list --runnable --mine` shows any, it is one of them; and otherwise     *)
(* `list --unclaimed` shows it, unless its former owner's lease ran out.    *)
ListingsAgree ==
    \A a \in Agents :
        /\ NextRunnable(a, Wants[a]) = Choice(a)
        /\ RunnableAndMine(a) # {} => Choice(a) \subseteq RunnableAndMine(a)
        /\ RunnableAndMine(a) = {} =>
              \A t \in Choice(a) : \/ t \in ListTasks({"open"}, Nobody, TRUE, Wants[a])
                                   \/ row[t].owner # Nobody /\ ~row[t].live

(* Tasks that can be brought to an end: neither they nor anything they wait *)
(* for is parked or carries labels that no steady agent asks for.          *)
Doable ==
    UNION {S \in SUBSET Live :
              /\ \A t \in S : Needs(t) \subseteq S
              /\ \A t \in S : \/ row[t].state = "done"
                              \/ row[t].state = "open" /\ \E a \in Steady : HasLabels(t, Wants[a])}

(* Once people leave the queue alone it is worked off: whatever the          *)
(* priorities, and whoever leaves with a claim, every task that can be      *)
(* brought to an end is done in the end.                                   *)
Drained == <>[](\A t \in Doable : row[t].state = "done")
=============================================================================
