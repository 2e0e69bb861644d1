----------------------------- MODULE TaskClaims -----------------------------
(***************************************************************************)
(* Claims and leases of the taskline server: what ClaimTask, ClaimNextTask, *)
(* HeartbeatTask, ReleaseTask and the claim side of UpdateTask do to the    *)
(* task rows, when requests of several sessions interleave.                 *)
(*                                                                          *)
(* The store opens one SQLite connection, so a statement (or transaction)   *)
(* is one atomic step; a handler issues several of them and the handlers of *)
(* different requests interleave between any two.  A handler also reads the *)
(* wall clock before it waits for the connection, so the instant it stores  *)
(* or compares with may be older than the instant the statement runs at.    *)
(*                                                                          *)
(* A session is one registered agent, or the anonymous caller (the web      *)
(* page), whose owner string is the empty one: Nobody stands both for an    *)
(* unclaimed row and for the anonymous caller, as "" does in the code.  A    *)
(* session has at most one request in flight.                               *)
(*                                                                          *)
(* Left to module TaskUpdate: the content of a task other than its state,   *)
(* if_state, the evidence gates and the retry on label or description       *)
(* conflicts.  Here they show as updates that are refused or retried.       *)
(***************************************************************************)
EXTENDS Naturals, FiniteSets

CONSTANTS
    Tasks,          \* task ids that can ever be minted
    Agents,         \* names of registered agents
    Nobody,         \* the empty owner string
    ActiveStates,   \* the lifecycle states other than pending and done
    Deps,           \* Deps[t]: the direct prerequisites of t
    Priority,       \* Priority[t]: integer priority of t
    CreatedAt,      \* CreatedAt[t]: creation instant of t, ties allowed
    Filters,        \* task sets a label filter and a project can select
    Leases,         \* lease durations callers ask for
    DefaultLease,   \* DefaultLeaseDuration
    MaxTime,        \* bound on the clock
    MaxInFlight     \* bound on the requests in flight at once

Sessions == Agents \cup {Nobody}
States == ActiveStates \cup {"pending", "done"}

ASSUME ConstantsAssumption ==
    /\ Tasks # {}
    /\ Nobody \notin Agents
    /\ "start" \in ActiveStates
    /\ "pending" \notin ActiveStates /\ "done" \notin ActiveStates
    /\ Deps \in [Tasks -> SUBSET Tasks]
    /\ Priority \in [Tasks -> Nat]
    /\ CreatedAt \in [Tasks -> Nat]
    /\ Filters \subseteq SUBSET Tasks
    /\ Leases \subseteq Nat \ {0}
    /\ DefaultLease \in Nat \ {0}
    /\ MaxTime \in Nat /\ MaxInFlight \in Nat

VARIABLES
    clock,    \* wall clock of the server, read by every handler
    unborn,   \* task ids not minted yet
    live,     \* tasks that have a row
    row,      \* row[t]: state, owner, lease_expires_at, and whether completed_at is set
    req,      \* req[s]: the request session s has in flight
    told,     \* told[a][t]: the lease expiry agent a was last told for its claim on t, until it passes
    forced    \* tasks some forced request has written (history)

vars == <<clock, unborn, live, row, req, told, forced>>

-----------------------------------------------------------------------------
(* Rows and requests.                                                      *)

Row == [state: States, owner: Sessions, lease: Nat, completed: BOOLEAN]

Snapshot == [state: States, owner: Sessions, completed: BOOLEAN]

Steps == {"idle", "claim", "next", "heartbeat", "release", "load", "write", "reread", "reply"}

(* at: next database call; among: tasks a claim may take; task: the task   *)
(* of the other calls; now, exp: instants computed before the call; force: *)
(* the force flag; was: what an update read of the row and decides on.     *)
Request == [at: Steps, among: SUBSET Tasks, task: Tasks, now: Nat, exp: Nat,
            force: BOOLEAN, was: Snapshot]

EmptyRow == [state |-> "pending", owner |-> Nobody, lease |-> 0, completed |-> FALSE]

ReadOf(r) == [state |-> r.state, owner |-> r.owner, completed |-> r.completed]

NoRequest == [at |-> "idle", among |-> {}, task |-> CHOOSE t \in Tasks : TRUE,
              now |-> 0, exp |-> 0, force |-> FALSE, was |-> ReadOf(EmptyRow)]

TypeOK ==
    /\ clock \in Nat
    /\ unborn \subseteq Tasks
    /\ live \subseteq Tasks
    /\ row \in [Tasks -> Row]
    /\ req \in [Sessions -> Request]
    /\ told \in [Agents -> [Tasks -> Nat]]
    /\ forced \subseteq Tasks

Init ==
    /\ clock = 1
    /\ unborn = Tasks
    /\ live = {}
    /\ row = [t \in Tasks |-> EmptyRow]
    /\ req = [s \in Sessions |-> NoRequest]
    /\ told = [a \in Agents |-> [t \in Tasks |-> 0]]
    /\ forced = {}

Tick ==
    /\ clock < MaxTime
    /\ clock' = clock + 1
    /\ told' = [a \in Agents |-> [t \in Tasks |-> IF told[a][t] > clock' THEN told[a][t] ELSE 0]]
    /\ UNCHANGED <<unborn, live, row, req, forced>>

-----------------------------------------------------------------------------
(* Creating and deleting tasks.                                            *)

(* An id is minted once and never again.                                   *)
CreateTask(t, autoStart) ==
    /\ t \in unborn
    /\ unborn' = unborn \ {t}
    /\ live' = live \cup {t}
    /\ row' = [row EXCEPT ![t] = [EmptyRow EXCEPT !.state = IF autoStart THEN "start" ELSE "pending"]]
    /\ UNCHANGED <<clock, req, told, forced>>

DeleteTask(t) ==
    /\ t \in live
    /\ live' = live \ {t}
    /\ row' = [row EXCEPT ![t] = EmptyRow]
    /\ UNCHANGED <<clock, unborn, req, told, forced>>

-----------------------------------------------------------------------------
(* Requests start: the handler validates its input and reads the clock.    *)

Start(s, r) ==
    /\ req[s].at = "idle"
    /\ Cardinality({x \in Sessions : req[x].at # "idle"}) < MaxInFlight
    /\ req' = [req EXCEPT ![s] = r]
    /\ UNCHANGED <<clock, unborn, live, row, told, forced>>

StartClaim(a, t, d) ==
    Start(a, [NoRequest EXCEPT !.at = "claim", !.task = t,
                               !.now = clock, !.exp = clock + d])

StartNext(a, F, d) ==
    Start(a, [NoRequest EXCEPT !.at = "next", !.among = F,
                               !.now = clock, !.exp = clock + d])

StartHeartbeatInThePast(a, t, d) ==
    Start(a, [NoRequest EXCEPT !.at = "heartbeat", !.task = t, !.exp = clock - d])

StartHeartbeat(a, t, d) ==
    Start(a, [NoRequest EXCEPT !.at = "heartbeat", !.task = t, !.exp = clock + d])

(* An anonymous release without force is turned away by the handler.       *)
StartRelease(s, t, f) ==
    /\ s = Nobody => f
    /\ t \in live
    /\ Start(s, [NoRequest EXCEPT !.at = "release", !.task = t, !.force = f])

(* Only an identified caller renews the lease: exp stays 0 for Nobody.     *)
StartUpdate(s, t, f) ==
    Start(s, [NoRequest EXCEPT !.at = "load", !.task = t, !.force = f,
                               !.exp = IF s = Nobody THEN 0 ELSE clock + DefaultLease])

-----------------------------------------------------------------------------
(* The statements on the claim columns.                                    *)

Runnable(t) ==
    /\ t \in live
    /\ row[t].state \notin {"pending", "done"}
    /\ \A d \in Deps[t] \cap live : row[d].state = "done"

ClaimableWhenRunnable(t, a, now) == Runnable(t)

Claimable(t, a, now) ==
    /\ Runnable(t)
    /\ row[t].owner \in {Nobody, a} \/ row[t].lease <= now

Owns(s, t) == s # Nobody /\ row[t].owner = s

(* Queue order: own tasks, then priority, then age.                        *)
Before(t, u, a) ==
    LET mine(x) == row[x].owner = a IN
    IF mine(t) # mine(u) THEN mine(t)
    ELSE \/ Priority[t] > Priority[u]
         \/ Priority[t] = Priority[u] /\ CreatedAt[t] < CreatedAt[u]

(* What is left of a request once its change is committed.                 *)
Committed(t) == [NoRequest EXCEPT !.at = "reread", !.task = t]

Reserve(a, t) ==
    /\ row' = [row EXCEPT ![t].owner = a, ![t].lease = req[a].exp]
    /\ req' = [req EXCEPT ![a] = Committed(t)]
    /\ UNCHANGED <<clock, unborn, live, told, forced>>

(* One conditional UPDATE.                                                 *)
ClaimTask(a) ==
    /\ req[a].at = "claim"
    /\ Claimable(req[a].task, a, req[a].now)
    /\ Reserve(a, req[a].task)

(* SELECT and UPDATE in one transaction; no claimable task follows t in    *)
(* queue order before t.                                                   *)
ClaimNextTask(a) ==
    /\ req[a].at = "next"
    /\ \E t \in req[a].among :
          /\ Claimable(t, a, req[a].now)
          /\ \A u \in req[a].among : Claimable(u, a, req[a].now) => ~Before(u, t, a)
          /\ Reserve(a, t)

HeartbeatTask(a) ==
    LET t == req[a].task IN
    /\ req[a].at = "heartbeat"
    /\ t \in live /\ row[t].owner = a
    /\ row' = [row EXCEPT ![t].lease = req[a].exp]
    /\ req' = [req EXCEPT ![a] = Committed(t)]
    /\ UNCHANGED <<clock, unborn, live, told, forced>>

Mark(s) == IF req[s].force THEN forced \cup {req[s].task} ELSE forced

MayReleaseAnybody(s, t) == TRUE

MayRelease(s, t) == req[s].force \/ row[t].owner = s

ReleaseTask(s) ==
    LET t == req[s].task IN
    /\ req[s].at = "release"
    /\ t \in live /\ MayRelease(s, t)
    /\ row' = [row EXCEPT ![t].owner = Nobody, ![t].lease = 0]
    /\ req' = [req EXCEPT ![s] = Committed(t)]
    /\ forced' = Mark(s)
    /\ UNCHANGED <<clock, unborn, live, told>>

-----------------------------------------------------------------------------
(* UpdateTask: a read, the ownership check on what was read, a write of    *)
(* the whole row guarded by the owner that was read.                       *)

UpdateLoad(s) ==
    LET t == req[s].task IN
    /\ req[s].at = "load"
    /\ t \in live
    /\ req[s].force \/ row[t].owner \in {Nobody, s}
    /\ req' = [req EXCEPT ![s].at = "write", ![s].was = ReadOf(row[t])]
    /\ UNCHANGED <<clock, unborn, live, row, told, forced>>

Renews(s) == s # Nobody /\ req[s].was.owner = s

CompletedNeverCleared(was, to) == to = "done" \/ was.completed

CompletedAfter(was, to) ==
    IF to = "done" /\ was.state # "done" THEN TRUE
    ELSE IF to # "done" /\ was.state = "done" THEN FALSE
    ELSE was.completed

WriteGuardById(s) == TRUE

WriteGuard(s) == req[s].force \/ row[req[s].task].owner = req[s].was.owner

(* to is the target the caller named, or the state that was read if the    *)
(* caller named none.  completed_at is set on the way into done, cleared   *)
(* on the way out, and otherwise written back as it was read.              *)
UpdateWrite(s, to) ==
    LET t == req[s].task IN
    /\ req[s].at = "write"
    /\ t \in live /\ WriteGuard(s)
    /\ row' = [row EXCEPT
                 ![t].state = to,
                 ![t].completed = CompletedAfter(req[s].was, to),
                 ![t].lease = IF Renews(s) THEN req[s].exp ELSE @]
    /\ req' = [req EXCEPT ![s] = Committed(t)]
    /\ forced' = Mark(s)
    /\ UNCHANGED <<clock, unborn, live, told>>

(* The write matched no row and the handler reads it afresh; it keeps the  *)
(* instants it computed first.                                             *)
UpdateRetry(s) ==
    /\ req[s].at = "write"
    /\ req' = [req EXCEPT ![s].at = "load", ![s].was = NoRequest.was]
    /\ UNCHANGED <<clock, unborn, live, row, told, forced>>

-----------------------------------------------------------------------------
(* Answers.                                                                *)

(* A call that may end before it has changed anything: 404, 409, 204, or a *)
(* rejected update.  What the agent was told before still stands.          *)
CannotTake(s) ==
    CASE req[s].at = "claim" -> ~Claimable(req[s].task, s, req[s].now)
      [] req[s].at = "next" -> \A t \in req[s].among : ~Claimable(t, s, req[s].now)
      [] req[s].at = "heartbeat" -> ~(req[s].task \in live /\ row[req[s].task].owner = s)
      [] req[s].at = "release" ->
           ~(req[s].task \in live /\ MayRelease(s, req[s].task))
      [] OTHER -> req[s].at \in {"load", "write"}

Refuse(s) ==
    /\ CannotTake(s)
    /\ req' = [req EXCEPT ![s] = NoRequest]
    /\ UNCHANGED <<clock, unborn, live, row, told, forced>>

(* The row of the answer is read by a statement of its own; the answer is   *)
(* good for the lease it names if it names the caller as owner.            *)
Reread(s) ==
    /\ req[s].at = "reread"
    /\ req[s].task \in live
    /\ req' = [req EXCEPT ![s].at = "reply",
                          ![s].exp = IF Owns(s, req[s].task) THEN row[req[s].task].lease ELSE 0]
    /\ UNCHANGED <<clock, unborn, live, row, told, forced>>

Tell(s, until) ==
    told' = IF s = Nobody THEN told ELSE [told EXCEPT ![s][req[s].task] = until]

(* The event is recorded and the caller gets the answer.                   *)
Reply(s) ==
    /\ req[s].at = "reply"
    /\ Tell(s, req[s].exp)
    /\ req' = [req EXCEPT ![s] = NoRequest]
    /\ UNCHANGED <<clock, unborn, live, row, forced>>

(* The change is committed and the call still fails: the row is gone when  *)
(* it is read back, the event insert fails, or the server dies.  The       *)
(* caller then knows nothing about its claim.                              *)
FailAfterCommit(s) ==
    /\ req[s].at \in {"reread", "reply"}
    /\ Tell(s, 0)
    /\ req' = [req EXCEPT ![s] = NoRequest]
    /\ UNCHANGED <<clock, unborn, live, row, forced>>

-----------------------------------------------------------------------------
Begin(s) ==
    \E t \in Tasks :
        \/ s \in Agents /\ \E d \in Leases : StartClaim(s, t, d) \/ StartHeartbeat(s, t, d)
        \/ \E f \in BOOLEAN : StartRelease(s, t, f)
        \/ \E f \in BOOLEAN : StartUpdate(s, t, f)

BeginNext(s) == s \in Agents /\ \E F \in Filters, d \in Leases : StartNext(s, F, d)

Execute(s) ==
    \/ s \in Agents /\ (ClaimTask(s) \/ ClaimNextTask(s) \/ HeartbeatTask(s))
    \/ ReleaseTask(s)
    \/ UpdateLoad(s) \/ (\E to \in States : UpdateWrite(s, to)) \/ UpdateRetry(s)
    \/ Refuse(s) \/ Reread(s) \/ Reply(s) \/ FailAfterCommit(s)

Next ==
    \/ Tick
    \/ \E t \in Tasks : DeleteTask(t) \/ \E autoStart \in BOOLEAN : CreateTask(t, autoStart)
    \/ \E s \in Sessions : Begin(s) \/ BeginNext(s) \/ Execute(s)

Spec == Init /\ [][Next]_vars

-----------------------------------------------------------------------------
(* Properties.                                                             *)

(* A task has a completion instant exactly while it is done, although an   *)
(* update decides on completed_at from a row it read earlier and writes it *)
(* together with the state.                                                *)
DoneIffCompleted == \A t \in live : row[t].state = "done" <=> row[t].completed

(* The lease an agent was last told it holds is honoured: until it runs    *)
(* out the row names that agent with at least that expiry, whatever stale  *)
(* claims, heartbeats, releases and updates of others are in flight.       *)
(* Excepted are tasks somebody used force on, and the moment between a     *)
(* change of the agent's own and its answer.                               *)
Unanswered(a, t) == req[a].at \in {"reread", "reply"} /\ req[a].task = t

LeaseHonoured ==
    \A a \in Agents, t \in Tasks :
        told[a][t] > clock /\ t \in live \ forced /\ ~Unanswered(a, t)
            => row[t].owner = a /\ row[t].lease >= told[a][t]

(* A claim isolates its holder's updates: as long as the claim lasts, the  *)
(* write of an update finds the row as the update read it, so it overwrites *)
(* nothing it has not seen, though only the owner column is compared.      *)
ClaimIsolates ==
    \A a \in Agents :
        LET t == req[a].task IN
        /\ req[a].at = "write" /\ req[a].was.owner = a /\ row[t].owner = a
        /\ t \in live \ forced
        => ReadOf(row[t]) = req[a].was

(* While a lease is live only its holder, a forced request or the deletion *)
(* of the task ends the claim, and no other agent gets it in the same step. *)
TakeoverOnlyAfterExpiry ==
    [][\A t \in live \cap live' :
          row[t].owner # row'[t].owner /\ row[t].owner # Nobody /\ row[t].lease > clock
          => /\ row'[t].owner = Nobody
             /\ t \in forced' \/ req[row[t].owner].at = "release"]_vars
=============================================================================
