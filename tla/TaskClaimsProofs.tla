-------------------------- MODULE TaskClaimsProofs --------------------------
(* Proofs about TaskClaims for every set of tasks and agents, every lease    *)
(* duration and every number of requests in flight.                          *)
EXTENDS TaskClaims, TLAPS

-----------------------------------------------------------------------------
(* The inductive invariant.                                                *)

(* A deleted id is not minted again, and nothing is known or in flight     *)
(* past the first database call about a task that was never minted.        *)
MintedOnce ==
    /\ unborn \cap live = {}
    /\ \A a \in Agents, t \in unborn : told[a][t] = 0
    /\ \A s \in Sessions : req[s].at \in {"write", "reread", "reply"} => req[s].task \notin unborn

(* An instant taken before a call is never ahead of the clock.             *)
NowIsPast == \A s \in Sessions : req[s].now <= clock

(* An update without force goes on to write only if it read the task as    *)
(* unclaimed or as its own.                                                *)
ReadAsOwn ==
    \A s \in Sessions :
        req[s].at = "write" /\ ~req[s].force => req[s].was.owner \in {Nobody, s}

(* Completion is consistent in the rows and in what updates have read.     *)
CompletionConsistent ==
    /\ \A t \in Tasks : row[t].state = "done" <=> row[t].completed
    /\ \A s \in Sessions :
          req[s].at = "write" => (req[s].was.state = "done" <=> req[s].was.completed)

(* An answer under way names a lease the row still grants.                 *)
AnswerTrue ==
    \A a \in Agents :
        req[a].at = "reply" /\ req[a].exp > clock /\ req[a].task \in live \ forced
            => row[req[a].task].owner = a /\ row[req[a].task].lease >= req[a].exp

ClaimsInv ==
    /\ TypeOK
    /\ MintedOnce
    /\ NowIsPast
    /\ ReadAsOwn
    /\ CompletionConsistent
    /\ AnswerTrue
    /\ LeaseHonoured
    /\ ClaimIsolates

-----------------------------------------------------------------------------
(* The steps, grouped.                                                     *)

(* Every request begins idle, with a first call and an instant just taken. *)
Starts(s) ==
    \E r \in Request : /\ r.at \in {"claim", "next", "heartbeat", "release", "load"}
                       /\ r.now <= clock
                       /\ Start(s, r)

(* Both claim operations take one claimable task.                          *)
Takes(a, t) ==
    a \in Agents /\ req[a].at \in {"claim", "next"} /\ Claimable(t, a, req[a].now) /\ Reserve(a, t)

LEMMA ConstantFacts ==
    /\ EmptyRow \in Row
    /\ NoRequest \in Request
    /\ NoRequest.at = "idle" /\ NoRequest.now = 0 /\ NoRequest.exp = 0
    /\ ReadOf(EmptyRow) \in Snapshot
    /\ (CHOOSE t \in Tasks : TRUE) \in Tasks
    /\ Agents \subseteq Sessions /\ Nobody \in Sessions
    /\ "start" \in States
  <1>1. EmptyRow \in Row
    BY DEF EmptyRow, Row, States, Sessions
  <1>2. ReadOf(EmptyRow) \in Snapshot
    BY DEF EmptyRow, ReadOf, Snapshot, States, Sessions
  <1>3. (CHOOSE t \in Tasks : TRUE) \in Tasks
    BY ConstantsAssumption
  <1>4. NoRequest \in Request
    BY <1>2, <1>3 DEF NoRequest, Request, Steps
  <1> QED
    BY <1>1, <1>2, <1>3, <1>4, ConstantsAssumption DEF NoRequest, States, Sessions

(* The requests the Start operators build, and the changes of one row and  *)
(* one request, are well typed.                                            *)
LEMMA NewRequest ==
    ASSUME NEW at \in Steps, NEW t \in Tasks
    PROVE  /\ [NoRequest EXCEPT !.at = at, !.task = t] \in Request
           /\ \A e \in Nat : [NoRequest EXCEPT !.at = at, !.task = t, !.exp = e] \in Request
           /\ \A n, e \in Nat :
                 [NoRequest EXCEPT !.at = at, !.task = t, !.now = n, !.exp = e] \in Request
           /\ \A f \in BOOLEAN : [NoRequest EXCEPT !.at = at, !.task = t, !.force = f] \in Request
           /\ \A f \in BOOLEAN, e \in Nat :
                 [NoRequest EXCEPT !.at = at, !.task = t, !.force = f, !.exp = e] \in Request
  BY ConstantFacts DEF Request

LEMMA NewRow ==
    ASSUME TypeOK, NEW t \in Tasks
    PROVE  /\ \A r \in Row : [row EXCEPT ![t] = r] \in [Tasks -> Row]
           /\ \A e \in Nat : [row EXCEPT ![t].lease = e] \in [Tasks -> Row]
           /\ \A o \in Sessions, e \in Nat :
                 [row EXCEPT ![t].owner = o, ![t].lease = e] \in [Tasks -> Row]
           /\ \A to \in States, c \in BOOLEAN, e \in Nat :
                 [row EXCEPT ![t].state = to, ![t].completed = c, ![t].lease = e] \in [Tasks -> Row]
  BY DEF TypeOK, Row

LEMMA NextRequest ==
    ASSUME TypeOK, NEW s \in Sessions
    PROVE  /\ \A r \in Request : [req EXCEPT ![s] = r] \in [Sessions -> Request]
           /\ \A at \in Steps, w \in Snapshot :
                 [req EXCEPT ![s].at = at, ![s].was = w] \in [Sessions -> Request]
           /\ \A at \in Steps, e \in Nat :
                 [req EXCEPT ![s].at = at, ![s].exp = e] \in [Sessions -> Request]
  <1>1. ASSUME NEW r \in Request PROVE [req EXCEPT ![s] = r] \in [Sessions -> Request]
    BY DEF TypeOK
  <1>2. ASSUME NEW at \in Steps, NEW w \in Snapshot
        PROVE  [req EXCEPT ![s].at = at, ![s].was = w] \in [Sessions -> Request]
    <2>1. [req[s] EXCEPT !.at = at, !.was = w] \in Request
      BY DEF TypeOK, Request
    <2>2. [req EXCEPT ![s].at = at, ![s].was = w]
            = [req EXCEPT ![s] = [req[s] EXCEPT !.at = at, !.was = w]]
      BY DEF TypeOK
    <2> QED BY <1>1, <2>1, <2>2
  <1>3. ASSUME NEW at \in Steps, NEW e \in Nat
        PROVE  [req EXCEPT ![s].at = at, ![s].exp = e] \in [Sessions -> Request]
    <2>1. [req[s] EXCEPT !.at = at, !.exp = e] \in Request
      BY DEF TypeOK, Request
    <2>2. [req EXCEPT ![s].at = at, ![s].exp = e]
            = [req EXCEPT ![s] = [req[s] EXCEPT !.at = at, !.exp = e]]
      BY DEF TypeOK
    <2> QED BY <1>1, <2>1, <2>2
  <1> QED BY <1>1, <1>2, <1>3

LEMMA BeginStarts ==
    ASSUME TypeOK, NEW s \in Sessions, Begin(s) \/ BeginNext(s)
    PROVE  Starts(s)
  <1>0. /\ {"claim", "next", "heartbeat", "release", "load"} \subseteq Steps
        /\ clock \in Nat /\ 0 \in Nat
        /\ (IF s = Nobody THEN 0 ELSE clock + DefaultLease) \in Nat
        /\ \A d \in Leases : clock + d \in Nat
        /\ Filters \subseteq SUBSET Tasks
    BY ConstantsAssumption DEF Steps, TypeOK
  <1>00. ASSUME NEW r \in Request, Start(s, r), r.now <= clock,
                r.at \in {"claim", "next", "heartbeat", "release", "load"}
         PROVE  Starts(s)
    BY <1>00 DEF Starts
  <1>1. ASSUME NEW t \in Tasks, NEW d \in Leases, StartClaim(s, t, d)
        PROVE  Starts(s)
    <2> DEFINE r == [NoRequest EXCEPT !.at = "claim", !.task = t, !.now = clock, !.exp = clock + d]
    <2>1. r \in Request
      BY <1>0, NewRequest
    <2>2. r.at = "claim" /\ r.now = clock
      BY DEF NoRequest
    <2>3. Start(s, r)
      BY <1>1 DEF StartClaim
    <2> HIDE DEF r
    <2> QED BY <1>0, <1>00, <2>1, <2>2, <2>3
  <1>2. ASSUME NEW t \in Tasks, NEW d \in Leases, StartHeartbeat(s, t, d)
        PROVE  Starts(s)
    <2> DEFINE r == [NoRequest EXCEPT !.at = "heartbeat", !.task = t, !.exp = clock + d]
    <2>1. r \in Request
      BY <1>0, NewRequest
    <2>2. r.at = "heartbeat" /\ r.now = 0
      BY DEF NoRequest
    <2>3. Start(s, r)
      BY <1>2 DEF StartHeartbeat
    <2> HIDE DEF r
    <2> QED BY <1>0, <1>00, <2>1, <2>2, <2>3
  <1>3. ASSUME NEW t \in Tasks, NEW f \in BOOLEAN, StartRelease(s, t, f)
        PROVE  Starts(s)
    <2> DEFINE r == [NoRequest EXCEPT !.at = "release", !.task = t, !.force = f]
    <2>1. r \in Request
      BY <1>0, NewRequest
    <2>2. r.at = "release" /\ r.now = 0
      BY DEF NoRequest
    <2>3. Start(s, r)
      BY <1>3 DEF StartRelease
    <2> HIDE DEF r
    <2> QED BY <1>0, <1>00, <2>1, <2>2, <2>3
  <1>4. ASSUME NEW t \in Tasks, NEW f \in BOOLEAN, StartUpdate(s, t, f)
        PROVE  Starts(s)
    <2> DEFINE r == [NoRequest EXCEPT !.at = "load", !.task = t, !.force = f,
                               !.exp = IF s = Nobody THEN 0 ELSE clock + DefaultLease]
    <2>1. r \in Request
      BY <1>0, NewRequest
    <2>2. r.at = "load" /\ r.now = 0
      BY DEF NoRequest
    <2>3. Start(s, r)
      BY <1>4 DEF StartUpdate
    <2> HIDE DEF r
    <2> QED BY <1>0, <1>00, <2>1, <2>2, <2>3
  <1>5. ASSUME NEW F \in Filters, NEW d \in Leases, StartNext(s, F, d)
        PROVE  Starts(s)
    <2> DEFINE r == [NoRequest EXCEPT !.at = "next", !.among = F, !.now = clock, !.exp = clock + d]
    <2>1. r \in Request
      <3>1. F \in SUBSET Tasks /\ clock + d \in Nat /\ "next" \in Steps
        BY <1>0
      <3>2. \A n, e \in Nat :
               [NoRequest EXCEPT !.at = "next", !.among = F, !.now = n, !.exp = e] \in Request
        BY <3>1, ConstantFacts DEF Request
      <3> QED BY <1>0, <3>1, <3>2
    <2>2. r.at = "next" /\ r.now = clock
      BY DEF NoRequest
    <2>3. Start(s, r)
      BY <1>5 DEF StartNext
    <2> HIDE DEF r
    <2> QED BY <1>0, <1>00, <2>1, <2>2, <2>3
  <1> QED
    BY <1>1, <1>2, <1>3, <1>4, <1>5 DEF Begin, BeginNext

LEMMA ClaimTakes ==
    ASSUME TypeOK, NEW a \in Agents, ClaimTask(a) \/ ClaimNextTask(a)
    PROVE  \E t \in live : Takes(a, t)
  <1>1. CASE ClaimTask(a)
    BY <1>1 DEF ClaimTask, Takes, Claimable, Runnable
  <1>2. CASE ClaimNextTask(a)
    BY <1>2 DEF ClaimNextTask, Takes, Claimable, Runnable
  <1> QED BY <1>1, <1>2

(* The case distinction of every proof below.                              *)
LEMMA StepCases ==
    ASSUME TypeOK, Next
    PROVE  \/ Tick
           \/ \E t \in Tasks : DeleteTask(t) \/ \E autoStart \in BOOLEAN : CreateTask(t, autoStart)
           \/ \E s \in Sessions :
                 \/ Starts(s)
                 \/ \E t \in live : Takes(s, t)
                 \/ s \in Agents /\ HeartbeatTask(s)
                 \/ ReleaseTask(s)
                 \/ UpdateLoad(s)
                 \/ \E to \in States : UpdateWrite(s, to)
                 \/ UpdateRetry(s) \/ Refuse(s) \/ Reread(s) \/ Reply(s) \/ FailAfterCommit(s)
  <1>1. ASSUME NEW s \in Sessions, Begin(s) \/ BeginNext(s)
        PROVE  Starts(s)
    BY <1>1, BeginStarts
  <1>2. ASSUME NEW s \in Agents, ClaimTask(s) \/ ClaimNextTask(s)
        PROVE  \E t \in live : Takes(s, t)
    BY <1>2, ClaimTakes
  <1> QED
    BY <1>1, <1>2 DEF Next, Execute

-----------------------------------------------------------------------------
(* Typing.                                                                 *)

LEMMA TypeStep == TypeOK /\ [Next]_vars => TypeOK'
  <1> SUFFICES ASSUME TypeOK, [Next]_vars PROVE TypeOK'
    OBVIOUS
  <1>1. CASE UNCHANGED vars
    BY <1>1 DEF TypeOK, vars
  <1>2. CASE Tick
    BY <1>2 DEF TypeOK, Tick
  <1>3. ASSUME NEW t \in Tasks, DeleteTask(t) PROVE TypeOK'
    BY <1>3, ConstantFacts DEF TypeOK, DeleteTask
  <1>4. ASSUME NEW t \in Tasks, NEW b \in BOOLEAN, CreateTask(t, b) PROVE TypeOK'
    <2>1. [EmptyRow EXCEPT !.state = IF b THEN "start" ELSE "pending"] \in Row
      BY ConstantsAssumption DEF Row, EmptyRow, States, Sessions
    <2> QED BY <1>4, <2>1 DEF TypeOK, CreateTask
  <1>5. ASSUME NEW s \in Sessions PROVE
           /\ Starts(s) => TypeOK'
           /\ (\E t \in live : Takes(s, t)) => TypeOK'
           /\ s \in Agents /\ HeartbeatTask(s) => TypeOK'
           /\ ReleaseTask(s) => TypeOK'
           /\ UpdateLoad(s) => TypeOK'
           /\ (\E to \in States : UpdateWrite(s, to)) => TypeOK'
           /\ UpdateRetry(s) \/ Refuse(s) \/ Reread(s) \/ Reply(s) \/ FailAfterCommit(s) => TypeOK'
    <2>0. /\ \A t \in Tasks : Committed(t) \in Request
          /\ {"load", "write", "reread", "reply"} \subseteq Steps
      BY NewRequest DEF Committed, Steps
    <2>00. /\ req[s] \in Request /\ req[s].task \in Tasks /\ req[s].exp \in Nat
           /\ row[req[s].task] \in Row /\ row[req[s].task].lease \in Nat
           /\ ReadOf(row[req[s].task]) \in Snapshot
           /\ NoRequest.was \in Snapshot /\ 0 \in Nat
           /\ live \subseteq Tasks /\ Agents \subseteq Sessions /\ Nobody \in Sessions
           /\ NoRequest \in Request
      BY ConstantFacts DEF TypeOK, Request, Row, ReadOf, Snapshot, NoRequest
    <2>1. Starts(s) => TypeOK'
      <3> SUFFICES ASSUME NEW r \in Request, Start(s, r) PROVE TypeOK'
        BY DEF Starts
      <3>1. req' \in [Sessions -> Request]
        BY NextRequest DEF Start
      <3> QED BY <3>1 DEF TypeOK, Start
    <2>2. ASSUME NEW t \in live, Takes(s, t) PROVE TypeOK'
      <3>1. row' \in [Tasks -> Row] /\ req' \in [Sessions -> Request]
        BY <2>2, <2>0, <2>00, NewRow, NextRequest DEF Takes, Reserve
      <3> QED BY <2>2, <3>1 DEF TypeOK, Takes, Reserve
    <2>3. ASSUME HeartbeatTask(s) PROVE TypeOK'
      <3>1. row' \in [Tasks -> Row] /\ req' \in [Sessions -> Request]
        BY <2>3, <2>0, <2>00, NewRow, NextRequest DEF HeartbeatTask
      <3> QED BY <2>3, <3>1 DEF TypeOK, HeartbeatTask
    <2>4. ASSUME ReleaseTask(s) PROVE TypeOK'
      <3>1. row' \in [Tasks -> Row] /\ req' \in [Sessions -> Request]
        BY <2>4, <2>0, <2>00, NewRow, NextRequest DEF ReleaseTask
      <3> QED BY <2>4, <2>00, <3>1 DEF TypeOK, ReleaseTask, Mark
    <2>5. ASSUME UpdateLoad(s) PROVE TypeOK'
      <3>1. req' \in [Sessions -> Request]
        BY <2>5, <2>0, <2>00, NextRequest DEF UpdateLoad
      <3> QED BY <2>5, <3>1 DEF TypeOK, UpdateLoad
    <2>6. ASSUME NEW to \in States, UpdateWrite(s, to) PROVE TypeOK'
      <3>1. CompletedAfter(req[s].was, to) \in BOOLEAN
        BY <2>00 DEF CompletedAfter, Request, Snapshot
      <3>2. row' \in [Tasks -> Row]
        <4>1. (IF Renews(s) THEN req[s].exp ELSE row[req[s].task].lease) \in Nat
          BY <2>00
        <4> QED BY <2>6, <3>1, <4>1, <2>00, NewRow DEF UpdateWrite
      <3>3. req' \in [Sessions -> Request]
        BY <2>6, <2>0, <2>00, NextRequest DEF UpdateWrite
      <3> QED BY <2>6, <2>00, <3>2, <3>3 DEF TypeOK, UpdateWrite, Mark
    <2>7. ASSUME UpdateRetry(s) PROVE TypeOK'
      <3>1. req' \in [Sessions -> Request]
        BY <2>7, <2>0, <2>00, NextRequest DEF UpdateRetry
      <3> QED BY <2>7, <3>1 DEF TypeOK, UpdateRetry
    <2>8. ASSUME Refuse(s) PROVE TypeOK'
      <3>1. req' \in [Sessions -> Request]
        BY <2>8, <2>00, NextRequest DEF Refuse
      <3> QED BY <2>8, <3>1 DEF TypeOK, Refuse
    <2>9. ASSUME Reread(s) PROVE TypeOK'
      <3>1. req' \in [Sessions -> Request]
        BY <2>9, <2>0, <2>00, NextRequest DEF Reread
      <3> QED BY <2>9, <3>1 DEF TypeOK, Reread
    <2>10. ASSUME Reply(s) \/ FailAfterCommit(s) PROVE TypeOK'
      <3>1. req' \in [Sessions -> Request]
        BY <2>10, <2>00, NextRequest DEF Reply, FailAfterCommit
      <3>2. told' \in [Agents -> [Tasks -> Nat]]
        BY <2>10, <2>00 DEF TypeOK, Reply, FailAfterCommit, Tell, Sessions
      <3> QED BY <2>10, <3>1, <3>2 DEF TypeOK, Reply, FailAfterCommit
    <2> QED BY <2>1, <2>2, <2>3, <2>4, <2>5, <2>6, <2>7, <2>8, <2>9, <2>10
  <1> QED
    BY <1>1, <1>2, <1>3, <1>4, <1>5, StepCases

LEMMA InitInv == Init => ClaimsInv
  <1> SUFFICES ASSUME Init PROVE ClaimsInv
    OBVIOUS
  <1> USE ConstantFacts DEF Init
  <1>1. TypeOK
    BY DEF TypeOK
  <1>2. MintedOnce /\ NowIsPast /\ ReadAsOwn /\ AnswerTrue /\ LeaseHonoured /\ ClaimIsolates
    BY ConstantsAssumption DEF MintedOnce, NowIsPast, ReadAsOwn, AnswerTrue, LeaseHonoured, ClaimIsolates
  <1>3. CompletionConsistent
    BY DEF CompletionConsistent, EmptyRow
  <1> QED BY <1>1, <1>2, <1>3 DEF ClaimsInv

-----------------------------------------------------------------------------
(* The invariant, conjunct by conjunct.                                    *)

LEMMA CommittedFacts ==
    ASSUME NEW t \in Tasks
    PROVE  /\ Committed(t).at = "reread" /\ Committed(t).task = t
           /\ Committed(t).now = 0 /\ Committed(t).exp = 0
  BY DEF Committed, NoRequest

(* Steps that leave the rows alone.                                        *)
LEMMA QuietFacts ==
    ASSUME TypeOK, NEW s \in Sessions,
           UpdateRetry(s) \/ Refuse(s) \/ Reread(s) \/ Reply(s) \/ FailAfterCommit(s)
    PROVE  /\ UNCHANGED <<clock, unborn, live, row, forced>>
           /\ \A x \in Sessions : x # s => req'[x] = req[x]
           /\ req'[s].at \in {"load", "idle", "reply"}
           /\ req'[s].now \in {req[s].now, 0}
           /\ req'[s].at = "reply" => req'[s].task = req[s].task /\ Reread(s)
  <1> USE ConstantFacts DEF TypeOK
  <1>1. CASE UpdateRetry(s)
    BY <1>1 DEF UpdateRetry, Request
  <1>2. CASE Refuse(s)
    BY <1>2 DEF Refuse
  <1>3. CASE Reread(s)
    BY <1>3 DEF Reread, Request
  <1>4. CASE Reply(s) \/ FailAfterCommit(s)
    BY <1>4 DEF Reply, FailAfterCommit
  <1> QED BY <1>1, <1>2, <1>3, <1>4

LEMMA LoadFacts ==
    ASSUME TypeOK, NEW s \in Sessions, UpdateLoad(s)
    PROVE  /\ UNCHANGED <<clock, unborn, live, row, told, forced>>
           /\ \A x \in Sessions : x # s => req'[x] = req[x]
           /\ req'[s].at = "write" /\ req'[s].was = ReadOf(row[req[s].task])
           /\ req'[s].now = req[s].now /\ req'[s].task = req[s].task /\ req'[s].force = req[s].force
           /\ req[s].task \in live
           /\ req[s].force \/ row[req[s].task].owner \in {Nobody, s}
  BY DEF TypeOK, UpdateLoad, Request

LEMMA MintedStep == ClaimsInv /\ [Next]_vars => MintedOnce'
  <1> SUFFICES ASSUME TypeOK, MintedOnce, [Next]_vars PROVE MintedOnce'
    BY DEF ClaimsInv
  <1> USE DEF MintedOnce
  <1>1. CASE UNCHANGED vars
    BY <1>1 DEF vars
  <1>2. CASE Tick
    BY <1>2 DEF Tick, TypeOK
  <1>3. ASSUME NEW t \in Tasks, DeleteTask(t) PROVE MintedOnce'
    BY <1>3 DEF DeleteTask
  <1>4. ASSUME NEW t \in Tasks, NEW b \in BOOLEAN, CreateTask(t, b) PROVE MintedOnce'
    BY <1>4 DEF CreateTask
  <1>5. ASSUME NEW s \in Sessions, Starts(s) PROVE MintedOnce'
    BY <1>5 DEF Starts, Start, TypeOK
  <1>6. ASSUME NEW s \in Sessions, NEW t \in live, Takes(s, t) PROVE MintedOnce'
    <2>1. t \in Tasks /\ t \notin unborn
      BY DEF TypeOK
    <2> QED BY <1>6, <2>1, CommittedFacts DEF Takes, Reserve, TypeOK
  <1>7. ASSUME NEW s \in Sessions, HeartbeatTask(s) \/ ReleaseTask(s) \/ \E to \in States : UpdateWrite(s, to)
        PROVE  MintedOnce'
    <2>1. req[s].task \in Tasks /\ req[s].task \notin unborn
      BY <1>7 DEF TypeOK, HeartbeatTask, ReleaseTask, UpdateWrite
    <2>2. req' = [req EXCEPT ![s] = Committed(req[s].task)] /\ UNCHANGED <<unborn, live, told>>
      BY <1>7 DEF HeartbeatTask, ReleaseTask, UpdateWrite
    <2> QED BY <2>1, <2>2, CommittedFacts DEF TypeOK
  <1>8. ASSUME NEW s \in Sessions, UpdateLoad(s) \/ UpdateRetry(s) \/ Refuse(s) \/ Reread(s)
        PROVE  MintedOnce'
    <2>1. UNCHANGED told
      BY <1>8 DEF UpdateLoad, UpdateRetry, Refuse, Reread
    <2>2. CASE UpdateLoad(s)
      BY <2>1, <2>2, LoadFacts
    <2>3. CASE ~UpdateLoad(s)
      BY <1>8, <2>1, <2>3, QuietFacts DEF Reread
    <2> QED BY <2>2, <2>3
  <1>9. ASSUME NEW s \in Sessions, Reply(s) \/ FailAfterCommit(s) PROVE MintedOnce'
    <2>1. req[s].task \notin unborn
      BY <1>9 DEF Reply, FailAfterCommit
    <2> QED BY <1>9, <2>1, ConstantFacts DEF Reply, FailAfterCommit, Tell, TypeOK
  <1> QED
    BY <1>1, <1>2, <1>3, <1>4, <1>5, <1>6, <1>7, <1>8, <1>9, StepCases

LEMMA NowStep == ClaimsInv /\ [Next]_vars => NowIsPast'
  <1> SUFFICES ASSUME TypeOK, NowIsPast, [Next]_vars PROVE NowIsPast'
    BY DEF ClaimsInv
  <1> USE ConstantFacts DEF NowIsPast
  <1>0. clock \in Nat /\ \A s \in Sessions : req[s].now \in Nat /\ req[s].task \in Tasks
    BY DEF TypeOK, Request
  <1>1. CASE UNCHANGED vars
    BY <1>1 DEF vars
  <1>2. CASE Tick
    BY <1>0, <1>2 DEF Tick
  <1>3. ASSUME NEW t \in Tasks, NEW b \in BOOLEAN, DeleteTask(t) \/ CreateTask(t, b) PROVE NowIsPast'
    BY <1>3 DEF DeleteTask, CreateTask
  <1>4. ASSUME NEW s \in Sessions, Starts(s) PROVE NowIsPast'
    BY <1>4 DEF Starts, Start, TypeOK
  <1>5. ASSUME NEW s \in Sessions, NEW t \in live, Takes(s, t) PROVE NowIsPast'
    BY <1>0, <1>5, CommittedFacts DEF Takes, Reserve, TypeOK
  <1>6. ASSUME NEW s \in Sessions, HeartbeatTask(s) \/ ReleaseTask(s) \/ \E to \in States : UpdateWrite(s, to)
        PROVE  NowIsPast'
    <2>1. req' = [req EXCEPT ![s] = Committed(req[s].task)] /\ UNCHANGED clock
      BY <1>6 DEF HeartbeatTask, ReleaseTask, UpdateWrite
    <2> QED BY <1>0, <2>1, CommittedFacts DEF TypeOK
  <1>7. ASSUME NEW s \in Sessions, UpdateLoad(s) \/ UpdateRetry(s) \/ Refuse(s) \/ Reread(s)
                                      \/ Reply(s) \/ FailAfterCommit(s)
        PROVE  NowIsPast'
    <2>1. UNCHANGED clock /\ \A x \in Sessions : req'[x].now \in {req[x].now, 0}
      BY <1>7, LoadFacts, QuietFacts
    <2> QED BY <1>0, <2>1
  <1> QED
    BY <1>1, <1>2, <1>3, <1>4, <1>5, <1>6, <1>7, StepCases

LEMMA ReadStep == ClaimsInv /\ [Next]_vars => ReadAsOwn' /\ CompletionConsistent'
  <1> SUFFICES ASSUME TypeOK, ReadAsOwn, CompletionConsistent, [Next]_vars
               PROVE  ReadAsOwn' /\ CompletionConsistent'
    BY DEF ClaimsInv
  <1> USE ConstantFacts DEF ReadAsOwn, CompletionConsistent
  <1>0. \A s \in Sessions : req[s].task \in Tasks
    BY DEF TypeOK, Request
  <1>1. CASE UNCHANGED vars
    BY <1>1 DEF vars
  <1>2. CASE Tick
    BY <1>2 DEF Tick
  <1>3. ASSUME NEW t \in Tasks, DeleteTask(t) PROVE ReadAsOwn' /\ CompletionConsistent'
    BY <1>3 DEF DeleteTask, TypeOK, EmptyRow
  <1>4. ASSUME NEW t \in Tasks, NEW b \in BOOLEAN, CreateTask(t, b)
        PROVE  ReadAsOwn' /\ CompletionConsistent'
    BY <1>4, ConstantsAssumption DEF CreateTask, TypeOK, EmptyRow
  <1>5. ASSUME NEW s \in Sessions, Starts(s) PROVE ReadAsOwn' /\ CompletionConsistent'
    BY <1>5 DEF Starts, Start, TypeOK
  <1>6. ASSUME NEW s \in Sessions, NEW t \in live, Takes(s, t)
        PROVE  ReadAsOwn' /\ CompletionConsistent'
    BY <1>6, CommittedFacts DEF Takes, Reserve, TypeOK, Row
  <1>7. ASSUME NEW s \in Sessions, HeartbeatTask(s) \/ ReleaseTask(s)
        PROVE  ReadAsOwn' /\ CompletionConsistent'
    <2>1. req' = [req EXCEPT ![s] = Committed(req[s].task)]
      BY <1>7 DEF HeartbeatTask, ReleaseTask
    <2>2. \A t \in Tasks : row'[t].state = row[t].state /\ row'[t].completed = row[t].completed
      <3>1. CASE HeartbeatTask(s)
        BY <1>0, <3>1 DEF HeartbeatTask, TypeOK, Row
      <3>2. CASE ReleaseTask(s)
        BY <1>0, <3>2 DEF ReleaseTask, TypeOK, Row
      <3> QED BY <1>7, <3>1, <3>2
    <2> QED BY <1>0, <2>1, <2>2, CommittedFacts DEF TypeOK
  <1>8. ASSUME NEW s \in Sessions, NEW to \in States, UpdateWrite(s, to)
        PROVE  ReadAsOwn' /\ CompletionConsistent'
    <2>1. /\ req[s].was.state = "done" <=> req[s].was.completed
          /\ req[s].was.completed \in BOOLEAN
      BY <1>8 DEF UpdateWrite, TypeOK, Request, Snapshot
    <2>2. CompletedAfter(req[s].was, to) = (to = "done")
      BY <2>1 DEF CompletedAfter
    <2> QED BY <1>0, <1>8, <2>2, CommittedFacts DEF UpdateWrite, TypeOK, Row
  <1>9. ASSUME NEW s \in Sessions, UpdateLoad(s) PROVE ReadAsOwn' /\ CompletionConsistent'
    BY <1>0, <1>9 DEF UpdateLoad, ReadOf, TypeOK, Request, Row
  <1>10. ASSUME NEW s \in Sessions, UpdateRetry(s) \/ Refuse(s) \/ Reread(s) \/ Reply(s) \/ FailAfterCommit(s)
         PROVE  ReadAsOwn' /\ CompletionConsistent'
    BY <1>10, QuietFacts
  <1> QED
    BY <1>1, <1>2, <1>3, <1>4, <1>5, <1>6, <1>7, <1>8, <1>9, <1>10, StepCases

-----------------------------------------------------------------------------
(* Who can change what.                                                    *)

OwnStep(s) ==
    \/ Starts(s)
    \/ \E t \in live : Takes(s, t)
    \/ s \in Agents /\ HeartbeatTask(s)
    \/ ReleaseTask(s)
    \/ UpdateLoad(s)
    \/ \E to \in States : UpdateWrite(s, to)
    \/ UpdateRetry(s) \/ Refuse(s) \/ Reread(s) \/ Reply(s) \/ FailAfterCommit(s)

(* A session's request is changed by its own steps alone, and what it was  *)
(* told also by the clock.                                                 *)
LEMMA OthersKeepRequest ==
    ASSUME TypeOK, Next, NEW s \in Sessions, ~OwnStep(s)
    PROVE  /\ req'[s] = req[s]
           /\ s \in Agents => \A t \in Tasks : told'[s][t] \in {told[s][t], 0}
  <1> DEFINE Goal == /\ req'[s] = req[s]
                     /\ s \in Agents => \A t \in Tasks : told'[s][t] \in {told[s][t], 0}
  <1>1. CASE Tick
    BY <1>1 DEF Tick, TypeOK
  <1>2. ASSUME NEW t \in Tasks, NEW b \in BOOLEAN, DeleteTask(t) \/ CreateTask(t, b) PROVE Goal
    BY <1>2 DEF DeleteTask, CreateTask
  <1>3. ASSUME NEW x \in Sessions, OwnStep(x) PROVE Goal
    <2>0. x # s
      BY <1>3
    <2>1. CASE Starts(x)
      BY <2>0, <2>1 DEF Starts, Start, TypeOK
    <2>2. CASE \E t \in live : Takes(x, t)
      BY <2>0, <2>2 DEF Takes, Reserve, TypeOK
    <2>3. CASE HeartbeatTask(x)
      BY <2>0, <2>3 DEF HeartbeatTask, TypeOK
    <2>4. CASE ReleaseTask(x)
      BY <2>0, <2>4 DEF ReleaseTask, TypeOK
    <2>5. CASE UpdateLoad(x)
      BY <2>0, <2>5, LoadFacts
    <2>6. CASE \E to \in States : UpdateWrite(x, to)
      BY <2>0, <2>6 DEF UpdateWrite, TypeOK
    <2>7. CASE UpdateRetry(x) \/ Refuse(x) \/ Reread(x)
      <3>1. UNCHANGED told
        BY <2>7 DEF UpdateRetry, Refuse, Reread
      <3> QED BY <2>0, <2>7, <3>1, QuietFacts
    <2>8. CASE Reply(x) \/ FailAfterCommit(x)
      <3>1. s \in Agents => \A t \in Tasks : told'[s][t] = told[s][t]
        BY <2>0, <2>8 DEF Reply, FailAfterCommit, Tell, TypeOK
      <3> QED BY <2>0, <2>8, <3>1, QuietFacts
    <2> QED BY <1>3, <2>1, <2>2, <2>3, <2>4, <2>5, <2>6, <2>7, <2>8 DEF OwnStep
  <1> QED BY <1>1, <1>2, <1>3, StepCases DEF OwnStep

(* Which own step leads to an answer, to a write, and out of an answer.    *)
LEMMA OwnStepResult ==
    ASSUME TypeOK, NEW s \in Sessions, OwnStep(s)
    PROVE  /\ req'[s].at = "reply" => Reread(s)
           /\ req'[s].at = "write" => UpdateLoad(s)
           /\ req[s].at \in {"reread", "reply"} => Reread(s) \/ Reply(s) \/ FailAfterCommit(s)
  <1>0. req[s].task \in Tasks /\ live \subseteq Tasks
    BY DEF TypeOK, Request
  <1>1. CASE Starts(s)
    BY <1>1 DEF Starts, Start, TypeOK
  <1>2. CASE \E t \in live : Takes(s, t)
    BY <1>0, <1>2, CommittedFacts DEF Takes, Reserve, TypeOK
  <1>3. CASE HeartbeatTask(s)
    BY <1>0, <1>3, CommittedFacts DEF HeartbeatTask, TypeOK
  <1>4. CASE ReleaseTask(s)
    BY <1>0, <1>4, CommittedFacts DEF ReleaseTask, TypeOK
  <1>5. CASE UpdateLoad(s)
    BY <1>5, LoadFacts DEF UpdateLoad
  <1>6. CASE \E to \in States : UpdateWrite(s, to)
    BY <1>0, <1>6, CommittedFacts DEF UpdateWrite, TypeOK
  <1>7. CASE UpdateRetry(s)
    BY <1>7 DEF UpdateRetry, TypeOK, Request
  <1>8. CASE Refuse(s)
    <2>1. req'[s].at = "idle"
      BY <1>8, ConstantFacts DEF Refuse, TypeOK
    <2>2. req[s].at \notin {"reread", "reply"}
      BY <1>8 DEF Refuse, CannotTake
    <2> QED BY <2>1, <2>2
  <1>9. CASE Reread(s) \/ Reply(s) \/ FailAfterCommit(s)
    BY <1>9, QuietFacts DEF Reread, Reply, FailAfterCommit
  <1> QED BY <1>1, <1>2, <1>3, <1>4, <1>5, <1>6, <1>7, <1>8, <1>9 DEF OwnStep

(* While agent a owns a task and nobody forces it, a step leaves the row   *)
(* alone, or is a change a commits itself, or is a claim of another agent  *)
(* after the lease ran out.                                                *)
LEMMA OwnerProtected ==
    ASSUME TypeOK, MintedOnce, NowIsPast, ReadAsOwn, Next, NEW a \in Agents, NEW t \in live,
           t \in live', t \notin forced', row[t].owner = a
    PROVE  \/ row'[t] = row[t]
           \/ req'[a].at = "reread" /\ req'[a].task = t
           \/ row[t].lease <= clock /\ row'[t].owner \in Agents \ {a}
  <1> DEFINE Goal == \/ row'[t] = row[t]
                     \/ req'[a].at = "reread" /\ req'[a].task = t
                     \/ row[t].lease <= clock /\ row'[t].owner \in Agents \ {a}
  <1>0. /\ t \in Tasks /\ a \in Sessions /\ a # Nobody /\ row[t] \in Row /\ row[t].lease \in Nat
        /\ clock \in Nat
        /\ \A s \in Sessions : req[s].task \in Tasks /\ req[s].now \in Nat /\ req[s].now <= clock
    BY ConstantFacts, ConstantsAssumption DEF TypeOK, Request, Row, NowIsPast
  <1>1. CASE Tick
    BY <1>1 DEF Tick
  <1>2. ASSUME NEW u \in Tasks, DeleteTask(u) PROVE Goal
    <2>1. u # t
      BY <1>2 DEF DeleteTask
    <2> QED BY <1>0, <1>2, <2>1 DEF DeleteTask, TypeOK
  <1>3. ASSUME NEW u \in Tasks, NEW b \in BOOLEAN, CreateTask(u, b) PROVE Goal
    <2>1. u # t
      BY <1>3 DEF CreateTask, MintedOnce
    <2> QED BY <1>0, <1>3, <2>1 DEF CreateTask, TypeOK
  <1>4. ASSUME NEW s \in Sessions, NEW u \in live, Takes(s, u) PROVE Goal
    <2>1. CASE u # t
      BY <1>0, <1>4, <2>1 DEF Takes, Reserve, TypeOK
    <2>2. CASE u = t /\ s = a
      BY <1>0, <1>4, <2>2, CommittedFacts DEF Takes, Reserve, TypeOK
    <2>3. CASE u = t /\ s # a
      <3>1. row[t].lease <= req[s].now
        BY <1>0, <1>4, <2>3 DEF Takes, Claimable
      <3>2. row'[t].owner = s /\ s \in Agents
        BY <1>0, <1>4, <2>3 DEF Takes, Reserve, TypeOK, Row
      <3> QED BY <1>0, <2>3, <3>1, <3>2
    <2> QED BY <2>1, <2>2, <2>3
  <1>5. ASSUME NEW s \in Sessions,
               HeartbeatTask(s) \/ ReleaseTask(s) \/ \E to \in States : UpdateWrite(s, to)
        PROVE  Goal
    <2>1. /\ req' = [req EXCEPT ![s] = Committed(req[s].task)]
          /\ \A u \in Tasks : u # req[s].task => row'[u] = row[u]
      BY <1>5 DEF HeartbeatTask, ReleaseTask, UpdateWrite, TypeOK
    <2>2. CASE req[s].task # t
      BY <1>0, <2>1, <2>2
    <2>3. CASE req[s].task = t
      <3>1. CASE HeartbeatTask(s)
        BY <1>0, <2>1, <2>3, <3>1, CommittedFacts DEF HeartbeatTask, TypeOK
      <3>2. CASE ReleaseTask(s)
        <4>1. ~req[s].force
          BY <2>3, <3>2 DEF ReleaseTask, Mark
        <4>2. s = a
          BY <2>3, <3>2, <4>1 DEF ReleaseTask, MayRelease
        <4> QED BY <1>0, <2>1, <2>3, <4>2, CommittedFacts DEF TypeOK
      <3>3. CASE \E to \in States : UpdateWrite(s, to)
        <4>1. ~req[s].force /\ req[s].at = "write"
          BY <2>3, <3>3 DEF UpdateWrite, Mark
        <4>2. req[s].was.owner = a
          BY <2>3, <3>3, <4>1 DEF UpdateWrite, WriteGuard
        <4>3. s = a
          BY <1>0, <4>1, <4>2 DEF ReadAsOwn
        <4> QED BY <1>0, <2>1, <2>3, <4>3, CommittedFacts DEF TypeOK
      <3> QED BY <1>5, <3>1, <3>2, <3>3
    <2> QED BY <2>2, <2>3
  <1>6. ASSUME NEW s \in Sessions,
               \/ Starts(s) \/ UpdateLoad(s)
               \/ UpdateRetry(s) \/ Refuse(s) \/ Reread(s) \/ Reply(s) \/ FailAfterCommit(s)
        PROVE  Goal
    <2>1. UNCHANGED row
      BY <1>6, LoadFacts, QuietFacts DEF Starts, Start
    <2> QED BY <2>1
  <1> QED
    BY <1>1, <1>2, <1>3, <1>4, <1>5, <1>6, StepCases

(* Only a claim makes an agent the owner of a task.                        *)
LEMMA OwnerGained ==
    ASSUME TypeOK, Next, NEW a \in Agents, NEW t \in Tasks,
           row[t].owner # a, row'[t].owner = a
    PROVE  req'[a].at = "reread"
  <1> DEFINE Goal == req'[a].at = "reread"
  <1>0. /\ a \in Sessions /\ a # Nobody /\ row[t] \in Row
        /\ \A s \in Sessions : req[s].task \in Tasks
    BY ConstantFacts, ConstantsAssumption DEF TypeOK, Request
  <1>1. CASE Tick
    BY <1>1 DEF Tick
  <1>2. ASSUME NEW u \in Tasks, DeleteTask(u) PROVE Goal
    BY <1>0, <1>2 DEF DeleteTask, TypeOK, EmptyRow
  <1>3. ASSUME NEW u \in Tasks, NEW b \in BOOLEAN, CreateTask(u, b) PROVE Goal
    BY <1>0, <1>3 DEF CreateTask, TypeOK, EmptyRow
  <1>4. ASSUME NEW s \in Sessions, NEW u \in live, Takes(s, u) PROVE Goal
    <2>1. u \in Tasks
      BY DEF TypeOK
    <2>2. s = a
      BY <1>0, <1>4, <2>1 DEF Takes, Reserve, TypeOK, Row
    <2> QED BY <1>0, <1>4, <2>1, <2>2, CommittedFacts DEF Takes, Reserve, TypeOK
  <1>5. ASSUME NEW s \in Sessions, HeartbeatTask(s) PROVE Goal
    BY <1>0, <1>5 DEF HeartbeatTask, TypeOK, Row
  <1>6. ASSUME NEW s \in Sessions, ReleaseTask(s) PROVE Goal
    BY <1>0, <1>6 DEF ReleaseTask, TypeOK, Row
  <1>7. ASSUME NEW s \in Sessions, NEW to \in States, UpdateWrite(s, to) PROVE Goal
    BY <1>0, <1>7 DEF UpdateWrite, TypeOK, Row
  <1>8. ASSUME NEW s \in Sessions,
               \/ Starts(s) \/ UpdateLoad(s)
               \/ UpdateRetry(s) \/ Refuse(s) \/ Reread(s) \/ Reply(s) \/ FailAfterCommit(s)
        PROVE  Goal
    <2>1. UNCHANGED row
      BY <1>8, LoadFacts, QuietFacts DEF Starts, Start
    <2> QED BY <2>1
  <1> QED
    BY <1>1, <1>2, <1>3, <1>4, <1>5, <1>6, <1>7, <1>8, StepCases

(* An owner whose lease is live loses the task by a release alone, and the *)
(* release is its own or a forced one.                                     *)
LEMMA OwnerChange ==
    ASSUME TypeOK, MintedOnce, NowIsPast, Next, NEW t \in live, t \in live',
           row[t].owner # row'[t].owner, row[t].owner # Nobody, row[t].lease > clock
    PROVE  row'[t].owner = Nobody /\ (t \in forced' \/ req[row[t].owner].at = "release")
  <1> DEFINE Goal == row'[t].owner = Nobody /\ (t \in forced' \/ req[row[t].owner].at = "release")
  <1>0. /\ t \in Tasks /\ row[t] \in Row /\ row[t].lease \in Nat /\ clock \in Nat
        /\ \A s \in Sessions : req[s].task \in Tasks /\ req[s].now \in Nat /\ req[s].now <= clock
    BY DEF TypeOK, Request, Row, NowIsPast
  <1>1. ~Tick
    BY DEF Tick
  <1>2. ASSUME NEW u \in Tasks, DeleteTask(u) PROVE FALSE
    <2>1. u # t
      BY <1>2 DEF DeleteTask
    <2> QED BY <1>0, <1>2, <2>1 DEF DeleteTask, TypeOK
  <1>3. ASSUME NEW u \in Tasks, NEW b \in BOOLEAN, CreateTask(u, b) PROVE FALSE
    <2>1. u # t
      BY <1>3 DEF CreateTask, MintedOnce
    <2> QED BY <1>0, <1>3, <2>1 DEF CreateTask, TypeOK
  <1>4. ASSUME NEW s \in Sessions, NEW u \in live, Takes(s, u) PROVE FALSE
    <2>1. CASE u # t
      BY <1>0, <1>4, <2>1 DEF Takes, Reserve, TypeOK
    <2>2. CASE u = t
      <3>1. row'[t].owner = s
        BY <1>0, <1>4, <2>2 DEF Takes, Reserve, TypeOK, Row
      <3>2. row[t].lease <= req[s].now
        BY <1>4, <2>2, <3>1 DEF Takes, Claimable
      <3> QED BY <1>0, <3>2
    <2> QED BY <2>1, <2>2
  <1>5. ASSUME NEW s \in Sessions, ReleaseTask(s) PROVE Goal
    <2>1. req[s].task = t
      BY <1>0, <1>5 DEF ReleaseTask, TypeOK
    <2>2. row'[t].owner = Nobody
      BY <1>0, <1>5, <2>1 DEF ReleaseTask, TypeOK, Row
    <2>3. t \in forced' \/ row[t].owner = s
      BY <1>5, <2>1 DEF ReleaseTask, MayRelease, Mark
    <2> QED BY <1>5, <2>2, <2>3 DEF ReleaseTask
  <1>6. ASSUME NEW s \in Sessions, HeartbeatTask(s) PROVE FALSE
    BY <1>0, <1>6 DEF HeartbeatTask, TypeOK, Row
  <1>7. ASSUME NEW s \in Sessions, NEW to \in States, UpdateWrite(s, to) PROVE FALSE
    BY <1>0, <1>7 DEF UpdateWrite, TypeOK, Row
  <1>8. ASSUME NEW s \in Sessions,
               \/ Starts(s) \/ UpdateLoad(s)
               \/ UpdateRetry(s) \/ Refuse(s) \/ Reread(s) \/ Reply(s) \/ FailAfterCommit(s)
        PROVE  FALSE
    <2>1. UNCHANGED row
      BY <1>8, LoadFacts, QuietFacts DEF Starts, Start
    <2> QED BY <2>1
  <1> QED
    BY <1>1, <1>2, <1>3, <1>4, <1>5, <1>6, <1>7, <1>8, StepCases

(* The clock and the history never go back.                                *)
LEMMA Monotone ==
    ASSUME TypeOK, Next
    PROVE  clock <= clock' /\ forced \subseteq forced' /\ live' \subseteq live \cup unborn
  <1>1. CASE Tick
    BY <1>1 DEF Tick, TypeOK
  <1>2. CASE ~Tick
    <2>1. clock' = clock
      BY <1>2, StepCases, LoadFacts, QuietFacts
      DEF DeleteTask, CreateTask, Starts, Start, Takes, Reserve, HeartbeatTask, ReleaseTask, UpdateWrite
    <2>2. forced \subseteq forced'
      BY <1>2, StepCases, LoadFacts, QuietFacts
      DEF DeleteTask, CreateTask, Starts, Start, Takes, Reserve, HeartbeatTask, ReleaseTask, UpdateWrite, Mark
    <2>3. live' \subseteq live \cup unborn
      BY <1>2, StepCases, LoadFacts, QuietFacts
      DEF DeleteTask, CreateTask, Starts, Start, Takes, Reserve, HeartbeatTask, ReleaseTask, UpdateWrite
    <2> QED BY <2>1, <2>2, <2>3 DEF TypeOK
  <1> QED BY <1>1, <1>2

-----------------------------------------------------------------------------
(* The three properties of claims.                                         *)

LEMMA AnswerStep == ClaimsInv /\ [Next]_vars => AnswerTrue'
  <1> SUFFICES ASSUME ClaimsInv, [Next]_vars PROVE AnswerTrue'
    OBVIOUS
  <1>0. TypeOK /\ MintedOnce /\ NowIsPast /\ ReadAsOwn /\ AnswerTrue
    BY DEF ClaimsInv
  <1>1. CASE UNCHANGED vars
    BY <1>0, <1>1 DEF vars, AnswerTrue
  <1>2. CASE Next
    <2> SUFFICES ASSUME NEW a \in Agents,
                        req'[a].at = "reply", req'[a].exp > clock',
                        req'[a].task \in live' \ forced'
                 PROVE  /\ row'[req'[a].task].owner = a
                        /\ row'[req'[a].task].lease >= req'[a].exp
      BY DEF AnswerTrue
    <2>0. a \in Sessions /\ a # Nobody
      BY ConstantFacts, ConstantsAssumption
    <2>1. CASE OwnStep(a)
      <3>1. Reread(a)
        BY <1>0, <2>0, <2>1, OwnStepResult
      <3>2. req'[a].task = req[a].task /\ req[a].task \in Tasks /\ UNCHANGED <<row, clock>>
        BY <1>0, <2>0, <3>1, QuietFacts DEF TypeOK, Request
      <3>3. req'[a].exp = IF Owns(a, req[a].task) THEN row[req[a].task].lease ELSE 0
        BY <1>0, <2>0, <3>1 DEF Reread, TypeOK, Request
      <3>4. Owns(a, req[a].task)
        BY <1>0, <3>2, <3>3 DEF TypeOK
      <3>5. row[req[a].task].lease \in Nat
        BY <1>0, <3>2 DEF TypeOK, Row
      <3> QED BY <3>2, <3>3, <3>4, <3>5 DEF Owns
    <2>2. CASE ~OwnStep(a)
      <3> DEFINE t == req[a].task
      <3>1. req'[a] = req[a]
        BY <1>0, <1>2, <2>0, <2>2, OthersKeepRequest
      <3>2. clock \in Nat /\ clock' >= clock /\ clock' \in Nat /\ req[a].exp \in Nat /\ t \in Tasks
        BY <1>0, <1>2, <2>0, Monotone, TypeStep DEF TypeOK, Request
      <3>3. t \in live /\ t \notin forced
        BY <1>0, <1>2, <2>0, <3>1, Monotone DEF MintedOnce
      <3>4. row[t].owner = a /\ row[t].lease >= req[a].exp /\ row[t].lease > clock
        <4>1. row[t].owner = a /\ row[t].lease >= req[a].exp
          BY <1>0, <3>1, <3>2, <3>3 DEF AnswerTrue
        <4>2. row[t].lease \in Nat
          BY <1>0, <3>2 DEF TypeOK, Row
        <4> QED BY <3>1, <3>2, <4>1, <4>2
      <3>5. row'[t] = row[t]
        <4>1. row[t].lease \in Nat
          BY <1>0, <3>2 DEF TypeOK, Row
        <4> QED BY <1>0, <1>2, <3>1, <3>2, <3>3, <3>4, <4>1, OwnerProtected
      <3> QED BY <3>1, <3>4, <3>5
    <2> QED BY <2>1, <2>2
  <1> QED BY <1>1, <1>2

LEMMA LeaseStep == ClaimsInv /\ [Next]_vars => LeaseHonoured'
  <1> SUFFICES ASSUME ClaimsInv, [Next]_vars PROVE LeaseHonoured'
    OBVIOUS
  <1>0. TypeOK /\ MintedOnce /\ NowIsPast /\ ReadAsOwn /\ AnswerTrue /\ LeaseHonoured
    BY DEF ClaimsInv
  <1>1. CASE UNCHANGED vars
    BY <1>0, <1>1 DEF vars, LeaseHonoured, Unanswered
  <1>2. CASE Next
    <2> SUFFICES ASSUME NEW a \in Agents, NEW t \in Tasks,
                        told'[a][t] > clock', t \in live' \ forced', ~Unanswered(a, t)'
                 PROVE  row'[t].owner = a /\ row'[t].lease >= told'[a][t]
      BY DEF LeaseHonoured
    <2>0. /\ a \in Sessions /\ a # Nobody
          /\ clock \in Nat /\ clock' \in Nat /\ clock' >= clock
          /\ told[a][t] \in Nat /\ told'[a][t] \in Nat /\ row[t].lease \in Nat
          /\ req[a].exp \in Nat /\ req[a].task \in Tasks
          /\ t \notin forced
      <3>1. a \in Sessions /\ a # Nobody
        BY ConstantFacts, ConstantsAssumption
      <3>2. clock \in Nat /\ told[a][t] \in Nat /\ row[t].lease \in Nat
        BY <1>0 DEF TypeOK, Row
      <3>3. req[a].exp \in Nat /\ req[a].task \in Tasks
        BY <1>0, <3>1 DEF TypeOK, Request
      <3>4. clock' \in Nat /\ told'[a][t] \in Nat
        BY <1>0, <1>2, TypeStep DEF TypeOK
      <3>5. clock' >= clock /\ t \notin forced
        BY <1>0, <1>2, <3>2, <3>4, Monotone
      <3> QED BY <3>1, <3>2, <3>3, <3>4, <3>5
    <2>1. CASE ~OwnStep(a)
      <3>1. req'[a] = req[a] /\ told'[a][t] = told[a][t]
        BY <1>0, <1>2, <2>0, <2>1, OthersKeepRequest
      <3>2. t \in live
        BY <1>0, <1>2, <2>0, <3>1, Monotone DEF MintedOnce
      <3>3. row[t].owner = a /\ row[t].lease >= told[a][t]
        BY <1>0, <2>0, <3>1, <3>2 DEF LeaseHonoured, Unanswered
      <3>4. ~(req'[a].at = "reread" /\ req'[a].task = t)
        BY DEF Unanswered
      <3>5. row'[t] = row[t]
        BY <1>0, <1>2, <2>0, <3>1, <3>2, <3>3, <3>4, OwnerProtected
      <3> QED BY <3>1, <3>3, <3>5
    <2>2. CASE OwnStep(a) /\ Unanswered(a, t)
      <3>1. Reread(a) \/ Reply(a) \/ FailAfterCommit(a)
        BY <1>0, <2>0, <2>2, OwnStepResult DEF Unanswered
      <3>2. ~Reread(a)
        <4>1. Reread(a) => req'[a].at = "reply" /\ req'[a].task = req[a].task
          BY <1>0, <2>0 DEF Reread, TypeOK, Request
        <4> QED BY <2>2, <4>1 DEF Unanswered
      <3>3. ~FailAfterCommit(a)
        BY <1>0, <2>0, <2>2 DEF FailAfterCommit, Tell, Unanswered, TypeOK
      <3>4. req[a].at = "reply" /\ told'[a][t] = req[a].exp
        BY <1>0, <2>0, <2>2, <3>1, <3>2, <3>3 DEF Reply, Tell, Unanswered, TypeOK
      <3>5. UNCHANGED <<clock, live, row, forced>>
        BY <1>0, <2>0, <3>1, QuietFacts
      <3> QED BY <1>0, <2>0, <2>2, <3>4, <3>5 DEF AnswerTrue, Unanswered
    <2>3. CASE OwnStep(a) /\ ~Unanswered(a, t)
      <3>1. told'[a][t] = told[a][t]
        <4>1. CASE Reply(a) \/ FailAfterCommit(a)
          <5>1. req[a].task # t
            BY <2>3, <4>1 DEF Reply, FailAfterCommit, Unanswered
          <5> QED BY <1>0, <2>0, <4>1, <5>1 DEF Reply, FailAfterCommit, Tell, TypeOK
        <4>2. CASE ~(Reply(a) \/ FailAfterCommit(a))
          <5>1. Starts(a) \/ UpdateLoad(a) \/ UpdateRetry(a) \/ Refuse(a) \/ Reread(a)
                => UNCHANGED told
            BY DEF Starts, Start, UpdateLoad, UpdateRetry, Refuse, Reread
          <5>2. (\E u \in live : Takes(a, u)) \/ HeartbeatTask(a) \/ ReleaseTask(a)
                \/ (\E to \in States : UpdateWrite(a, to))
                => UNCHANGED told
            BY DEF Takes, Reserve, HeartbeatTask, ReleaseTask, UpdateWrite
          <5> QED BY <2>3, <4>2, <5>1, <5>2 DEF OwnStep
        <4> QED BY <4>1, <4>2
      <3>2. t \in live
        BY <1>0, <1>2, <2>0, <3>1, Monotone DEF MintedOnce
      <3>3. row[t].owner = a /\ row[t].lease >= told[a][t]
        BY <1>0, <2>0, <2>3, <3>1, <3>2 DEF LeaseHonoured
      <3>4. ~(req'[a].at = "reread" /\ req'[a].task = t)
        BY DEF Unanswered
      <3>5. row'[t] = row[t]
        BY <1>0, <1>2, <2>0, <3>1, <3>2, <3>3, <3>4, OwnerProtected
      <3> QED BY <3>1, <3>3, <3>5
    <2> QED BY <2>1, <2>2, <2>3
  <1> QED BY <1>1, <1>2

LEMMA IsolationStep == ClaimsInv /\ [Next]_vars => ClaimIsolates'
  <1> SUFFICES ASSUME ClaimsInv, [Next]_vars PROVE ClaimIsolates'
    OBVIOUS
  <1>0. TypeOK /\ MintedOnce /\ NowIsPast /\ ReadAsOwn /\ ClaimIsolates
    BY DEF ClaimsInv
  <1>1. CASE UNCHANGED vars
    BY <1>0, <1>1 DEF vars, ClaimIsolates, ReadOf
  <1>2. CASE Next
    <2> SUFFICES ASSUME NEW a \in Agents,
                        req'[a].at = "write", req'[a].was.owner = a,
                        row'[req'[a].task].owner = a, req'[a].task \in live' \ forced'
                 PROVE  ReadOf(row'[req'[a].task]) = req'[a].was
      BY DEF ClaimIsolates, ReadOf
    <2>0. a \in Sessions /\ a # Nobody /\ req[a].task \in Tasks
      BY <1>0, ConstantFacts, ConstantsAssumption DEF TypeOK, Request
    <2>1. CASE OwnStep(a)
      <3>1. UpdateLoad(a)
        BY <1>0, <2>0, <2>1, OwnStepResult
      <3> QED BY <1>0, <2>0, <3>1, LoadFacts
    <2>2. CASE ~OwnStep(a)
      <3> DEFINE t == req[a].task
      <3>1. req'[a] = req[a]
        BY <1>0, <1>2, <2>0, <2>2, OthersKeepRequest
      <3>2. t \in live /\ t \notin forced
        BY <1>0, <1>2, <2>0, <3>1, Monotone DEF MintedOnce
      <3>3. row[t].owner = a
        BY <1>0, <1>2, <2>0, <3>1, OwnerGained
      <3>4. ReadOf(row[t]) = req[a].was
        BY <1>0, <3>1, <3>2, <3>3 DEF ClaimIsolates
      <3>5. row'[t] = row[t]
        BY <1>0, <1>2, <2>0, <3>1, <3>2, <3>3, OwnerProtected
      <3> QED BY <3>1, <3>4, <3>5
    <2> QED BY <2>1, <2>2
  <1> QED BY <1>1, <1>2

LEMMA InductiveInv == ClaimsInv /\ [Next]_vars => ClaimsInv'
  BY TypeStep, MintedStep, NowStep, ReadStep, AnswerStep, LeaseStep, IsolationStep DEF ClaimsInv

-----------------------------------------------------------------------------
(* The results.                                                            *)

(* Every variable keeps its type; the theorems below rest on it.           *)
THEOREM TypeCorrect == Spec => []TypeOK
  <1>1. Init => TypeOK
    BY InitInv DEF ClaimsInv
  <1> QED BY <1>1, TypeStep, PTL DEF Spec

THEOREM Invariance == Spec => []ClaimsInv
  BY InitInv, InductiveInv, PTL DEF Spec

(* No interleaving of stale updates leaves a done task without its         *)
(* completion instant, or a task that is not done with one.                *)
THEOREM CompletionCorrect == Spec => []DoneIffCompleted
  <1>1. ClaimsInv => DoneIffCompleted
    BY DEF ClaimsInv, CompletionConsistent, DoneIffCompleted, TypeOK
  <1> QED BY <1>1, Invariance, PTL

(* The lease an agent was last told is honoured until it runs out.         *)
THEOREM LeasesHonoured == Spec => []LeaseHonoured
  <1>1. ClaimsInv => LeaseHonoured
    BY DEF ClaimsInv
  <1> QED BY <1>1, Invariance, PTL

(* Under a lasting claim an update overwrites only what it has read.       *)
THEOREM ClaimsIsolate == Spec => []ClaimIsolates
  <1>1. ClaimsInv => ClaimIsolates
    BY DEF ClaimsInv
  <1> QED BY <1>1, Invariance, PTL

(* No other agent takes over while a lease is live.                        *)
THEOREM NoEarlyTakeover == Spec => TakeoverOnlyAfterExpiry
  <1> DEFINE A == \A t \in live \cap live' :
          row[t].owner # row'[t].owner /\ row[t].owner # Nobody /\ row[t].lease > clock
          => /\ row'[t].owner = Nobody
             /\ t \in forced' \/ req[row[t].owner].at = "release"
  <1>1. ClaimsInv /\ [Next]_vars => [A]_vars
    BY OwnerChange DEF ClaimsInv
  <1>2. TakeoverOnlyAfterExpiry <=> [][A]_vars
    BY DEF TakeoverOnlyAfterExpiry
  <1> QED BY <1>1, <1>2, Invariance, PTL DEF Spec
=============================================================================
