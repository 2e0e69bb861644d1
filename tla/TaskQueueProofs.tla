-------------------------- MODULE TaskQueueProofs --------------------------
(* Proofs about TaskQueue for any tasks, agents, labels and priorities, and  *)
(* for any number of interventions.                                        *)
EXTENDS TaskQueue, FiniteSetTheorems, TLAPS

-----------------------------------------------------------------------------
(* The inductive invariants.                                               *)

(* A task that came to its owner and was never set aside can be taken up by  *)
(* it again: it is among those the next claim prefers.                     *)
WithinReach ==
    \A a \in Agents, t \in Live :
        row[t].owner = a /\ t \notin aside[a] => Runnable(t) /\ HasLabels(t, Wants[a])

QueueInv == TypeOK /\ WithinReach /\ OneTaskAtATime

(* The queue cannot run dry: as long as a task that can be brought to an end *)
(* is not, there is one that waits for nothing and that a steady agent asks  *)
(* for.                                                                    *)
NeverDry ==
    (\E t \in Doable : row[t].state # "done") =>
        \E t \in Doable, a \in Steady : Runnable(t) /\ HasLabels(t, Wants[a])

-----------------------------------------------------------------------------
(* Labels.                                                                 *)

(* Normalization keeps a label of each spelling once, and no more labels    *)
(* than there were names in the list.                                      *)
LEMMA NormalizedWell ==
    ASSUME NEW list \in Seq(Names), Acceptable(list)
    PROVE  Normalized(list) \in LabelSets
  <1> DEFINE I == {k \in DOMAIN list : \A j \in 1 .. k - 1 : Key[list[j]] # Key[list[k]]}
             N == Normalized(list)
  <1>1. DOMAIN list = 1 .. Len(list) /\ Len(list) \in Nat /\ \A i \in DOMAIN list : list[i] \in Names
    OBVIOUS
  <1>2. IsFiniteSet(1 .. Len(list)) /\ Cardinality(1 .. Len(list)) = Len(list)
    <2>1. Cardinality(1 .. Len(list)) = IF 1 > Len(list) THEN 0 ELSE Len(list) - 1 + 1
      BY <1>1, FS_Interval
    <2> QED BY <1>1, <2>1, FS_Interval
  <1>3. I \subseteq 1 .. Len(list) /\ N = {list[i] : i \in I}
    BY <1>1 DEF Normalized
  <1>4. IsFiniteSet(I) /\ Cardinality(I) <= Len(list)
    BY <1>2, <1>3, FS_Subset
  <1>5. IsFiniteSet(N) /\ Cardinality(N) <= Cardinality(I)
    <2>1. [i \in I |-> list[i]] \in Surjection(I, N)
      BY <1>3 DEF Surjection
    <2> QED BY <1>4, <2>1, FS_Surjection
  <1>6. Cardinality(N) <= MaxLabels
    <2>1. Cardinality(N) \in Nat /\ Cardinality(I) \in Nat
      BY <1>4, <1>5, FS_CardinalityType
    <2> QED BY <1>1, <1>4, <1>5, <2>1, ConstantsAssumption DEF Acceptable
  <1>7. N \subseteq Names \ Malformed
    BY <1>1, <1>3 DEF Acceptable
  <1>8. \A m, n \in N : Key[m] = Key[n] => m = n
    <2>1. \A i, k \in I : Key[list[i]] = Key[list[k]] => i = k
      <3>1. \A i, k \in I : i < k => Key[list[i]] # Key[list[k]]
        BY <1>1
      <3> QED BY <1>1, <3>1
    <2> QED BY <1>3, <2>1
  <1> QED BY <1>5, <1>6, <1>7, <1>8 DEF LabelSets

(* Label operations leave labels as normalization does, within the limit.   *)
LEMMA MergedWell ==
    ASSUME NEW labels \in LabelSets, NEW op \in LabelOps, NEW new \in Merged(labels, op)
    PROVE  new \in LabelSets
  <1> DEFINE kept == {n \in labels : Key[n] \notin KeysOf(Normalized(op.remove))}
             extra == {n \in Normalized(op.add) : Key[n] \notin KeysOf(kept)}
  <1>1. /\ new = kept \cup extra
        /\ Acceptable(op.add) /\ Cardinality(new) <= MaxLabels
    BY DEF Merged, Applied
  <1>2. Normalized(op.add) \in LabelSets
    <2>1. op.add \in Seq(Names)
      BY ConstantsAssumption
    <2> QED BY <1>1, <2>1, NormalizedWell
  <1>3. kept \subseteq labels /\ extra \subseteq Normalized(op.add)
    OBVIOUS
  <1>4. IsFiniteSet(new)
    <2>1. IsFiniteSet(kept) /\ IsFiniteSet(extra)
      BY <1>2, <1>3, FS_Subset DEF LabelSets
    <2> QED BY <1>1, <2>1, FS_Union
  <1>5. new \subseteq Names \ Malformed
    BY <1>1, <1>2, <1>3 DEF LabelSets
  <1>6. \A m, n \in new : Key[m] = Key[n] => m = n
    <2>1. \A m, n \in labels : Key[m] = Key[n] => m = n
      BY DEF LabelSets
    <2>2. \A m, n \in Normalized(op.add) : Key[m] = Key[n] => m = n
      BY <1>2 DEF LabelSets
    <2>3. \A m \in kept, n \in extra : Key[m] # Key[n]
      BY DEF KeysOf
    <2> HIDE DEF kept, extra
    <2> QED BY <1>1, <1>3, <2>1, <2>2, <2>3
  <1> QED BY <1>1, <1>4, <1>5, <1>6 DEF LabelSets

-----------------------------------------------------------------------------
(* Typing.                                                                 *)

(* A step that writes one row.                                             *)
LEMMA OneRow ==
    ASSUME TypeOK, NEW t \in Tasks, NEW r \in Row \cup {None}, row' = [row EXCEPT ![t] = r]
    PROVE  /\ row' \in [Tasks -> Row \cup {None}]
           /\ \A u \in Tasks : row'[u] = IF u = t THEN r ELSE row[u]
           /\ r \in Row => Live' = Live \cup {t}
           /\ r = None => Live' = Live \ {t}
  BY NoneAssumption DEF TypeOK, Live

LEMMA LiveRow ==
    ASSUME TypeOK, NEW t \in Live
    PROVE  t \in Tasks /\ row[t] \in Row
  BY DEF TypeOK, Live

(* What the rows may become: one is written whose owner is nobody or stays, *)
(* or an agent claims one of its choice.                                   *)
RowKept == UNCHANGED row

RowWritten ==
    \E t \in Tasks, r \in Row \cup {None} :
        /\ row' = [row EXCEPT ![t] = r]
        /\ r \in Row => r.owner = Nobody \/ (t \in Live /\ r.owner = row[t].owner)

RowClaimed ==
    \E a \in Agents : \E t \in Choice(a) :
        row' = [row EXCEPT ![t].owner = a, ![t].live = TRUE]

LEMMA CreateEffect ==
    ASSUME TypeOK, NEW t \in Tasks, NEW new \in Creations, NEW now \in clock .. MaxClock,
           Create(t, new, now)
    PROVE  RowWritten /\ unborn' \subseteq Tasks /\ clock' \in 0 .. MaxClock
           /\ Live' = Live \cup {t} /\ UNCHANGED <<deps, agent, moves>>
  <1> DEFINE r == [state |-> IF new.autoStart THEN "open" ELSE "pending", priority |-> new.priority,
                   created |-> now, labels |-> Normalized(new.labels), owner |-> Nobody, live |-> FALSE]
  <1>1. /\ new.autoStart \in BOOLEAN /\ new.priority \in Priorities /\ new.labels \in Seq(Names)
        /\ clock \in Nat /\ MaxClock \in Nat
    BY ConstantsAssumption DEF TypeOK
  <1>2. Normalized(new.labels) \in LabelSets
    BY <1>1, NormalizedWell DEF Create
  <1>3. now \in Nat /\ now <= MaxClock
    BY <1>1
  <1>4. (IF new.autoStart THEN "open" ELSE "pending") \in States
    BY DEF States
  <1>5. r \in Row /\ r.owner = Nobody
    BY <1>1, <1>2, <1>3, <1>4 DEF Row
  <1>6. row' = [row EXCEPT ![t] = r]
    BY DEF Create
  <1> HIDE DEF r
  <1>7. RowWritten
    BY <1>5, <1>6 DEF RowWritten
  <1>8. Live' = Live \cup {t}
    BY <1>5, <1>6, OneRow
  <1> QED BY <1>3, <1>7, <1>8 DEF Create, TypeOK

(* What people do to the row of a task, with Nobody or its owner on it.     *)
LEMMA ChangeEffect ==
    ASSUME TypeOK, NEW t \in Live, NEW r \in Row, r.owner = Nobody \/ r.owner = row[t].owner,
           row' = [row EXCEPT ![t] = r]
    PROVE  RowWritten /\ UNCHANGED Live
  <1>1. t \in Tasks /\ Live \cup {t} = Live
    BY LiveRow
  <1> QED BY <1>1, OneRow DEF RowWritten

LEMMA PeopleEffect ==
    ASSUME TypeOK, NEW t \in Live,
           \/ \E s \in States : Move(t, s)
           \/ \E p \in Priorities : Prioritize(t, p)
           \/ \E op \in LabelOps : Relabel(t, op)
           \/ ForceRelease(t)
    PROVE  RowWritten /\ moves' \in 0 .. MaxMoves /\ UNCHANGED <<Live, deps, unborn, clock, agent>>
  <1>1. row[t] \in Row
    BY LiveRow
  <1>2. ASSUME NEW r \in Row, Change(t, r), r.owner = Nobody \/ r.owner = row[t].owner
        PROVE  RowWritten /\ moves' \in 0 .. MaxMoves /\ UNCHANGED <<Live, deps, unborn, clock, agent>>
    <2>1. RowWritten /\ UNCHANGED Live
      BY <1>2, ChangeEffect DEF Change
    <2>2. moves \in Nat /\ MaxMoves \in Nat
      BY ConstantsAssumption DEF TypeOK
    <2> QED BY <1>2, <2>1, <2>2 DEF Change, Intervene, TypeOK
  <1>3. ASSUME NEW s \in States, Move(t, s)
        PROVE  [row[t] EXCEPT !.state = s] \in Row /\ [row[t] EXCEPT !.state = s].owner = row[t].owner
    BY <1>1 DEF Row
  <1>4. ASSUME NEW p \in Priorities, Prioritize(t, p)
        PROVE  [row[t] EXCEPT !.priority = p] \in Row /\ [row[t] EXCEPT !.priority = p].owner = row[t].owner
    BY <1>1 DEF Row
  <1>5. ASSUME NEW op \in LabelOps, NEW new \in Merged(row[t].labels, op)
        PROVE  [row[t] EXCEPT !.labels = new] \in Row /\ [row[t] EXCEPT !.labels = new].owner = row[t].owner
    <2>1. row[t].labels \in LabelSets
      BY <1>1 DEF Row
    <2>2. new \in LabelSets
      BY <2>1, MergedWell
    <2> QED BY <1>1, <2>2 DEF Row
  <1>6. /\ [row[t] EXCEPT !.owner = Nobody, !.live = FALSE] \in Row
        /\ [row[t] EXCEPT !.owner = Nobody, !.live = FALSE].owner = Nobody
    BY <1>1 DEF Row
  <1> QED BY <1>2, <1>3, <1>4, <1>5, <1>6 DEF Move, Prioritize, Relabel, ForceRelease

LEMMA DeleteEffect ==
    ASSUME TypeOK, NEW t \in Live, Delete(t)
    PROVE  RowWritten /\ deps' \subseteq deps /\ moves' \in 0 .. MaxMoves
           /\ UNCHANGED <<unborn, clock, agent>>
  <1>1. RowWritten
    BY LiveRow, NoneAssumption DEF Delete, RowWritten
  <1>2. moves \in Nat /\ MaxMoves \in Nat
    BY ConstantsAssumption DEF TypeOK
  <1> QED BY <1>1, <1>2 DEF Delete, Intervene, Graph!Delete, TypeOK

LEMMA EdgesEffect ==
    ASSUME TypeOK, NEW t \in Tasks, NEW d \in Tasks, AddDependency(t, d) \/ DeleteDependency(t, d)
    PROVE  RowKept /\ deps' \subseteq Tasks \X Tasks /\ moves' \in 0 .. MaxMoves
           /\ UNCHANGED <<unborn, clock, agent>>
  <1>1. moves \in Nat /\ MaxMoves \in Nat
    BY ConstantsAssumption DEF TypeOK
  <1>2. deps' \subseteq Tasks \X Tasks
    BY DEF AddDependency, DeleteDependency, Graph!Add, Graph!Remove, TypeOK
  <1> QED BY <1>1, <1>2 DEF AddDependency, DeleteDependency, Intervene, RowKept, TypeOK

LEMMA ExpireEffect ==
    ASSUME TypeOK, NEW t \in Live, Expire(t)
    PROVE  RowWritten /\ UNCHANGED <<Live, deps, unborn, clock, agent, moves>>
  <1>1. row[t] \in Row /\ t \in Tasks
    BY LiveRow
  <1>2. [row[t] EXCEPT !.live = FALSE] \in Row /\ [row[t] EXCEPT !.live = FALSE].owner = row[t].owner
    BY <1>1 DEF Row
  <1>3. row' = [row EXCEPT ![t] = [row[t] EXCEPT !.live = FALSE]]
    BY DEF Expire
  <1> QED BY <1>2, <1>3, ChangeEffect DEF Expire

LEMMA ChoiceClaimable ==
    ASSUME NEW a \in Agents, NEW t \in Choice(a)
    PROVE  t \in Live /\ Claimable(a, t)
  BY DEF Choice, Claimable, Runnable

LEMMA AgentEffect ==
    ASSUME TypeOK, NEW a \in Agents, Act(a)
    PROVE  /\ RowKept \/ RowWritten \/ RowClaimed
           /\ agent' \in [Agents -> Process]
           /\ UNCHANGED <<Live, deps, unborn, clock, moves>>
  <1> DEFINE t == agent[a].task
  <1>1. ASSUME NEW at \in {"idle", "claimed", "working", "gone"}, NEW u \in Tasks \cup {None}, Becomes(a, at, u)
        PROVE  agent' \in [Agents -> Process] /\ UNCHANGED <<deps, unborn, clock, moves>>
    BY <1>1 DEF Becomes, Process, TypeOK
  <1>2. CASE ClaimNext(a)
    <2>1. PICK u \in Choice(a) :
            /\ row' = [row EXCEPT ![u].owner = a, ![u].live = TRUE]
            /\ Becomes(a, "claimed", u)
      BY <1>2 DEF ClaimNext
    <2>2. u \in Live /\ u \in Tasks /\ row[u] \in Row
      BY ChoiceClaimable, LiveRow
    <2>3. UNCHANGED Live
      <3>1. [row[u] EXCEPT !.owner = a, !.live = TRUE] \in Row
        BY <2>2 DEF Row
      <3>2. row' = [row EXCEPT ![u] = [row[u] EXCEPT !.owner = a, !.live = TRUE]]
        BY <2>1
      <3>3. Live \cup {u} = Live
        BY <2>2
      <3> QED BY <2>2, <3>1, <3>2, <3>3, OneRow
    <2> QED BY <1>1, <2>1, <2>2, <2>3 DEF RowClaimed
  <1>3. CASE Told(a)
    BY <1>1, <1>3, LiveRow DEF Told, RowKept, Live
  <1>4. CASE Unanswered(a) \/ Refused(a) \/ Leave(a) \/ Return(a)
    BY <1>1, <1>4 DEF Unanswered, Refused, Leave, Return, RowKept, Live
  <1>5. CASE Finish(a)
    <2>1. t \in Live /\ row[t] \in Row /\ t \in Tasks
      BY <1>5, LiveRow DEF Finish
    <2> DEFINE r == [row[t] EXCEPT !.state = "done", !.live = (row[t].owner = a)]
    <2>2. r \in Row /\ r.owner = row[t].owner
      BY <2>1 DEF Row, States
    <2>3. row' = [row EXCEPT ![t] = r]
      BY <1>5 DEF Finish
    <2> HIDE DEF r
    <2>4. RowWritten /\ UNCHANGED Live
      BY <2>1, <2>2, <2>3, ChangeEffect
    <2> QED BY <1>1, <1>5, <2>4 DEF Finish
  <1>6. CASE GiveUp(a)
    <2>1. t \in Live /\ row[t] \in Row
      BY <1>6, LiveRow DEF GiveUp, Owned
    <2> DEFINE r == [row[t] EXCEPT !.owner = Nobody, !.live = FALSE]
    <2>2. r \in Row /\ r.owner = Nobody
      BY <2>1 DEF Row
    <2>3. row' = [row EXCEPT ![t] = r]
      BY <1>6 DEF GiveUp
    <2> HIDE DEF r
    <2>4. RowWritten /\ UNCHANGED Live
      BY <2>1, <2>2, <2>3, ChangeEffect
    <2> QED BY <1>1, <1>6, <2>4 DEF GiveUp
  <1>7. CASE Heartbeat(a)
    <2>1. t \in Live /\ row[t] \in Row
      BY <1>7, LiveRow DEF Heartbeat, Owned
    <2> DEFINE r == [row[t] EXCEPT !.live = TRUE]
    <2>2. r \in Row /\ r.owner = row[t].owner
      BY <2>1 DEF Row
    <2>3. row' = [row EXCEPT ![t] = r]
      BY <1>7 DEF Heartbeat
    <2> HIDE DEF r
    <2>4. RowWritten /\ UNCHANGED Live
      BY <2>1, <2>2, <2>3, ChangeEffect
    <2> QED BY <1>7, <2>4 DEF Heartbeat, TypeOK
  <1> QED BY <1>2, <1>3, <1>4, <1>5, <1>6, <1>7 DEF Act

LEMMA StepEffect ==
    ASSUME TypeOK, Next
    PROVE  /\ RowKept \/ RowWritten \/ RowClaimed
           /\ deps' \subseteq Tasks \X Tasks /\ unborn' \subseteq Tasks /\ clock' \in 0 .. MaxClock
           /\ agent' \in [Agents -> Process] /\ moves' \in 0 .. MaxMoves
  <1>1. ASSUME NEW t \in Tasks, NEW new \in Creations, NEW now \in clock .. MaxClock, Create(t, new, now)
        PROVE  RowWritten /\ unborn' \subseteq Tasks /\ clock' \in 0 .. MaxClock
               /\ UNCHANGED <<deps, agent, moves>>
    BY <1>1, CreateEffect
  <1>2. ASSUME NEW t \in Tasks, NEW d \in Tasks, AddDependency(t, d) \/ DeleteDependency(t, d)
        PROVE  RowKept /\ deps' \subseteq Tasks \X Tasks /\ moves' \in 0 .. MaxMoves
               /\ UNCHANGED <<unborn, clock, agent>>
    BY <1>2, EdgesEffect
  <1>3. ASSUME NEW t \in Live,
               \/ \E s \in States : Move(t, s)
               \/ \E p \in Priorities : Prioritize(t, p)
               \/ \E op \in LabelOps : Relabel(t, op)
               \/ ForceRelease(t)
        PROVE  RowWritten /\ moves' \in 0 .. MaxMoves /\ UNCHANGED <<Live, deps, unborn, clock, agent>>
    BY <1>3, PeopleEffect
  <1>4. ASSUME NEW t \in Live, Delete(t)
        PROVE  RowWritten /\ deps' \subseteq deps /\ moves' \in 0 .. MaxMoves
               /\ UNCHANGED <<unborn, clock, agent>>
    BY <1>4, DeleteEffect
  <1>5. ASSUME NEW t \in Live, Expire(t)
        PROVE  RowWritten /\ UNCHANGED <<Live, deps, unborn, clock, agent, moves>>
    BY <1>5, ExpireEffect
  <1>6. ASSUME NEW a \in Agents, Act(a)
        PROVE  /\ RowKept \/ RowWritten \/ RowClaimed
               /\ agent' \in [Agents -> Process] /\ UNCHANGED <<deps, unborn, clock, moves>>
    BY <1>6, AgentEffect
  <1> QED BY <1>1, <1>2, <1>3, <1>4, <1>5, <1>6 DEF Next, TypeOK

LEMMA TypeStep == TypeOK /\ [Next]_vars => TypeOK'
  <1> SUFFICES ASSUME TypeOK, Next PROVE TypeOK'
    BY DEF TypeOK, vars
  <1>1. row' \in [Tasks -> Row \cup {None}]
    <2>1. CASE RowKept
      BY <2>1 DEF RowKept, TypeOK
    <2>2. CASE RowWritten
      BY <2>2, OneRow DEF RowWritten
    <2>3. ASSUME NEW a \in Agents, NEW t \in Choice(a),
                 row' = [row EXCEPT ![t].owner = a, ![t].live = TRUE]
          PROVE  row' \in [Tasks -> Row \cup {None}]
      <3>1. row[t] \in Row /\ t \in Tasks
        BY ChoiceClaimable, LiveRow
      <3>2. [row[t] EXCEPT !.owner = a, !.live = TRUE] \in Row
        BY <3>1 DEF Row
      <3>3. row' = [row EXCEPT ![t] = [row[t] EXCEPT !.owner = a, !.live = TRUE]]
        BY <2>3
      <3> QED BY <3>1, <3>2, <3>3, OneRow
    <2> QED BY <2>1, <2>2, <2>3, StepEffect DEF RowClaimed
  <1>2. aside' \in [Agents -> SUBSET Tasks]
    <2>1. Live' \subseteq Tasks
      BY DEF Live
    <2> QED BY <2>1 DEF Next, Remember
  <1> QED BY <1>1, <1>2, StepEffect DEF TypeOK

-----------------------------------------------------------------------------
(* One task at a time.                                                     *)

(* A task comes into the name of an agent by its claim only.               *)
LEMMA OnlyByClaim ==
    ASSUME TypeOK, Next, NEW a \in Agents, NEW t \in Live', row'[t].owner = a,
           t \notin Live \/ row[t].owner # a
    PROVE  /\ t \in Choice(a)
           /\ \A u \in Live' : u # t => u \in Live /\ row'[u] = row[u]
  <1>1. t \in Tasks /\ (t \in Live => row[t] \in Row)
    BY LiveRow DEF Live
  <1>2. ~RowKept
    BY DEF RowKept, Live
  <1>3. ~RowWritten
    <2> SUFFICES ASSUME RowWritten PROVE FALSE
      OBVIOUS
    <2>1. PICK u \in Tasks, r \in Row \cup {None} :
            /\ row' = [row EXCEPT ![u] = r]
            /\ r \in Row => r.owner = Nobody \/ (u \in Live /\ r.owner = row[u].owner)
      BY DEF RowWritten
    <2>2. row'[t] = IF t = u THEN r ELSE row[t]
      BY <1>1, <2>1, OneRow
    <2>3. t = u
      BY <1>1, <2>2 DEF Live
    <2>4. r \in Row
      BY <2>2, <2>3 DEF Live
    <2> QED BY <2>1, <2>2, <2>3, <2>4, ConstantsAssumption
  <1>4. PICK b \in Agents : \E u \in Choice(b) :
          row' = [row EXCEPT ![u].owner = b, ![u].live = TRUE]
    BY <1>2, <1>3, StepEffect DEF RowClaimed
  <1>5. PICK u \in Choice(b) : row' = [row EXCEPT ![u].owner = b, ![u].live = TRUE]
    BY <1>4
  <1>6. u \in Live /\ u \in Tasks /\ row[u] \in Row
    BY ChoiceClaimable, LiveRow
  <1>7. \A x \in Tasks : x # u => row'[x] = row[x]
    BY <1>5, <1>6 DEF TypeOK
  <1>8. row'[u].owner = b
    BY <1>5, <1>6 DEF TypeOK, Row
  <1>9. t = u
    BY <1>1, <1>7 DEF Live
  <1>10. \A x \in Live' : x # t => x \in Live /\ row'[x] = row[x]
    BY <1>7, <1>9 DEF Live
  <1> QED BY <1>5, <1>8, <1>9, <1>10

LEMMA RememberStep ==
    ASSUME Remember, NEW a \in Agents, NEW t \in Live', row'[t].owner = a, t \notin aside'[a]
    PROVE  t \notin aside[a] /\ Runnable(t)' /\ HasLabels(t, Wants[a])'
  BY DEF Remember

LEMMA ReachStep == Remember => WithinReach'
  <1> SUFFICES ASSUME Remember, NEW a \in Agents, NEW t \in Live', row'[t].owner = a, t \notin aside'[a]
               PROVE  Runnable(t)' /\ HasLabels(t, Wants[a])'
    BY DEF WithinReach
  <1> QED BY RememberStep

(* A task within reach of its owner is preferred to those of others.       *)
LEMMA OwnPreferred ==
    ASSUME WithinReach, NEW a \in Agents, NEW u \in Live, row[u].owner = a, u \notin aside[a],
           NEW t \in Choice(a)
    PROVE  t \in Live /\ row[t].owner = a
  <1>1. Claimable(a, u) /\ u \in Tasks
    BY DEF WithinReach, Claimable, Live
  <1> QED BY <1>1, ChoiceClaimable DEF Choice

LEMMA OneStep ==
    ASSUME QueueInv, Next
    PROVE  OneTaskAtATime'
  <1> SUFFICES ASSUME NEW a \in Agents, NEW t \in Live', NEW u \in Live',
                      row'[t].owner = a, row'[u].owner = a, t \notin aside'[a], u \notin aside'[a],
                      t # u
               PROVE  FALSE
    BY DEF OneTaskAtATime
  <1>1. TypeOK /\ WithinReach /\ OneTaskAtATime /\ Remember
    BY DEF QueueInv, Next
  <1>2. t \notin aside[a] /\ u \notin aside[a]
    BY <1>1, RememberStep
  <1>3. ASSUME NEW x \in Live', NEW y \in Live', x # y, row'[x].owner = a, row'[y].owner = a,
               x \notin aside[a], y \notin aside[a], x \notin Live \/ row[x].owner # a
        PROVE  FALSE
    <2>1. x \in Choice(a) /\ y \in Live /\ row'[y] = row[y]
      BY <1>1, <1>3, OnlyByClaim
    <2>2. x \in Live /\ row[x].owner = a
      BY <1>1, <1>3, <2>1, OwnPreferred
    <2> QED BY <1>3, <2>2
  <1>4. /\ t \in Live /\ row[t].owner = a
        /\ u \in Live /\ row[u].owner = a
    BY <1>2, <1>3
  <1> QED BY <1>1, <1>2, <1>4 DEF OneTaskAtATime

-----------------------------------------------------------------------------
(* The edges are those of an acyclic graph.                                *)

(* Adding an edge is adding one to the abstract graph, and nothing else      *)
(* touches it but creations and deletions.                                 *)
LEMMA GraphStep == TypeOK /\ [Next]_vars => [Graph!Next]_(Graph!vars)
  <1> SUFFICES ASSUME TypeOK, [Next]_vars PROVE Graph!Next \/ UNCHANGED <<Live, deps>>
    BY DEF Graph!vars
  <1>1. CASE UNCHANGED vars
    BY <1>1 DEF vars, Live
  <1>2. ASSUME NEW t \in Tasks, NEW new \in Creations, NEW now \in clock .. MaxClock, Create(t, new, now)
        PROVE  Graph!Next
    <2>1. Live' = Live \cup {t} /\ UNCHANGED deps
      BY <1>2, CreateEffect
    <2> QED BY <2>1 DEF Graph!Next, Graph!Create
  <1>3. ASSUME NEW t \in Tasks, NEW d \in Tasks, AddDependency(t, d) \/ DeleteDependency(t, d)
        PROVE  Graph!Next
    BY <1>3 DEF AddDependency, DeleteDependency, Graph!Next
  <1>4. ASSUME NEW t \in Live, Delete(t)
        PROVE  Graph!Next
    <2>1. t \in Tasks
      BY LiveRow
    <2> QED BY <1>4, <2>1 DEF Delete, Graph!Next
  <1>5. ASSUME NEW t \in Live,
               \/ \E s \in States : Move(t, s)
               \/ \E p \in Priorities : Prioritize(t, p)
               \/ \E op \in LabelOps : Relabel(t, op)
               \/ ForceRelease(t)
        PROVE  UNCHANGED <<Live, deps>>
    BY <1>5, PeopleEffect
  <1>6. ASSUME NEW t \in Live, Expire(t)
        PROVE  UNCHANGED <<Live, deps>>
    BY <1>6, ExpireEffect
  <1>7. ASSUME NEW a \in Agents, Act(a)
        PROVE  UNCHANGED <<Live, deps>>
    BY <1>7, AgentEffect
  <1> QED BY <1>1, <1>2, <1>3, <1>4, <1>5, <1>6, <1>7 DEF Next

(* An edge from t to d closes no cycle if d does not lead to t: a set that  *)
(* has d and what d waits for, and not t, is left by no edge.              *)
LEMMA AddedAcyclic ==
    ASSUME NEW t \in Tasks, NEW d \in Tasks, Graph!Acyclic, ~Graph!Leads(d, t, deps),
           deps' \subseteq deps \cup {<<t, d>>}
    PROVE  Graph!Acyclic'
  <1> SUFFICES ASSUME NEW S \in SUBSET Tasks, S # {}
               PROVE  \E x \in S : \A y \in S : <<x, y>> \notin deps \cup {<<t, d>>}
    BY DEF Graph!Acyclic
  <1>1. PICK C \in SUBSET Tasks : d \in C /\ Graph!Closed(C, deps) /\ t \notin C
    BY DEF Graph!Leads
  <1>2. CASE S \cap C = {}
    <2>1. PICK x \in S : \A y \in S : <<x, y>> \notin deps
      BY DEF Graph!Acyclic
    <2> QED BY <1>1, <1>2, <2>1
  <1>3. CASE S \cap C # {}
    <2>1. PICK x \in S \cap C : \A y \in S \cap C : <<x, y>> \notin deps
      BY <1>3 DEF Graph!Acyclic
    <2>2. \A y \in S : <<x, y>> \in deps => y \in S \cap C
      BY <1>1, <2>1 DEF Graph!Closed
    <2> QED BY <1>1, <2>1, <2>2
  <1> QED BY <1>2, <1>3

LEMMA AcyclicStep == Graph!Acyclic /\ [Graph!Next]_(Graph!vars) => Graph!Acyclic'
  <1> SUFFICES ASSUME Graph!Acyclic, [Graph!Next]_(Graph!vars) PROVE Graph!Acyclic'
    OBVIOUS
  <1>1. ASSUME deps' \subseteq deps PROVE Graph!Acyclic'
    BY <1>1 DEF Graph!Acyclic
  <1>2. ASSUME NEW t \in Tasks, NEW d \in Tasks, Graph!Add(t, d) PROVE Graph!Acyclic'
    BY <1>2, AddedAcyclic DEF Graph!Add
  <1> QED BY <1>1, <1>2 DEF Graph!Next, Graph!vars, Graph!Create, Graph!Delete, Graph!Remove

LEMMA JoinStep == Graph!EdgesJoinTasks /\ [Graph!Next]_(Graph!vars) => Graph!EdgesJoinTasks'
  <1> SUFFICES ASSUME Graph!EdgesJoinTasks, [Graph!Next]_(Graph!vars) PROVE Graph!EdgesJoinTasks'
    OBVIOUS
  <1>1. CASE UNCHANGED <<Live, deps>>
    BY <1>1 DEF Graph!EdgesJoinTasks
  <1>2. ASSUME NEW t \in Tasks, Graph!Create(t) \/ Graph!Delete(t) PROVE Graph!EdgesJoinTasks'
    BY <1>2 DEF Graph!EdgesJoinTasks, Graph!Create, Graph!Delete
  <1>3. ASSUME NEW t \in Tasks, NEW d \in Tasks, Graph!Add(t, d) \/ Graph!Remove(t, d)
        PROVE  Graph!EdgesJoinTasks'
    BY <1>3 DEF Graph!EdgesJoinTasks, Graph!Add, Graph!Remove
  <1> QED BY <1>1, <1>2, <1>3 DEF Graph!Next, Graph!vars

-----------------------------------------------------------------------------
(* The listings.                                                           *)

(* What an agent is shown as runnable is what it may claim.                 *)
LEMMA ShownIsClaimable ==
    ASSUME NEW a \in Agents
    PROVE  /\ ListRunnable(a, Wants[a]) = {t \in Tasks : Claimable(a, t)}
           /\ RunnableAndMine(a) = {t \in Tasks : Claimable(a, t) /\ row[t].owner = a}
  BY ConstantsAssumption DEF ListRunnable, Claimable, RunnableAndMine

LEMMA Agreed == ListingsAgree
  <1> SUFFICES ASSUME NEW a \in Agents
               PROVE  /\ NextRunnable(a, Wants[a]) = Choice(a)
                      /\ RunnableAndMine(a) # {} => Choice(a) \subseteq RunnableAndMine(a)
                      /\ RunnableAndMine(a) = {} =>
                            \A t \in Choice(a) : \/ t \in ListTasks({"open"}, Nobody, TRUE, Wants[a])
                                                 \/ row[t].owner # Nobody /\ ~row[t].live
    BY DEF ListingsAgree
  <1> DEFINE shown == {t \in Tasks : Claimable(a, t)}
             own == {t \in Tasks : Claimable(a, t) /\ row[t].owner = a}
             pool == IF own # {} THEN own ELSE shown
  <1>1. ListRunnable(a, Wants[a]) = shown /\ RunnableAndMine(a) = own
    BY ShownIsClaimable
  <1>2. Choice(a) = {t \in pool : \A u \in pool : ~Before(u, t)}
    BY DEF Choice
  <1>3. NextRunnable(a, Wants[a]) = {t \in shown : \A u \in shown : ~ListedBefore(a, u, t)}
    BY <1>1 DEF NextRunnable
  <1>4. own = {t \in shown : row[t].owner = a} /\ a # Nobody
    BY ConstantsAssumption
  <1>5. \A t \in Tasks : Claimable(a, t) /\ row[t].owner # a /\ row[t].live => row[t].owner = Nobody
    BY DEF Claimable
  <1>6. \A t \in shown : t \in Live /\ row[t].state = "open" /\ HasLabels(t, Wants[a])
    BY DEF Claimable, Runnable
  <1> HIDE DEF shown, own
  <1>7. CASE own # {}
    <2>1. \A t \in shown, u \in shown :
             ListedBefore(a, u, t) <=> IF (u \in own) # (t \in own) THEN u \in own ELSE Before(u, t)
      BY <1>4 DEF ListedBefore
    <2>2. {t \in shown : \A u \in shown : ~ListedBefore(a, u, t)} = {t \in own : \A u \in own : ~Before(u, t)}
      BY <1>4, <1>7, <2>1, Zenon
    <2> QED BY <1>1, <1>2, <1>3, <1>7, <2>2
  <1>8. CASE own = {}
    <2>1. \A t \in shown, u \in shown : ListedBefore(a, u, t) <=> Before(u, t)
      BY <1>4, <1>8 DEF ListedBefore
    <2>2. NextRunnable(a, Wants[a]) = Choice(a)
      BY <1>2, <1>3, <1>8, <2>1
    <2>3. \A t \in Choice(a) : \/ t \in ListTasks({"open"}, Nobody, TRUE, Wants[a])
                               \/ row[t].owner # Nobody /\ ~row[t].live
      <3> SUFFICES ASSUME NEW t \in shown
                   PROVE  \/ t \in ListTasks({"open"}, Nobody, TRUE, Wants[a])
                          \/ row[t].owner # Nobody /\ ~row[t].live
        BY <1>2, <1>8
      <3>1. row[t].owner # a /\ t \in Tasks /\ Claimable(a, t)
        BY <1>4, <1>8 DEF shown
      <3>2. row[t].owner = Nobody \/ (row[t].owner # Nobody /\ ~row[t].live)
        BY <1>5, <3>1, Zenon
      <3>3. row[t].owner = Nobody => t \in ListTasks({"open"}, Nobody, TRUE, Wants[a])
        BY <1>6 DEF ListTasks
      <3> QED BY <3>2, <3>3, Zenon
    <2> QED BY <1>1, <1>8, <2>2, <2>3
  <1> QED BY <1>7, <1>8

-----------------------------------------------------------------------------
(* The queue does not run dry.                                             *)

LEMMA DoableClosed ==
    /\ Doable \subseteq Live
    /\ \A t \in Doable : Needs(t) \subseteq Doable
    /\ \A t \in Doable : \/ row[t].state = "done"
                         \/ row[t].state = "open" /\ \E a \in Steady : HasLabels(t, Wants[a])
  BY DEF Doable

(* Of the tasks that are not done one waits for none of them.              *)
LEMMA AcyclicIsNeverDry == Graph!Acyclic => NeverDry
  <1> SUFFICES ASSUME Graph!Acyclic, NEW u \in Doable, row[u].state # "done"
               PROVE  \E t \in Doable, a \in Steady : Runnable(t) /\ HasLabels(t, Wants[a])
    BY DEF NeverDry
  <1> DEFINE S == {t \in Doable : row[t].state # "done"}
  <1>1. S \in SUBSET Tasks /\ u \in S
    BY DoableClosed DEF Live
  <1>2. PICK t \in S : \A y \in S : <<t, y>> \notin deps
    BY <1>1 DEF Graph!Acyclic
  <1>3. \A d \in Needs(t) : row[d].state = "done"
    BY <1>2, DoableClosed DEF Needs
  <1>4. Runnable(t)
    BY <1>2, <1>3, DoableClosed DEF Runnable
  <1>5. PICK a \in Steady : HasLabels(t, Wants[a])
    BY <1>2, DoableClosed
  <1> QED BY <1>2, <1>4, <1>5

-----------------------------------------------------------------------------
(* The theorems.                                                           *)

(* The invariant holds in every behaviour.                                 *)
THEOREM Invariance == Spec => []QueueInv
  <1>1. Init => QueueInv
    <2>1. Init => Live = {}
      BY DEF Init, Live
    <2>2. Init => TypeOK
      BY ConstantsAssumption DEF Init, TypeOK, Idle, Process
    <2> QED BY <2>1, <2>2 DEF QueueInv, WithinReach, OneTaskAtATime
  <1>2. QueueInv /\ [Next]_vars => QueueInv'
    <2> SUFFICES ASSUME QueueInv, [Next]_vars PROVE QueueInv'
      OBVIOUS
    <2>1. TypeOK'
      BY TypeStep DEF QueueInv
    <2>2. CASE Next
      BY <2>1, <2>2, ReachStep, OneStep DEF QueueInv, Next
    <2>3. CASE UNCHANGED vars
      <3>1. Live' = Live /\ row' = row /\ aside' = aside /\ deps' = deps
        BY <2>3 DEF vars, Live
      <3>2. OneTaskAtATime'
        BY <3>1 DEF QueueInv, OneTaskAtATime
      <3>3. WithinReach'
        BY <3>1 DEF QueueInv, WithinReach, Runnable, HasLabels, Needs
      <3> QED BY <2>1, <3>2, <3>3 DEF QueueInv
    <2> QED BY <2>2, <2>3
  <1> QED BY <1>1, <1>2, PTL DEF Spec

(* Every row is well-formed, and its labels are few enough and distinct in   *)
(* lower case, whatever label operations were applied (applyLabelOps).     *)
THEOREM TypeCorrect == Spec => []TypeOK
  <1>1. QueueInv => TypeOK
    BY DEF QueueInv
  <1> QED BY <1>1, Invariance, PTL

(* Lost answers do not pile up claims: of the tasks of an agent one at most  *)
(* has stayed within its reach (the order of claimNextTaskID).             *)
THEOREM OneAtATime == Spec => []OneTaskAtATime
  <1>1. QueueInv => OneTaskAtATime
    BY DEF QueueInv
  <1> QED BY <1>1, Invariance, PTL

(* The preview, the claim and the lists agree, for any rows whatever.       *)
THEOREM Listings == Spec => []ListingsAgree
  <1> QED BY Agreed, PTL

(* The edges of the queue change as the abstract graph says.               *)
THEOREM QueueHasGraph == Spec => Graph!Spec
  <1>1. Init => Graph!Init
    BY DEF Init, Graph!Init, Live
  <1> QED BY <1>1, GraphStep, TypeCorrect, PTL DEF Spec, Graph!Spec

(* So there is always a next task for somebody until all is done that can    *)
(* be done: tasks do not wait for each other.                              *)
THEOREM QueueNeverDry == Spec => []NeverDry
  <1>1. Graph!Init => Graph!Acyclic
    BY DEF Graph!Init, Graph!Acyclic
  <1>2. Graph!Spec => []Graph!Acyclic
    BY <1>1, AcyclicStep, PTL DEF Graph!Spec
  <1> QED BY <1>2, QueueHasGraph, AcyclicIsNeverDry, PTL
=============================================================================
