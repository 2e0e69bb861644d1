-------------------------- MODULE TaskUpdateProofs --------------------------
(* Proofs about TaskUpdate for every set of requests, sessions and values.   *)
EXTENDS TaskUpdate, TLAPS

-----------------------------------------------------------------------------
(* The inductive invariant.                                                *)

(* What a store attempt has read allowed the request to go on.             *)
ReadAllows ==
    \A s \in Sessions :
        req[s].at = "write" =>
            /\ MayUpdate(s, req[s].cur.owner)
            /\ StateAsExpected(s, req[s].cur.state)

(* A conditional request that leads into a gated state is on its way to    *)
(* the evidence or has it.                                                 *)
Crosses(ask) == ask.ifState # Unset /\ ask.state \in Gated /\ ask.state # ask.ifState

EvidenceFirst ==
    \A s \in Sessions :
        Crosses(req[s].ask) =>
            /\ req[s].at = "links" => req[s].gated
            /\ req[s].at \in {"load", "write"} => req[s].verified = req[s].ask.state

UpdateInv == TypeOK /\ ReadAllows /\ EvidenceFirst

-----------------------------------------------------------------------------
(* Typing.                                                                 *)

LEMMA ConstantFacts ==
    /\ FirstRow \in Row
    /\ \A ask \in Asks : NewRequest(ask) \in Request /\ NewRequest(ask).at = "read"
    /\ NoRequest \in Request /\ NoRequest.at = "idle"
    /\ Asks \subseteq Ask
    /\ Nobody \in Sessions
  <1>1. FirstRow \in Row
    BY ConstantsAssumption DEF FirstRow, Row, States, Sessions
  <1>2. 1 \in 1 .. MaxAttempts
    BY ConstantsAssumption
  <1>3. ASSUME NEW ask \in Asks PROVE NewRequest(ask) \in Request /\ NewRequest(ask).at = "read"
    BY <1>1, <1>2 DEF NewRequest, Request, Steps
  <1>4. (CHOOSE ask \in Asks : TRUE) \in Asks
    BY ConstantsAssumption
  <1>5. NoRequest \in Request /\ NoRequest.at = "idle"
    BY <1>3, <1>4 DEF NoRequest, Request, Steps
  <1> QED BY <1>1, <1>3, <1>5, ConstantsAssumption DEF Sessions

(* What a request asks for applies to any row.                             *)
LEMMA ApplyFacts ==
    ASSUME NEW cur \in Row, NEW ask \in Asks
    PROVE  /\ Apply(cur, ask) \in Row
           /\ Apply(cur, ask).state = IF ask.state = Unset THEN cur.state ELSE ask.state
           /\ Apply(cur, ask).labels = (cur.labels \ ask.remove) \cup ask.add
           /\ ask.append # Unset => Apply(cur, ask).description = Append(cur.description, ask.append)
  <1> DEFINE state == Given(ask.state, cur.state)
             title == Given(ask.title, cur.title)
             labels == (cur.labels \ ask.remove) \cup ask.add
             description == IF ask.append = Unset THEN cur.description
                            ELSE Append(cur.description, ask.append)
  <1>1. /\ ask.state \in States \cup {Unset} /\ ask.title \in Titles \cup {Unset}
        /\ ask.add \subseteq Labels /\ ask.append \in Pieces \cup {Unset}
    BY ConstantFacts DEF Ask
  <1>2. state \in States /\ title \in Titles /\ labels \in SUBSET Labels
    BY <1>1 DEF Given, Row
  <1>3. description \in Seq(Pieces)
    BY <1>1 DEF Row
  <1>4. Apply(cur, ask) = [cur EXCEPT !.state = state, !.title = title, !.labels = labels,
                                      !.description = description]
    BY DEF Apply, Given, Row
  <1>5. state = IF ask.state = Unset THEN cur.state ELSE ask.state
    BY DEF Given
  <1> HIDE DEF state, title, labels, description
  <1>6. /\ Apply(cur, ask) \in Row
        /\ Apply(cur, ask).state = state
        /\ Apply(cur, ask).labels = labels
        /\ Apply(cur, ask).description = description
    BY <1>2, <1>3, <1>4 DEF Row
  <1> QED BY <1>5, <1>6 DEF labels, description

(* Requests change by one call at a time.                                  *)
LEMMA GoesFacts ==
    ASSUME TypeOK, NEW s \in Sessions, NEW from, NEW r \in Request, Goes(s, from, r)
    PROVE  /\ TypeOK'
           /\ req'[s] = r
           /\ \A x \in Sessions : x # s => req'[x] = req[x]
           /\ UNCHANGED <<live, row, links, pr>>
           /\ req[s].at = from
  BY DEF TypeOK, Goes

(* The steps of a request before its write, as one change of its record.   *)
LEMMA QuietSteps ==
    ASSUME UpdateInv, NEW s \in Sessions,
           \/ \E ask \in Asks : StartUpdate(s, ask)
           \/ ReadTask(s) \/ ReadLinks(s) \/ ValidateStateEntry(s)
           \/ Load(s) \/ Retry(s) \/ Refuse(s)
    PROVE  \E r \in Request :
              /\ Goes(s, req[s].at, r)
              /\ r.at = "write" =>
                    /\ r.ask.force \/ r.cur.owner \in {Nobody, s}
                    /\ r.ask.ifState \in {Unset, r.cur.state}
              /\ Crosses(r.ask) =>
                    /\ r.at = "links" => r.gated
                    /\ r.at \in {"load", "write"} => r.verified = r.ask.state
  <1> DEFINE Good(r) ==
              /\ r.at = "write" =>
                    /\ r.ask.force \/ r.cur.owner \in {Nobody, s}
                    /\ r.ask.ifState \in {Unset, r.cur.state}
              /\ Crosses(r.ask) =>
                    /\ r.at = "links" => r.gated
                    /\ r.at \in {"load", "write"} => r.verified = r.ask.state
             Goal == \E r \in Request : Goes(s, req[s].at, r) /\ Good(r)
             q == req[s]
  <1>0. /\ q \in Request /\ q.ask \in Asks /\ q.ask.state \in States \cup {Unset} /\ row \in Row
        /\ q.attempt \in 1 .. MaxAttempts /\ links \subseteq PullRequests
        /\ {"read", "links", "gate", "load", "write"} \subseteq Steps
    BY ConstantFacts DEF UpdateInv, TypeOK, Request, Ask, Steps
  <1>1. ASSUME NEW r \in Request, Good(r), NEW from, Goes(s, from, r) PROVE Goal
    <2>1. from = req[s].at
      BY <1>1 DEF Goes
    <2> QED BY <1>1, <2>1
  <1>2. ASSUME NEW ask \in Asks, StartUpdate(s, ask) PROVE Goal
    <2>1. NewRequest(ask) \in Request /\ Good(NewRequest(ask))
      BY ConstantFacts
    <2> QED BY <1>1, <1>2, <2>1 DEF StartUpdate
  <1>3. CASE ReadTask(s)
    <2> DEFINE g == NeedsEvidence(row.state, q.ask.state)
               r == [q EXCEPT !.at = "links", !.gated = g]
    <2>1. g \in BOOLEAN
      BY DEF NeedsEvidence
    <2>2. Crosses(q.ask) => g
      <3>1. ASSUME Crosses(q.ask) PROVE q.ask.state # Unset /\ row.state = q.ask.ifState
        BY <1>3, <3>1, ConstantsAssumption DEF Crosses, ReadTask, StateAsExpected, States
      <3> QED BY <3>1 DEF Crosses, NeedsEvidence
    <2>3. Goes(s, "read", r)
      BY <1>3 DEF ReadTask
    <2> HIDE DEF g
    <2>4. r \in Request /\ r.at = "links" /\ r.gated = g /\ r.ask = q.ask
      BY <1>0, <2>1 DEF Request
    <2> HIDE DEF r
    <2> QED BY <1>1, <2>2, <2>3, <2>4
  <1>4. CASE ReadLinks(s)
    <2>1. q.at = "links"
      BY <1>4 DEF ReadLinks, Goes
    <2>2. CASE q.gated
      <3> DEFINE r == [q EXCEPT !.at = "gate", !.refs = links]
      <3>1. Goes(s, "links", r)
        BY <1>4, <2>2 DEF ReadLinks
      <3>2. r \in Request /\ r.at = "gate"
        BY <1>0 DEF Request
      <3> HIDE DEF r
      <3> QED BY <1>1, <3>1, <3>2
    <2>3. CASE ~q.gated
      <3> DEFINE r == [q EXCEPT !.at = "load"]
      <3>1. Goes(s, "links", r)
        BY <1>4, <2>3 DEF ReadLinks
      <3>2. r \in Request /\ r.at = "load" /\ r.ask = q.ask
        BY <1>0 DEF Request
      <3>3. ~Crosses(q.ask)
        BY <2>1, <2>3 DEF UpdateInv, EvidenceFirst
      <3> HIDE DEF r
      <3> QED BY <1>1, <3>1, <3>2, <3>3
    <2> QED BY <2>2, <2>3
  <1>5. CASE ValidateStateEntry(s)
    <2> DEFINE r == [q EXCEPT !.at = "load", !.gated = FALSE, !.refs = {}, !.verified = q.ask.state]
    <2>1. Goes(s, "gate", r)
      BY <1>5 DEF ValidateStateEntry
    <2>2. r \in Request /\ r.at = "load" /\ r.ask = q.ask /\ r.verified = q.ask.state
      BY <1>0 DEF Request
    <2> HIDE DEF r
    <2> QED BY <1>1, <2>1, <2>2
  <1>6. CASE Load(s)
    <2> DEFINE r == [q EXCEPT !.at = "write", !.cur = row]
    <2>1. Goes(s, "load", r) /\ q.at = "load"
      BY <1>6 DEF Load, Goes
    <2>2. /\ r \in Request /\ r.at = "write" /\ r.ask = q.ask /\ r.cur = row
          /\ r.verified = q.verified
      BY <1>0 DEF Request
    <2>3. q.ask.force \/ row.owner \in {Nobody, s}
      BY <1>6 DEF Load, MayUpdate
    <2>4. q.ask.ifState \in {Unset, row.state}
      BY <1>6 DEF Load, StateAsExpected
    <2>5. Crosses(q.ask) => q.verified = q.ask.state
      BY <2>1 DEF UpdateInv, EvidenceFirst
    <2> HIDE DEF r
    <2> QED BY <1>1, <2>1, <2>2, <2>3, <2>4, <2>5
  <1>7. CASE Retry(s)
    <2> DEFINE r == [q EXCEPT !.at = "load", !.cur = FirstRow, !.attempt = @ + 1]
    <2>1. Goes(s, q.at, r) /\ q.at \in {"load", "write"} /\ q.attempt < MaxAttempts
      BY <1>7 DEF Retry, Conflict
    <2>2. q.attempt + 1 \in 1 .. MaxAttempts
      BY <1>0, <2>1, ConstantsAssumption
    <2>3. r \in Request /\ r.at = "load" /\ r.ask = q.ask /\ r.verified = q.verified
      BY <1>0, <2>2, ConstantFacts DEF Request
    <2>4. Crosses(q.ask) => q.verified = q.ask.state
      BY <2>1 DEF UpdateInv, EvidenceFirst
    <2> HIDE DEF r
    <2> QED BY <1>1, <2>1, <2>3, <2>4
  <1>8. CASE Refuse(s)
    BY <1>1, <1>8, ConstantFacts DEF Refuse
  <1> QED BY <1>2, <1>3, <1>4, <1>5, <1>6, <1>7, <1>8

LEMMA InvStep == UpdateInv /\ [Next]_vars => UpdateInv'
  <1> SUFFICES ASSUME UpdateInv, [Next]_vars PROVE UpdateInv'
    OBVIOUS
  <1> USE DEF UpdateInv, ReadAllows, EvidenceFirst, MayUpdate, StateAsExpected
  <1>1. CASE UNCHANGED vars
    BY <1>1 DEF vars, TypeOK
  <1>2. CASE DeleteTask
    BY <1>2, ConstantFacts DEF DeleteTask, TypeOK
  <1>3. ASSUME NEW o \in Sessions, ChangeOwner(o) PROVE UpdateInv'
    <2>1. row' \in Row
      BY <1>3 DEF ChangeOwner, TypeOK, Row
    <2> QED BY <1>3, <2>1 DEF ChangeOwner, TypeOK
  <1>4. ASSUME NEW p \in PullRequests,
               \/ AddLink(p) \/ DeleteLink(p)
               \/ \E to \in PullRequestStates : ChangePullRequest(p, to)
        PROVE  UpdateInv'
    BY <1>4 DEF AddLink, DeleteLink, ChangePullRequest, TypeOK
  <1>5. ASSUME NEW s \in Sessions,
               \/ \E ask \in Asks : StartUpdate(s, ask)
               \/ ReadTask(s) \/ ReadLinks(s) \/ ValidateStateEntry(s)
               \/ Load(s) \/ Retry(s) \/ Refuse(s)
        PROVE  UpdateInv'
    <2>1. PICK r \in Request :
              /\ Goes(s, req[s].at, r)
              /\ r.at = "write" =>
                    /\ r.ask.force \/ r.cur.owner \in {Nobody, s}
                    /\ r.ask.ifState \in {Unset, r.cur.state}
              /\ Crosses(r.ask) =>
                    /\ r.at = "links" => r.gated
                    /\ r.at \in {"load", "write"} => r.verified = r.ask.state
      BY <1>5, QuietSteps
    <2>2. /\ TypeOK' /\ req'[s] = r
          /\ \A x \in Sessions : x # s => req'[x] = req[x]
      BY <2>1, GoesFacts
    <2>3. ReadAllows'
      BY <2>1, <2>2
    <2>4. EvidenceFirst'
      BY <2>1, <2>2
    <2> QED BY <2>2, <2>3, <2>4
  <1>6. ASSUME NEW s \in Sessions, Write(s) PROVE UpdateInv'
    <2>1. req' = [req EXCEPT ![s] = NoRequest] /\ UNCHANGED <<live, links, pr>>
      BY <1>6 DEF Write
    <2>2. req' \in [Sessions -> Request]
      BY <2>1, ConstantFacts DEF TypeOK
    <2>3. row' \in Row
      <3>1. Apply(req[s].cur, req[s].ask) \in Row /\ row.owner \in Sessions
        BY ApplyFacts DEF TypeOK, Request, Row
      <3> QED BY <1>6, <3>1 DEF Write, Row
    <2>4. TypeOK'
      BY <2>1, <2>2, <2>3 DEF TypeOK
    <2> QED BY <2>1, <2>4, ConstantFacts DEF TypeOK
  <1> QED
    BY <1>1, <1>2, <1>3, <1>4, <1>5, <1>6 DEF Next, Advance

LEMMA InitInv == Init => UpdateInv
  <1> SUFFICES ASSUME Init PROVE UpdateInv
    OBVIOUS
  <1>1. TypeOK
    BY ConstantFacts DEF Init, TypeOK, PullRequestStates
  <1>2. \A s \in Sessions : req[s].at = "idle"
    BY ConstantFacts DEF Init
  <1> QED BY <1>1, <1>2 DEF UpdateInv, ReadAllows, EvidenceFirst

LEMMA Invariance == Spec => []UpdateInv
  BY InitInv, InvStep, PTL DEF Spec

(* What a write does, from what it is guarded by.                          *)
LEMMA WriteFacts ==
    ASSUME UpdateInv, NEW s \in Sessions, Write(s)
    PROVE  LET ask == req[s].ask IN
           /\ ask.ifState # Unset /\ row'.state # row.state /\ row'.state \in Gated
                 => req[s].verified = row'.state
           /\ HasLabelOps(ask) => row'.labels = (row.labels \ ask.remove) \cup ask.add
           /\ ask.append # Unset => row'.description = Append(row.description, ask.append)
           /\ ~ask.force => row.owner \in {Nobody, s}
  <1> DEFINE ask == req[s].ask
             cur == req[s].cur
  <1>1. cur \in Row /\ ask \in Asks /\ row \in Row
    BY DEF UpdateInv, TypeOK, Request
  <1>2. /\ row'.state = Apply(cur, ask).state
        /\ row'.labels = Apply(cur, ask).labels
        /\ row'.description = Apply(cur, ask).description
    <2>1. Apply(cur, ask) \in Row
      BY <1>1, ApplyFacts
    <2> QED BY <2>1 DEF Write, Row
  <1>3. /\ StateAsExpected(s, row.state)
        /\ ask.force \/ row.owner = cur.owner
        /\ HasLabelOps(ask) => row.labels = cur.labels
        /\ ask.append # Unset => row.description = cur.description
    BY DEF Write, WriteGuard
  <1>4. MayUpdate(s, cur.owner) /\ StateAsExpected(s, cur.state)
    BY DEF UpdateInv, ReadAllows, Write
  <1>5. ASSUME ask.ifState # Unset, row'.state # row.state, row'.state \in Gated
        PROVE  req[s].verified = row'.state
    <2>1. row.state = ask.ifState /\ cur.state = ask.ifState
      BY <1>3, <1>4, <1>5 DEF StateAsExpected
    <2>2. ask.state # Unset /\ row'.state = ask.state
      BY <1>1, <1>2, <1>5, <2>1, ApplyFacts
    <2>3. Crosses(ask)
      BY <1>5, <2>1, <2>2 DEF Crosses
    <2> QED BY <2>2, <2>3 DEF UpdateInv, EvidenceFirst, Write
  <1>6. HasLabelOps(ask) => row'.labels = (row.labels \ ask.remove) \cup ask.add
    BY <1>1, <1>2, <1>3, ApplyFacts
  <1>7. ask.append # Unset => row'.description = Append(row.description, ask.append)
    BY <1>1, <1>2, <1>3, ApplyFacts
  <1>8. ~ask.force => row.owner \in {Nobody, s}
    BY <1>3, <1>4 DEF MayUpdate
  <1> QED BY <1>5, <1>6, <1>7, <1>8

-----------------------------------------------------------------------------
(* The results.                                                            *)

(* Every variable keeps its type, whatever requests callers send.          *)
THEOREM TypeCorrect == Spec => []TypeOK
  <1>1. UpdateInv => TypeOK
    BY DEF UpdateInv
  <1> QED BY <1>1, Invariance, PTL

(* An update that carries if_state never enters review or done without the *)
(* evidence, whatever runs beside it.                                      *)
THEOREM ConditionalEntries == Spec => ConditionalEntryVerified
  <1>1. UpdateInv =>
          \A s \in Sessions :
             Write(s) /\ row'.state # row.state /\ row'.state \in Gated /\ req[s].ask.ifState # Unset
             => req[s].verified = row'.state
    BY WriteFacts
  <1> QED BY <1>1, Invariance, PTL DEF ConditionalEntryVerified

(* A label operation or append takes effect exactly on what is stored.     *)
THEOREM IncrementsExact == Spec => IncrementalExact
  <1>1. UpdateInv =>
          \A s \in Sessions :
             LET ask == req[s].ask IN
             Write(s) =>
               /\ HasLabelOps(ask) => row'.labels = (row.labels \ ask.remove) \cup ask.add
               /\ ask.append # Unset => row'.description = Append(row.description, ask.append)
    BY WriteFacts
  <1> QED BY <1>1, Invariance, PTL DEF IncrementalExact

(* An update without force never changes another agent's task.             *)
THEOREM ClaimsRespected == Spec => ClaimRespected
  <1>1. UpdateInv =>
          \A s \in Sessions :
             Write(s) /\ ~req[s].ask.force => row.owner \in {Nobody, s}
    BY WriteFacts
  <1> QED BY <1>1, Invariance, PTL DEF ClaimRespected
=============================================================================
