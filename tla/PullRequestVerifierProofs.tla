--------------------- MODULE PullRequestVerifierProofs ---------------------
(* Proofs about PullRequestVerifier for any callers, pull requests, links,   *)
(* credentials and page size.                                              *)
EXTENDS PullRequestVerifier, FiniteSetTheorems, TLAPS

-----------------------------------------------------------------------------
(* The inductive invariant.                                                *)

(* What was seen of the current pull request of the gate q: the pages turned *)
(* are full; what is clear now has been clear; if no thread has counted so   *)
(* far, each on the pages turned has been clear; and whatever spoke against  *)
(* it made it deficient.                                                   *)
PagesTrue(q, seen, lacking) ==
    LET p == pr[q.current] IN
    /\ q.after <= Len(p.threads)
    /\ ClearThreads(p) \subseteq seen
    /\ q.threads = 0 => \A i \in DOMAIN p.threads : i <= q.after => i \in seen
    /\ q.target = "done" /\ (q.threads > 0 \/ ~GoodChecks(q.rollup)) => q.current \in lacking

(* Every pull request without evidence is known to lack it, as is every one  *)
(* that was left behind without an error.                                  *)
RefusalsTrue(q, lacking) ==
    /\ \A p \in PRs : ~Evidence(q.target, pr[p]) => p \in lacking
    /\ ~q.unavailable => q.linked \subseteq lacking \cup q.left \cup {q.current}

GateOK(q, seen, lacking) ==
    /\ q.at = "idle" => q.linked = {}
    /\ q.at # "idle" => PagesTrue(q, seen, lacking) /\ RefusalsTrue(q, lacking)

GateInv == TypeOK /\ \A c \in Callers : GateOK(req[c], clear[c], deficient[c])

-----------------------------------------------------------------------------
(* Typing.                                                                 *)

LEMMA BoundsTyped == PageSize \in Nat \ {0} /\ MaxChanges \in Nat
  BY ConstantsAssumption, Zenon

LEMMA NoRequestTyped == NoRequest \in Request /\ NoRequest.at = "idle" /\ NoRequest.linked = {}
  BY DEF NoRequest, Request, Targets, Checks

LEMMA VerifyingTyped ==
    ASSUME NEW target \in Targets, NEW linked \in SUBSET PRs, NEW p \in PRs,
           NEW left \in SUBSET PRs, NEW u \in BOOLEAN
    PROVE  LET q == Verifying(target, linked, p, left, u) IN
           /\ q \in Request /\ q.at = "token" /\ q.target = target /\ q.linked = linked
           /\ q.current = p /\ q.left = left /\ q.unavailable = u
           /\ q.threads = 0 /\ q.after = 0 /\ GoodChecks(q.rollup)
  BY DEF Verifying, NoRequest, Request, Targets, Checks, GoodChecks

(* The current pull request and its threads.                               *)
LEMMA CurrentTyped ==
    ASSUME TypeOK, NEW c \in Callers, Open(c)
    PROVE  /\ req[c] \in Request /\ req[c].current \in PRs
           /\ pr[req[c].current] \in PullRequest
           /\ pr[req[c].current].threads \in Seq(BOOLEAN)
           /\ DOMAIN pr[req[c].current].threads = 1 .. Len(pr[req[c].current].threads)
           /\ Len(pr[req[c].current].threads) \in Nat
  BY DEF TypeOK, Open, PullRequest

(* The threads of a page that block.                                       *)
LEMMA BlockingCounts ==
    ASSUME TypeOK, NEW c \in Callers, Open(c)
    PROVE  LET threads == pr[req[c].current].threads
               page == DOMAIN threads \cap (req[c].after + 1 .. req[c].after + PageSize)
           IN  /\ Blocking(c) \in Nat /\ Blocking(c) >= req[c].threads
               /\ Blocking(c) = 0 => req[c].threads = 0 /\ \A i \in page : ~threads[i]
               /\ Blocking(c) > 0 => req[c].threads > 0 \/ \E i \in page : threads[i]
  <1> DEFINE threads == pr[req[c].current].threads
             page == DOMAIN threads \cap (req[c].after + 1 .. req[c].after + PageSize)
             S == {i \in page : threads[i]}
  <1>1. req[c].threads \in Nat /\ req[c].after \in Nat
    BY CurrentTyped DEF Request
  <1>2. IsFiniteSet(S)
    <2>1. IsFiniteSet(req[c].after + 1 .. req[c].after + PageSize)
      <3>1. req[c].after + 1 \in Int /\ req[c].after + PageSize \in Int
        BY <1>1, BoundsTyped
      <3> QED BY <3>1, FS_Interval
    <2>2. S \subseteq req[c].after + 1 .. req[c].after + PageSize
      OBVIOUS
    <2> QED BY <2>1, <2>2, FS_Subset
  <1>3. Cardinality(S) \in Nat /\ (Cardinality(S) = 0 <=> S = {})
    BY <1>2, FS_CardinalityType, FS_EmptySet
  <1>4. Blocking(c) = req[c].threads + Cardinality(S)
    BY DEF Blocking
  <1> HIDE DEF S
  <1>5. S = {} <=> \A i \in page : ~threads[i]
    BY DEF S
  <1> QED BY <1>1, <1>3, <1>4, <1>5

-----------------------------------------------------------------------------
(* The invariant is inductive.                                             *)

LEMMA InitInv == ASSUME Init PROVE GateInv
  <1>1. pr \in [PRs -> PullRequest]
    BY ConstantsAssumption DEF Init, PullRequest, States, Checks
  <1>2. TypeOK
    <2>1. 0 \in 0 .. MaxChanges
      BY BoundsTyped
    <2>2. Environment \in Tokens \cup {None}
      BY ConstantsAssumption
    <2> QED BY <1>1, <2>1, NoRequestTyped DEF Init, TypeOK, Verdicts
  <1>3. ASSUME NEW c \in Callers PROVE GateOK(req[c], clear[c], deficient[c])
    BY NoRequestTyped DEF Init, GateOK
  <1> QED BY <1>2, <1>3 DEF GateInv

(* One gate moves on and GitHub stands still.                              *)
LEMMA GateMoves ==
    ASSUME GateInv, TypeOK', NEW c \in Callers, NEW q \in Request, NEW seen, NEW lacking,
           pr' = pr, req' = [req EXCEPT ![c] = q],
           clear' = [clear EXCEPT ![c] = seen], deficient' = [deficient EXCEPT ![c] = lacking],
           GateOK(q, seen, lacking)
    PROVE  GateInv'
  <1>1. GateOK(q, seen, lacking)'
    BY DEF GateOK, PagesTrue, RefusalsTrue
  <1>2. ASSUME NEW d \in Callers PROVE GateOK(req[d], clear[d], deficient[d])'
    <2>1. CASE d = c
      <3>1. req'[d] = q /\ clear'[d] = seen /\ deficient'[d] = lacking
        BY <2>1 DEF GateInv, TypeOK
      <3> QED BY <3>1, <1>1 DEF GateOK, PagesTrue, RefusalsTrue
    <2>2. CASE d # c
      <3>1. req'[d] = req[d] /\ clear'[d] = clear[d] /\ deficient'[d] = deficient[d]
        BY <2>2 DEF GateInv, TypeOK
      <3>2. GateOK(req[d], clear[d], deficient[d])
        BY DEF GateInv
      <3> QED BY <3>1, <3>2 DEF GateOK, PagesTrue, RefusalsTrue
    <2> QED BY <2>1, <2>2
  <1> QED BY <1>2 DEF GateInv

(* GitHub moves: threads are never taken away.                             *)
LEMMA ChangeInv ==
    ASSUME GateInv, NEW p \in PRs, NEW now \in PullRequest,
           Len(now.threads) >= Len(pr[p].threads), Change(p, now)
    PROVE  GateInv'
  <1>1. /\ pr' \in [PRs -> PullRequest]
        /\ pr'[p] = now /\ \A o \in PRs : o # p => pr'[o] = pr[o]
    BY DEF Change, GateInv, TypeOK
  <1>2. now.threads \in Seq(BOOLEAN)
    BY DEF PullRequest
  <1>3. changes' \in 0 .. MaxChanges
    BY BoundsTyped DEF Change, GateInv, TypeOK
  <1>4. ClearThreads(now) \subseteq Nat
    BY <1>2 DEF ClearThreads
  <1>5. clear' \in [Callers -> SUBSET Nat] /\ deficient' \in [Callers -> SUBSET PRs]
    BY <1>4 DEF Change, GateInv, TypeOK
  <1>6. TypeOK'
    BY <1>1, <1>3, <1>5 DEF Change, GateInv, TypeOK
  <1>7. ASSUME NEW c \in Callers, req[c].at # "idle"
        PROVE  GateOK(req[c], clear[c], deficient[c])'
    <2>1. req' = req
      BY DEF Change
    <2>2. Open(c)
      BY <1>7 DEF Open
    <2>3. PagesTrue(req[c], clear[c], deficient[c]) /\ RefusalsTrue(req[c], deficient[c])
      BY <1>7 DEF GateInv, GateOK
    <2>4. req[c] \in Request /\ req[c].current \in PRs
      BY <2>2, CurrentTyped DEF GateInv
    <2>5. deficient'[c] = IF ~Evidence(req[c].target, now) THEN deficient[c] \cup {p} ELSE deficient[c]
      BY <2>2 DEF Change
    <2>6. RefusalsTrue(req[c], deficient[c])'
      BY <1>1, <2>1, <2>3, <2>4, <2>5 DEF RefusalsTrue, Evidence
    <2>7. CASE req[c].current # p
      <3>1. clear'[c] = clear[c]
        BY <2>7 DEF Change
      <3>2. pr'[req[c].current] = pr[req[c].current]
        BY <1>1, <2>4, <2>7
      <3>3. PagesTrue(req[c], clear[c], deficient[c])'
        BY <2>1, <2>3, <2>5, <3>1, <3>2 DEF PagesTrue
      <3> QED BY <1>7, <2>1, <2>6, <3>3 DEF GateOK
    <2>8. CASE req[c].current = p
      <3>1. clear'[c] = clear[c] \cup ClearThreads(now)
        BY <2>2, <2>8 DEF Change
      <3>2. /\ pr[p].threads \in Seq(BOOLEAN) /\ Len(pr[p].threads) \in Nat
            /\ DOMAIN pr[p].threads = 1 .. Len(pr[p].threads)
            /\ DOMAIN now.threads = 1 .. Len(now.threads) /\ Len(now.threads) \in Nat
        BY <1>2, <2>2, <2>8, CurrentTyped DEF GateInv
      <3>3. req[c].after \in Nat /\ req[c].after <= Len(pr[p].threads)
        BY <2>3, <2>4, <2>8 DEF PagesTrue, Request
      <3>4. req[c].after <= Len(now.threads)
        BY <3>2, <3>3
      <3>5. req[c].threads = 0 =>
              \A i \in DOMAIN now.threads : i <= req[c].after => i \in clear[c]
        <4> SUFFICES ASSUME req[c].threads = 0, NEW i \in DOMAIN now.threads, i <= req[c].after
                     PROVE  i \in clear[c]
          OBVIOUS
        <4>1. i \in DOMAIN pr[p].threads
          BY <3>2, <3>3
        <4> QED BY <4>1, <2>3, <2>8 DEF PagesTrue
      <3>6. PagesTrue(req[c], clear[c], deficient[c])'
        BY <1>1, <2>1, <2>3, <2>5, <2>8, <3>1, <3>4, <3>5 DEF PagesTrue, ClearThreads
      <3> QED BY <1>7, <2>1, <2>6, <3>6 DEF GateOK
    <2> QED BY <2>7, <2>8
  <1>8. ASSUME NEW c \in Callers, req[c].at = "idle"
        PROVE  GateOK(req[c], clear[c], deficient[c])'
    BY <1>8 DEF GateInv, GateOK, Change
  <1> QED BY <1>6, <1>7, <1>8 DEF GateInv

LEMMA GitHubInv ==
    ASSUME GateInv, NEW p \in PRs,
           \/ \E s \in States : ChangeState(p, s)
           \/ \E k \in Checks : ChangeChecks(p, k)
           \/ ChangeVisible(p)
           \/ AddThread(p)
           \/ \E i \in DOMAIN pr[p].threads : ToggleThread(p, i)
    PROVE  GateInv'
  <1>1. /\ pr[p] \in PullRequest /\ pr[p].threads \in Seq(BOOLEAN)
        /\ Len(pr[p].threads) \in Nat
        /\ DOMAIN pr[p].threads = 1 .. Len(pr[p].threads)
    BY DEF GateInv, TypeOK, PullRequest
  <1>2. ASSUME NEW s \in States, ChangeState(p, s) PROVE GateInv'
    <2> DEFINE now == [pr[p] EXCEPT !.state = s]
    <2>1. now \in PullRequest /\ now.threads = pr[p].threads
      BY <1>1 DEF PullRequest
    <2>2. Len(now.threads) >= Len(pr[p].threads)
      BY <1>1, <2>1
    <2>3. Change(p, now)
      BY <1>2 DEF ChangeState
    <2> HIDE DEF now
    <2> QED BY <2>1, <2>2, <2>3, ChangeInv
  <1>3. ASSUME NEW k \in Checks, ChangeChecks(p, k) PROVE GateInv'
    <2> DEFINE now == [pr[p] EXCEPT !.checks = k]
    <2>1. now \in PullRequest /\ now.threads = pr[p].threads
      BY <1>1 DEF PullRequest
    <2>2. Len(now.threads) >= Len(pr[p].threads)
      BY <1>1, <2>1
    <2>3. Change(p, now)
      BY <1>3 DEF ChangeChecks
    <2> HIDE DEF now
    <2> QED BY <2>1, <2>2, <2>3, ChangeInv
  <1>4. CASE ChangeVisible(p)
    <2> DEFINE now == [pr[p] EXCEPT !.visible = ~@]
    <2>1. now \in PullRequest /\ now.threads = pr[p].threads
      BY <1>1 DEF PullRequest
    <2>2. Len(now.threads) >= Len(pr[p].threads)
      BY <1>1, <2>1
    <2>3. Change(p, now)
      BY <1>4 DEF ChangeVisible
    <2> HIDE DEF now
    <2> QED BY <2>1, <2>2, <2>3, ChangeInv
  <1>5. CASE AddThread(p)
    <2> DEFINE longer == Append(pr[p].threads, TRUE)
               now == [pr[p] EXCEPT !.threads = Append(@, TRUE)]
    <2>1. longer \in Seq(BOOLEAN) /\ Len(longer) = Len(pr[p].threads) + 1
      BY <1>1
    <2>2. now \in PullRequest /\ now.threads = longer
      BY <1>1, <2>1 DEF PullRequest
    <2>3. Len(now.threads) >= Len(pr[p].threads)
      BY <1>1, <2>1, <2>2
    <2> QED BY <1>5, <2>2, <2>3, ChangeInv DEF AddThread
  <1>6. ASSUME NEW i \in DOMAIN pr[p].threads, ToggleThread(p, i) PROVE GateInv'
    <2> DEFINE toggled == [pr[p].threads EXCEPT ![i] = ~@]
               now == [pr[p] EXCEPT !.threads[i] = ~@]
    <2>1. toggled \in Seq(BOOLEAN) /\ Len(toggled) = Len(pr[p].threads)
      BY <1>1
    <2>2. now \in PullRequest /\ now.threads = toggled
      BY <1>1, <2>1 DEF PullRequest
    <2>3. Len(now.threads) >= Len(pr[p].threads)
      BY <1>1, <2>1, <2>2
    <2> QED BY <1>6, <2>2, <2>3, ChangeInv DEF ToggleThread
  <1> QED BY <1>2, <1>3, <1>4, <1>5, <1>6

LEMMA OperatorInv ==
    ASSUME GateInv, NEW k \in Tokens, Login(k) \/ Revoke(k)
    PROVE  GateInv'
  <1>1. TypeOK'
    BY DEF GateInv, TypeOK, Login, Revoke
  <1> QED BY <1>1 DEF GateInv, GateOK, PagesTrue, RefusalsTrue, Login, Revoke

(* A gate opens, or turns to the next pull request: nothing has been seen.  *)
LEMMA Turned ==
    ASSUME TypeOK, NEW q \in Request, NEW lacking \in SUBSET PRs,
           q.at # "idle", q.current \in PRs, q.threads = 0, q.after = 0, GoodChecks(q.rollup),
           \A o \in PRs : ~Evidence(q.target, pr[o]) => o \in lacking,
           q.unavailable \/ q.linked \subseteq lacking \cup q.left \cup {q.current}
    PROVE  GateOK(q, ClearThreads(pr[q.current]), lacking)
  <1>1. /\ pr[q.current].threads \in Seq(BOOLEAN) /\ Len(pr[q.current].threads) \in Nat
        /\ DOMAIN pr[q.current].threads = 1 .. Len(pr[q.current].threads)
    BY DEF TypeOK, PullRequest
  <1>2. \A i \in DOMAIN pr[q.current].threads : ~(i <= q.after)
    BY <1>1
  <1>3. q.after <= Len(pr[q.current].threads) /\ ~(q.threads > 0)
    BY <1>1
  <1>4. PagesTrue(q, ClearThreads(pr[q.current]), lacking)
    BY <1>2, <1>3, Zenon DEF PagesTrue
  <1>5. RefusalsTrue(q, lacking)
    BY Zenon DEF RefusalsTrue
  <1> QED BY <1>4, <1>5, Zenon DEF GateOK

LEMMA ClearTyped ==
    ASSUME TypeOK, NEW p \in PRs
    PROVE  ClearThreads(pr[p]) \subseteq Nat
  <1>1. pr[p].threads \in Seq(BOOLEAN)
    BY DEF TypeOK, PullRequest
  <1> QED BY <1>1 DEF ClearThreads

LEMMA BeginInv ==
    ASSUME GateInv, NEW c \in Callers, NEW target \in Targets, NEW links \in Links[c],
           Begin(c, target, links)
    PROVE  GateInv'
  <1>1. TypeOK
    BY DEF GateInv
  <1>2. LinkedPullRequests(links) \subseteq PRs
    BY ConstantsAssumption DEF LinkedPullRequests
  <1>3. CASE /\ verdict' = [verdict EXCEPT ![c] = "blocked"]
             /\ UNCHANGED <<req, clear, deficient>>
    <2>1. TypeOK'
      BY <1>1, <1>3 DEF TypeOK, Begin, Verdicts
    <2> QED BY <1>3, <2>1 DEF GateInv, GateOK, PagesTrue, RefusalsTrue, Begin
  <1>4. ASSUME NEW p \in LinkedPullRequests(links),
               req' = [req EXCEPT ![c] = Verifying(target, LinkedPullRequests(links), p,
                                                   LinkedPullRequests(links) \ {p}, FALSE)],
               verdict' = [verdict EXCEPT ![c] = "none"],
               clear' = [clear EXCEPT ![c] = ClearThreads(pr[p])],
               deficient' = [deficient EXCEPT ![c] = {q \in PRs : ~Evidence(target, pr[q])}]
        PROVE  GateInv'
    <2> DEFINE linked == LinkedPullRequests(links)
               q == Verifying(target, linked, p, linked \ {p}, FALSE)
               lacking == {o \in PRs : ~Evidence(target, pr[o])}
    <2>1. p \in PRs /\ linked \in SUBSET PRs /\ linked \ {p} \in SUBSET PRs
      BY <1>2, <1>4
    <2>2. /\ q \in Request /\ q.at = "token" /\ q.target = target /\ q.linked = linked
          /\ q.current = p /\ q.left = linked \ {p}
          /\ q.threads = 0 /\ q.after = 0 /\ GoodChecks(q.rollup)
      BY <2>1 DEF Verifying, NoRequest, Request, Targets, Checks, GoodChecks
    <2>3. GateOK(q, ClearThreads(pr[p]), lacking)
      <3> HIDE DEF q, linked
      <3>1. \A o \in PRs : ~Evidence(q.target, pr[o]) => o \in lacking
        BY <2>2
      <3>2. lacking \in SUBSET PRs
        OBVIOUS
      <3> HIDE DEF lacking
      <3>3. q.linked \subseteq lacking \cup q.left \cup {q.current}
        BY <2>2
      <3> QED BY <1>1, <2>1, <2>2, <3>1, <3>2, <3>3, Turned
    <2>4. ClearThreads(pr[p]) \subseteq Nat
      BY <1>1, <2>1, ClearTyped
    <2>5. TypeOK'
      <3> HIDE DEF q, lacking
      <3>1. req' = [req EXCEPT ![c] = q] /\ lacking \in SUBSET PRs
        BY <1>4 DEF q, lacking
      <3>2. req' \in [Callers -> Request] /\ \A d \in Callers : req'[d] = IF d = c THEN q ELSE req[d]
        BY <1>1, <2>2, <3>1 DEF TypeOK
      <3>3. deficient' = [deficient EXCEPT ![c] = lacking]
        BY <1>4 DEF lacking
      <3> QED BY <1>1, <1>4, <2>1, <2>2, <2>4, <3>1, <3>2, <3>3 DEF TypeOK, Begin, Verdicts
    <2>6. pr' = pr
      BY DEF Begin
    <2> HIDE DEF q, lacking
    <2>7. req' = [req EXCEPT ![c] = q] /\ deficient' = [deficient EXCEPT ![c] = lacking]
      BY <1>4 DEF q, lacking
    <2> QED BY <1>4, <2>2, <2>3, <2>5, <2>6, <2>7, GateMoves
  <1> QED BY <1>3, <1>4 DEF Begin

(* What a step of a gate leaves to the gates.                              *)
Around ==
    /\ UNCHANGED <<pr, gh, valid, changes>>
    /\ cached' \in Tokens \cup {None} /\ locked' \in Callers \cup {None}

LEMMA FinishInv ==
    ASSUME GateInv, NEW c \in Callers, NEW answer \in Verdicts, Finish(c, answer), Around
    PROVE  GateInv'
  <1>1. NoRequest \in Request /\ NoRequest.at = "idle" /\ NoRequest.linked = {}
    BY NoRequestTyped
  <1>2. TypeOK'
    BY <1>1 DEF GateInv, TypeOK, Finish, Around
  <1>3. GateOK(NoRequest, {}, {})
    BY <1>1, Zenon DEF GateOK
  <1>4. /\ pr' = pr /\ req' = [req EXCEPT ![c] = NoRequest]
        /\ clear' = [clear EXCEPT ![c] = {}] /\ deficient' = [deficient EXCEPT ![c] = {}]
    BY DEF Finish, Around
  <1> QED BY <1>1, <1>2, <1>3, <1>4, GateMoves

LEMMA NoEvidenceInv ==
    ASSUME GateInv, NEW c \in Callers, Open(c), NEW u \in BOOLEAN, NoEvidence(c, u), Around,
           u \/ (~req[c].unavailable /\ req[c].current \in deficient[c])
    PROVE  GateInv'
  <1>1. TypeOK /\ req[c] \in Request
    BY DEF GateInv, TypeOK
  <1>2. CASE Missing(c, u)
    <2>1. (IF u THEN "unavailable" ELSE "blocked") \in Verdicts
      BY DEF Verdicts
    <2> QED BY <1>2, <2>1, FinishInv DEF Missing
  <1>3. ASSUME NEW p \in req[c].left,
               req' = [req EXCEPT ![c] = Verifying(req[c].target, req[c].linked, p,
                                                   req[c].left \ {p}, u)],
               clear' = [clear EXCEPT ![c] = ClearThreads(pr[p])],
               UNCHANGED <<verdict, deficient>>
        PROVE  GateInv'
    <2> DEFINE q == Verifying(req[c].target, req[c].linked, p, req[c].left \ {p}, u)
    <2>1. /\ p \in PRs /\ req[c].left \ {p} \in SUBSET PRs /\ req[c].linked \in SUBSET PRs
          /\ req[c].target \in Targets
      BY <1>1, <1>3 DEF Request
    <2>2. /\ q \in Request /\ q.at = "token" /\ q.target = req[c].target
          /\ q.linked = req[c].linked /\ q.current = p /\ q.left = req[c].left \ {p}
          /\ q.threads = 0 /\ q.after = 0 /\ GoodChecks(q.rollup)
      BY <2>1 DEF Verifying, NoRequest, Request, Targets, Checks, GoodChecks
    <2>3. q.unavailable = u
      BY <2>1 DEF Verifying, NoRequest
    <2>4. q.at # "idle" /\ q.at # "query"
      BY <2>2
    <2> HIDE DEF q
    <2>5. RefusalsTrue(req[c], deficient[c])
      BY Zenon DEF GateInv, GateOK, Open
    <2>6. q.unavailable \/ q.linked \subseteq deficient[c] \cup q.left \cup {q.current}
      <3>1. ~u => req[c].linked \subseteq deficient[c] \cup req[c].left \cup {req[c].current}
        BY <2>5, Zenon DEF RefusalsTrue
      <3>2. ~u => req[c].linked \subseteq deficient[c] \cup req[c].left
        BY <3>1
      <3>3. ~u => q.linked \subseteq deficient[c] \cup q.left \cup {q.current}
        BY <2>2, <3>2
      <3> QED BY <2>3, <3>3, Zenon
    <2>7. \A o \in PRs : ~Evidence(q.target, pr[o]) => o \in deficient[c]
      BY <2>2, <2>5 DEF RefusalsTrue
    <2>8. deficient[c] \in SUBSET PRs
      BY <1>1 DEF TypeOK
    <2>9. GateOK(q, ClearThreads(pr[p]), deficient[c])
      BY <1>1, <2>1, <2>2, <2>6, <2>7, <2>8, Turned
    <2>10. ClearThreads(pr[p]) \subseteq Nat
      BY <1>1, <2>1, ClearTyped
    <2>11. req' = [req EXCEPT ![c] = q]
      BY <1>3 DEF q
    <2>12. deficient' = [deficient EXCEPT ![c] = deficient[c]] /\ pr' = pr
      BY <1>1, <1>3 DEF TypeOK, Around
    <2>13. TypeOK'
      <3>1. req' \in [Callers -> Request]
        BY <1>1, <2>2, <2>11 DEF TypeOK
      <3>2. ASSUME NEW d \in Callers
            PROVE  /\ req'[d].at = "query" => req'[d].token # None
                   /\ req'[d].at # "idle" => req'[d].current \in PRs
        <4>1. CASE d = c
          BY <1>1, <2>1, <2>2, <2>4, <2>11, <4>1 DEF TypeOK
        <4>2. CASE d # c
          BY <1>1, <2>11, <4>2 DEF TypeOK
        <4> QED BY <4>1, <4>2
      <3>3. clear' \in [Callers -> SUBSET Nat]
        BY <1>1, <1>3, <2>10 DEF TypeOK
      <3> QED BY <1>1, <1>3, <3>1, <3>2, <3>3 DEF TypeOK, Around
    <2> QED BY <1>3, <2>2, <2>9, <2>11, <2>12, <2>13, GateMoves
  <1> QED BY <1>2, <1>3 DEF NoEvidence, Continue

(* A gate that gets its credential.                                        *)
LEMMA CredentialInv ==
    ASSUME GateInv, NEW c \in Callers, Open(c), Around, NEW at \in {"gh", "query"},
           NEW k \in Tokens \cup {None}, at = "query" => k # None,
           req' = [req EXCEPT ![c].at = at, ![c].token = k],
           UNCHANGED <<verdict, clear, deficient>>
    PROVE  GateInv'
  <1> DEFINE q == [req[c] EXCEPT !.at = at, !.token = k]
  <1>1. TypeOK /\ req[c] \in Request /\ req[c].current \in PRs
    BY CurrentTyped DEF GateInv
  <1>2. /\ q \in Request /\ q.at = at /\ q.token = k /\ q.target = req[c].target
        /\ q.linked = req[c].linked /\ q.current = req[c].current /\ q.left = req[c].left
        /\ q.after = req[c].after /\ q.threads = req[c].threads /\ q.rollup = req[c].rollup
    BY <1>1 DEF Request
  <1>3. q.unavailable <=> req[c].unavailable
    BY <1>1 DEF Request
  <1>4. req' = [req EXCEPT ![c] = q]
    BY <1>1 DEF TypeOK
  <1> HIDE DEF q
  <1>5. GateOK(q, clear[c], deficient[c])
    <2>1. PagesTrue(req[c], clear[c], deficient[c]) /\ RefusalsTrue(req[c], deficient[c])
      BY Zenon DEF GateInv, GateOK, Open
    <2>2. PagesTrue(q, clear[c], deficient[c])
      BY <1>2, <2>1 DEF PagesTrue
    <2>3. RefusalsTrue(q, deficient[c])
      BY <1>2, <1>3, <2>1 DEF RefusalsTrue
    <2>4. q.at # "idle"
      BY <1>2
    <2> QED BY <2>2, <2>3, <2>4 DEF GateOK
  <1>6. TypeOK'
    <2>1. req' \in [Callers -> Request]
      BY <1>1, <1>2, <1>4 DEF TypeOK
    <2>2. ASSUME NEW d \in Callers
          PROVE  /\ req'[d].at = "query" => req'[d].token # None
                 /\ req'[d].at # "idle" => req'[d].current \in PRs
      BY <1>1, <1>2, <1>4 DEF TypeOK
    <2> QED BY <1>1, <2>1, <2>2 DEF TypeOK, Around
  <1>7. /\ clear' = [clear EXCEPT ![c] = clear[c]]
        /\ deficient' = [deficient EXCEPT ![c] = deficient[c]] /\ pr' = pr
    BY <1>1 DEF TypeOK, Around
  <1> QED BY <1>2, <1>4, <1>5, <1>6, <1>7, GateMoves

LEMMA TokenInv ==
    ASSUME GateInv, NEW c \in Callers, Token(c), UNCHANGED <<pr, gh, valid, changes>>
    PROVE  GateInv'
  <1>1. TypeOK /\ Open(c)
    BY DEF GateInv, Token, Open
  <1>2. Environment \in Tokens \cup {None}
    BY ConstantsAssumption
  <1>3. ASSUME NEW k \in Tokens \cup {None}, k # None, cached' = k, UNCHANGED locked,
               req' = [req EXCEPT ![c].at = "query", ![c].token = k]
        PROVE  GateInv'
    <2>1. Around
      BY <1>1, <1>3 DEF Around, TypeOK
    <2>2. UNCHANGED <<verdict, clear, deficient>>
      BY DEF Token
    <2> QED BY <1>1, <1>3, <2>1, <2>2, CredentialInv
  <1>4. ASSUME locked' = c, UNCHANGED cached, req' = [req EXCEPT ![c].at = "gh"]
        PROVE  GateInv'
    <2>1. Around
      BY <1>1, <1>4 DEF Around, TypeOK
    <2>2. UNCHANGED <<verdict, clear, deficient>>
      BY DEF Token
    <2>3. req[c].token \in Tokens \cup {None}
      BY <1>1 DEF TypeOK, Request
    <2>4. req' = [req EXCEPT ![c].at = "gh", ![c].token = req[c].token]
      BY <1>1, <1>4 DEF TypeOK, Request
    <2> QED BY <1>1, <2>1, <2>2, <2>3, <2>4, CredentialInv
  <1>5. cached \in Tokens \cup {None}
    BY <1>1 DEF TypeOK
  <1> QED BY <1>2, <1>3, <1>4, <1>5 DEF Token

LEMMA RunGHInv ==
    ASSUME GateInv, NEW c \in Callers, RunGH(c), UNCHANGED <<pr, gh, valid, changes>>
    PROVE  GateInv'
  <1>1. TypeOK /\ Open(c)
    BY DEF GateInv, RunGH, Open
  <1>2. CASE NoEvidence(c, TRUE) /\ UNCHANGED cached
    <2>1. Around
      BY <1>1, <1>2 DEF Around, TypeOK, RunGH
    <2> QED BY <1>1, <1>2, <2>1, NoEvidenceInv
  <1>3. CASE /\ gh # None /\ cached' = gh
             /\ req' = [req EXCEPT ![c].at = "query", ![c].token = gh]
             /\ UNCHANGED <<verdict, clear, deficient>>
    <2>1. Around /\ gh \in Tokens \cup {None}
      BY <1>1, <1>3 DEF Around, TypeOK, RunGH
    <2> QED BY <1>1, <1>3, <2>1, CredentialInv
  <1> QED BY <1>2, <1>3 DEF RunGH

LEMMA ErrorsInv ==
    ASSUME GateInv, NEW c \in Callers, QueryFails(c) \/ NotFound(c),
           UNCHANGED <<pr, gh, valid, changes>>
    PROVE  GateInv'
  <1>1. TypeOK /\ Open(c) /\ req[c] \in Request /\ req[c].current \in PRs
    BY CurrentTyped DEF GateInv, QueryFails, NotFound, Open
  <1>2. Around
    BY <1>1 DEF Around, TypeOK, QueryFails, NotFound
  <1>3. CASE QueryFails(c)
    BY <1>1, <1>2, <1>3, NoEvidenceInv DEF QueryFails
  <1>4. CASE NotFound(c)
    <2>1. ~Evidence(req[c].target, pr[req[c].current])
      BY <1>4 DEF NotFound, Evidence
    <2>2. RefusalsTrue(req[c], deficient[c])
      BY <1>1 DEF GateInv, GateOK, Open
    <2>3. req[c].current \in deficient[c]
      BY <1>1, <2>1, <2>2, Zenon DEF RefusalsTrue
    <2>4. req[c].unavailable \in BOOLEAN /\ NoEvidence(c, req[c].unavailable)
      BY <1>1, <1>4 DEF NotFound, Request
    <2>5. req[c].unavailable \/ (~req[c].unavailable /\ req[c].current \in deficient[c])
      BY <2>3
    <2> QED BY <1>1, <1>2, <2>4, <2>5, NoEvidenceInv, Zenon
  <1> QED BY <1>3, <1>4

(* The rollup is this page's or that of the pages before it.               *)
LEMMA RollupCases ==
    ASSUME NEW c \in Callers
    PROVE  /\ Rollup(c) = pr[req[c].current].checks \/ Rollup(c) = req[c].rollup
           /\ GoodChecks(Rollup(c)) => GoodChecks(pr[req[c].current].checks)
  BY Zenon DEF Rollup, GoodChecks

(* What a page holds against a pull request is lacking now or was before.   *)
LEMMA AgainstIt ==
    ASSUME GateInv, NEW c \in Callers, Open(c), req[c].target = "done",
           Blocking(c) > 0 \/ ~GoodChecks(Rollup(c))
    PROVE  req[c].current \in deficient[c]
  <1> DEFINE p == pr[req[c].current]
             page == DOMAIN p.threads \cap (req[c].after + 1 .. req[c].after + PageSize)
  <1>1. TypeOK /\ req[c].current \in PRs
    BY CurrentTyped DEF GateInv
  <1>2. PagesTrue(req[c], clear[c], deficient[c]) /\ RefusalsTrue(req[c], deficient[c])
    BY Zenon DEF GateInv, GateOK, Open
  <1>3. ~Evidence("done", p) => req[c].current \in deficient[c]
    BY <1>1, <1>2, Zenon DEF RefusalsTrue
  <1>4. req[c].threads > 0 \/ ~GoodChecks(req[c].rollup) => req[c].current \in deficient[c]
    BY <1>2, Zenon DEF PagesTrue
  <1>5. CASE Blocking(c) > 0
    <2>1. req[c].threads > 0 \/ \E i \in page : p.threads[i]
      BY <1>1, <1>5, BlockingCounts
    <2>2. (\E i \in page : p.threads[i]) => ~Evidence("done", p)
      BY DEF Evidence
    <2> QED BY <1>3, <1>4, <2>1, <2>2
  <1>6. CASE ~GoodChecks(Rollup(c))
    <2>1. ~GoodChecks(p.checks) => ~Evidence("done", p)
      BY DEF Evidence
    <2> QED BY <1>3, <1>4, <1>6, <2>1, RollupCases
  <1> QED BY <1>5, <1>6

LEMMA NextPageInv ==
    ASSUME GateInv, NEW c \in Callers, Open(c), HasNextPage(c), Around, req[c].at = "query",
           req' = [req EXCEPT ![c].after = req[c].after + PageSize, ![c].threads = Blocking(c),
                              ![c].rollup = Rollup(c)],
           UNCHANGED <<verdict, clear, deficient>>
    PROVE  GateInv'
  <1> DEFINE q == [req[c] EXCEPT !.after = req[c].after + PageSize, !.threads = Blocking(c),
                                 !.rollup = Rollup(c)]
             p == pr[req[c].current]
  <1>1. /\ TypeOK /\ req[c] \in Request /\ req[c].current \in PRs
        /\ p \in PullRequest /\ Len(p.threads) \in Nat /\ DOMAIN p.threads = 1 .. Len(p.threads)
    BY CurrentTyped DEF GateInv
  <1>2. req[c].after \in Nat /\ req[c].rollup \in Checks /\ p.checks \in Checks
    BY <1>1, Zenon DEF Request, PullRequest
  <1>3. /\ Rollup(c) \in Checks /\ Blocking(c) \in Nat
        /\ Blocking(c) = 0 => req[c].threads = 0
        /\ Blocking(c) = 0 => \A i \in DOMAIN p.threads \cap (req[c].after + 1 .. req[c].after + PageSize) :
                                 ~p.threads[i]
    BY <1>1, <1>2, RollupCases, BlockingCounts
  <1>4. req[c].after + PageSize \in Nat
    BY <1>2, BoundsTyped
  <1>5. /\ q \in Request /\ q.at = "query" /\ q.token = req[c].token /\ q.target = req[c].target
        /\ q.linked = req[c].linked /\ q.current = req[c].current /\ q.left = req[c].left
        /\ q.after = req[c].after + PageSize /\ q.threads = Blocking(c) /\ q.rollup = Rollup(c)
    BY <1>1, <1>3, <1>4 DEF Request
  <1>6. q.unavailable <=> req[c].unavailable
    BY <1>1 DEF Request
  <1>7. req' = [req EXCEPT ![c] = q]
    BY <1>1 DEF TypeOK
  <1> HIDE DEF q
  <1>8. PagesTrue(req[c], clear[c], deficient[c]) /\ RefusalsTrue(req[c], deficient[c])
    BY Zenon DEF GateInv, GateOK, Open
  <1>9. PagesTrue(q, clear[c], deficient[c])
    <2>1. q.after <= Len(p.threads)
      BY <1>1, <1>4, <1>5 DEF HasNextPage
    <2>2. ClearThreads(p) \subseteq clear[c]
      BY <1>8 DEF PagesTrue
    <2>3. ASSUME Blocking(c) = 0, NEW i \in DOMAIN p.threads, i <= q.after PROVE i \in clear[c]
      <3>1. CASE i <= req[c].after
        BY <1>3, <1>8, <2>3, <3>1 DEF PagesTrue
      <3>2. CASE ~(i <= req[c].after)
        <4>1. i \in req[c].after + 1 .. req[c].after + PageSize
          BY <1>1, <1>2, <1>4, <1>5, <2>3, <3>2, BoundsTyped
        <4>2. ~p.threads[i]
          BY <1>3, <2>3, <4>1
        <4> QED BY <2>2, <4>2 DEF ClearThreads
      <3> QED BY <3>1, <3>2
    <2>4. req[c].target = "done" /\ (Blocking(c) > 0 \/ ~GoodChecks(Rollup(c)))
             => req[c].current \in deficient[c]
      BY AgainstIt
    <2> QED BY <1>5, <2>1, <2>2, <2>3, <2>4 DEF PagesTrue
  <1>10. GateOK(q, clear[c], deficient[c])
    <2>1. RefusalsTrue(q, deficient[c])
      BY <1>5, <1>6, <1>8 DEF RefusalsTrue
    <2>2. q.at # "idle"
      BY <1>5
    <2> QED BY <1>9, <2>1, <2>2 DEF GateOK
  <1>11. TypeOK'
    <2>1. req' \in [Callers -> Request]
      BY <1>1, <1>5, <1>7 DEF TypeOK
    <2>2. ASSUME NEW d \in Callers
          PROVE  /\ req'[d].at = "query" => req'[d].token # None
                 /\ req'[d].at # "idle" => req'[d].current \in PRs
      BY <1>1, <1>5, <1>7 DEF TypeOK
    <2> QED BY <1>1, <2>1, <2>2 DEF TypeOK, Around
  <1>12. /\ clear' = [clear EXCEPT ![c] = clear[c]]
         /\ deficient' = [deficient EXCEPT ![c] = deficient[c]] /\ pr' = pr
    BY <1>1 DEF TypeOK, Around
  <1> QED BY <1>5, <1>7, <1>10, <1>11, <1>12, GateMoves

(* A pull request found unsatisfying has been deficient.                   *)
LEMMA Unsatisfied ==
    ASSUME GateInv, NEW c \in Callers, Open(c), ~Satisfied(c)
    PROVE  req[c].current \in deficient[c]
  <1> DEFINE p == pr[req[c].current]
  <1>1. /\ TypeOK /\ req[c] \in Request /\ req[c].current \in PRs /\ p \in PullRequest
        /\ req[c].target \in Targets /\ p.state \in States /\ Blocking(c) \in Nat
    BY CurrentTyped, BlockingCounts DEF GateInv, Request, PullRequest
  <1>2. RefusalsTrue(req[c], deficient[c])
    BY Zenon DEF GateInv, GateOK, Open
  <1>3. ~Evidence(req[c].target, p) => req[c].current \in deficient[c]
    BY <1>1, <1>2, Zenon DEF RefusalsTrue
  <1>4. CASE req[c].target = "review"
    BY <1>1, <1>3, <1>4 DEF Satisfied, Evidence, States
  <1>5. CASE req[c].target = "done"
    <2>1. CASE p.state # "MERGED"
      BY <1>3, <1>5, <2>1 DEF Evidence
    <2>2. CASE p.state = "MERGED"
      <3>1. Blocking(c) # 0 \/ ~GoodChecks(Rollup(c))
        BY <1>5, <2>2, Zenon DEF Satisfied
      <3> QED BY <1>1, <1>5, <3>1, AgainstIt
    <2> QED BY <2>1, <2>2
  <1> QED BY <1>1, <1>4, <1>5 DEF Targets

LEMMA QueryInv ==
    ASSUME GateInv, NEW c \in Callers, Query(c), UNCHANGED <<pr, gh, valid, changes>>
    PROVE  GateInv'
  <1>1. TypeOK /\ Open(c) /\ req[c].at = "query" /\ req[c].unavailable \in BOOLEAN
    BY DEF GateInv, Query, Open, TypeOK, Request
  <1>2. Around
    BY <1>1 DEF Around, TypeOK, Query
  <1>3. ASSUME HasNextPage(c),
               req' = [req EXCEPT ![c].after = req[c].after + PageSize, ![c].threads = Blocking(c),
                                  ![c].rollup = Rollup(c)],
               UNCHANGED <<verdict, clear, deficient>>
        PROVE  GateInv'
    BY <1>1, <1>2, <1>3, NextPageInv
  <1>4. CASE Finish(c, "accepted")
    <2>1. "accepted" \in Verdicts
      BY DEF Verdicts
    <2> QED BY <1>2, <1>4, <2>1, FinishInv
  <1>5. CASE ~Satisfied(c) /\ NoEvidence(c, req[c].unavailable)
    <2>1. req[c].current \in deficient[c]
      BY <1>1, <1>5, Unsatisfied
    <2>2. req[c].unavailable \/ (~req[c].unavailable /\ req[c].current \in deficient[c])
      BY <2>1
    <2> QED BY <1>1, <1>2, <1>5, <2>2, NoEvidenceInv, Zenon
  <1> QED BY <1>3, <1>4, <1>5, Zenon DEF Query

LEMMA RestartInv == ASSUME GateInv, Restart PROVE GateInv'
  <1>1. TypeOK'
    BY NoRequestTyped DEF GateInv, TypeOK, Restart
  <1>2. ASSUME NEW c \in Callers PROVE GateOK(req[c], clear[c], deficient[c])'
    BY NoRequestTyped DEF Restart, GateOK
  <1> QED BY <1>1, <1>2 DEF GateInv

LEMMA StepInv == GateInv /\ [Next]_vars => GateInv'
  <1> SUFFICES ASSUME GateInv, [Next]_vars PROVE GateInv'
    OBVIOUS
  <1>1. ASSUME NEW c \in Callers, Advance(c) PROVE GateInv'
    BY <1>1, TokenInv, RunGHInv, ErrorsInv, QueryInv DEF Advance
  <1>2. CASE UNCHANGED vars
    BY <1>2 DEF GateInv, TypeOK, GateOK, PagesTrue, RefusalsTrue, vars
  <1>3. CASE Next
    BY <1>1, <1>3, GitHubInv, OperatorInv, BeginInv, RestartInv DEF Next
  <1> QED BY <1>2, <1>3

(* The invariant holds in every behaviour.                                 *)
THEOREM Invariance == Spec => []GateInv
  <1>1. Init => GateInv
    BY InitInv
  <1> QED BY <1>1, StepInv, PTL DEF Spec

(* Pull requests, credentials and gates stay in their domains, and nothing  *)
(* is asked of GitHub without a credential (fetchPRStatus).                *)
THEOREM TypeCorrect == Spec => []TypeOK
  <1>1. GateInv => TypeOK
    BY DEF GateInv
  <1> QED BY <1>1, Invariance, PTL

-----------------------------------------------------------------------------
(* The answers.                                                            *)

(* A gate is answered by a step of its own.                                *)
LEMMA AnswerSteps ==
    ASSUME TypeOK, Next, NEW c \in Callers, verdict'[c] # verdict[c]
    PROVE  \/ \E target \in Targets : \E links \in Links[c] : Begin(c, target, links)
           \/ Advance(c)
  <1>1. \A d \in Callers : \A target \in Targets : \A links \in Links[d] :
           Begin(d, target, links) => d = c
    BY DEF Begin, TypeOK
  <1>2. ASSUME NEW d \in Callers, Advance(d) PROVE d = c
    <2>1. verdict' = verdict \/ \E answer : verdict' = [verdict EXCEPT ![d] = answer]
      BY <1>2 DEF Advance, Token, RunGH, QueryFails, NotFound, Query, NoEvidence, Continue,
                  Missing, Finish
    <2> QED BY <2>1 DEF TypeOK
  <1>3. ASSUME NEW p \in PRs,
               \/ \E s \in States : ChangeState(p, s)
               \/ \E k \in Checks : ChangeChecks(p, k)
               \/ ChangeVisible(p)
               \/ AddThread(p)
               \/ \E i \in DOMAIN pr[p].threads : ToggleThread(p, i)
        PROVE  FALSE
    BY <1>3 DEF ChangeState, ChangeChecks, ChangeVisible, AddThread, ToggleThread, Change
  <1>4. (\E k \in Tokens : Login(k) \/ Revoke(k)) \/ Restart => FALSE
    BY DEF Login, Revoke, Restart
  <1> QED BY <1>1, <1>2, <1>3, <1>4 DEF Next

LEMMA Accepted ==
    ASSUME TypeOK, Next, NEW c \in Callers, verdict[c] = "none", verdict'[c] = "accepted"
    PROVE  Open(c) /\ Query(c) /\ ~HasNextPage(c) /\ Satisfied(c)
  <1>1. \A target \in Targets : \A links \in Links[c] : ~Begin(c, target, links)
    BY DEF Begin, TypeOK
  <1>2. Advance(c)
    BY <1>1, AnswerSteps
  <1>3. \A u : ~NoEvidence(c, u)
    BY DEF NoEvidence, Continue, Missing, Finish, TypeOK
  <1>4. ~Token(c) /\ ~RunGH(c) /\ ~QueryFails(c) /\ ~NotFound(c)
    BY <1>3 DEF Token, RunGH, QueryFails, NotFound
  <1>5. Query(c)
    BY <1>2, <1>4 DEF Advance
  <1> QED BY <1>3, <1>5 DEF Query, Open

LEMMA Blocked ==
    ASSUME TypeOK, Next, NEW c \in Callers, verdict[c] = "none", verdict'[c] = "blocked"
    PROVE  \/ req[c].at = "idle"
           \/ /\ Open(c) /\ Missing(c, req[c].unavailable) /\ ~req[c].unavailable
              /\ \/ /\ ~pr[req[c].current].visible
                 \/ ~Satisfied(c)
  <1>1. CASE \E target \in Targets : \E links \in Links[c] : Begin(c, target, links)
    BY <1>1 DEF Begin
  <1>2. CASE Advance(c)
    <2>1. \A u : NoEvidence(c, u) => Missing(c, u) /\ ~u
      BY DEF NoEvidence, Continue, Missing, Finish, TypeOK
    <2>2. ~Token(c) /\ ~RunGH(c) /\ ~QueryFails(c)
      BY <2>1 DEF Token, RunGH, QueryFails
    <2>3. CASE NotFound(c)
      BY <2>1, <2>3, Zenon DEF NotFound, Open
    <2>4. CASE Query(c)
      <3>1. ~Finish(c, "accepted")
        BY DEF Finish, TypeOK
      <3>2. Open(c)
        BY <2>4 DEF Query, Open
      <3> QED BY <2>1, <2>4, <3>1, <3>2, Zenon DEF Query
    <2> QED BY <1>2, <2>2, <2>3, <2>4 DEF Advance
  <1> QED BY <1>1, <1>2, AnswerSteps

-----------------------------------------------------------------------------
(* An evidence gate accepts only a pull request that has the state and the  *)
(* checks asked for when its last page is read, and each of whose threads   *)
(* was clear at some moment of the paging (the loop of fetchPRStatus and    *)
(* the test that follows it), however GitHub moves between the pages.       *)
THEOREM Acceptances == Spec => AcceptanceExplained
  <1>1. ASSUME GateInv, [Next]_vars, NEW c \in Callers,
               verdict[c] = "none", verdict'[c] = "accepted"
        PROVE  LET p == pr[req[c].current] IN
               /\ p.visible
               /\ req[c].target = "review" => p.state # "CLOSED"
               /\ req[c].target = "done" =>
                     p.state = "MERGED" /\ GoodChecks(p.checks) /\ DOMAIN p.threads \subseteq clear[c]
    <2> DEFINE p == pr[req[c].current]
    <2>1. TypeOK /\ Next
      BY <1>1 DEF GateInv, vars
    <2>2. Open(c) /\ Query(c) /\ ~HasNextPage(c) /\ Satisfied(c)
      BY <1>1, <2>1, Accepted
    <2>3. p.visible
      BY <2>2 DEF Query
    <2>4. ASSUME req[c].target = "review" PROVE p.state # "CLOSED"
      BY <2>2, <2>4 DEF Satisfied
    <2>5. ASSUME req[c].target = "done"
          PROVE  p.state = "MERGED" /\ GoodChecks(p.checks) /\ DOMAIN p.threads \subseteq clear[c]
      <3>1. p.state = "MERGED" /\ Blocking(c) = 0 /\ GoodChecks(Rollup(c))
        BY <2>2, <2>5 DEF Satisfied
      <3>2. GoodChecks(p.checks)
        BY <3>1, RollupCases
      <3>3. /\ req[c] \in Request /\ Len(p.threads) \in Nat
            /\ DOMAIN p.threads = 1 .. Len(p.threads)
        BY <2>1, <2>2, CurrentTyped
      <3>4. req[c].after \in Nat /\ PageSize \in Nat
        BY <3>3, BoundsTyped DEF Request
      <3>5. req[c].threads = 0 /\ \A i \in DOMAIN p.threads \cap (req[c].after + 1 .. req[c].after + PageSize) :
                                     ~p.threads[i]
        BY <2>1, <2>2, <3>1, BlockingCounts
      <3>6. PagesTrue(req[c], clear[c], deficient[c])
        BY <1>1, <2>2, Zenon DEF GateInv, GateOK, Open
      <3>7. ASSUME NEW i \in DOMAIN p.threads PROVE i \in clear[c]
        <4>1. CASE i <= req[c].after
          BY <3>5, <3>6, <4>1 DEF PagesTrue
        <4>2. CASE ~(i <= req[c].after)
          <5>1. i \in req[c].after + 1 .. req[c].after + PageSize
            BY <2>2, <3>3, <3>4, <4>2 DEF HasNextPage
          <5>2. ~p.threads[i]
            BY <3>5, <5>1
          <5> QED BY <3>6, <5>2 DEF PagesTrue, ClearThreads
        <4> QED BY <4>1, <4>2
      <3> QED BY <3>1, <3>2, <3>7
    <2> QED BY <2>3, <2>4, <2>5
  <1>2. GateInv /\ [Next]_vars =>
          [\A c \in Callers :
             verdict[c] = "none" /\ verdict'[c] = "accepted" =>
                 LET p == pr[req[c].current] IN
                 /\ p.visible
                 /\ req[c].target = "review" => p.state # "CLOSED"
                 /\ req[c].target = "done" =>
                       p.state = "MERGED" /\ GoodChecks(p.checks) /\ DOMAIN p.threads \subseteq clear[c]]_vars
    BY <1>1
  <1> QED BY <1>2, Invariance, PTL DEF Spec, AcceptanceExplained

(* An evidence gate calls the evidence missing only if every linked pull    *)
(* request has lacked it: any error on the way makes it unavailable instead *)
(* (the loop over the links in requirePullRequest).                        *)
THEOREM Refusals == Spec => RefusalExplained
  <1>1. ASSUME GateInv, [Next]_vars, NEW c \in Callers,
               verdict[c] = "none", verdict'[c] = "blocked"
        PROVE  req[c].linked \subseteq deficient[c]
    <2>1. TypeOK /\ Next
      BY <1>1 DEF GateInv, vars
    <2>2. CASE req[c].at = "idle"
      <3>1. req[c].linked = {}
        BY <1>1, <2>2, Zenon DEF GateInv, GateOK
      <3> QED BY <3>1
    <2>3. CASE /\ Open(c) /\ Missing(c, req[c].unavailable) /\ ~req[c].unavailable
               /\ ~pr[req[c].current].visible \/ ~Satisfied(c)
      <3>1. RefusalsTrue(req[c], deficient[c])
        BY <1>1, <2>3, Zenon DEF GateInv, GateOK, Open
      <3>2. req[c].current \in PRs
        BY <2>1, <2>3, CurrentTyped
      <3>3. CASE ~pr[req[c].current].visible
        <4>1. ~Evidence(req[c].target, pr[req[c].current])
          BY <3>3 DEF Evidence
        <4> QED BY <3>1, <3>2, <4>1, <2>3 DEF RefusalsTrue, Missing
      <3>4. CASE ~Satisfied(c)
        <4>1. req[c].current \in deficient[c]
          BY <1>1, <2>3, <3>4, Unsatisfied
        <4> QED BY <3>1, <4>1, <2>3 DEF RefusalsTrue, Missing
      <3> QED BY <2>3, <3>3, <3>4
    <2> QED BY <1>1, <2>1, <2>2, <2>3, Blocked
  <1>2. GateInv /\ [Next]_vars =>
          [\A c \in Callers :
             verdict[c] = "none" /\ verdict'[c] = "blocked" => req[c].linked \subseteq deficient[c]]_vars
    BY <1>1
  <1> QED BY <1>2, Invariance, PTL DEF Spec, RefusalExplained
=============================================================================
