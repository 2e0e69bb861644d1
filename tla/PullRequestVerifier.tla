------------------------ MODULE PullRequestVerifier ------------------------
(***************************************************************************)
(* Looking for evidence on GitHub: the rules that let a task enter review   *)
(* or done, and the verifier behind them, which fetches the review threads  *)
(* of a pull request page by page while people go on working on it.         *)
(*                                                                          *)
(* GitHub is external and moves freely: threads are added at the end, open  *)
(* and close, checks start and finish, a pull request is merged, closed,    *)
(* reopened, or disappears from sight.  Every query may fail.  The credential *)
(* is found once and kept until the server restarts.                        *)
(*                                                                          *)
(* A thread is TRUE while it is unresolved and one of its first comments    *)
(* names a P0 or P1 priority; the pattern for that is left out, as are the  *)
(* spellings of a URL: a link is the pull request it names or NotPR.        *)
(***************************************************************************)
EXTENDS Naturals, FiniteSets, Sequences

CONSTANTS
    Callers,      \* updates that ask for evidence, each with one gate at a time
    PRs,          \* pull requests
    NotPR,        \* a link that is no GitHub pull request
    Links,        \* Links[c]: the links the task of c may have, each a set over PRs and NotPR
    Tokens,       \* GitHub credentials
    None,         \* no credential
    Environment,  \* the credential in the environment of the server, or None
    InitialPRs,   \* the pull requests as they may be at the start
    PageSize,     \* review threads on a page
    MaxThreads,   \* bound on the threads of a pull request
    MaxChanges    \* bound on the changes GitHub sees

ASSUME ConstantsAssumption ==
    /\ NotPR \notin PRs
    /\ None \notin Tokens \cup Callers
    /\ Environment \in Tokens \cup {None}
    /\ InitialPRs \subseteq [PRs -> [visible: BOOLEAN, state: {"OPEN", "CLOSED", "MERGED"},
                                     checks: {"", "SUCCESS", "FAILURE"}, threads: Seq(BOOLEAN)]]
    /\ Links \in [Callers -> SUBSET SUBSET (PRs \cup {NotPR})]
    /\ PageSize \in Nat \ {0} /\ MaxThreads \in Nat /\ MaxChanges \in Nat

VARIABLES
    pr,         \* pr[p]: the pull request on GitHub
    gh,         \* the credential the gh program would give, or None
    valid,      \* credentials GitHub accepts
    cached,     \* defaultTokenSource.token
    locked,     \* the caller that holds defaultTokenSource.mu while gh runs, or None
    req,        \* req[c]: the gate caller c waits at
    verdict,    \* verdict[c]: the answer of the gate c reached last
    clear,      \* clear[c]: threads of the current pull request that have been
                \* clear since its verification began (history)
    deficient,  \* deficient[c]: pull requests that have lacked the evidence at
                \* some moment since the gate was reached (history)
    changes     \* changes so far on GitHub

vars == <<pr, gh, valid, cached, locked, req, verdict, clear, deficient, changes>>

-----------------------------------------------------------------------------
Targets == {"review", "done"}
States == {"OPEN", "CLOSED", "MERGED"}
Verdicts == {"none", "accepted", "blocked", "unavailable"}
Checks == {"", "SUCCESS", "FAILURE"}    \* FAILURE: any verdict that is not success

PullRequest == [visible: BOOLEAN, state: States, checks: Checks, threads: Seq(BOOLEAN)]

(* linked: the pull requests of the task; current: the one under            *)
(* verification; left: those after it; after: the cursor; threads, rollup:  *)
(* what the pages so far said; unavailable: an error was met.              *)
Request == [at: {"idle", "token", "gh", "query"}, target: Targets, linked: SUBSET PRs,
            current: PRs \cup {NotPR}, left: SUBSET PRs, token: Tokens \cup {None},
            after: Nat, threads: Nat, rollup: Checks, unavailable: BOOLEAN]

NoRequest == [at |-> "idle", target |-> "review", linked |-> {}, current |-> NotPR, left |-> {},
              token |-> None, after |-> 0, threads |-> 0, rollup |-> "", unavailable |-> FALSE]

(* The type invariant: pull requests, credentials and gates stay in their  *)
(* domains (the fields of PullRequestStatus and the paging loop's locals),  *)
(* and nothing is asked without a credential.                              *)
TypeOK ==
    /\ pr \in [PRs -> PullRequest]
    /\ gh \in Tokens \cup {None}
    /\ valid \subseteq Tokens
    /\ cached \in Tokens \cup {None}
    /\ locked \in Callers \cup {None}
    /\ req \in [Callers -> Request]
    /\ \A c \in Callers :
          /\ req[c].at = "query" => req[c].token # None
          /\ req[c].at # "idle" => req[c].current \in PRs
    /\ verdict \in [Callers -> Verdicts]
    /\ clear \in [Callers -> SUBSET Nat]
    /\ deficient \in [Callers -> SUBSET PRs]
    /\ changes \in 0 .. MaxChanges

Init ==
    /\ pr \in InitialPRs
    /\ gh \in Tokens \cup {None}
    /\ valid = Tokens
    /\ cached = None
    /\ locked = None
    /\ req = [c \in Callers |-> NoRequest]
    /\ verdict = [c \in Callers |-> "none"]
    /\ clear = [c \in Callers |-> {}]
    /\ deficient = [c \in Callers |-> {}]
    /\ changes = 0

-----------------------------------------------------------------------------
(* What the rules ask for.                                                 *)

GoodChecks(rollup) == rollup \in {"", "SUCCESS"}

(* The evidence for target on a pull request as it is at one moment.       *)
Evidence(target, p) ==
    /\ p.visible
    /\ IF target = "review" THEN p.state # "CLOSED"
       ELSE /\ p.state = "MERGED"
            /\ \A i \in DOMAIN p.threads : ~p.threads[i]
            /\ GoodChecks(p.checks)

ClearThreads(p) == {i \in DOMAIN p.threads : ~p.threads[i]}

-----------------------------------------------------------------------------
(* GitHub and the operator.                                                *)

Open(c) == req[c].at # "idle"

Change(p, now) ==
    /\ changes < MaxChanges
    /\ changes' = changes + 1
    /\ pr' = [pr EXCEPT ![p] = now]
    /\ clear' = [c \in Callers |->
                   IF Open(c) /\ req[c].current = p THEN clear[c] \cup ClearThreads(now) ELSE clear[c]]
    /\ deficient' = [c \in Callers |->
                   IF Open(c) /\ ~Evidence(req[c].target, now) THEN deficient[c] \cup {p} ELSE deficient[c]]
    /\ UNCHANGED <<gh, valid, cached, locked, req, verdict>>

(* A merged pull request stays merged.                                     *)
ChangeState(p, s) ==
    /\ pr[p].state \notin {s, "MERGED"}
    /\ Change(p, [pr[p] EXCEPT !.state = s])

ChangeChecks(p, k) ==
    /\ pr[p].checks # k
    /\ Change(p, [pr[p] EXCEPT !.checks = k])

ChangeVisible(p) == Change(p, [pr[p] EXCEPT !.visible = ~@])

AddThread(p) ==
    /\ Len(pr[p].threads) < MaxThreads
    /\ Change(p, [pr[p] EXCEPT !.threads = Append(@, TRUE)])

ToggleThread(p, i) == Change(p, [pr[p] EXCEPT !.threads[i] = ~@])

Login(k) ==
    /\ gh # k
    /\ gh' = k
    /\ UNCHANGED <<pr, valid, cached, locked, req, verdict, clear, deficient, changes>>

Revoke(k) ==
    /\ k \in valid
    /\ valid' = valid \ {k}
    /\ UNCHANGED <<pr, gh, cached, locked, req, verdict, clear, deficient, changes>>

-----------------------------------------------------------------------------
(* The rules: each linked pull request once, with a status of its own, in an *)
(* order left open here; the code takes that of the links.                 *)

LinkedPullRequests(links) == links \ {NotPR}

Verifying(target, linked, p, left, unavailable) ==
    [NoRequest EXCEPT !.at = "token", !.target = target, !.linked = linked, !.current = p,
                      !.left = left, !.unavailable = unavailable]

(* A task without a linked pull request is refused at once.                *)
Begin(c, target, links) ==
    LET linked == LinkedPullRequests(links) IN
    /\ req[c].at = "idle"
    /\ \/ /\ linked = {}
          /\ verdict' = [verdict EXCEPT ![c] = "blocked"]
          /\ UNCHANGED <<req, clear, deficient>>
       \/ \E p \in linked :
             /\ req' = [req EXCEPT ![c] = Verifying(target, linked, p, linked \ {p}, FALSE)]
             /\ verdict' = [verdict EXCEPT ![c] = "none"]
             /\ clear' = [clear EXCEPT ![c] = ClearThreads(pr[p])]
             /\ deficient' = [deficient EXCEPT ![c] = {q \in PRs : ~Evidence(target, pr[q])}]
    /\ UNCHANGED <<pr, gh, valid, cached, locked, changes>>

Finish(c, answer) ==
    /\ req' = [req EXCEPT ![c] = NoRequest]
    /\ verdict' = [verdict EXCEPT ![c] = answer]
    /\ clear' = [clear EXCEPT ![c] = {}]
    /\ deficient' = [deficient EXCEPT ![c] = {}]

Continue(c, unavailable) ==
    \E p \in req[c].left :
        /\ req' = [req EXCEPT ![c] = Verifying(req[c].target, req[c].linked, p, req[c].left \ {p},
                                               unavailable)]
        /\ clear' = [clear EXCEPT ![c] = ClearThreads(pr[p])]
        /\ UNCHANGED <<verdict, deficient>>

Missing(c, unavailable) ==
    req[c].left = {} /\ Finish(c, IF unavailable THEN "unavailable" ELSE "blocked")

LastForgets(c, unavailable) == Continue(c, FALSE) \/ Missing(c, unavailable)

(* After the last pull request any error makes the evidence unavailable    *)
(* rather than missing.                                                    *)
NoEvidence(c, unavailable) == Continue(c, unavailable) \/ Missing(c, unavailable)

-----------------------------------------------------------------------------
(* The credential: kept once found; the environment first, then gh, which  *)
(* runs while the mutex is held.                                           *)

Token(c) ==
    LET k == IF cached # None THEN cached ELSE Environment IN
    /\ req[c].at = "token" /\ locked = None
    /\ IF k # None
       THEN /\ cached' = k
            /\ req' = [req EXCEPT ![c].at = "query", ![c].token = k]
            /\ UNCHANGED locked
       ELSE /\ locked' = c
            /\ req' = [req EXCEPT ![c].at = "gh"]
            /\ UNCHANGED cached
    /\ UNCHANGED <<verdict, clear, deficient>>

RunGHUnchecked(c) ==
    /\ req[c].at = "gh"
    /\ locked' = None
    /\ cached' = gh
    /\ req' = [req EXCEPT ![c].at = "query", ![c].token = gh]
    /\ UNCHANGED <<verdict, clear, deficient>>

RunGHKeepingLock(c) ==
    /\ req[c].at = "gh"
    /\ \/ /\ gh # None
          /\ cached' = gh
          /\ locked' = None
          /\ req' = [req EXCEPT ![c].at = "query", ![c].token = gh]
          /\ UNCHANGED <<verdict, clear, deficient>>
       \/ NoEvidence(c, TRUE) /\ UNCHANGED <<cached, locked>>

RunGH(c) ==
    /\ req[c].at = "gh"
    /\ locked' = None
    /\ \/ /\ gh # None
          /\ cached' = gh
          /\ req' = [req EXCEPT ![c].at = "query", ![c].token = gh]
          /\ UNCHANGED <<verdict, clear, deficient>>
       \/ NoEvidence(c, TRUE) /\ UNCHANGED cached

-----------------------------------------------------------------------------
(* The pages of one pull request.                                          *)

QueryFails(c) ==
    /\ req[c].at = "query"
    /\ NoEvidence(c, TRUE)
    /\ UNCHANGED <<cached, locked>>

NotFound(c) ==
    /\ req[c].at = "query" /\ req[c].token \in valid
    /\ ~pr[req[c].current].visible
    /\ NoEvidence(c, req[c].unavailable)
    /\ UNCHANGED <<cached, locked>>

(* The pull request and the rollup of the page replace those of the pages  *)
(* before it, except that a page without a rollup leaves it as it was.      *)
Blocking(c) ==
    LET threads == pr[req[c].current].threads
        page == DOMAIN threads \cap (req[c].after + 1 .. req[c].after + PageSize)
    IN  req[c].threads + Cardinality({i \in page : threads[i]})

Rollup(c) ==
    LET checks == pr[req[c].current].checks IN IF checks # "" THEN checks ELSE req[c].rollup

OnePage(c) == FALSE

HasNextPage(c) == req[c].after + PageSize < Len(pr[req[c].current].threads)

Satisfied(c) ==
    LET p == pr[req[c].current] IN
    IF req[c].target = "review" THEN p.state \in {"MERGED", "OPEN"}
    ELSE p.state = "MERGED" /\ Blocking(c) = 0 /\ GoodChecks(Rollup(c))

Query(c) ==
    /\ req[c].at = "query" /\ req[c].token \in valid
    /\ pr[req[c].current].visible
    /\ \/ /\ HasNextPage(c)
          /\ req' = [req EXCEPT ![c].after = req[c].after + PageSize, ![c].threads = Blocking(c),
                                ![c].rollup = Rollup(c)]
          /\ UNCHANGED <<verdict, clear, deficient>>
       \/ ~HasNextPage(c) /\ Satisfied(c) /\ Finish(c, "accepted")
       \/ ~HasNextPage(c) /\ ~Satisfied(c) /\ NoEvidence(c, req[c].unavailable)
    /\ UNCHANGED <<cached, locked>>

Advance(c) ==
    /\ Token(c) \/ RunGH(c) \/ QueryFails(c) \/ NotFound(c) \/ Query(c)
    /\ UNCHANGED <<pr, gh, valid, changes>>

(* The credential is forgotten with the process, and so is every gate.     *)
Restart ==
    /\ cached' = None
    /\ locked' = None
    /\ req' = [c \in Callers |-> NoRequest]
    /\ clear' = [c \in Callers |-> {}]
    /\ deficient' = [c \in Callers |-> {}]
    /\ UNCHANGED <<pr, gh, valid, verdict, changes>>

Next ==
    \/ \E p \in PRs :
          \/ \E s \in States : ChangeState(p, s)
          \/ \E k \in Checks : ChangeChecks(p, k)
          \/ ChangeVisible(p)
          \/ AddThread(p)
          \/ \E i \in DOMAIN pr[p].threads : ToggleThread(p, i)
    \/ \E k \in Tokens : Login(k) \/ Revoke(k)
    \/ \E c \in Callers, target \in Targets : \E links \in Links[c] : Begin(c, target, links)
    \/ \E c \in Callers : Advance(c)
    \/ Restart

Spec == Init /\ [][Next]_vars

TakeToken(c) == Token(c) /\ UNCHANGED <<pr, gh, valid, changes>>

(* A handler goes on as long as it can: gh exits, and GitHub answers or the *)
(* query times out after fifteen seconds.  A goroutine that waits for the   *)
(* mutex gets it although others come and go: sync.Mutex hands it over to   *)
(* a waiter that has starved.                                              *)
FairSpec == Spec /\ \A c \in Callers : WF_vars(Advance(c)) /\ SF_vars(TakeToken(c))
-----------------------------------------------------------------------------
(* Properties.                                                             *)

(* A gate that lets a task pass found a pull request which has, at that    *)
(* moment, the state and the checks the target asks for, and each of whose *)
(* threads, those added meanwhile included, was clear at some moment since *)
(* its verification began, whatever moved between the pages.               *)
AcceptanceExplained ==
    [][\A c \in Callers :
          verdict[c] = "none" /\ verdict'[c] = "accepted" =>
              LET p == pr[req[c].current] IN
              /\ p.visible
              /\ req[c].target = "review" => p.state # "CLOSED"
              /\ req[c].target = "done" =>
                    p.state = "MERGED" /\ GoodChecks(p.checks) /\ DOMAIN p.threads \subseteq clear[c]]_vars

(* A gate that calls the evidence missing, rather than unavailable, does so *)
(* only if every linked pull request lacked it at some moment since the     *)
(* gate was reached: a failed query never counts against a task.           *)
RefusalExplained ==
    [][\A c \in Callers :
          verdict[c] = "none" /\ verdict'[c] = "blocked" => req[c].linked \subseteq deficient[c]]_vars

(* Every gate answers, although pages are added while it turns them and    *)
(* callers wait for one another while gh runs.                             *)
GateAnswered == \A c \in Callers : Open(c) ~> ~Open(c)
=============================================================================
