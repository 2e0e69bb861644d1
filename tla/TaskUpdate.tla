----------------------------- MODULE TaskUpdate -----------------------------
(* UpdateTask of the taskline server on one task: what concurrent updates   *)
(* do to its state and content, and to the evidence gates.                  *)
(*                                                                          *)
(* The service reads the task and, when the request names a state the task   *)
(* is not in, asks GitHub for evidence.  The store then reads the task       *)
(* again, applies the request to what it read, and writes every content     *)
(* column back in one UPDATE.  What guards that UPDATE depends on the        *)
(* request: the owner that was read (unless forced), if_state, the labels    *)
(* that were read for a label operation, the description that was read for   *)
(* an append.  A label operation or append that misses starts over at the    *)
(* store's read.                                                            *)
(*                                                                          *)
(* title stands for every column a request replaces and nothing guards:     *)
(* title, type, priority, and replaced descriptions and label sets behave   *)
(* alike.  Leases, completed_at and the answer are in module TaskClaims.    *)
EXTENDS Naturals, Sequences, FiniteSets

CONSTANTS
    Agents,         \* registered agents
    Nobody,         \* the anonymous caller, and the owner of an unclaimed task
    OtherStates,    \* states other than review and done
    FirstState,     \* the state the task is created in
    Titles,         \* contents of an unguarded column
    FirstTitle,
    Labels,
    Pieces,         \* texts that are appended to the description
    PullRequests,
    Unset,          \* a field a request leaves out
    Asks,           \* the requests callers send
    MaxAttempts,    \* store attempts of a label operation or append (8)
    MaxPieces       \* bound on the length of the description

Sessions == Agents \cup {Nobody}
Gated == {"review", "done"}
States == OtherStates \cup Gated

(* force, if_state, and the columns: state, title, label_ops,              *)
(* description_append.                                                     *)
Ask == [force: BOOLEAN, ifState: States \cup {Unset},
        state: States \cup {Unset}, title: Titles \cup {Unset},
        add: SUBSET Labels, remove: SUBSET Labels, append: Pieces \cup {Unset}]

ASSUME ConstantsAssumption ==
    /\ Nobody \notin Agents
    /\ OtherStates \cap Gated = {}
    /\ FirstState \in OtherStates /\ FirstTitle \in Titles
    /\ Unset \notin States \cup Titles \cup Pieces
    /\ Asks # {} /\ Asks \subseteq Ask
    /\ MaxAttempts \in Nat \ {0} /\ MaxPieces \in Nat

VARIABLES
    live,    \* whether the task has a row
    row,     \* its owner and content
    links,   \* pull requests linked to it
    pr,      \* pr[p]: what GitHub says of pull request p
    req      \* req[s]: the update session s has in flight

vars == <<live, row, links, pr, req>>

(* merged is a merged pull request that nothing blocks; blocked one with a *)
(* failing check or an unresolved P0/P1 thread.                            *)
PullRequestStates == {"open", "closed", "blocked", "merged"}

Row == [owner: Sessions, state: States, title: Titles,
        labels: SUBSET Labels, description: Seq(Pieces)]

Steps == {"idle", "read", "links", "gate", "load", "write"}

(* gated: whether the request has to show evidence; refs: the links to     *)
(* find it in; verified: the state it was found for (history); cur: the    *)
(* row the store read; attempt: the store's attempts so far.               *)
Request == [at: Steps, ask: Asks, gated: BOOLEAN, refs: SUBSET PullRequests,
            verified: States \cup {Unset}, cur: Row, attempt: 1 .. MaxAttempts]

FirstRow == [owner |-> Nobody, state |-> FirstState, title |-> FirstTitle,
             labels |-> {}, description |-> <<>>]

NewRequest(ask) == [at |-> "read", ask |-> ask, gated |-> FALSE, refs |-> {},
                    verified |-> Unset, cur |-> FirstRow, attempt |-> 1]

NoRequest == [NewRequest(CHOOSE ask \in Asks : TRUE) EXCEPT !.at = "idle"]

TypeOK ==
    /\ live \in BOOLEAN
    /\ row \in Row
    /\ links \subseteq PullRequests
    /\ pr \in [PullRequests -> PullRequestStates]
    /\ req \in [Sessions -> Request]

Init ==
    /\ live = TRUE
    /\ row = FirstRow
    /\ links = {}
    /\ pr = [p \in PullRequests |-> "open"]
    /\ req = [s \in Sessions |-> NoRequest]

-----------------------------------------------------------------------------
(* What happens around updates.                                            *)

(* A claim or a release, or a lease that ran out and a claim after it.     *)
ChangeOwner(o) ==
    /\ live /\ o # row.owner
    /\ row' = [row EXCEPT !.owner = o]
    /\ UNCHANGED <<live, links, pr, req>>

DeleteTask ==
    /\ live
    /\ live' = FALSE
    /\ row' = FirstRow
    /\ links' = {}
    /\ UNCHANGED <<pr, req>>

AddLink(p) ==
    /\ live /\ p \notin links
    /\ links' = links \cup {p}
    /\ UNCHANGED <<live, row, pr, req>>

DeleteLink(p) ==
    /\ p \in links
    /\ links' = links \ {p}
    /\ UNCHANGED <<live, row, pr, req>>

(* GitHub: a merged pull request stays merged.                             *)
ChangePullRequest(p, to) ==
    /\ to # pr[p]
    /\ pr[p] \in {"blocked", "merged"} => to \in {"blocked", "merged"}
    /\ pr' = [pr EXCEPT ![p] = to]
    /\ UNCHANGED <<live, row, links, req>>

-----------------------------------------------------------------------------
(* The service.                                                            *)

Goes(s, from, r) ==
    /\ req[s].at = from
    /\ req' = [req EXCEPT ![s] = r]
    /\ UNCHANGED <<live, row, links, pr>>

StartUpdate(s, ask) == Goes(s, "idle", NewRequest(ask))

StateAsExpected(s, state) == req[s].ask.ifState \in {Unset, state}

MayUpdate(s, owner) == req[s].ask.force \/ owner \in {Nobody, s}

NeedsEvidence(was, to) == to # Unset /\ to # was /\ to \in Gated

(* The row and the links are two queries of GetTask.  Only a request that  *)
(* names a state is checked here.                                          *)
ReadTask(s) ==
    /\ live
    /\ req[s].ask.state # Unset => StateAsExpected(s, row.state) /\ MayUpdate(s, row.owner)
    /\ Goes(s, "read", [req[s] EXCEPT !.at = "links", !.gated = NeedsEvidence(row.state, req[s].ask.state)])

ReadLinks(s) ==
    Goes(s, "links", IF req[s].gated THEN [req[s] EXCEPT !.at = "gate", !.refs = links]
                     ELSE [req[s] EXCEPT !.at = "load"])

Evidence(p, to) ==
    \/ to = "review" /\ pr[p] # "closed"
    \/ to = "done" /\ pr[p] = "merged"

(* One linked pull request with the evidence is enough, as it is when it   *)
(* is looked up.                                                           *)
ValidateStateEntry(s) ==
    /\ \E p \in req[s].refs : Evidence(p, req[s].ask.state)
    /\ Goes(s, "gate", [req[s] EXCEPT !.at = "load", !.gated = FALSE, !.refs = {},
                                  !.verified = req[s].ask.state])

-----------------------------------------------------------------------------
(* The store.                                                              *)

Load(s) ==
    /\ live
    /\ StateAsExpected(s, row.state) /\ MayUpdate(s, row.owner)
    /\ Goes(s, "load", [req[s] EXCEPT !.at = "write", !.cur = row])

HasLabelOps(ask) == ask.add \cup ask.remove # {}

OwnerNotCompared(s) ==
    LET ask == req[s].ask
        cur == req[s].cur
    IN  /\ StateAsExpected(s, row.state)
        /\ HasLabelOps(ask) => row.labels = cur.labels
        /\ ask.append # Unset => row.description = cur.description

LabelsNotCompared(s) ==
    LET ask == req[s].ask
        cur == req[s].cur
    IN  /\ StateAsExpected(s, row.state)
        /\ ask.force \/ row.owner = cur.owner
        /\ ask.append # Unset => row.description = cur.description

StateNotCompared(s) ==
    LET ask == req[s].ask
        cur == req[s].cur
    IN  /\ ask.force \/ row.owner = cur.owner
        /\ HasLabelOps(ask) => row.labels = cur.labels
        /\ ask.append # Unset => row.description = cur.description

(* The WHERE clause of the UPDATE.                                         *)
WriteGuard(s) ==
    LET ask == req[s].ask
        cur == req[s].cur
    IN  /\ StateAsExpected(s, row.state)
        /\ ask.force \/ row.owner = cur.owner
        /\ HasLabelOps(ask) => row.labels = cur.labels
        /\ ask.append # Unset => row.description = cur.description

Given(value, otherwise) == IF value = Unset THEN otherwise ELSE value

AppendedAsTitle(cur, ask) ==
    [cur EXCEPT !.state = Given(ask.state, @), !.title = Given(ask.append, @),
                !.labels = (@ \ ask.remove) \cup ask.add]

(* The content columns as the request leaves them.                         *)
Apply(cur, ask) ==
    [cur EXCEPT !.state = Given(ask.state, @),
                !.title = Given(ask.title, @),
                !.labels = (@ \ ask.remove) \cup ask.add,
                !.description = IF ask.append = Unset THEN @ ELSE Append(@, ask.append)]

(* Every content column is written, the owner is not.                      *)
Write(s) ==
    /\ req[s].at = "write"
    /\ live /\ WriteGuard(s)
    /\ req[s].ask.append # Unset => Len(req[s].cur.description) < MaxPieces
    /\ row' = [Apply(req[s].cur, req[s].ask) EXCEPT !.owner = row.owner]
    /\ req' = [req EXCEPT ![s] = NoRequest]
    /\ UNCHANGED <<live, links, pr>>

Retries(s) == HasLabelOps(req[s].ask) \/ req[s].ask.append # Unset

(* A conflict at the read or at the write of the store.  Labels are a list  *)
(* there, and a list of the same labels in another order is a conflict too. *)
Conflict(s) ==
    \/ req[s].at = "load" /\ ~(StateAsExpected(s, row.state) /\ MayUpdate(s, row.owner))
    \/ req[s].at = "write" /\ (WriteGuard(s) => HasLabelOps(req[s].ask))

Retry(s) ==
    /\ live /\ Conflict(s)
    /\ Retries(s) /\ req[s].attempt < MaxAttempts
    /\ Goes(s, req[s].at, [req[s] EXCEPT !.at = "load", !.cur = FirstRow, !.attempt = @ + 1])

(* 404, 409, 422, 503, or the server dies.                                 *)
Refuse(s) == req[s].at # "idle" /\ Goes(s, req[s].at, NoRequest)

-----------------------------------------------------------------------------
Advance(s) ==
    \/ ReadTask(s) \/ ReadLinks(s) \/ ValidateStateEntry(s)
    \/ Load(s) \/ Write(s) \/ Retry(s) \/ Refuse(s)

Next ==
    \/ DeleteTask
    \/ \E o \in Sessions : ChangeOwner(o)
    \/ \E p \in PullRequests :
          AddLink(p) \/ DeleteLink(p) \/ \E to \in PullRequestStates : ChangePullRequest(p, to)
    \/ \E s \in Sessions : (\E ask \in Asks : StartUpdate(s, ask)) \/ Advance(s)

Spec == Init /\ [][Next]_vars

-----------------------------------------------------------------------------
(* Properties.  A write is the only step that changes state or content.    *)

(* A task enters review or done by an update that found the evidence for    *)
(* it, if the update carries if_state: then neither a state written back   *)
(* as it was read nor a same-state update can slip past the gate, whatever  *)
(* unconditional updates run beside it.                                    *)
ConditionalEntryVerified ==
    [][\A s \in Sessions :
          Write(s) /\ row'.state # row.state /\ row'.state \in Gated /\ req[s].ask.ifState # Unset
          => req[s].verified = row'.state]_vars

(* Label operations and appends act on the labels and the description the  *)
(* task has at the write, so none of them undoes another one's.            *)
IncrementalExact ==
    [][\A s \in Sessions :
          LET ask == req[s].ask IN
          Write(s) =>
            /\ HasLabelOps(ask) => row'.labels = (row.labels \ ask.remove) \cup ask.add
            /\ ask.append # Unset => row'.description = Append(row.description, ask.append)]_vars

(* Without force a task is changed by its owner, or while nobody owns it,   *)
(* although ownership is decided on what was read before.                  *)
ClaimRespected ==
    [][\A s \in Sessions :
          Write(s) /\ ~req[s].ask.force => row.owner \in {Nobody, s}]_vars

(* DOMAIN.md: the rules of review and done run when a task actually enters *)
(* the state, and force never bypasses them.                               *)
EntryVerified ==
    [][\A s \in Sessions :
          Write(s) /\ row'.state # row.state /\ row'.state \in Gated
          => req[s].verified = row'.state]_vars

(* TaskUpdate in store.go: nil pointers mean unchanged.                    *)
UnaskedUnchanged ==
    [][\A s \in Sessions :
          LET ask == req[s].ask IN
          Write(s) =>
            /\ ask.state = Unset => row'.state = row.state
            /\ ask.title = Unset => row'.title = row.title
            /\ ~HasLabelOps(ask) => row'.labels = row.labels
            /\ ask.append = Unset => row'.description = row.description]_vars
=============================================================================
