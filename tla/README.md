# taskline in TLA+

Models of the taskline server: TLA+ modules translated from the Go source, small
instances that TLC checks, and theorems that TLAPS proves for every value of the
constants. `PROJECT.json` lists the runs, the source lines behind each
definition, the hazards of the code and the properties that cover them.

## The system

taskline keeps a queue of tasks for coding agents. A server (`server/`) stores
projects, tasks, their dependencies, links, documents and images, agents, and an
event history in one SQLite file plus two directories of attachment files.
Agents reach it through a command line client (`cli/`), people through a web page
(`web/`); both speak the same HTTP interface.

| Component | State | Operations | What makes it correct |
| --- | --- | --- | --- |
| Claims and leases (`store.go` 637-855, `service.go` 298-393) | owner, claim instant, lease expiry of a task | claim, claim next, heartbeat, release, implicit renewal by updates | one holder; a live lease ends only by its holder, by force or with the task; what an agent was told stays true |
| Updates and evidence gates (`store.go` 857-1044, `service.go` 412-459, `workflow.go`) | content, state, completion instant | update with `if_state`, label operations, append, force | no change undoes another; review and done are entered only with evidence; ownership is respected |
| Dependencies (`store.go` 1138-1225) | edges between tasks | add after a walk, delete, cascade | the graph stays acyclic; no dangling edge; a refusal has a reason |
| Runnable queue (`store.go` 560-749) | none of its own | list, next, claim next | listings and claims agree; one task at a time per agent; the queue is worked off |
| Event history (`task_history.go`) | append-only events | appended after each change | every change has one true event |
| Links (`store.go` 1227-1276) | URLs of a task | add, delete | the gate reads what is there |
| Documents and images (`attachment_storage.go`, `handler.go` 677-899, `store.go` 1278-1401) | rows and files | save, replace through a temporary file, delete | each row has its file, each file its row |
| Agents (`service.go` 83-157, `identity.go`, `register.go`, `root.go`) | names and token hashes; one identity file per checkout | register or rotate, resolve | a name stands for one checkout; nobody acts under a name its file did not hold, and a command that requires an identity acts as the one it found |
| Projects | rows that never change | create, list, resolve | unique names |
| Labels (`store.go` 182-296) | list in a task column | normalize, add, remove, filter | no duplicates up to case, at most twenty |
| Search ranking (`search_ranker.go`) | none | rank | pure function |
| GitHub verifier (`verifier.go`, rules in `workflow.go`) | cached token | page through review threads | a verdict that was true; every gate answers |
| Migrations (`store.go` 60-174, `schema/`) | schema version | one transaction per version | nothing is lost; each step once |
| HTTP handlers, configuration, start-up | none that changes | decode, authenticate, answer | |
| Client (`cli/`) | identity file | one request per command | repeatable after a timeout |
| Web page (`web/src`) | query cache, drafts, the editor's form | save, replay of drafts | nothing created twice, nothing stale written |

### How the parts interact

A handler authenticates the caller (an agent's token, or nobody), and calls one
method of the service. The service calls the store several times; each call is
one or more SQL statements. The store opens **one** SQLite connection
(`store.go:114`), so a statement or transaction is atomic and statements of
different requests interleave freely *between* one another. Only claiming the
next task uses a transaction over two statements. Everything else that reads and
then writes (updating a task, adding a dependency, changing a document) does so
with statements of its own, guarded, where it is guarded at all, by conditions in
the `WHERE` clause. Each change is followed by an event insert that is not part of
it. Evidence gates call GitHub between the read and the write.

### What is hard

* Decisions taken on a row that was read earlier: evidence gates, ownership,
  `completed_at`, whole-row write-back, the walk over the dependency graph.
* Clock readings taken before waiting for the connection.
* Failures after the commit: reading the row back, inserting the event, removing
  or renaming a file; the client's timeout.
* Leases that run out lazily, without any step of the server.
* Retries of label operations and appends (`store.go:880`, eight attempts).

## Modules

| Module | Models | Composes |
| --- | --- | --- |
| `TaskClaims` | claim columns and state of the tasks; every request that touches them, call by call | |
| `DependencyGraph` | abstract: one acyclic graph, edges decided in one step | |
| `Dependencies` | `AddDependency` query by query, deletes, cascade | implements `DependencyGraph` (`ImplementsGraph`) |
| `TaskUpdate` | `UpdateTask` of service and store on one task, with links and GitHub around it | |
| `AttachmentStore` | abstract: each attachment is a register | |
| `Attachments` | rows and files of documents and images, call by call | implements `AttachmentStore` (`ImplementsStore`) |
| `PullRequestVerifier` | the rules for review and done, the paging over review threads, the credential | |
| `AgentNames` | abstract: a name stands for one checkout at a time | |
| `AgentIdentity` | registration and the identity of every other command, from the checkout's file to the row and back | implements `AgentNames` (`ImplementsNames`) |
| `TaskQueue` | the queue of a project: several tasks, labels, agents that work it off | takes its edges from `DependencyGraph` |
| `Migrations` | the thirteen schema steps, servers of several releases on one file | |
| `MC...` | constants for TLC | extend the above |
| `...Proofs` | inductive invariants, lemmas, theorems | extend the above |

How they fit together: `TaskClaims` and `TaskUpdate` follow one request on one row
statement by statement; `TaskQueue` has several rows and takes a request in one
step, which is what `TaskClaims` shows of claiming (the query and the `UPDATE` are
one transaction). `TaskUpdate` takes a verdict on a pull request as one look at
GitHub; `PullRequestVerifier` says what the code's verdict really stands for, an
answer put together from pages of different moments. `TaskQueue` adds edges as
`DependencyGraph` does, and `Dependencies` shows when the code does so too.

Definitions whose names say that something is skipped or weakened
(`MayReleaseAnybody`, `LabelsNotCompared`, `NeverVisited`, ...) stand directly
before the definition they vary. No specification uses them: they are the
plausible slips that `PROJECT.json` lists under `mutants`, each of which makes
TLC report the property beside it.

### TaskClaims

`row[t]` has the state, the owner, `lease_expires_at` and whether `completed_at`
is set; `""` in the owner column is `Nobody`, which is also the anonymous caller.
`req[s]` is the request of a session: `at` names its next database call, `now` and
`exp` are the instants the service computed *before* that call (`service.go:339`,
`359`, `444`), `was` is what an update read. One action is one call:

| Action | Code |
| --- | --- |
| `StartClaim`, `StartNext`, `StartHeartbeat`, `StartRelease`, `StartUpdate` | the handler, up to the first call on the claim columns |
| `ClaimTask`, `ClaimNextTask`, `HeartbeatTask`, `ReleaseTask` | the conditional `UPDATE`s (`store.go` 692-802) |
| `UpdateLoad`, `UpdateWrite`, `UpdateRetry` | `updateTaskOnce` and the loop around it |
| `Reread`, `Reply`, `FailAfterCommit` | `GetTask` after the change, the event and the answer, or neither |
| `Refuse` | a call that matched no row, or a rejected update |
| `Tick`, `CreateTask`, `DeleteTask` | the clock; other requests |

`told[a][t]` is history: the lease expiry agent *a* was last told, forgotten when
it passes or when a call of *a* fails after its commit. `forced` is history too:
the tasks someone used force on, for which no promise holds. A session has one
request in flight; two processes that share one agent's token are not modelled.
`claimed_at`, which is written with `owner` and read only for display, is left
out. Dependencies are constant here; a deleted prerequisite stops blocking.

`ClaimTask`'s `WHERE` clause and the query of `claimNextTaskID` are the same
predicate, `Claimable`; the second condition of the `UPDATE` in the transaction
repeats part of it and cannot fail, as nothing runs between the two, so the three
attempts of `ClaimNextTask` never come to a second one.

### Dependencies and DependencyGraph

`deps` is the table `task_deps`. A request looks up both tasks (`findTask`,
`findOther`), walks (`Walk` pops a task and asks for its prerequisites; `MeetTask`
pops the waiting task; `EndWalk` finds the stack empty) and inserts. The order of
the stack is left open. `Refuse` is any way to end early. `DependencyGraph` has
the decision in one step: `Add(t, d)` requires that `d` does not lead to `t`.
`Leads` is stated with closed sets, so that no recursion is needed to prove about
it.

### TaskUpdate

One task; `title` stands for every column that is replaced and never guarded.
The request goes through `read` and `links` (two queries of the service's
`GetTask`), `gate` (GitHub), `load` and `write` (the store); `Retry` goes back to
`load`. A pull request is `open`, `closed`, `merged`, or `blocked`: merged, with a
failing check or an unresolved P0/P1 thread. `ValidateStateEntry` looks at one
linked pull request as it is at that moment. `verified` is history: the state the
request found evidence for. A description is a sequence of pieces, for an append
adds one at the end. Labels are a set; in the code they are a list, so an equal
set in another order fails the comparison, and `Conflict` allows for that.

### Attachments and AttachmentStore

`row[d]` is the title in the row of a document (or an image, whose file name it
stands for), `file[d]` what lies at its storage path, `temps` the temporary files.
A request is followed from call to call: creation writes the file (`Save`, `Fill`),
then the row, then the event; an update writes a temporary file, the row, the
event, and renames last (`FindDoc`, `WriteTemp`, `ReadBefore`, `Load`, `WriteRow`,
`RecordUpdated`, `Commit`, `Reread`, `Drop`); a deletion removes the row, records
the event and unlinks the file. `Partial` is a file whose writing was cut short.
Any file operation and any event insert may fail, `Crash` drops every request, and
`DeleteTask` takes the rows by cascade and leaves the files.

Contents are sent once each, so a file tells whose write it holds. The history
variables say what a reader may hold the code to: `stale` contents were refused or
have been replaced by a later answered update; `unrecorded` attachments lost their
file because their *event* failed (`handler.go:707`, the row stays); `abandoned`
names what a crash, a failed call or an overtaken update may leave on disk.

`AttachmentStore` is what a reader may think of all this: `shown[d]` appears once, is
replaced in one step, and is withdrawn for good. The mapping (`Shown`, `Fresh`,
`Pending`) takes an attachment as shown while it has a row and its creation has not
failed, an id as fresh until its row is inserted, and a content as pending until it is
in place or refused.

### PullRequestVerifier

`pr[p]` is a pull request on GitHub, which moves freely between queries: threads
are added, open and close, checks run, it is merged, closed, or vanishes. `req[c]`
is the gate an update waits at: the pull request it is at, those left, the cursor,
and what the pages so far added up to (the locals of `VerifyPullRequest`).
`Token` and `RunGH` are `defaultTokenSource`, whose mutex is held while `gh` runs;
`Query` reads one page; `NotFound`, `QueryFails` and `NoEvidence` are the two kinds
of errors the rules tell apart. `clear[c]` and `deficient[c]` are history: threads
of the current pull request that have been clear since its verification began, and
pull requests that have lacked the evidence since the gate was reached.

### AgentIdentity and AgentNames

`file[k]` is `.config/taskline/agent.json` of checkout *k*: absent, torn, or an
identity. `proc[p]` is the command a process runs. `register` reads the file
(`Load`), asks the server (`Ask`: a caller that presents a token is refused),
inserts the row or rotates its token (`Upsert`), waits for the answer, and writes
the file in place, truncated first (`Truncate`, `Fill`). Every other command is of
one of seven kinds, by what it does on either side:

| Kind | Reads of the file | Handler | Commands |
| --- | --- | --- | --- |
| `read` | `newClient` | looks at no token | get, history, search, list, projects, reading documents and images |
| `write` | `newClient` | `optionalAgent` | create, delete, next, list --runnable, dependencies, links, attachments, update and release with --force |
| `status` | its own, which rejects a torn file | `optionalAgent` | status |
| `mine` | `requireIdentity`, then `newClient` | looks at no token, takes the owner from the query | list --mine |
| `update` | `requireIdentity`, then `newClient` | `optionalAgent` | update; list --mine --runnable |
| `claim` | `requireIdentity`, then `newClient` | insists on an agent | claim, heartbeat, release |
| `next` | `newClient`, then `requireIdentity` | insists on an agent | next --claim |

`requireIdentity` throws away what it read, except for `list --mine`; the token
presented is always that of `newClient`, which takes a file it cannot read for none.
`found` keeps the name all the same, so that `ServedAsFiled` can compare the two.
`meddled` is history: processes whose file or token somebody else has touched since
they first read the file. A checkout acts as the agent in its file if that
identity is in the table (`NameOf`), which is the refinement mapping to
`AgentNames`: a checkout takes a name that no other has, or loses its own.

Some consequences a reader might not expect: a checkout whose token was rotated away
cannot register again until its file is removed, for the dead token is presented and
refused with 401, but serves all commands whose handler looks at no token, and
`list --mine` goes on listing the tasks of that name, whoever holds it now; a file
that does not parse makes `newClient` go on as the anonymous caller, which commands
that need no agent then are, and, if the file is torn between the two reads, an
update that required one too (see "Noticed while modelling"). That the agent `status`
is answered with is the one in the file, which it checks (`status.go:74`), is an
instance of `ServedAsFiled` and never fails with one server.

### TaskQueue

Several tasks with priority, creation time, labels, owner and whether the lease is
live. What a request sends is a list of labels, whose order and repetitions
`Normalized` decides on; what a row has is a set, for nothing depends on the order in
which a task's labels are stored. `Choice(a)` is the query of `claimNextTaskID`,
`NextRunnable`, `ListRunnable` and `ListTasks` the others; each has its conditions
and its order from its own query. People create, move, prioritize, relabel, connect
and delete tasks; agents ask, are told or not (`Unanswered`), finish, give up, renew,
leave and come back. `Key` folds names as Go does, `Lower` as SQLite does, for ASCII
only. `aside[a]` is history: tasks of *a* that have been out of its reach since it
got them.

### Migrations

`db` has the stamp, the tables and columns, the `CHECK` on states, one task, and
which child tables have rows of it. `Works(v)` says when step *v* runs through,
`Stepped(v)` what it leaves, with the stamp in the same transaction. `Open` reads the
version *before* the first transaction, as `store.go:135` does. A release embeds the
migrations up to its own version: that older releases are prefixes of today's list
is an assumption, as the repository holds one commit. A serving release writes the
states it knows; releases before 12 know no `completed_at`. `raced` is history: a
step was applied while another server was about to apply one from a version it read
earlier.

## Runs

| Run | Instance | Shows |
| --- | --- | --- |
| `claims` | one task, agents *a* and *b* and the anonymous caller, at most two requests in flight, clock to 3, leases of 2, renewal of 1 | type invariant, `DoneIffCompleted`, `LeaseHonoured`, `ClaimIsolates`, `TakeoverOnlyAfterExpiry` |
| `dependencies_one_adder` | three tasks, one client, any edge | type invariant, `Acyclic`, `EdgesJoinTasks`, `RefusalJustified`, and that `Dependencies` implements `DependencyGraph` |
| `dependencies_racing_adders` | three tasks, two clients | `Acyclic` is **violated** |
| `dependencies_answered` | the same, with fairness | `AddAnswered` holds even on graphs that are cyclic |
| `updates_mixed` | an agent and the anonymous caller, one pull request, four kinds of requests, two attempts, one piece | type invariant, `ConditionalEntryVerified`, `IncrementalExact`, `ClaimRespected` |
| `updates_moves` | the same, nobody uses `if_state` | `EntryVerified` is **violated** |
| `updates_increments` | the same, only label operations and appends | `UnaskedUnchanged` is **violated** |
| `attachments` | two callers, one document, one image, three contents, two titles | type invariant; what is listed is whole and not stale (`ListedIsWhole`, `ShownIsCurrent`), what readers see is a store of registers (`ImplementsStore`), files are left only by the failures that are named (`OrphansExplained`, `TempsCollected`), a retitling is undone only within one store call (`RetitlingKept`) |
| `evidence` | two gates, one with two pull requests and one with one or none, pages of one thread, two threads, two changes on GitHub, one credential; with fairness | type invariant, `AcceptanceExplained`, `RefusalExplained`, `GateAnswered` |
| `identity` | two processes in one checkout and one in another, two names, three tokens | type invariant, `ReportedWorks`, `ImplementsNames`, `ServedAsFiled`, `WorkingIdentityKept` |
| `queue` | two tasks, an agent that stays and asks for a label and one that may leave, one label per task, one intervention; with fairness | type invariant, `OneTaskAtATime`, `ListingsAgree`, `Drained` |
| `migrations` | two servers, releases of versions 2, 6 and 13, edges and links as child rows, three starts | type invariant, `ExactlyOnce`, `NeverStuck`, `ReadyToServe`, `RowsKept` |

### Bounds

* `claims`: all claim properties speak of one row, so one task has every
  interleaving that matters; with three sessions and two requests in flight each
  pair of operations races, and the third session acts before and after. The
  clock has room for a lease to be granted, renewed with a shorter one and to
  expire while a request with an older instant waits. Agents are symmetric; the
  run checks no liveness. With one task the queue order decides nothing, which is
  left to `TaskQueue`.
* `dependencies_*`: cycles of two and three tasks, walks of three queries, a task
  that leads into a cycle it is no part of. `Acyclic` and `ImplementsGraph` were
  also checked with four tasks. Task ids are never reused, so the state space is
  finite without another bound.
* `updates_*`: two sessions that each read, gate, load and write are enough for
  every stale-read race; two attempts show a retry and its end (`MaxAttempts` is
  eight in the code); `MaxPieces` bounds the description.
* `attachments`: the number of contents bounds the writes: one creates the document,
  two update it at the same time, or one updates it and the third creates the image.
  A race needs two callers; a third party is the crash and the deletion of the task.
* `evidence`: `MaxChanges` bounds what happens on GitHub, `MaxThreads` the pages. Two
  changes are what a verdict needs to mix moments (one behind the cursor, one ahead).
  The initial pull requests are two pairs chosen so that accepting, refusing and
  finding nothing are all near. The theorems have none of these bounds.
* `identity`: the number of tokens bounds the registrations that reach the server:
  one per process, which lets two of one checkout and one of the other overlap. The
  process of the second checkout only registers (`MCRuns`): commands of other kinds
  change nothing that another process sees.
* `queue`: two tasks are enough for an order, an edge and a choice between one's own
  and a more urgent one. `MaxMoves` bounds what people do after creation, so that
  `Drained`, which speaks of a queue left alone, has something to say; `MaxClock`
  lets tasks share a creation time or not; `MaxLabels` is twenty in the code.
* `migrations`: version 2 is before the states were renamed, 6 after the swaps that
  lose child rows, 13 is the latest; `MaxStarts` lets a server die twice.

Deadlock is checked in every run but `migrations`, where the servers may all be off
when the starts are used up.

### Fairness

* `AddAnswered` assumes weak fairness of `Advance(c)`: a handler goroutine that can
  run its next statement eventually does. Nothing is assumed of callers, so nobody
  has to delete the edges of a cycle for the walk to end.
* `GateAnswered` assumes the same of gates (`gh` exits and a query has a timeout of
  fifteen seconds), and strong fairness of taking the mutex: `sync.Mutex` hands over
  to a waiter that has starved for a millisecond. With weak fairness alone it fails.
* `Drained` assumes that leases run out, that calls end and are not without answer
  for ever while the claim lasts, that an agent told of tasks again and again finishes
  one of them, and that a steady agent asks when there is a task for it. It assumes
  nothing of agents that may leave and nothing of the people. That the evidence for
  done is there is the agent's business in this module.

## What the violated runs show

* **Two racing `AddDependency` calls store a cycle.** `store.go:1138-1139` promises
  a conflict. Both walks end before either insert. The tasks of the cycle can then
  never be claimed. The theorems about the graph therefore assume one adder at a
  time.
* **A task enters done without evidence.** The gate is skipped when the request's
  state equals the state the service read, or when it names none; the store then
  writes the state it read, whatever the task has become. `DOMAIN.md:70-85`
  promises the gate whenever a task actually enters the state. With `if_state` the
  promise holds, which `ConditionalEntryVerified` states and a theorem proves.
* **An append takes back a label that was added meanwhile**, and the reverse,
  although a field that is not given is documented as unchanged
  (`store.go:857`). What does hold is `IncrementalExact`, and, for the holder of a
  claim, `ClaimIsolates`.

## Noticed while modelling

What follows is not a run of its own; the modules have the behaviour, and the
properties are stated so that they hold beside it.

* **The early table swaps lose child rows.** Steps 3, 5 and 6 drop the old `tasks`
  table with foreign keys enforced. The comments (`0003_pending_state.sql:5-9`,
  `0005_design_to_spec.sql:6-8`) expect `PRAGMA defer_foreign_keys` to keep the rows
  that refer to it; it defers the check, not `ON DELETE CASCADE`. Step 9 saves and
  restores them. `store_test.go:1145` seeds an edge and never looks at it again.
  `RowsKept` speaks of child rows from version 6 on.
* **Two servers that start at once repeat steps.** Each reads `user_version` outside
  the transactions, against "exactly once per database" (`store.go:62-65`): the
  second fails on a table or column that is there already, or runs a swap again,
  which drops the columns added since. `ExactlyOnce`, `NeverStuck` and `ReadyToServe`
  are therefore stated for servers that did not race; that the task itself and
  whether it is done survive a race is part of `RowsKept`.
* **Label filters fold ASCII only** (`store.go:292`), while labels are stored folded
  by Go: a label with another letter is one label on a task (`DOMAIN.md:30`) and is
  missed by a filter in another case (`DOMAIN.md:146`). `ListingsAgree` holds because
  all filters fold alike.
* **An update that required an identity can be served as nobody.** `task update`
  calls `requireIdentity` (`task.go:365-369`), and then `newClient` (`task.go:370`)
  reads the file again and takes a torn one for none; `updateTask` serves anybody
  (`handler.go:472-479`). A registration in the same checkout between the two reads,
  or a removed file, makes the update anonymous, while `README.md:211-212` says that
  normal update flows derive the owner from the registered token. `ServedAsFiled`
  therefore exempts commands whose file or token was touched meanwhile (`meddled`);
  for these it still says that whoever is named had the token in the file.
* **The credential is never looked up again.** The message advises `gh auth login`,
  but a token that was found once is used until the server restarts.

## Proofs

Each proof module states an inductive invariant, shows that the initial states
satisfy it and that every action preserves it, and derives the properties.

**`TaskClaimsProofs`** (any tasks, agents, dependencies, leases, bounds).
`ClaimsInv` adds to the properties what they rest on: instants in flight are not
in the future (`NowIsPast`: without it a claim could compare a lease with a time
to come); an unforced update in flight read the task as unclaimed or its own
(`ReadAsOwn`); rows *and* what updates have read agree on completion
(`CompletionConsistent`: an update writes back what it read); an answer under way
still names a lease the row grants (`AnswerTrue`); ids are minted once. The core
is the lemma `OwnerProtected`: without force, a row owned by *a* changes only by
*a*'s own steps, or after the lease has run out. From it follow `LeasesHonoured`,
`ClaimsIsolate` and, with `OwnerChange`, `NoEarlyTakeover`.

**`DependenciesProofs`**. For any number of clients: typing, and no dangling
edge. Under `OneAdder`: `WalkCovers` says that what a visited task waits for is
visited or still open and that the waiting task is not visited. Deleting edges or
tasks keeps it, and so does everything else that can happen while no other walk
inserts. When nothing is open, the visited tasks are a closed set without the
waiting task, so the new prerequisite does not lead to it, and the insert is an
`Add` of `DependencyGraph`. Hence `Implements`, and `StaysAcyclic` from the
abstract module. `WalkInside` bounds the walk from above and gives
`RefusalsJustified`.

**`TaskUpdateProofs`** (any requests, any number of agents). `ReadAllows`: what an
attempt read allowed it to go on. `EvidenceFirst`: a conditional request that
crosses into a gated state is on its way to the evidence or has it. The guard of
the `UPDATE` carries both over to the row as it is at the write.

**`AgentIdentityProofs`** (any checkouts, processes, names, tokens). `TokensInv`: a
token is known for one name and held by one checkout at most, in a file or by a
registration under way. `Undisturbed`: a registration that nobody interfered with
finds file and row as it left them, and any other command the file as it read it,
which ties what `requireIdentity` found to what `newClient` presents in either order
and gives `ServesAsFiled`. Names in the table are unique, so two working
checkouts with one name would hold one token: hence `SingleHolder`, and, because a
step changes the files of one checkout or the row of one name, `Implements`.

**`PullRequestVerifierProofs`** (any gates, pull requests, links, page size, number of
threads). `PagesTrue`: what is clear now has been clear; as long as no thread has
counted, each thread on the pages turned has been clear; what counted made the pull
request deficient. It survives whatever GitHub does because threads are only added
at the end and pages turned are full, so nothing slips in behind the cursor.
`RefusalsTrue`: every linked pull request left behind without an error is known to
have lacked something. The last page then gives `Acceptances` and `Refusals`.

**`MigrationsProofs`** (any servers, sets of releases, child tables, starts). Even
after a race `FileInv` holds: the CHECK is that of some version, and there is a task
only if there is a table for it, so that every step leaves a row its CHECK accepts.
Unless servers raced, `SchemaInv` gives the tables, columns and CHECK that belong to
the stamp, and `ServersInv` says that a server with steps to apply read the stamp that
is still there. The next step is therefore the one after the stamp, finds what it
needs (`GetsThrough`), and is counted once (`AppliedOnce`). `Ready` is stated for
releases later than the first, which may meet the old state `test` in a file from
before there were versions. `Kept` needs `SchemaInv` for the completion: it is
recorded from version 12 on, after the last swap.

**`AttachmentsProofs`** (any callers, documents, images, contents, titles). The steps of
a handler count on what its earlier steps left, while others run, the task is deleted
and the server dies; `AttachmentInv` says what they can count on. `UnbornInv` and
`CreatorInv`: an id is found only after its row was inserted, so a creation has its file
to itself until then. `SentInv`: a content under way is in no other request, in no
answer, and in no file but the one its creation is about, so that neither a refusal nor
a rename can make a file of somebody else stale. `AnsweredInv`: what was answered for a
document lies in its file or in none. `PlaceInv` has the facts of single steps: the
file is whole when its row is inserted, the row is gone when a deletion unlinks, an
update past its check has a row or is recorded as overtaken, and what it loaded is the
title unless it was overtaken. `OrphanInv` sharpens `OrphansExplained` to the steps that
a crash accounts for: without it a crash could lose the reason for a file. `StepKept(c)`
says what a step of one request may do to contents, places and leftovers; each of the
21 actions is shown to be such a step, and such steps to keep the invariant. `Listed`,
`Current`, `Orphans`, `Temps` and `TitlesKept` follow. `Implements` uses `StepKept`
again: where a step shows something new, its request inserted the row of a fresh id or
renamed a content that is pending, and neither is left fresh or pending; every other
step, a crash included, withdraws or changes nothing that is shown.

**`TaskQueueProofs`** (any tasks, agents, names, keys, limits). `WithinReach`: a task an
agent owns is runnable and carries the labels it asks for, unless it has been aside.
The claim of the next task takes one's own such task first, hence `OneAtATime`.
`Listings` needs no invariant: it compares the conditions and the orders of the four
queries. `TypeCorrect` rests on `Applied` leaving no two labels that differ in case.
`QueueHasGraph` shows every step of the queue to be a step of `DependencyGraph` or to
leave the graph alone; `QueueNeverDry` uses that its graph is acyclic: what the steady
agents can do and is not done always contains a task that waits for nothing. That is
the safety half of `Drained`; that it is then claimed and finished is liveness.

Assumptions are the `ConstantsAssumption` of each module and the `NoneAssumption` of
`Migrations` and of `TaskQueue`, which TLC evaluates in every run, and `OneAdder` and `1 \notin Releases`
where a theorem names them.

Only model-checked: liveness (`AddAnswered`, `GateAnswered`, `Drained`), whose proofs
would need `ENABLED` and induction, which are out of the prover's reach. Every other
property of a passing run is a theorem.
The violated properties are, of course, not proved.

## Not modelled, and the plan

1. `EventLog`: what an event says and in which order events are listed. Its insert,
   and its failure, are part of `TaskClaims` and `Attachments`; its text is the
   difference of two rows read at different moments and makes no promise that the
   code keeps under concurrency.
2. `WebDrafts`: the replay of the editor's drafts after a partial failure
   (`useTaskResourceDrafts.ts`), the one piece of the web application with a protocol
   of its own.
3. The search ranking as an operator against a reference definition: its weights are
   a matter of taste, and no other part depends on them.

Theorems to come: that `TaskClaims` implements an abstract lease, and more about the
operators the modules share.

Left out for good: rendering, wording, status codes, routing, layout, styling,
build and deployment scripts, and the instructions for agents in `skills/`: they
hold no state whose changes could go wrong.
