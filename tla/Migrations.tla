----------------------------- MODULE Migrations -----------------------------
(***************************************************************************)
(* The schema of the database and the servers that migrate it when they      *)
(* start.  Each step runs in one transaction with its stamp in user_version, *)
(* but a server reads the version once, before its first transaction.        *)
(* Servers stop at any point and start again, a newer or an older release    *)
(* takes over, and two may run on one file.                                *)
(*                                                                          *)
(* A release embeds the migrations up to its own version.  There is one     *)
(* task, with its state and its rows in the child tables; types, indexes    *)
(* and the contents of rows are left out.  A table swap creates a new       *)
(* tasks table, copies what it names, and drops the old one: foreign keys   *)
(* are enforced, so the rows of the child tables go with the old one.       *)
(***************************************************************************)
EXTENDS Naturals, FiniteSetsExt

CONSTANTS
    Servers,     \* server processes
    Releases,    \* releases, by the version of their last migration
    Children,    \* child tables whose rows are followed
    MaxStarts,   \* bound on the starts of servers
    None         \* no task

Latest == 13
Versions == 1 .. Latest

ASSUME ConstantsAssumption ==
    /\ Releases \subseteq Versions
    /\ Children \subseteq {"deps", "images", "links", "docs"}
    /\ MaxStarts \in Nat

VARIABLES
    db,        \* the database file
    srv,       \* srv[s]: what server s is at
    starts,    \* starts of servers so far
    applied,   \* how often each version was applied before servers raced (history)
    raced,     \* a step was applied while another server was about to apply one
               \* from a version it had read before (history)
    outdated   \* a release without completed_at has changed the task since
               \* version 12 (history)

vars == <<db, srv, starts, applied, raced, outdated>>

-----------------------------------------------------------------------------
(* What the releases know, and the CHECK of the tasks table that a version  *)
(* leaves.  Before there were versions, "test" was a state.                 *)

Legacy == {"created", "design", "dev", "test", "review", "done"}

StatesOf(v) ==
    CASE v < 3 -> {"created", "design", "dev", "review", "done"}
      [] v \in 3 .. 4 -> {"pending", "start", "design", "dev", "review", "done"}
      [] v = 5 -> {"pending", "start", "spec", "dev", "review", "done"}
      [] v > 5 -> {"pending", "start", "spec", "dev", "test", "review", "done"}

States == Legacy \cup UNION {StatesOf(v) : v \in Versions}

ASSUME NoneAssumption == None \notin States

ChildrenOf(v) == {"deps", "images"} \cup (IF v >= 4 THEN {"links"} ELSE {})
                                    \cup (IF v >= 7 THEN {"docs"} ELSE {})

TablesOf(v) == {"tasks"} \cup ChildrenOf(v) \cup (IF v >= 11 THEN {"agents"} ELSE {})
                                            \cup (IF v >= 13 THEN {"events"} ELSE {})

ColumnsOf(v) == (IF v >= 8 THEN {"labels"} ELSE {}) \cup (IF v >= 10 THEN {"claims"} ELSE {})
                                                    \cup (IF v >= 12 THEN {"completed"} ELSE {})

Database == [stamp: 0 .. Latest, tables: SUBSET TablesOf(Latest), columns: SUBSET ColumnsOf(Latest),
             allowed: SUBSET States, task: States \cup {None}, children: SUBSET Children,
             completed: BOOLEAN]

Server == [at: {"off", "migrating", "serving"}, release: Versions, current: 0 .. Latest]

Off == [at |-> "off", release |-> Latest, current |-> 0]

(* The type invariant: the task is in a state the CHECK of its table allows, *)
(* and the rows of the child tables, which exist, belong to a task.        *)
TypeOK ==
    /\ db \in Database
    /\ db.task # None => db.task \in db.allowed
    /\ db.children \subseteq db.tables
    /\ db.children # {} => db.task # None
    /\ srv \in [Servers -> Server]
    /\ starts \in 0 .. MaxStarts
    /\ applied \in [Versions -> 0 .. 2]
    /\ raced \in BOOLEAN
    /\ outdated \in BOOLEAN

(* A new file, or one from before there were versions.                     *)
Empty == [stamp |-> 0, tables |-> {}, columns |-> {}, allowed |-> {}, task |-> None,
          children |-> {}, completed |-> FALSE]

Unversioned == [Empty EXCEPT !.tables = TablesOf(1), !.allowed = Legacy, !.task = "test",
                             !.children = Children \cap {"deps"}]

Init ==
    /\ db \in {Empty, Unversioned}
    /\ srv = [s \in Servers |-> Off]
    /\ starts = 0
    /\ applied = [v \in Versions |-> 0]
    /\ raced = FALSE
    /\ outdated = FALSE

-----------------------------------------------------------------------------
(* The steps.                                                              *)

Swaps == {3, 5, 6, 9}

NotRenamed(v, state) == state

Renamed(v, state) ==
    CASE v = 2 /\ state = "test" -> "dev"
      [] v = 3 /\ state = "created" -> "start"
      [] v = 5 /\ state = "design" -> "spec"
      [] OTHER -> state

(* The only table that version v adds, or its only columns.                *)
NewTables(v) == IF v = 1 THEN TablesOf(1) ELSE TablesOf(v) \ TablesOf(v - 1)
NewColumns(v) == IF v = 1 THEN {} ELSE ColumnsOf(v) \ ColumnsOf(v - 1)

(* A table or column that is there already is an error, except in the first *)
(* step; a swap fails on a row that the new CHECK refuses, and the last one *)
(* needs what it copies.                                                   *)
Works(v) ==
    /\ v > 1 => NewTables(v) \cap db.tables = {} /\ NewColumns(v) \cap db.columns = {}
    /\ v \in Swaps /\ db.task # None => Renamed(v, db.task) \in StatesOf(v)
    /\ v = 9 => {"links", "docs"} \subseteq db.tables /\ "labels" \in db.columns

SwappedWithout(v) ==
    [db EXCEPT !.columns = db.columns \cap ColumnsOf(v), !.allowed = StatesOf(v),
               !.task = Renamed(v, db.task), !.children = {},
               !.completed = FALSE]

(* Only the last swap saves the rows of the child tables and puts them back. *)
Swapped(v) ==
    [db EXCEPT !.columns = db.columns \cap ColumnsOf(v), !.allowed = StatesOf(v),
               !.task = Renamed(v, db.task), !.children = IF v = 9 THEN @ ELSE {},
               !.completed = FALSE]

ExtendedWithoutBackfill(v) ==
    [db EXCEPT !.tables = @ \cup NewTables(v), !.columns = @ \cup NewColumns(v),
               !.allowed = IF v = 1 /\ "tasks" \notin db.tables THEN StatesOf(1) ELSE @,
               !.task = Renamed(v, @)]

(* Version 12 counts the tasks that are done as completed.                 *)
Extended(v) ==
    [db EXCEPT !.tables = @ \cup NewTables(v), !.columns = @ \cup NewColumns(v),
               !.allowed = IF v = 1 /\ "tasks" \notin db.tables THEN StatesOf(1) ELSE @,
               !.task = Renamed(v, @),
               !.completed = IF v = 12 THEN db.task = "done" ELSE @]

Stepped(v) == [(IF v \in Swaps THEN Swapped(v) ELSE Extended(v)) EXCEPT !.stamp = v]

-----------------------------------------------------------------------------
(* A server starts: it reads the version, applies what is missing, serves.  *)

Pending(s) == IF srv[s].at = "migrating" THEN {v \in 1 .. srv[s].release : v > srv[s].current} ELSE {}

Open(s, r) ==
    /\ srv[s].at = "off"
    /\ starts < MaxStarts
    /\ starts' = starts + 1
    /\ srv' = [srv EXCEPT ![s] = [at |-> "migrating", release |-> r, current |-> db.stamp]]
    /\ UNCHANGED <<db, applied, raced, outdated>>

MigrateUnstamped(s) ==
    LET v == Min(Pending(s)) IN
    /\ Pending(s) # {} /\ Works(v)
    /\ \/ db' = Stepped(v) /\ srv' = [srv EXCEPT ![s].current = v]
       \/ db' = [Stepped(v) EXCEPT !.stamp = db.stamp] /\ srv' = [srv EXCEPT ![s] = Off]
    /\ raced' = (raced \/ \E t \in Servers \ {s} : Pending(t) # {})
    /\ applied' = IF raced' THEN applied ELSE [applied EXCEPT ![v] = Min({@ + 1, 2})]
    /\ UNCHANGED <<starts, outdated>>

(* One transaction: the step and its stamp, or neither.  The counts stop at *)
(* two.                                                                    *)
Migrate(s) ==
    LET v == Min(Pending(s)) IN
    /\ Pending(s) # {} /\ Works(v)
    /\ db' = Stepped(v)
    /\ srv' = [srv EXCEPT ![s].current = v]
    /\ raced' = (raced \/ \E t \in Servers \ {s} : Pending(t) # {})
    /\ applied' = IF raced' THEN applied ELSE [applied EXCEPT ![v] = Min({@ + 1, 2})]
    /\ UNCHANGED <<starts, outdated>>

Serve(s) ==
    /\ srv[s].at = "migrating" /\ Pending(s) = {}
    /\ srv' = [srv EXCEPT ![s].at = "serving"]
    /\ UNCHANGED <<db, starts, applied, raced, outdated>>

(* The process ends: a step failed or found the file locked, or a crash.    *)
(* What it had not committed is rolled back.                               *)
Stop(s) ==
    /\ srv[s].at # "off"
    /\ srv' = [srv EXCEPT ![s] = Off]
    /\ UNCHANGED <<db, starts, applied, raced, outdated>>

-----------------------------------------------------------------------------
(* A server that serves, by what its release does to the task.  A statement *)
(* on a missing table or column, or against the CHECK, fails.               *)

Equipped(r) == TablesOf(r) \subseteq db.tables /\ ColumnsOf(r) \subseteq db.columns

Serves(s, r) ==
    /\ srv[s].at = "serving" /\ r = srv[s].release /\ Equipped(r)
    /\ UNCHANGED <<srv, starts, applied, raced>>

Entries(r) == IF r < 3 THEN {"created"} ELSE {"pending", "start"}

CreateTask(s, r, state) ==
    /\ Serves(s, r)
    /\ db.task = None /\ state \in Entries(r) \cap db.allowed
    /\ db' = [db EXCEPT !.task = state, !.completed = FALSE]
    /\ outdated' = FALSE

(* Releases from version 12 on keep completed_at with the state.           *)
MoveTask(s, r, state) ==
    /\ Serves(s, r)
    /\ db.task \notin {None, state} /\ state \in StatesOf(r) \cap db.allowed
    /\ db' = [db EXCEPT !.task = state,
                        !.completed = IF r < 12 THEN @
                                      ELSE IF db.task = "done" THEN FALSE
                                      ELSE @ \/ state = "done"]
    /\ outdated' = (outdated \/ (r < 12 /\ "completed" \in db.columns /\ ~raced))

AddChild(s, r, table) ==
    /\ Serves(s, r)
    /\ db.task # None /\ table \in Children \cap ChildrenOf(r)
    /\ db' = [db EXCEPT !.children = @ \cup {table}]
    /\ UNCHANGED outdated

DeleteTaskOnly(s, r) ==
    /\ Serves(s, r)
    /\ db.task # None
    /\ db' = [db EXCEPT !.task = None, !.completed = FALSE]
    /\ outdated' = FALSE

(* The cascade deletes the rows of the child tables with the task.         *)
DeleteTask(s, r) ==
    /\ Serves(s, r)
    /\ db.task # None
    /\ db' = [db EXCEPT !.task = None, !.children = {}, !.completed = FALSE]
    /\ outdated' = FALSE

Next ==
    \E s \in Servers :
        \/ \E r \in Releases : Open(s, r)
        \/ Migrate(s) \/ Serve(s) \/ Stop(s)
        \/ \E r \in Releases :
              \/ \E state \in States : CreateTask(s, r, state) \/ MoveTask(s, r, state)
              \/ \E table \in Children : AddChild(s, r, table)
              \/ DeleteTask(s, r)

Spec == Init /\ [][Next]_vars

-----------------------------------------------------------------------------
(* Properties.                                                             *)

(* Crashes and restarts notwithstanding, each step up to the stamp has been *)
(* applied exactly once and none beyond it, unless two servers migrated at  *)
(* the same time.                                                          *)
ExactlyOnce ==
    ~raced => \A v \in Versions : applied[v] = IF v <= db.stamp THEN 1 ELSE 0

(* No step fails on the schema or the rows it meets, whichever releases have *)
(* written to the database before: a server that starts again gets through. *)
NeverStuck ==
    ~raced => \A s \in Servers : Pending(s) # {} => Works(Min(Pending(s)))

(* A server that serves has the tables and columns its release uses; if the *)
(* schema is its own, it finds the task in a state it knows, and completed   *)
(* exactly if done, where the column exists and no older release wrote.  (A *)
(* release with the first step only is an exception: it may meet "test".)   *)
ReadyToServe ==
    ~raced =>
        \A s \in Servers : srv[s].at = "serving" =>
            /\ Equipped(srv[s].release)
            /\ srv[s].release = db.stamp /\ db.task # None =>
                  /\ db.task \in StatesOf(db.stamp)
                  /\ db.stamp >= 12 /\ ~outdated => (db.completed <=> db.task = "done")

(* A migration keeps the task, and a done one done, even if servers race;    *)
(* and the rows of the child tables and the completion, unless it leaves a   *)
(* version before 6 or servers race: the earlier swaps lose the children    *)
(* to the cascade, and a race may run them again.                          *)
RowsKept ==
    [][\A s \in Servers : Migrate(s) =>
          /\ (db.task = None) = (db.task = None)'
          /\ (db.task = "done") = (db.task = "done")'
          /\ ~raced' /\ db.stamp >= 6 =>
                db.children' = db.children /\ (db.completed => db.completed')]_vars
=============================================================================
