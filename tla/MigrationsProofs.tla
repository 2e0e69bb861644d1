-------------------------- MODULE MigrationsProofs --------------------------
(* Proofs about Migrations for any servers, releases and numbers of starts.  *)
EXTENDS Migrations, TLAPS

-----------------------------------------------------------------------------
(* The inductive invariant.                                                *)

(* Of the file itself, even after a race: the CHECK is that of some version, *)
(* and there are no rows without tables.                                   *)
FileInv ==
    /\ db.allowed \in {{}, Legacy} \cup {StatesOf(v) : v \in Versions}
    /\ "tasks" \notin db.tables => db.task = None

(* The schema and the rows are those of the stamp.                         *)
SchemaInv ==
    /\ IF db.stamp = 0 THEN db.tables \in {{}, TablesOf(1)} /\ db.columns = {}
       ELSE db.tables = TablesOf(db.stamp) /\ db.columns = ColumnsOf(db.stamp)
    /\ db.allowed = IF db.stamp >= 3 THEN StatesOf(db.stamp) ELSE db.allowed \cap Legacy
    /\ db.stamp = 2 => db.task # "test"
    /\ db.stamp < 12 => ~db.completed
    /\ db.stamp >= 12 /\ ~outdated => (db.completed <=> db.task = "done")

(* A server that has steps to apply goes on from the stamp, and one that    *)
(* has none is behind it.                                                  *)
ServersInv ==
    \A s \in Servers :
        /\ srv[s].at = "migrating" => \/ srv[s].current = db.stamp
                                      \/ srv[s].release <= srv[s].current /\ srv[s].current <= db.stamp
        /\ srv[s].at = "serving" => srv[s].release <= db.stamp

CountsInv == \A v \in Versions : applied[v] = IF v <= db.stamp THEN 1 ELSE 0

MigrationInv ==
    /\ TypeOK
    /\ FileInv
    /\ ~raced => SchemaInv /\ ServersInv /\ CountsInv

-----------------------------------------------------------------------------
(* The tables of constants.                                                *)

LEMMA StatesListed ==
    /\ States = {"created", "design", "dev", "test", "review", "done", "pending", "start", "spec"}
    /\ \A v \in Versions : StatesOf(v) \subseteq States
    /\ Legacy \subseteq States
  <1>1. \A v \in Versions : StatesOf(v) \subseteq
          {"created", "design", "dev", "test", "review", "done", "pending", "start", "spec"}
    BY DEF StatesOf, Versions, Latest
  <1>2. 5 \in Versions /\ StatesOf(5) = {"pending", "start", "spec", "dev", "review", "done"}
    BY DEF StatesOf, Versions, Latest
  <1>3. Legacy = {"created", "design", "dev", "test", "review", "done"}
    BY DEF Legacy
  <1> QED BY <1>1, <1>2, <1>3 DEF States

LEMMA NoneIsNoState ==
    None \notin {"created", "design", "dev", "test", "review", "done", "pending", "start", "spec"}
  BY StatesListed, NoneAssumption

(* The least pending step follows the version the server has read.         *)
LEMMA NextStep ==
    ASSUME TypeOK, NEW s \in Servers, Pending(s) # {}
    PROVE  /\ srv[s].at = "migrating" /\ srv[s].current < srv[s].release
           /\ Min(Pending(s)) = srv[s].current + 1 /\ srv[s].current + 1 \in Versions
  <1>1. /\ srv[s].current \in 0 .. Latest /\ srv[s].release \in Versions
    BY DEF TypeOK, Server
  <1>2. srv[s].at = "migrating" /\ Pending(s) = {v \in 1 .. srv[s].release : v > srv[s].current}
    BY DEF Pending
  <1>3. srv[s].current < srv[s].release
    BY <1>1, <1>2 DEF Versions, Latest
  <1>4. srv[s].current + 1 \in Pending(s) /\ \A v \in Pending(s) : srv[s].current + 1 <= v
    BY <1>1, <1>2, <1>3 DEF Versions, Latest
  <1>5. \A x, y \in Pending(s) : x <= y /\ y <= x => x = y
    BY <1>1, <1>2 DEF Versions, Latest
  <1>6. Min(Pending(s)) = srv[s].current + 1
    BY <1>4, <1>5 DEF Min
  <1> QED BY <1>1, <1>2, <1>3, <1>6 DEF Versions, Latest

LEMMA NothingPending ==
    ASSUME TypeOK, NEW s \in Servers, Pending(s) = {}, srv[s].at = "migrating"
    PROVE  srv[s].release <= srv[s].current
  <1>1. srv[s].current \in 0 .. Latest /\ srv[s].release \in 1 .. Latest
    BY DEF TypeOK, Server, Versions
  <1>2. srv[s].release \in 1 .. srv[s].release
    BY <1>1 DEF Latest
  <1>3. ~(srv[s].release > srv[s].current)
    BY <1>2 DEF Pending
  <1> QED BY <1>1, <1>3 DEF Latest

LEMMA CountUp ==
    ASSUME NEW n \in 0 .. 2
    PROVE  Min({n + 1, 2}) \in 0 .. 2 /\ (n = 0 => Min({n + 1, 2}) = 1)
  BY DEF Min

(* What a version adds to the tables and the columns.                      *)
LEMMA Additions ==
    ASSUME NEW v \in Versions, v > 1
    PROVE  /\ TablesOf(v) = TablesOf(v - 1) \cup NewTables(v)
           /\ ColumnsOf(v) = ColumnsOf(v - 1) \cup NewColumns(v)
           /\ TablesOf(v - 1) \cap NewTables(v) = {} /\ ColumnsOf(v - 1) \cap NewColumns(v) = {}
           /\ v \in Swaps => TablesOf(v) = TablesOf(v - 1) /\ ColumnsOf(v) = ColumnsOf(v - 1)
  BY DEF TablesOf, ColumnsOf, ChildrenOf, NewTables, NewColumns, Swaps, Versions, Latest

LEMMA TablesTyped ==
    ASSUME NEW v \in Versions
    PROVE  /\ TablesOf(v) \subseteq TablesOf(Latest) /\ ColumnsOf(v) \subseteq ColumnsOf(Latest)
           /\ ChildrenOf(v) \subseteq TablesOf(v) /\ "tasks" \in TablesOf(v)
           /\ NewTables(v) \subseteq TablesOf(Latest) /\ NewColumns(v) \subseteq ColumnsOf(Latest)
           /\ "tasks" \in NewTables(v) <=> v = 1
  BY DEF TablesOf, ColumnsOf, ChildrenOf, NewTables, NewColumns, Versions, Latest

-----------------------------------------------------------------------------
(* The steps of the schema.                                                *)

LEMMA InitInv == Init => MigrationInv
  <1> SUFFICES ASSUME Init PROVE MigrationInv
    OBVIOUS
  <1>1. Children \subseteq {"deps", "images", "links", "docs"}
    BY ConstantsAssumption
  <1>2. 1 \in Versions /\ Latest \in Versions /\ 0 \in 0 .. Latest
    BY DEF Versions, Latest
  <1>3. /\ TablesOf(1) = {"tasks", "deps", "images"} /\ TablesOf(1) \subseteq TablesOf(Latest)
        /\ StatesOf(1) \subseteq States /\ "test" \in Legacy /\ Legacy \subseteq States
    BY <1>2, TablesTyped, StatesListed DEF TablesOf, ChildrenOf, Legacy
  <1>4. /\ db.stamp = 0 /\ db.tables \in {{}, TablesOf(1)} /\ db.columns = {}
        /\ db.allowed \in {{}, Legacy} /\ db.task \in {None, "test"} /\ ~db.completed
        /\ db.children \subseteq Children \cap {"deps"}
        /\ db.tables = {} => db.task = None /\ db.children = {}
        /\ db.task # None => db.allowed = Legacy
        /\ db.children # {} => db.task # None /\ db.tables = TablesOf(1)
        /\ db \in Database
    <2>1. CASE db = Empty
      BY <1>2, <1>3, <2>1 DEF Empty, Database
    <2>2. CASE db = Unversioned
      <3>1. /\ db.stamp = 0 /\ db.tables = TablesOf(1) /\ db.columns = {} /\ db.allowed = Legacy
            /\ db.task = "test" /\ db.children = Children \cap {"deps"} /\ db.completed = FALSE
        BY <2>2 DEF Unversioned, Empty
      <3>2. db = [stamp |-> 0, tables |-> TablesOf(1), columns |-> {}, allowed |-> Legacy,
                  task |-> "test", children |-> Children \cap {"deps"}, completed |-> FALSE]
        BY <2>2 DEF Unversioned, Empty
      <3>3. db \in Database
        BY <1>2, <1>3, <3>2 DEF Database
      <3>4. None # "test"
        BY NoneIsNoState
      <3> QED BY <1>3, <3>1, <3>3, <3>4
    <2> QED BY <2>1, <2>2 DEF Init
  <1>5. TypeOK
    <2>1. Off \in Server
      BY <1>2 DEF Off, Server
    <2>2. starts \in 0 .. MaxStarts
      BY ConstantsAssumption DEF Init
    <2>3. db.task # None => db.task \in db.allowed
      BY <1>3, <1>4
    <2>4. db.children \subseteq db.tables /\ (db.children # {} => db.task # None)
      BY <1>3, <1>4
    <2>5. db \in Database
      BY <1>4
    <2>6. srv \in [Servers -> Server] /\ applied \in [Versions -> 0 .. 2]
      BY <2>1 DEF Init
    <2>7. raced \in BOOLEAN /\ outdated \in BOOLEAN
      BY DEF Init
    <2> QED BY <2>2, <2>3, <2>4, <2>5, <2>6, <2>7 DEF TypeOK
  <1>6. FileInv
    BY <1>3, <1>4 DEF FileInv
  <1>7. SchemaInv
    BY <1>4 DEF SchemaInv
  <1>8. ServersInv /\ CountsInv
    BY <1>4 DEF Init, ServersInv, CountsInv, Off, Versions
  <1> QED BY <1>5, <1>6, <1>7, <1>8 DEF MigrationInv

(* Renaming leaves no task where there is none, and no other done.         *)
LEMMA Renames ==
    ASSUME NEW v \in Versions, NEW x \in States \cup {None}
    PROVE  /\ Renamed(v, x) \in States \cup {None}
           /\ Renamed(v, x) = None <=> x = None
           /\ Renamed(v, x) = "done" <=> x = "done"
           /\ v \notin {2, 3, 5} => Renamed(v, x) = x
           /\ v = 2 => Renamed(v, x) = IF x = "test" THEN "dev" ELSE x
           /\ v = 3 => Renamed(v, x) = IF x = "created" THEN "start" ELSE x
           /\ v = 5 => Renamed(v, x) = IF x = "design" THEN "spec" ELSE x
  BY StatesListed, NoneIsNoState DEF Renamed

(* A step that works finds its place: the fields it leaves.                *)
LEMMA SteppedFields ==
    ASSUME TypeOK, FileInv, NEW v \in Versions, Works(v)
    PROVE  LET new == Stepped(v) IN
           /\ new \in Database
           /\ new.stamp = v
           /\ new.tables = db.tables \cup (IF v \in Swaps THEN {} ELSE NewTables(v))
           /\ new.columns = IF v \in Swaps THEN db.columns \cap ColumnsOf(v)
                            ELSE db.columns \cup NewColumns(v)
           /\ new.allowed = IF v \in Swaps THEN StatesOf(v)
                            ELSE IF v = 1 /\ "tasks" \notin db.tables THEN StatesOf(1)
                            ELSE db.allowed
           /\ new.task = Renamed(v, db.task)
           /\ new.children = IF v \in Swaps \ {9} THEN {} ELSE db.children
           /\ new.completed = IF v \in Swaps THEN FALSE
                              ELSE IF v = 12 THEN db.task = "done" ELSE db.completed
  <1>1. db \in Database /\ Renamed(v, db.task) \in States \cup {None}
    BY Renames DEF TypeOK, Database
  <1>2. v \in 0 .. Latest
    BY DEF Versions, Latest
  <1>3. StatesOf(v) \subseteq States /\ StatesOf(1) \subseteq States
    BY StatesListed DEF Versions, Latest
  <1>4. CASE v \in Swaps
    <2>1. Stepped(v) = [Swapped(v) EXCEPT !.stamp = v]
      BY <1>4 DEF Stepped
    <2>2. db.columns \cap ColumnsOf(v) \in SUBSET ColumnsOf(Latest)
      BY <1>1 DEF Database
    <2>3. (IF v = 9 THEN db.children ELSE {}) \in SUBSET Children
      BY <1>1 DEF Database
    <2> QED BY <1>1, <1>2, <1>3, <1>4, <2>1, <2>2, <2>3 DEF Swapped, Database
  <1>5. CASE v \notin Swaps
    <2>1. Stepped(v) = [Extended(v) EXCEPT !.stamp = v]
      BY <1>5 DEF Stepped
    <2>2. /\ db.tables \cup NewTables(v) \in SUBSET TablesOf(Latest)
          /\ db.columns \cup NewColumns(v) \in SUBSET ColumnsOf(Latest)
      BY <1>1, TablesTyped DEF Database
    <2>3. (IF v = 12 THEN db.task = "done" ELSE db.completed) \in BOOLEAN
      BY <1>1 DEF Database
    <2> QED BY <1>1, <1>2, <1>3, <1>5, <2>1, <2>2, <2>3 DEF Extended, Database, Swaps
  <1> QED BY <1>4, <1>5

(* Every step keeps the file in order, even in a race.                     *)
LEMMA StepKeepsFile ==
    ASSUME TypeOK, FileInv, NEW v \in Versions, Works(v), db' = Stepped(v)
    PROVE  /\ db' \in Database /\ FileInv'
           /\ db'.task # None => db'.task \in db'.allowed
           /\ db'.children \subseteq db'.tables
           /\ db'.children # {} => db'.task # None
  <1>1. db \in Database /\ db.task \in States \cup {None}
    BY DEF TypeOK, Database
  <1>2. /\ db' \in Database
        /\ db'.tables = db.tables \cup (IF v \in Swaps THEN {} ELSE NewTables(v))
        /\ db'.allowed = IF v \in Swaps THEN StatesOf(v)
                         ELSE IF v = 1 /\ "tasks" \notin db.tables THEN StatesOf(1)
                         ELSE db.allowed
        /\ db'.task = Renamed(v, db.task)
        /\ db'.children = IF v \in Swaps \ {9} THEN {} ELSE db.children
    BY SteppedFields
  <1>3. Renamed(v, db.task) = None <=> db.task = None
    BY <1>1, Renames
  <1>4. db'.task # None => db'.task \in db'.allowed
    <2> SUFFICES ASSUME db.task # None PROVE Renamed(v, db.task) \in db'.allowed
      BY <1>2, <1>3
    <2>1. "tasks" \in db.tables /\ db.task \in db.allowed
      BY DEF FileInv, TypeOK
    <2>2. CASE v \in Swaps
      BY <1>2, <2>2 DEF Works
    <2>3. CASE v \notin Swaps /\ v # 2
      <3>1. Renamed(v, db.task) = db.task
        BY <1>1, <2>3, Renames DEF Swaps
      <3> QED BY <1>2, <2>1, <2>3, <3>1
    <2>4. CASE v = 2
      <3>1. db'.allowed = db.allowed
        BY <1>2, <2>4 DEF Swaps
      <3>2. "dev" \in db.allowed
        BY <2>1 DEF FileInv, StatesOf, Legacy, Versions, Latest
      <3>3. Renamed(v, db.task) \in {"dev", db.task}
        BY <1>1, <2>4, Renames
      <3> QED BY <2>1, <3>1, <3>2, <3>3
    <2> QED BY <2>2, <2>3, <2>4
  <1>5. FileInv'
    <2>1. 1 \in Versions
      BY DEF Versions, Latest
    <2>2. db'.allowed \in {{}, Legacy} \cup {StatesOf(w) : w \in Versions}
      BY <1>2, <2>1 DEF FileInv
    <2>3. "tasks" \notin db'.tables => db'.task = None
      BY <1>2, <1>3 DEF FileInv
    <2> QED BY <2>2, <2>3 DEF FileInv
  <1>6. db'.children \subseteq db'.tables /\ (db'.children # {} => db'.task # None)
    BY <1>2, <1>3 DEF TypeOK
  <1> QED BY <1>2, <1>4, <1>5, <1>6

(* A step from the stamp that the file carries leaves the next schema.     *)
LEMMA StepKeepsSchema ==
    ASSUME TypeOK, FileInv, SchemaInv, NEW v \in Versions, v = db.stamp + 1, Works(v),
           db' = Stepped(v), outdated' = outdated
    PROVE  SchemaInv'
  <1>1. db \in Database /\ db.task \in States \cup {None} /\ db.stamp \in 0 .. 12
    BY DEF TypeOK, Database, Versions, Latest
  <1>2. /\ db'.stamp = v
        /\ db'.tables = db.tables \cup (IF v \in Swaps THEN {} ELSE NewTables(v))
        /\ db'.columns = IF v \in Swaps THEN db.columns \cap ColumnsOf(v)
                         ELSE db.columns \cup NewColumns(v)
        /\ db'.allowed = IF v \in Swaps THEN StatesOf(v)
                         ELSE IF v = 1 /\ "tasks" \notin db.tables THEN StatesOf(1)
                         ELSE db.allowed
        /\ db'.task = Renamed(v, db.task)
    BY SteppedFields
  <1>3. db'.tables = TablesOf(v) /\ db'.columns = ColumnsOf(v)
    <2>1. CASE v = 1
      <3>1. NewTables(1) = TablesOf(1) /\ NewColumns(1) = {} /\ ColumnsOf(1) = {} /\ 1 \notin Swaps
        BY DEF NewTables, NewColumns, ColumnsOf, Swaps
      <3>2. db.stamp = 0
        BY <1>1, <2>1
      <3> QED BY <1>2, <2>1, <3>1, <3>2 DEF SchemaInv
    <2>2. CASE v > 1
      <3>1. db.tables = TablesOf(v - 1) /\ db.columns = ColumnsOf(v - 1)
        BY <1>1, <2>2 DEF SchemaInv
      <3>2. CASE v \in Swaps
        <4>1. TablesOf(v) = TablesOf(v - 1) /\ ColumnsOf(v) = ColumnsOf(v - 1)
          BY <2>2, <3>2, Additions
        <4> QED BY <1>2, <3>1, <3>2, <4>1
      <3>3. CASE v \notin Swaps
        <4>1. /\ TablesOf(v) = TablesOf(v - 1) \cup NewTables(v)
              /\ ColumnsOf(v) = ColumnsOf(v - 1) \cup NewColumns(v)
          BY <2>2, Additions
        <4> QED BY <1>2, <3>1, <3>3, <4>1
      <3> QED BY <3>2, <3>3
    <2> QED BY <1>1, <2>1, <2>2
  <1>4. db'.allowed = IF v >= 3 THEN StatesOf(v) ELSE db'.allowed \cap Legacy
    <2>1. CASE v < 3
      <3>1. StatesOf(1) \subseteq Legacy /\ v \notin Swaps
        BY <2>1 DEF StatesOf, Legacy, Swaps
      <3>2. db.allowed = db.allowed \cap Legacy
        BY <1>1, <2>1 DEF SchemaInv
      <3>3. StatesOf(1) = StatesOf(1) \cap Legacy
        BY <3>1
      <3>4. db'.allowed \in {StatesOf(1), db.allowed}
        BY <1>2, <3>1
      <3>5. ~(v >= 3)
        BY <1>1, <2>1
      <3> QED BY <3>2, <3>3, <3>4, <3>5
    <2>2. CASE v >= 3 /\ v \notin Swaps
      <3>1. v \in Versions \ {1, 2, 3, 5, 6, 9} /\ db.stamp >= 3
        BY <1>1, <2>2 DEF Swaps
      <3>2. db.allowed = StatesOf(v - 1)
        BY <1>1, <3>1 DEF SchemaInv
      <3>3. StatesOf(v) = StatesOf(v - 1)
        BY <3>1 DEF StatesOf, Versions, Latest
      <3> QED BY <1>2, <2>2, <3>1, <3>2, <3>3
    <2>3. CASE v >= 3 /\ v \in Swaps
      BY <1>2, <2>3
    <2> QED BY <1>1, <2>1, <2>2, <2>3
  <1>5. v = 2 => db'.task # "test"
    BY <1>1, <1>2, Renames, NoneIsNoState
  <1>6. Renamed(v, db.task) = "done" <=> db.task = "done"
    BY <1>1, Renames
  <1>7. db'.completed = IF v \in Swaps THEN FALSE
                        ELSE IF v = 12 THEN db.task = "done" ELSE db.completed
    BY SteppedFields
  <1>8. v < 12 => ~db'.completed
    <2> SUFFICES ASSUME v < 12 PROVE ~db'.completed
      OBVIOUS
    <2>1. db.stamp < 12 /\ v # 12
      BY <1>1
    <2>2. ~db.completed
      BY <2>1 DEF SchemaInv
    <2> QED BY <1>7, <2>1, <2>2, Zenon
  <1>9. v >= 12 /\ ~outdated => (db'.completed <=> db'.task = "done")
    <2> SUFFICES ASSUME v >= 12, ~outdated PROVE db'.completed <=> db'.task = "done"
      OBVIOUS
    <2>1. v \notin Swaps
      BY DEF Swaps
    <2>2. CASE v = 12
      BY <1>2, <1>6, <1>7, <2>1, <2>2, Zenon
    <2>3. CASE v # 12
      <3>1. db.stamp >= 12
        BY <1>1, <2>3
      <3>2. db.completed <=> db.task = "done"
        BY <3>1, Zenon DEF SchemaInv
      <3> QED BY <1>2, <1>6, <1>7, <2>1, <2>3, <3>2, Zenon
    <2> QED BY <2>2, <2>3
  <1>10. IF db'.stamp = 0 THEN db'.tables \in {{}, TablesOf(1)} /\ db'.columns = {}
         ELSE db'.tables = TablesOf(db'.stamp) /\ db'.columns = ColumnsOf(db'.stamp)
    BY <1>1, <1>2, <1>3
  <1> QED BY <1>2, <1>4, <1>5, <1>8, <1>9, <1>10, Zenon DEF SchemaInv

-----------------------------------------------------------------------------
(* The invariant is inductive.                                             *)

LEMMA MigrateInv ==
    ASSUME MigrationInv, NEW s \in Servers, Migrate(s)
    PROVE  MigrationInv'
  <1> DEFINE v == Min(Pending(s))
  <1>1. TypeOK /\ FileInv
    BY DEF MigrationInv
  <1>2. /\ Pending(s) # {} /\ Works(v) /\ db' = Stepped(v) /\ srv' = [srv EXCEPT ![s].current = v]
        /\ raced' = (raced \/ \E t \in Servers \ {s} : Pending(t) # {})
        /\ applied' = IF raced' THEN applied ELSE [applied EXCEPT ![v] = Min({@ + 1, 2})]
        /\ UNCHANGED <<starts, outdated>>
    BY DEF Migrate
  <1>3. /\ srv[s].at = "migrating" /\ srv[s].current < srv[s].release
        /\ v = srv[s].current + 1 /\ v \in Versions
        /\ srv[s] \in Server /\ srv[s].current \in Nat /\ srv[s].release \in Nat
    BY <1>1, <1>2, NextStep DEF TypeOK, Server, Versions
  <1> HIDE DEF v
  <1>4. /\ db' \in Database /\ FileInv' /\ db'.stamp = v
        /\ db'.task # None => db'.task \in db'.allowed
        /\ db'.children \subseteq db'.tables
        /\ db'.children # {} => db'.task # None
    BY <1>1, <1>2, <1>3, StepKeepsFile, SteppedFields
  <1>5. TypeOK'
    <2>1. srv' \in [Servers -> Server]
      <3>1. v \in 0 .. Latest
        BY <1>3 DEF Versions, Latest
      <3> QED BY <1>1, <1>2, <1>3, <3>1 DEF TypeOK, Server
    <2>2. applied' \in [Versions -> 0 .. 2]
      <3>1. applied[v] \in 0 .. 2
        BY <1>1, <1>3 DEF TypeOK
      <3>2. Min({applied[v] + 1, 2}) \in 0 .. 2
        BY <3>1, CountUp
      <3> QED BY <1>1, <1>2, <1>3, <3>2 DEF TypeOK
    <2>3. raced' \in BOOLEAN
      BY <1>1, <1>2, Zenon DEF TypeOK
    <2> QED BY <1>1, <1>2, <1>4, <2>1, <2>2, <2>3 DEF TypeOK
  <1>6. ASSUME ~raced'
        PROVE  SchemaInv' /\ ServersInv' /\ CountsInv'
    <2>1. ~raced /\ \A t \in Servers \ {s} : Pending(t) = {}
      BY <1>2, <1>6, Zenon
    <2>2. SchemaInv /\ ServersInv /\ CountsInv
      BY <2>1, Zenon DEF MigrationInv
    <2>3. v = db.stamp + 1 /\ db.stamp \in Nat
      BY <1>1, <1>3, <2>2 DEF ServersInv, TypeOK, Database
    <2>4. SchemaInv'
      BY <1>1, <1>2, <1>3, <2>2, <2>3, StepKeepsSchema
    <2>5. ServersInv'
      <3>1. ASSUME NEW t \in Servers
            PROVE  /\ srv'[t].at = "migrating" => \/ srv'[t].current = v
                                                  \/ srv'[t].release <= srv'[t].current /\ srv'[t].current <= v
                   /\ srv'[t].at = "serving" => srv'[t].release <= v
        <4>1. srv[t].current \in Nat /\ srv[t].release \in Nat
          BY <1>1 DEF TypeOK, Server, Versions
        <4>2. CASE t = s
          BY <1>1, <1>2, <1>3, <4>2 DEF TypeOK, Server
        <4>3. CASE t # s
          <5>1. srv'[t] = srv[t] /\ Pending(t) = {}
            BY <1>1, <1>2, <2>1, <4>3 DEF TypeOK
          <5>2. srv[t].at = "migrating" => srv[t].release <= srv[t].current
            BY <1>1, <5>1, NothingPending
          <5>3. srv[t].at = "migrating" => srv[t].current <= db.stamp
            BY <2>2, <2>3, <4>1 DEF ServersInv
          <5>4. srv[t].at = "serving" => srv[t].release <= db.stamp
            BY <2>2 DEF ServersInv
          <5> QED BY <2>3, <4>1, <5>1, <5>2, <5>3, <5>4
        <4> QED BY <4>2, <4>3
      <3> QED BY <1>4, <3>1 DEF ServersInv
    <2>6. CountsInv'
      <3>1. applied' = [applied EXCEPT ![v] = Min({@ + 1, 2})]
        BY <1>2, <1>6, Zenon
      <3>2. applied[v] = 0
        BY <1>3, <2>2, <2>3 DEF CountsInv
      <3>3. Min({applied[v] + 1, 2}) = 1
        <4>1. 0 \in 0 .. 2
          OBVIOUS
        <4> QED BY <3>2, <4>1, CountUp
      <3>4. \A w \in Versions : applied'[w] = IF w = v THEN 1 ELSE applied[w]
        BY <1>1, <3>1, <3>3 DEF TypeOK
      <3>5. \A w \in Versions : w \in Nat /\ (w <= v <=> w = v \/ w <= db.stamp)
        BY <1>3, <2>3 DEF Versions, Latest
      <3> QED BY <1>4, <2>2, <3>4, <3>5 DEF CountsInv
    <2> QED BY <2>4, <2>5, <2>6
  <1> QED BY <1>4, <1>5, <1>6 DEF MigrationInv

LEMMA StartStopInv ==
    ASSUME MigrationInv, NEW s \in Servers,
           (\E r \in Releases : Open(s, r)) \/ Serve(s) \/ Stop(s)
    PROVE  MigrationInv'
  <1>1. TypeOK /\ FileInv /\ UNCHANGED <<db, applied, raced, outdated>>
    BY DEF MigrationInv, Open, Serve, Stop
  <1>2. /\ srv[s] \in Server /\ db.stamp \in 0 .. Latest /\ Releases \subseteq Versions
    BY <1>1, ConstantsAssumption DEF TypeOK, Database
  <1>3. Off \in Server
    BY DEF Off, Server, Versions, Latest
  <1>4. TypeOK' /\ (~raced /\ ServersInv => ServersInv')
    <2>1. ASSUME NEW r \in Releases, Open(s, r)
          PROVE  TypeOK' /\ (ServersInv => ServersInv')
      <3> DEFINE q == [at |-> "migrating", release |-> r, current |-> db.stamp]
      <3>1. q \in Server
        BY <1>2 DEF Server
      <3>2. starts' \in 0 .. MaxStarts
        BY <1>1, <2>1, ConstantsAssumption DEF Open, TypeOK
      <3>3. srv' = [srv EXCEPT ![s] = q]
        BY <2>1 DEF Open
      <3> HIDE DEF q
      <3>4. srv' \in [Servers -> Server]
        BY <1>1, <3>1, <3>3 DEF TypeOK
      <3>5. TypeOK'
        BY <1>1, <3>2, <3>4 DEF TypeOK
      <3>6. q.at = "migrating" /\ q.current = db.stamp
        BY DEF q
      <3>7. \A t \in Servers : srv'[t] = IF t = s THEN q ELSE srv[t]
        BY <1>1, <3>3 DEF TypeOK
      <3> QED BY <1>1, <3>5, <3>6, <3>7 DEF ServersInv
    <2>2. CASE Serve(s)
      <3>1. srv' = [srv EXCEPT ![s].at = "serving"] /\ srv[s].at = "migrating" /\ Pending(s) = {}
        BY <2>2 DEF Serve
      <3>2. srv' \in [Servers -> Server]
        BY <1>1, <1>2, <3>1 DEF TypeOK, Server
      <3>3. TypeOK'
        BY <1>1, <2>2, <3>2 DEF TypeOK, Serve
      <3>4. srv[s].release <= srv[s].current /\ srv[s].release \in Nat /\ srv[s].current \in Nat
        BY <1>1, <1>2, <3>1, NothingPending DEF Server, Versions
      <3>5. ServersInv => srv[s].release <= db.stamp
        BY <1>2, <3>1, <3>4 DEF ServersInv
      <3>6. \A t \in Servers : /\ t # s => srv'[t] = srv[t]
                               /\ srv'[s].at = "serving" /\ srv'[s].release = srv[s].release
        BY <1>1, <1>2, <3>1 DEF TypeOK, Server
      <3> QED BY <1>1, <3>3, <3>5, <3>6 DEF ServersInv
    <2>3. CASE Stop(s)
      <3>1. srv' = [srv EXCEPT ![s] = Off] /\ UNCHANGED starts
        BY <2>3 DEF Stop
      <3>2. srv' \in [Servers -> Server]
        BY <1>1, <1>3, <3>1 DEF TypeOK
      <3>3. \A t \in Servers : srv'[t] = IF t = s THEN Off ELSE srv[t]
        BY <1>1, <3>1 DEF TypeOK
      <3>4. Off.at = "off"
        BY DEF Off
      <3> QED BY <1>1, <3>1, <3>2, <3>3, <3>4 DEF TypeOK, ServersInv
    <2> QED BY <2>1, <2>2, <2>3
  <1>5. FileInv' /\ (SchemaInv => SchemaInv') /\ (CountsInv => CountsInv')
    BY <1>1 DEF FileInv, SchemaInv, CountsInv
  <1>6. ~raced' => ~raced
    BY <1>1
  <1> QED BY <1>4, <1>5, <1>6, Zenon DEF MigrationInv

(* What a serving release may write to the task and its rows.              *)
LEMMA TaskInv ==
    ASSUME MigrationInv, NEW s \in Servers, NEW r \in Releases, Serves(s, r),
           NEW x \in States \cup {None}, NEW rows \in SUBSET Children, NEW done \in BOOLEAN,
           db' = [db EXCEPT !.task = x, !.children = rows, !.completed = done],
           x # None => x \in db.allowed,
           rows \subseteq db.tables, rows # {} => x # None, outdated' \in BOOLEAN,
           ~raced /\ db.stamp = 2 => x # "test",
           ~raced /\ db.stamp < 12 => ~done,
           ~raced /\ db.stamp >= 12 /\ ~outdated' => (done <=> x = "done")
    PROVE  MigrationInv'
  <1>1. TypeOK /\ FileInv /\ db \in Database /\ UNCHANGED <<srv, starts, applied, raced>>
    BY DEF MigrationInv, Serves, TypeOK
  <1>2. /\ db'.stamp = db.stamp /\ db'.tables = db.tables /\ db'.columns = db.columns
        /\ db'.allowed = db.allowed /\ db'.task = x /\ db'.children = rows
    BY <1>1 DEF Database
  <1>3. db'.completed = done
    BY <1>1 DEF Database
  <1>4. db' \in Database
    BY <1>1 DEF Database
  <1>5. TypeOK'
    BY <1>1, <1>2, <1>4 DEF TypeOK
  <1>6. "tasks" \in db.tables
    <2>1. r \in Versions /\ TablesOf(r) \subseteq db.tables
      BY ConstantsAssumption DEF Serves, Equipped
    <2> QED BY <2>1, TablesTyped
  <1>7. FileInv'
    BY <1>1, <1>2, <1>6 DEF FileInv
  <1>8. ASSUME ~raced PROVE SchemaInv' /\ ServersInv' /\ CountsInv'
    <2>1. SchemaInv /\ ServersInv /\ CountsInv
      BY <1>8, Zenon DEF MigrationInv
    <2>2. ServersInv' /\ CountsInv'
      BY <1>1, <1>2, <2>1 DEF ServersInv, CountsInv
    <2>3. SchemaInv'
      BY <1>2, <1>3, <1>8, <2>1, Zenon DEF SchemaInv
    <2> QED BY <2>2, <2>3
  <1> QED BY <1>1, <1>5, <1>7, <1>8, Zenon DEF MigrationInv

LEMMA ServingBehind ==
    ASSUME MigrationInv, ~raced, NEW s \in Servers, NEW r \in Releases, Serves(s, r)
    PROVE  r <= db.stamp /\ r \in Versions /\ SchemaInv
  BY ConstantsAssumption DEF MigrationInv, ServersInv, Serves

LEMMA CreateInv ==
    ASSUME MigrationInv, NEW s \in Servers, NEW r \in Releases, NEW state \in States,
           CreateTask(s, r, state)
    PROVE  MigrationInv'
  <1>1. /\ TypeOK /\ db \in Database /\ db.task = None /\ state \in db.allowed
        /\ state \in {"created", "pending", "start"} /\ Serves(s, r) /\ outdated' = FALSE
        /\ db' = [db EXCEPT !.task = state, !.completed = FALSE]
    BY DEF CreateTask, Entries, MigrationInv, TypeOK
  <1>2. db' = [db EXCEPT !.task = state, !.children = db.children, !.completed = FALSE]
    BY <1>1 DEF Database
  <1>3. /\ db.children \in SUBSET Children /\ db.children \subseteq db.tables
        /\ state \in States \cup {None} /\ state # None
    BY <1>1, NoneIsNoState DEF Database, TypeOK
  <1>4. state # "done" /\ state # "test"
    BY <1>1
  <1>5. FALSE \in BOOLEAN /\ outdated' \in BOOLEAN
    BY <1>1
  <1> QED BY <1>1, <1>2, <1>3, <1>4, <1>5, TaskInv

LEMMA MoveInv ==
    ASSUME MigrationInv, NEW s \in Servers, NEW r \in Releases, NEW state \in States,
           MoveTask(s, r, state)
    PROVE  MigrationInv'
  <1> DEFINE done == IF r < 12 THEN db.completed
                     ELSE IF db.task = "done" THEN FALSE
                     ELSE db.completed \/ state = "done"
  <1>1. /\ TypeOK /\ db \in Database /\ db.task # None /\ db.task # state
        /\ state \in StatesOf(r) /\ state \in db.allowed /\ Serves(s, r)
        /\ db' = [db EXCEPT !.task = state, !.completed = done]
    BY DEF MoveTask, MigrationInv, TypeOK
  <1>2. outdated' = (outdated \/ (r < 12 /\ "completed" \in db.columns /\ ~raced))
    BY DEF MoveTask
  <1>3. done \in BOOLEAN
    BY <1>1, Zenon DEF Database
  <1>4. outdated' \in BOOLEAN
    BY <1>1, <1>2, Zenon DEF TypeOK
  <1>5. /\ db.children \in SUBSET Children /\ db.children \subseteq db.tables
        /\ state \in States \cup {None} /\ state # None
    BY <1>1, NoneIsNoState, StatesListed DEF Database, TypeOK
  <1>6. ASSUME ~raced
        PROVE  /\ db.stamp = 2 => state # "test"
               /\ db.stamp < 12 => ~done
               /\ db.stamp >= 12 /\ ~outdated' => (done <=> state = "done")
    <2>1. r <= db.stamp /\ r \in Versions /\ SchemaInv /\ r \in Nat /\ db.stamp \in 0 .. 13
      BY <1>1, <1>6, ServingBehind DEF Versions, Latest, Database
    <2>2. ASSUME db.stamp = 2 PROVE state # "test"
      BY <1>1, <2>1, <2>2 DEF StatesOf, Versions, Latest
    <2>3. ASSUME db.stamp < 12 PROVE ~done
      <3>1. r < 12
        BY <2>1, <2>3
      <3>2. ~db.completed
        BY <2>1, <2>3, Zenon DEF SchemaInv
      <3> QED BY <3>1, <3>2, Zenon
    <2>4. ASSUME db.stamp >= 12, ~outdated' PROVE done <=> state = "done"
      <3>1. "completed" \in ColumnsOf(db.stamp) /\ db.stamp # 0
        BY <2>1, <2>4 DEF ColumnsOf
      <3>2. "completed" \in db.columns
        BY <2>1, <3>1, Zenon DEF SchemaInv
      <3>3. ~outdated /\ ~(r < 12)
        BY <1>2, <1>6, <2>4, <3>2, Zenon
      <3>4. db.completed <=> db.task = "done"
        BY <2>1, <2>4, <3>3, Zenon DEF SchemaInv
      <3> QED BY <1>1, <3>3, <3>4, Zenon
    <2> QED BY <2>2, <2>3, <2>4, Zenon
  <1> HIDE DEF done
  <1>7. db' = [db EXCEPT !.task = state, !.children = db.children, !.completed = done]
    BY <1>1 DEF Database
  <1>8. db.children # {} => state # None
    BY <1>5
  <1> QED BY <1>1, <1>3, <1>4, <1>5, <1>6, <1>7, <1>8, TaskInv

LEMMA ChildInv ==
    ASSUME MigrationInv, NEW s \in Servers, NEW r \in Releases, NEW table \in Children,
           AddChild(s, r, table)
    PROVE  MigrationInv'
  <1> DEFINE rows == db.children \cup {table}
             done == db.completed
  <1>1. /\ TypeOK /\ db \in Database /\ db.task # None /\ table \in ChildrenOf(r) /\ Serves(s, r)
        /\ db' = [db EXCEPT !.children = rows]
    BY DEF AddChild, MigrationInv, TypeOK
  <1>2. outdated' = outdated
    BY DEF AddChild
  <1>3. done \in BOOLEAN /\ db.task \in States \cup {None} /\ outdated' \in BOOLEAN
    BY <1>1, <1>2 DEF Database, TypeOK
  <1>4. rows \in SUBSET Children /\ rows \subseteq db.tables
    <2>1. r \in Versions /\ TablesOf(r) \subseteq db.tables
      BY <1>1, ConstantsAssumption DEF Serves, Equipped
    <2>2. table \in db.tables
      BY <1>1, <2>1, TablesTyped
    <2> QED BY <1>1, <2>2 DEF TypeOK, Database
  <1> HIDE DEF rows
  <1>5. db' = [db EXCEPT !.task = db.task, !.children = rows, !.completed = done]
    BY <1>1 DEF Database
  <1>6. db.task \in db.allowed
    BY <1>1 DEF TypeOK
  <1>7. ASSUME ~raced
        PROVE  /\ db.stamp = 2 => db.task # "test"
               /\ db.stamp < 12 => ~done
               /\ db.stamp >= 12 /\ ~outdated' => (done <=> db.task = "done")
    BY <1>2, <1>7, Zenon DEF MigrationInv, SchemaInv
  <1> HIDE DEF done
  <1>8. rows # {} => db.task # None
    BY <1>1
  <1> QED BY <1>1, <1>3, <1>4, <1>5, <1>6, <1>7, <1>8, TaskInv

LEMMA DeleteInv ==
    ASSUME MigrationInv, NEW s \in Servers, NEW r \in Releases, DeleteTask(s, r)
    PROVE  MigrationInv'
  <1>1. /\ Serves(s, r) /\ outdated' = FALSE
        /\ db' = [db EXCEPT !.task = None, !.children = {}, !.completed = FALSE]
    BY DEF DeleteTask
  <1>2. None # "test" /\ None # "done" /\ None \in States \cup {None} /\ {} \in SUBSET Children
    BY NoneIsNoState
  <1>3. FALSE \in BOOLEAN /\ outdated' \in BOOLEAN
    BY <1>1
  <1> QED BY <1>1, <1>2, <1>3, TaskInv

LEMMA StepInv == MigrationInv /\ [Next]_vars => MigrationInv'
  <1> SUFFICES ASSUME MigrationInv, [Next]_vars PROVE MigrationInv'
    OBVIOUS
  <1>1. CASE UNCHANGED vars
    <2>1. TypeOK' /\ FileInv'
      BY <1>1 DEF MigrationInv, TypeOK, FileInv, vars
    <2>2. ~raced => SchemaInv' /\ ServersInv' /\ CountsInv'
      BY <1>1 DEF MigrationInv, SchemaInv, ServersInv, CountsInv, vars
    <2>3. raced' = raced
      BY <1>1 DEF vars
    <2> QED BY <2>1, <2>2, <2>3, Zenon DEF MigrationInv
  <1>2. CASE Next
    BY <1>2, MigrateInv, StartStopInv, CreateInv, MoveInv, ChildInv, DeleteInv DEF Next
  <1> QED BY <1>1, <1>2

-----------------------------------------------------------------------------
(* The theorems.                                                           *)

(* The invariant holds in every behaviour.                                 *)
THEOREM Invariance == Spec => []MigrationInv
  <1> QED BY InitInv, StepInv, PTL DEF Spec

(* The task keeps to the CHECK of its table and the rows of the child tables *)
(* to a task, through every step of the schema and whatever servers do.    *)
THEOREM TypeCorrect == Spec => []TypeOK
  <1>1. MigrationInv => TypeOK
    BY DEF MigrationInv
  <1> QED BY <1>1, Invariance, PTL

(* Unless servers race, each step is applied once per database (the loop of *)
(* migrate, with the stamp in the transaction of the step).                *)
THEOREM AppliedOnce == Spec => []ExactlyOnce
  <1>1. MigrationInv => ExactlyOnce
    BY DEF MigrationInv, CountsInv, ExactlyOnce
  <1> QED BY <1>1, Invariance, PTL

(* Unless servers race, the next step of a server finds the tables, columns *)
(* and rows it needs, for any set of releases and any history of the file. *)
THEOREM GetsThrough == Spec => []NeverStuck
  <1>1. ASSUME MigrationInv, ~raced, NEW s \in Servers, Pending(s) # {}
        PROVE  Works(Min(Pending(s)))
    <2> DEFINE v == Min(Pending(s))
    <2>1. TypeOK /\ FileInv /\ SchemaInv /\ ServersInv
      BY <1>1, Zenon DEF MigrationInv
    <2>2. /\ srv[s].at = "migrating" /\ srv[s].current < srv[s].release
          /\ v = srv[s].current + 1 /\ v \in Versions
          /\ srv[s].current \in Nat /\ srv[s].release \in Nat
      BY <1>1, <2>1, NextStep DEF TypeOK, Server, Versions
    <2> HIDE DEF v
    <2>3. v = db.stamp + 1 /\ db.stamp \in 0 .. 12 /\ db.task \in States \cup {None}
      BY <2>1, <2>2 DEF ServersInv, TypeOK, Database, Versions, Latest
    <2>4. v > 1 => NewTables(v) \cap db.tables = {} /\ NewColumns(v) \cap db.columns = {}
      <3> SUFFICES ASSUME v > 1
                   PROVE  NewTables(v) \cap db.tables = {} /\ NewColumns(v) \cap db.columns = {}
        OBVIOUS
      <3>1. db.tables = TablesOf(v - 1) /\ db.columns = ColumnsOf(v - 1)
        BY <2>1, <2>3 DEF SchemaInv
      <3> QED BY <2>2, <3>1, Additions
    <2>5. v \in Swaps /\ db.task # None => Renamed(v, db.task) \in StatesOf(v)
      <3> SUFFICES ASSUME v \in Swaps, db.task # None PROVE Renamed(v, db.task) \in StatesOf(v)
        OBVIOUS
      <3>1. db.task \in db.allowed
        BY <2>1 DEF TypeOK
      <3>2. CASE v = 3
        <4>1. db.stamp = 2 /\ db.task \in Legacy \ {"test"}
          BY <2>1, <2>3, <3>1, <3>2 DEF SchemaInv
        <4>2. Renamed(v, db.task) = IF db.task = "created" THEN "start" ELSE db.task
          BY <2>2, <2>3, <3>2, Renames
        <4> QED BY <3>2, <4>1, <4>2 DEF StatesOf, Legacy
      <3>3. CASE v \in {5, 6, 9}
        <4>1. db.task \in StatesOf(v - 1)
          BY <2>1, <2>3, <3>1, <3>3 DEF SchemaInv
        <4>2. Renamed(v, db.task) = IF v = 5 /\ db.task = "design" THEN "spec" ELSE db.task
          BY <2>2, <2>3, <3>3, Renames
        <4> QED BY <3>3, <4>1, <4>2 DEF StatesOf
      <3> QED BY <3>2, <3>3 DEF Swaps
    <2>6. v = 9 => {"links", "docs"} \subseteq db.tables /\ "labels" \in db.columns
      <3> SUFFICES ASSUME v = 9 PROVE {"links", "docs"} \subseteq db.tables /\ "labels" \in db.columns
        OBVIOUS
      <3>1. db.stamp = 8
        BY <2>3
      <3>2. db.tables = TablesOf(8) /\ db.columns = ColumnsOf(8)
        BY <2>1, <3>1 DEF SchemaInv
      <3> QED BY <3>2 DEF TablesOf, ChildrenOf, ColumnsOf
    <2> QED BY <2>4, <2>5, <2>6 DEF Works, v
  <1>2. MigrationInv => NeverStuck
    BY <1>1 DEF NeverStuck
  <1> QED BY <1>2, Invariance, PTL

(* A server that is not off runs one of the releases.                      *)
LEMMA ReleasesRun == Spec => [](\A s \in Servers : srv[s].at # "off" => srv[s].release \in Releases)
  <1> DEFINE Inv == \A s \in Servers : srv[s].at # "off" => srv[s].release \in Releases
  <1>1. Init => Inv
    BY DEF Init, Off
  <1>2. TypeOK /\ Inv /\ [Next]_vars => Inv'
    <2> SUFFICES ASSUME TypeOK, Inv, [Next]_vars, NEW t \in Servers, srv'[t].at # "off"
                 PROVE  srv'[t].release \in Releases
      OBVIOUS
    <2>1. srv \in [Servers -> Server]
      BY DEF TypeOK
    <2>2. ASSUME NEW s \in Servers, NEW r \in Releases, Open(s, r)
          PROVE  srv'[t].release \in Releases
      BY <2>1, <2>2 DEF Open
    <2>3. ASSUME NEW s \in Servers, Migrate(s)
          PROVE  srv'[t].release \in Releases
      <3>1. srv' = [srv EXCEPT ![s].current = Min(Pending(s))]
        BY <2>3 DEF Migrate
      <3>2. srv'[t].at = srv[t].at /\ srv'[t].release = srv[t].release
        BY <2>1, <3>1 DEF Server
      <3> QED BY <3>2
    <2>4. ASSUME NEW s \in Servers, Serve(s)
          PROVE  srv'[t].release \in Releases
      BY <2>1, <2>4 DEF Serve, Server
    <2>5. ASSUME NEW s \in Servers, Stop(s)
          PROVE  srv'[t].release \in Releases
      BY <2>1, <2>5 DEF Stop, Off
    <2>6. CASE UNCHANGED srv
      BY <2>6
    <2> QED BY <2>2, <2>3, <2>4, <2>5, <2>6
        DEF Next, vars, CreateTask, MoveTask, AddChild, DeleteTask, Serves
  <1>3. MigrationInv => TypeOK
    BY DEF MigrationInv
  <1> QED BY <1>1, <1>2, <1>3, Invariance, PTL DEF Spec

LEMMA Growing ==
    ASSUME NEW v \in Versions, NEW w \in Versions, v <= w
    PROVE  TablesOf(v) \subseteq TablesOf(w) /\ ColumnsOf(v) \subseteq ColumnsOf(w)
  BY DEF TablesOf, ColumnsOf, ChildrenOf, Versions, Latest

(* Unless servers race, a server that serves has what its release uses, and *)
(* on its own schema finds the task as its release would have left it.  A   *)
(* release that has the first step only may meet a task in "test" in a file *)
(* from before there were versions, so there must be none.                 *)
THEOREM Ready ==
    ASSUME 1 \notin Releases
    PROVE  Spec => []ReadyToServe
  <1>1. ASSUME MigrationInv, ~raced, NEW s \in Servers, srv[s].at = "serving",
               srv[s].release \in Releases
        PROVE  /\ Equipped(srv[s].release)
               /\ srv[s].release = db.stamp /\ db.task # None =>
                     /\ db.task \in StatesOf(db.stamp)
                     /\ db.stamp >= 12 /\ ~outdated => (db.completed <=> db.task = "done")
    <2>1. TypeOK /\ SchemaInv /\ ServersInv
      BY <1>1, Zenon DEF MigrationInv
    <2>2. /\ srv[s].release \in Versions /\ srv[s].release # 1 /\ srv[s].release <= db.stamp
          /\ db.stamp \in 2 .. Latest
      <3>1. srv[s].release \in Versions /\ srv[s].release # 1
        BY <1>1, ConstantsAssumption
      <3>2. srv[s].release <= db.stamp
        BY <1>1, <2>1 DEF ServersInv
      <3>3. db.stamp \in 0 .. Latest
        BY <2>1 DEF TypeOK, Database
      <3> QED BY <3>1, <3>2, <3>3 DEF Versions, Latest
    <2>3. Equipped(srv[s].release)
      <3>1. db.stamp \in Versions /\ db.tables = TablesOf(db.stamp) /\ db.columns = ColumnsOf(db.stamp)
        BY <2>1, <2>2 DEF SchemaInv, Versions
      <3> QED BY <2>2, <3>1, Growing DEF Equipped
    <2>4. db.task # None => db.task \in StatesOf(db.stamp)
      <3> SUFFICES ASSUME db.task # None PROVE db.task \in StatesOf(db.stamp)
        OBVIOUS
      <3>1. db.task \in db.allowed
        BY <2>1 DEF TypeOK
      <3>2. CASE db.stamp = 2
        <4>1. db.task \in Legacy \ {"test"}
          BY <2>1, <3>1, <3>2 DEF SchemaInv
        <4> QED BY <3>2, <4>1 DEF StatesOf, Legacy
      <3>3. CASE db.stamp >= 3
        BY <2>1, <3>1, <3>3 DEF SchemaInv
      <3> QED BY <2>2, <3>2, <3>3
    <2>5. db.stamp >= 12 /\ ~outdated => (db.completed <=> db.task = "done")
      BY <2>1, Zenon DEF SchemaInv
    <2> QED BY <2>3, <2>4, <2>5, Zenon
  <1>2. MigrationInv /\ (\A s \in Servers : srv[s].at # "off" => srv[s].release \in Releases)
          => ReadyToServe
    BY <1>1, Zenon DEF ReadyToServe
  <1> QED BY <1>2, Invariance, ReleasesRun, PTL

(* A migration keeps the task and its being done; and, unless it leaves a   *)
(* version before 6 or servers race, its rows and its completion.          *)
THEOREM Kept == Spec => RowsKept
  <1>1. ASSUME MigrationInv, NEW s \in Servers, Migrate(s)
        PROVE  /\ (db.task = None) = (db.task = None)'
               /\ (db.task = "done") = (db.task = "done")'
               /\ ~raced' /\ db.stamp >= 6 =>
                     db.children' = db.children /\ (db.completed => db.completed')
    <2> DEFINE v == Min(Pending(s))
    <2>1. TypeOK /\ FileInv
      BY <1>1 DEF MigrationInv
    <2>2. /\ Pending(s) # {} /\ Works(v) /\ db' = Stepped(v)
          /\ raced' = (raced \/ \E t \in Servers \ {s} : Pending(t) # {})
      BY <1>1 DEF Migrate
    <2>3. /\ srv[s].at = "migrating" /\ v = srv[s].current + 1 /\ v \in Versions
          /\ srv[s].current < srv[s].release
          /\ srv[s].current \in Nat /\ srv[s].release \in Nat
      BY <2>1, <2>2, NextStep DEF TypeOK, Server, Versions
    <2> HIDE DEF v
    <2>4. db.task \in States \cup {None} /\ db.stamp \in 0 .. Latest
      BY <2>1 DEF TypeOK, Database
    <2>5. /\ db'.task = Renamed(v, db.task)
          /\ db'.children = IF v \in Swaps \ {9} THEN {} ELSE db.children
      BY <2>1, <2>2, <2>3, SteppedFields
    <2>6. db'.completed = IF v \in Swaps THEN FALSE
                          ELSE IF v = 12 THEN db.task = "done" ELSE db.completed
      BY <2>1, <2>2, <2>3, SteppedFields
    <2>7. (Renamed(v, db.task) = None <=> db.task = None) /\ (Renamed(v, db.task) = "done" <=> db.task = "done")
      BY <2>3, <2>4, Renames
    <2>8. ASSUME ~raced', db.stamp >= 6
          PROVE  db'.children = db.children /\ (db.completed => db'.completed)
      <3>1. ~raced
        BY <2>2, <2>8, Zenon
      <3>2. SchemaInv /\ ServersInv
        BY <1>1, <3>1, Zenon DEF MigrationInv
      <3>3. v = db.stamp + 1 /\ v >= 7
        BY <2>3, <2>4, <2>8, <3>2 DEF ServersInv
      <3>4. db'.children = db.children
        BY <2>3, <2>5, <3>3 DEF Swaps
      <3>5. CASE v \in {9, 12}
        <4>1. db.stamp < 12
          BY <2>4, <3>3, <3>5
        <4>2. ~db.completed
          BY <3>2, <4>1, Zenon DEF SchemaInv
        <4> QED BY <3>4, <4>2, Zenon
      <3>6. CASE v \notin {9, 12}
        <4>1. v \notin Swaps /\ v # 12
          BY <2>3, <3>3, <3>6 DEF Swaps
        <4> QED BY <2>6, <3>4, <4>1, Zenon
      <3> QED BY <3>5, <3>6
    <2>9. (db.task = None) = (db'.task = None) /\ (db.task = "done") = (db'.task = "done")
      BY <2>5, <2>7, Zenon
    <2> QED BY <2>8, <2>9, Zenon
  <1>2. MigrationInv /\ [Next]_vars =>
          [\A s \in Servers : Migrate(s) =>
              /\ (db.task = None) = (db.task = None)'
              /\ (db.task = "done") = (db.task = "done")'
              /\ ~raced' /\ db.stamp >= 6 =>
                    db.children' = db.children /\ (db.completed => db.completed')]_vars
    BY <1>1, Zenon
  <1> QED BY <1>2, Invariance, PTL DEF Spec, RowsKept
=============================================================================
