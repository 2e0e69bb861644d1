------------------------ MODULE AgentIdentityProofs ------------------------
(* Proofs about AgentIdentity for any checkouts, processes, names and        *)
(* tokens.                                                                 *)
EXTENDS AgentIdentity, TLAPS

-----------------------------------------------------------------------------
(* The inductive invariant.                                                *)

Minted(p) == proc[p].at \in {"reread", "answer", "truncate", "fill", "unlinked", "report"}

(* The name and the token of the process belong together.                  *)
Bound(p) == Minted(p) \/ (proc[p].at \in {"require", "call"} /\ proc[p].token # None)

IdentityOf(p) == [name |-> proc[p].name, token |-> proc[p].token]

(* Every identity that is written down anywhere, and those a checkout holds. *)
Known ==
    {id \in Identity :
        \/ id \in agents
        \/ \E k \in Checkouts : file[k] = id
        \/ \E p \in Processes : Bound(p) /\ IdentityOf(p) = id}

HeldBy(k) ==
    {id \in Identity : file[k] = id \/ \E p \in Processes : In[p] = k /\ Minted(p) /\ IdentityOf(p) = id}

(* A token is minted once, for one name and one checkout.                  *)
TokensInv ==
    /\ \A x \in Known : x.token \notin unminted
    /\ \A x, y \in Known : x.token = y.token => x = y
    /\ \A k, l \in Checkouts : k # l => \A x \in HeldBy(k), y \in HeldBy(l) : x.token # y.token

(* What a command that nobody interfered with may rely on: a registration   *)
(* on the file and the row as it left them, any other on the file as it     *)
(* read it.                                                                *)
Undisturbed(p) ==
    /\ proc[p].at # "unlinked"
    /\ proc[p].at \in {"reread", "answer", "truncate", "fill", "report"} => IdentityOf(p) \in agents
    /\ proc[p].at = "ask" /\ proc[p].token = None => file[In[p]] = Absent
    /\ proc[p].at \in {"upsert", "reread", "answer", "truncate"} => file[In[p]] = Absent
    /\ proc[p].at = "fill" => file[In[p]] = Torn
    /\ proc[p].at = "report" => file[In[p]] = IdentityOf(p)
    /\ proc[p].at = "client" /\ proc[p].kind \in Requiring \ {"next"} =>
          file[In[p]] \in Identity /\ file[In[p]].name = proc[p].found
    /\ proc[p].at = "require" /\ proc[p].kind = "next" =>
          IF proc[p].token = None THEN file[In[p]] \notin Identity ELSE file[In[p]] = IdentityOf(p)
    /\ proc[p].at = "call" /\ proc[p].kind \in Requiring =>
          /\ file[In[p]] = IdentityOf(p)
          /\ proc[p].token # None /\ proc[p].found = proc[p].name

CommandOK(p) ==
    /\ proc[p].at \in {"client", "upsert"} => proc[p].token = None
    /\ proc[p].at \in Registering => proc[p].name \in Names
    /\ proc[p].at \in Acting => proc[p].kind \in Kinds
    /\ proc[p].at \in Acting /\ proc[p].token # None => proc[p].name \in Names
    /\ proc[p].at = "require" /\ proc[p].kind # "next" => proc[p].token = None
    /\ Minted(p) => proc[p].token # None
    /\ p \notin meddled => Undisturbed(p)

CommandsInv == \A p \in Processes : CommandOK(p)

IdentityInv == TypeOK /\ TokensInv /\ CommandsInv

-----------------------------------------------------------------------------
(* Typing.                                                                 *)

LEMMA NoCommandTyped == NoCommand \in Command /\ NoCommand.at = "idle" /\ NoCommand.token = None
  BY DEF NoCommand, Command, Registering, Acting

(* The steps of the process p in which neither the rows nor the files change. *)
Quiet(p) ==
    \/ \E n \in Names : StartRegister(p, n)
    \/ Load(p) \/ Ask(p) \/ Reread(p) \/ Receive(p) \/ FillRemoved(p) \/ Report(p) \/ Kill(p)
    \/ \E kind \in Kinds : StartCommand(p, kind)
    \/ NewClient(p) \/ LoadStatus(p) \/ RequireIdentity(p) \/ Unauthorized(p)
    \/ \E as \in Names \cup {None} : Call(p, as)

(* The client took over the identity in the file and went on at the step at. *)
TookIdentity(p, at, c) ==
    /\ proc[p].at = "client"
    /\ \/ file[In[p]] \notin Identity /\ c = [proc[p] EXCEPT !.at = at]
       \/ /\ file[In[p]] \in Identity
          /\ c = [proc[p] EXCEPT !.at = at, !.name = file[In[p]].name, !.token = file[In[p]].token]

(* requireIdentity found an identity, and the command goes on.              *)
FoundIdentity(p, c) ==
    /\ proc[p].at = "require"
    /\ file[In[p]] \in Identity
    /\ c = [proc[p] EXCEPT !.at = IF proc[p].kind = "next" THEN "call" ELSE "client",
                           !.found = file[In[p]].name]

(* What a quiet step may make of the command of p.                         *)
Successor(p, c) ==
    \/ c = NoCommand
    \/ \E n \in Names : c = [NoCommand EXCEPT !.at = "register", !.name = n]
    \/ \E kind \in Kinds : c = [NoCommand EXCEPT !.at = First(kind), !.kind = kind]
    \/ /\ proc[p].at = "register" /\ file[In[p]] = Absent
       /\ c = [proc[p] EXCEPT !.at = "ask", !.token = None]
    \/ /\ proc[p].at = "register" /\ file[In[p]] \in Identity
       /\ c = [proc[p] EXCEPT !.at = "ask", !.token = file[In[p]].token]
    \/ proc[p].at = "ask" /\ proc[p].token = None /\ c = [proc[p] EXCEPT !.at = "upsert"]
    \/ proc[p].at = "reread" /\ c = [proc[p] EXCEPT !.at = "answer"]
    \/ proc[p].at = "answer" /\ c = [proc[p] EXCEPT !.at = "truncate"]
    \/ proc[p].at = "unlinked" /\ c = [proc[p] EXCEPT !.at = "report"]
    \/ TookIdentity(p, IF proc[p].kind = "next" THEN "require" ELSE "call", c)
    \/ FoundIdentity(p, c)

LEMMA TornIsNoIdentity == Absent \notin Identity /\ Torn \notin Identity
  <1>1. \A id \in Identity : \E n \in Names, t \in Tokens : id = [name |-> n, token |-> t]
    BY DEF Identity
  <1> QED BY <1>1, ConstantsAssumption

LEMMA QuietSteps ==
    ASSUME TypeOK, NEW p \in Processes, Quiet(p)
    PROVE  /\ UNCHANGED <<agents, unminted, file>>
           /\ \E c : Successor(p, c) /\ proc' = [proc EXCEPT ![p] = c]
           /\ \/ meddled' = meddled
              \/ proc'[p] = NoCommand /\ meddled' = meddled \ {p}
  <1> DEFINE Goal ==
        /\ UNCHANGED <<agents, unminted, file>>
        /\ \E c : Successor(p, c) /\ proc' = [proc EXCEPT ![p] = c]
        /\ \/ meddled' = meddled
           \/ proc'[p] = NoCommand /\ meddled' = meddled \ {p}
  <1>0. /\ In[p] \in Checkouts
        /\ proc[p] \in Command
        /\ file[In[p]] \notin {Absent, Torn} => file[In[p]] \in Identity
    BY ConstantsAssumption DEF TypeOK
  <1>1. ASSUME NEW n \in Names, StartRegister(p, n) PROVE Goal
    BY <1>1 DEF StartRegister, Successor
  <1>2. ASSUME Exit(p), UNCHANGED <<agents, unminted, file>> PROVE Goal
    BY <1>2 DEF Exit, Successor, TypeOK
  <1>3. CASE Load(p)
    BY <1>0, <1>2, <1>3 DEF Load, Successor, TypeOK
  <1>4. CASE Ask(p)
    BY <1>2, <1>4 DEF Ask, Goes, Successor, TypeOK
  <1>5. CASE Reread(p)
    BY <1>2, <1>5 DEF Reread, Goes, Successor, TypeOK
  <1>6. CASE Receive(p)
    BY <1>2, <1>6 DEF Receive, Goes, Successor, TypeOK
  <1>7. CASE FillRemoved(p)
    BY <1>7 DEF FillRemoved, Goes, Successor, TypeOK
  <1>8. CASE Report(p) \/ Kill(p) \/ Unauthorized(p) \/ \E as \in Names \cup {None} : Call(p, as)
    BY <1>2, <1>8 DEF Report, Kill, Unauthorized, Call
  <1>9. ASSUME NEW kind \in Kinds, StartCommand(p, kind) PROVE Goal
    BY <1>9 DEF StartCommand, Successor
  <1>10. ASSUME proc[p].at = "client", UNCHANGED <<agents, unminted, file>>,
                TakesIdentity(p, file[In[p]], IF proc[p].kind = "next" THEN "require" ELSE "call")
         PROVE  Goal
    <2> DEFINE at == IF proc[p].kind = "next" THEN "require" ELSE "call"
    <2>1. CASE file[In[p]] \in {Absent, Torn}
      BY <1>10, <2>1, TornIsNoIdentity DEF TakesIdentity, TookIdentity, Successor, TypeOK
    <2>2. CASE file[In[p]] \in Identity
      BY <1>10, <2>2, TornIsNoIdentity DEF TakesIdentity, TookIdentity, Successor, TypeOK
    <2> QED BY <1>0, <2>1, <2>2
  <1>11. CASE RequireIdentity(p)
    BY <1>0, <1>2, <1>11 DEF RequireIdentity, FoundIdentity, Successor, TypeOK
  <1>12. CASE NewClient(p)
    BY <1>10, <1>12 DEF NewClient
  <1>13. CASE LoadStatus(p)
    BY <1>2, <1>10, <1>13 DEF LoadStatus
  <1> QED
    BY <1>1, <1>3, <1>4, <1>5, <1>6, <1>7, <1>8, <1>9, <1>11, <1>12, <1>13 DEF Quiet

LEMMA SuccessorTyped ==
    ASSUME TypeOK, NEW p \in Processes, NEW c, Successor(p, c)
    PROVE  c \in Command
  <1>1. proc[p] \in Command
    BY DEF TypeOK
  <1>2. ASSUME NEW kind \in Kinds PROVE [NoCommand EXCEPT !.at = First(kind), !.kind = kind] \in Command
    BY NoCommandTyped DEF NoCommand, Command, First, Acting
  <1>3. ASSUME NEW n \in Names PROVE [NoCommand EXCEPT !.at = "register", !.name = n] \in Command
    BY NoCommandTyped DEF NoCommand, Command, Registering
  <1>4. FoundIdentity(p, c) => c \in Command
    BY <1>1 DEF FoundIdentity, Command, Acting, Identity
  <1>5. \A at \in Acting : TookIdentity(p, at, c) => c \in Command
    BY <1>1 DEF TookIdentity, Command, Acting, Identity
  <1>6. TookIdentity(p, IF proc[p].kind = "next" THEN "require" ELSE "call", c) => c \in Command
    BY <1>5 DEF Acting
  <1>7. \A at \in Registering : [proc[p] EXCEPT !.at = at] \in Command
    BY <1>1 DEF Command
  <1>8. \A t \in Tokens \cup {None} : [proc[p] EXCEPT !.at = "ask", !.token = t] \in Command
    BY <1>1 DEF Command, Registering
  <1>9. file[In[p]] \in Identity => file[In[p]].token \in Tokens
    BY DEF Identity
  <1> QED BY <1>2, <1>3, <1>4, <1>6, <1>7, <1>8, <1>9, NoCommandTyped DEF Successor, Registering

-----------------------------------------------------------------------------
(* Quiet steps keep the invariant.                                         *)

LEMMA SuccessorIdentity ==
    ASSUME IdentityInv, NEW p \in Processes, Quiet(p)
    PROVE  /\ Minted(p)' => Minted(p) /\ IdentityOf(p)' = IdentityOf(p)
           /\ Bound(p)' => IdentityOf(p)' \in Known
           /\ CommandOK(p)'
  <1> USE DEF IdentityInv
  <1> DEFINE Goal == /\ Minted(p)' => Minted(p) /\ IdentityOf(p)' = IdentityOf(p)
                     /\ Bound(p)' => IdentityOf(p)' \in Known
                     /\ CommandOK(p)'
  <1>0. /\ proc[p] \in Command /\ CommandOK(p)
        /\ In[p] \in Checkouts
    BY ConstantsAssumption DEF TypeOK, CommandsInv
  <1>1. PICK c : Successor(p, c) /\ proc' = [proc EXCEPT ![p] = c]
    BY QuietSteps
  <1>2. UNCHANGED <<agents, unminted, file>> /\ (meddled' = meddled \/ c = NoCommand)
    BY QuietSteps, <1>1 DEF TypeOK
  <1>3. proc'[p] = c
    BY <1>1 DEF TypeOK
  <1>4. Bound(p) => IdentityOf(p) \in Known
    BY <1>0 DEF Known, Bound, IdentityOf, CommandOK, Minted, Identity, Command, Registering, Acting
  <1>5. file[In[p]] \in Identity => file[In[p]] \in Known
    BY <1>0 DEF Known
  <1> USE DEF Minted, Bound, CommandOK, Undisturbed
  <1>6. CASE c = NoCommand
    BY <1>3, <1>6, NoCommandTyped DEF Registering, Acting
  <1>7. ASSUME NEW n \in Names, c = [NoCommand EXCEPT !.at = "register", !.name = n]
        PROVE  Goal
    <2>1. c.at = "register" /\ c.name \in Names /\ c.token = None
      BY <1>7 DEF NoCommand
    <2> QED BY <1>3, <2>1 DEF Acting
  <1>8. ASSUME NEW kind \in Kinds, c = [NoCommand EXCEPT !.at = First(kind), !.kind = kind]
        PROVE  Goal
    <2>1. c.at = First(kind) /\ c.kind = kind /\ c.token = None
      BY <1>8 DEF NoCommand
    <2>2. /\ c.at \in {"client", "require"}
          /\ c.at = "client" => c.kind \notin Requiring \ {"next"}
          /\ c.at = "require" => c.kind # "next"
      BY <2>1 DEF First
    <2> QED BY <1>3, <2>1, <2>2 DEF Registering
  <1>9. CASE c.at = "ask" /\ c.name \in Names /\ (c.token = None => file[In[p]] = Absent)
    BY <1>2, <1>3, <1>9 DEF Acting
  <1>10. CASE proc[p].at = "ask" /\ proc[p].token = None /\ c = [proc[p] EXCEPT !.at = "upsert"]
    BY <1>0, <1>2, <1>3, <1>10, NoCommandTyped DEF Command, Registering, Acting
  <1>11. CASE \/ proc[p].at = "reread" /\ c = [proc[p] EXCEPT !.at = "answer"]
              \/ proc[p].at = "answer" /\ c = [proc[p] EXCEPT !.at = "truncate"]
              \/ proc[p].at = "unlinked" /\ c = [proc[p] EXCEPT !.at = "report"]
    BY <1>0, <1>2, <1>3, <1>4, <1>11, NoCommandTyped
       DEF Command, IdentityOf, Registering, Acting
  <1>12. ASSUME NEW at, at = IF proc[p].kind = "next" THEN "require" ELSE "call", TookIdentity(p, at, c)
         PROVE  Goal
    <2>1. /\ proc[p].at = "client" /\ proc[p].token = None /\ proc[p].kind \in Kinds
          /\ at \in {"require", "call"}
      BY <1>0, <1>12 DEF TookIdentity, Acting
    <2>2. c.at = at /\ c.kind = proc[p].kind /\ c.found = proc[p].found /\ c # NoCommand
      BY <1>0, <1>12, <2>1, NoCommandTyped DEF TookIdentity, Command
    <2>3. CASE file[In[p]] \notin Identity
      <3>1. c.token = None
        BY <1>0, <1>12, <2>1, <2>3 DEF TookIdentity, Command
      <3> QED BY <1>0, <1>2, <1>3, <1>12, <2>1, <2>2, <2>3, <3>1 DEF Registering, Acting, Requiring
    <2>4. CASE file[In[p]] \in Identity
      <3>1. c.name = file[In[p]].name /\ c.token = file[In[p]].token
        BY <1>0, <1>12, <2>4 DEF TookIdentity, Command
      <3>2. /\ [name |-> c.name, token |-> c.token] = file[In[p]]
            /\ c.name \in Names /\ c.token # None
        BY <2>4, <3>1, ConstantsAssumption DEF Identity
      <3>3. IdentityOf(p)' = file[In[p]]
        BY <1>3, <3>2 DEF IdentityOf
      <3> QED BY <1>0, <1>2, <1>3, <1>5, <1>12, <2>1, <2>2, <2>4, <3>1, <3>2, <3>3
              DEF Registering, Acting, Requiring
    <2> QED BY <2>3, <2>4
  <1>13. CASE FoundIdentity(p, c)
    <2>1. /\ proc[p].at = "require" /\ proc[p].kind \in Kinds /\ file[In[p]] \in Identity
          /\ c.at = IF proc[p].kind = "next" THEN "call" ELSE "client"
          /\ c.kind = proc[p].kind /\ c.token = proc[p].token /\ c.name = proc[p].name
          /\ c.found = file[In[p]].name /\ c # NoCommand
      BY <1>0, <1>13, NoCommandTyped DEF FoundIdentity, Command, Acting
    <2>2. IdentityOf(p)' = IdentityOf(p)
      BY <1>3, <2>1 DEF IdentityOf
    <2>3. file[In[p]] = IdentityOf(p) => file[In[p]].name = proc[p].name
      BY DEF IdentityOf
    <2> QED BY <1>0, <1>2, <1>3, <1>4, <2>1, <2>2, <2>3 DEF Registering, Acting
  <1>14. CASE \/ /\ proc[p].at = "register" /\ file[In[p]] = Absent
                 /\ c = [proc[p] EXCEPT !.at = "ask", !.token = None]
              \/ /\ proc[p].at = "register" /\ file[In[p]] \in Identity
                 /\ c = [proc[p] EXCEPT !.at = "ask", !.token = file[In[p]].token]
    BY <1>0, <1>9, <1>14, ConstantsAssumption DEF Command, Identity, Registering
  <1> QED BY <1>1, <1>6, <1>7, <1>8, <1>10, <1>11, <1>12, <1>13, <1>14 DEF Successor

LEMMA TokensKept ==
    ASSUME TokensInv, Known' \subseteq Known, unminted' = unminted,
           \A k \in Checkouts : HeldBy(k)' \subseteq HeldBy(k)
    PROVE  TokensInv'
  BY DEF TokensInv

LEMMA QuietKeeps ==
    ASSUME IdentityInv, NEW p \in Processes, Quiet(p)
    PROVE  IdentityInv'
  <1> USE DEF IdentityInv
  <1>1. PICK c : Successor(p, c) /\ proc' = [proc EXCEPT ![p] = c]
    BY QuietSteps
  <1>2. /\ UNCHANGED <<agents, unminted, file>>
        /\ meddled' \in {meddled, meddled \ {p}}
    BY QuietSteps
  <1>3. \A q \in Processes : q # p => proc'[q] = proc[q]
    BY <1>1 DEF TypeOK
  <1>4. TypeOK'
    BY <1>1, <1>2, SuccessorTyped DEF TypeOK
  <1>5. \A q \in Processes : /\ Minted(q)' => Minted(q) /\ IdentityOf(q)' = IdentityOf(q)
                             /\ Bound(q)' /\ IdentityOf(q)' \in Identity => IdentityOf(q)' \in Known
    <2> TAKE q \in Processes
    <2>1. CASE q = p
      BY <2>1, SuccessorIdentity
    <2>2. CASE q # p
      BY <1>3, <2>2 DEF Minted, Bound, IdentityOf, Known
    <2> QED BY <2>1, <2>2
  <1>6. Known' \subseteq Known
    <2> SUFFICES ASSUME NEW id \in Known' PROVE id \in Known
      OBVIOUS
    <2>1. id \in Identity
      BY DEF Known, Identity
    <2>2. \/ id \in agents \/ \E k \in Checkouts : file[k] = id
          \/ \E q \in Processes : Bound(q)' /\ IdentityOf(q)' = id
      BY <1>2 DEF Known
    <2>3. ASSUME NEW q \in Processes, Bound(q)', IdentityOf(q)' = id PROVE id \in Known
      BY <1>5, <2>1, <2>3 DEF Bound, Minted, IdentityOf
    <2>4. id \in agents \/ (\E k \in Checkouts : file[k] = id) => id \in Known
      BY <2>1 DEF Known
    <2> QED BY <2>2, <2>3, <2>4
  <1>7. ASSUME NEW k \in Checkouts PROVE HeldBy(k)' \subseteq HeldBy(k)
    <2> SUFFICES ASSUME NEW id \in HeldBy(k)' PROVE id \in HeldBy(k)
      OBVIOUS
    <2>1. id \in Identity
      BY DEF HeldBy, Identity
    <2>2. file[k] = id \/ \E q \in Processes : In[q] = k /\ Minted(q)' /\ IdentityOf(q)' = id
      BY <1>2 DEF HeldBy
    <2>3. ASSUME NEW q \in Processes, In[q] = k, Minted(q)', IdentityOf(q)' = id PROVE id \in HeldBy(k)
      <3>1. Minted(q) /\ IdentityOf(q) = id
        BY <1>5, <2>3 DEF Minted, IdentityOf
      <3> QED BY <2>1, <2>3, <3>1 DEF HeldBy
    <2> QED BY <2>1, <2>2, <2>3 DEF HeldBy
  <1>8. TokensInv'
    BY <1>2, <1>6, <1>7, TokensKept
  <1>9. ASSUME NEW q \in Processes PROVE CommandOK(q)'
    <2>1. CASE q = p
      BY <2>1, SuccessorIdentity
    <2>2. CASE q # p
      BY <1>2, <1>3, <2>2 DEF CommandsInv, CommandOK, Minted, Undisturbed, IdentityOf
    <2> QED BY <2>1, <2>2
  <1> QED BY <1>4, <1>8, <1>9 DEF CommandsInv

-----------------------------------------------------------------------------
(* The steps that change rows or files.                                    *)

LEMMA UpsertKeeps ==
    ASSUME IdentityInv, NEW p \in Processes, Upsert(p)
    PROVE  IdentityInv'
  <1> USE DEF IdentityInv
  <1> DEFINE n == proc[p].name
  <1>1. PICK t \in unminted :
           /\ proc[p].at = "upsert"
           /\ unminted' = unminted \ {t}
           /\ agents' = {a \in agents : a.name # n} \cup {[name |-> n, token |-> t]}
           /\ proc' = [proc EXCEPT ![p].at = "reread", ![p].token = t]
           /\ meddled' = meddled \cup {q \in Loaded \ {p} : proc[q].name = n}
           /\ UNCHANGED file
    BY DEF Upsert
  <1> DEFINE new == [name |-> n, token |-> t]
  <1>2. /\ proc[p] \in Command /\ In[p] \in Checkouts
        /\ t \in Tokens /\ t # None /\ n \in Names /\ new \in Identity
    BY <1>1, ConstantsAssumption DEF TypeOK, Command, Identity, CommandsInv, CommandOK, Registering
  <1>3. proc'[p] = [proc[p] EXCEPT !.at = "reread", !.token = t]
    BY <1>1 DEF TypeOK
  <1>4. \A q \in Processes : q # p => proc'[q] = proc[q]
    BY <1>1 DEF TypeOK
  <1>5. /\ proc'[p] \in Command /\ proc'[p].at = "reread"
        /\ proc'[p].token = t /\ proc'[p].name = n
    BY <1>2, <1>3 DEF Command, Registering
  <1>6. /\ \A id \in Known : id.token # t
        /\ agents \subseteq Known
    BY <1>1 DEF TokensInv, Known, TypeOK
  <1>7. TypeOK'
    <2>1. agents' \subseteq Identity
      BY <1>1, <1>2 DEF TypeOK
    <2>2. \A a, b \in agents' : a.name = b.name \/ a.token = b.token => a = b
      BY <1>1, <1>6 DEF TypeOK
    <2>3. proc' \in [Processes -> Command]
      BY <1>1, <1>5, <1>4 DEF TypeOK
    <2> QED BY <1>1, <2>1, <2>2, <2>3 DEF TypeOK, Loaded
  <1>8. IdentityOf(p)' = new
    BY <1>5 DEF IdentityOf
  <1>9. \A q \in Processes : q # p => /\ IdentityOf(q)' = IdentityOf(q)
                                      /\ Minted(q)' = Minted(q) /\ Bound(q)' = Bound(q)
    BY <1>4 DEF IdentityOf, Minted, Bound
  <1>10. Known' \subseteq Known \cup {new}
    <2> SUFFICES ASSUME NEW id \in Known' PROVE id \in Known \cup {new}
      OBVIOUS
    <2>1. \/ id \in agents \/ id = new \/ \E k \in Checkouts : file[k] = id
          \/ \E q \in Processes : Bound(q)' /\ IdentityOf(q)' = id
      BY <1>1 DEF Known
    <2>2. id \in Identity
      BY DEF Known, Identity
    <2> QED BY <1>8, <1>9, <2>1, <2>2 DEF Known
  <1>11. \A k \in Checkouts : HeldBy(k)' \subseteq HeldBy(k) \cup (IF k = In[p] THEN {new} ELSE {})
    <2> SUFFICES ASSUME NEW k \in Checkouts, NEW id \in HeldBy(k)'
                 PROVE  id \in HeldBy(k) \cup (IF k = In[p] THEN {new} ELSE {})
      OBVIOUS
    <2>1. \/ file[k] = id
          \/ \E q \in Processes : In[q] = k /\ Minted(q)' /\ IdentityOf(q)' = id
      BY <1>1 DEF HeldBy
    <2>2. id \in Identity
      BY DEF HeldBy, Identity
    <2> QED BY <1>8, <1>9, <2>1, <2>2 DEF HeldBy
  <1>12. \A k \in Checkouts : HeldBy(k) \subseteq Known
    BY DEF HeldBy, Known, Bound
  <1>13. TokensInv'
    <2>1. \A x \in Known' : x.token \notin unminted'
      BY <1>1, <1>10 DEF TokensInv
    <2>2. \A x, y \in Known' : x.token = y.token => x = y
      BY <1>6, <1>10 DEF TokensInv
    <2>3. ASSUME NEW k \in Checkouts, NEW l \in Checkouts, k # l,
                 NEW x \in HeldBy(k)', NEW y \in HeldBy(l)'
          PROVE  x.token # y.token
      <3>1. CASE x \in HeldBy(k) /\ y \in HeldBy(l)
        BY <2>3, <3>1 DEF TokensInv
      <3>2. CASE x = new /\ y \in HeldBy(l)
        BY <1>6, <1>12, <3>2
      <3>3. CASE x \in HeldBy(k) /\ y = new
        BY <1>6, <1>12, <3>3
      <3> QED BY <1>11, <2>3, <3>1, <3>2, <3>3
    <2> QED BY <2>1, <2>2, <2>3 DEF TokensInv
  <1>14. ASSUME NEW q \in Processes PROVE CommandOK(q)'
    <2>1. CASE q = p
      <3>1. CommandOK(p)
        BY DEF CommandsInv
      <3>2. p \notin meddled => file[In[p]] = Absent
        BY <1>1, <3>1 DEF CommandOK, Undisturbed
      <3>3. p \notin meddled' => p \notin meddled
        BY <1>1
      <3> QED BY <1>1, <1>2, <1>5, <1>8, <2>1, <3>2, <3>3 DEF CommandOK, Undisturbed, Minted, Acting
    <2>2. CASE q # p
      <3>1. CommandOK(q) /\ proc'[q] = proc[q]
        BY <1>4, <2>2 DEF CommandsInv
      <3>2. SUFFICES ASSUME q \notin meddled' PROVE Undisturbed(q)'
        BY <3>1 DEF CommandOK, Minted
      <3>3. Undisturbed(q)
        BY <1>1, <3>1, <3>2 DEF CommandOK
      <3>4. IdentityOf(q)' = IdentityOf(q)
        BY <1>9, <2>2
      <3>5. proc[q].at \in {"reread", "answer", "truncate", "fill", "report"} => proc[q].name # n
        BY <1>1, <2>2, <3>2 DEF Loaded, First
      <3>6. proc[q].at \in {"reread", "answer", "truncate", "fill", "report"}
               => IdentityOf(q) \in agents'
        BY <1>1, <3>3, <3>5 DEF Undisturbed, IdentityOf
      <3> QED BY <1>1, <3>1, <3>3, <3>4, <3>6 DEF Undisturbed
    <2> QED BY <2>1, <2>2
  <1> QED BY <1>7, <1>13, <1>14 DEF CommandsInv

(* What Truncate and Fill have in common.                                  *)
LEMMA WriteKeeps ==
    ASSUME IdentityInv, NEW p \in Processes, Minted(p),
           NEW f \in {Torn, IdentityOf(p)}, NEW at \in {"fill", "report"},
           file' = [file EXCEPT ![In[p]] = f],
           proc' = [proc EXCEPT ![p].at = at],
           meddled' = meddled \cup Others(p),
           UNCHANGED <<agents, unminted>>,
           CommandOK(p)'
    PROVE  IdentityInv'
  <1> USE DEF IdentityInv
  <1>0. /\ proc[p] \in Command /\ In[p] \in Checkouts /\ CommandOK(p)
        /\ proc'[p] = [proc[p] EXCEPT !.at = at]
    BY ConstantsAssumption DEF TypeOK, CommandsInv
  <1>1. \A q \in Processes : q # p => proc'[q] = proc[q]
    BY DEF TypeOK
  <1>2. IdentityOf(p) \in Identity
    BY <1>0 DEF IdentityOf, Identity, CommandOK, Command, Minted, Registering
  <1>3. \A k \in Checkouts : file'[k] = IF k = In[p] THEN f ELSE file[k]
    BY DEF TypeOK
  <1>4. TypeOK'
    <2>1. proc'[p] \in Command
      BY <1>0 DEF Command, Registering
    <2>2. proc' \in [Processes -> Command]
      BY <2>1, <1>1 DEF TypeOK
    <2> QED BY <1>2, <2>2 DEF TypeOK, Others, Loaded
  <1>5. \A q \in Processes : /\ IdentityOf(q)' = IdentityOf(q)
                             /\ Minted(q)' = Minted(q)
                             /\ Bound(q)' = Bound(q)
    BY <1>0, <1>1 DEF IdentityOf, Minted, Bound, Command
  <1>6. Known' \subseteq Known
    <2> SUFFICES ASSUME NEW id \in Known' PROVE id \in Known
      OBVIOUS
    <2>1. id \in Identity
      BY DEF Known, Identity
    <2>2. \/ id \in agents \/ (\E k \in Checkouts : file[k] = id)
          \/ id = IdentityOf(p)
          \/ \E q \in Processes : Bound(q)' /\ IdentityOf(q)' = id
      BY <1>3, <2>1, TornIsNoIdentity DEF Known
    <2> QED BY <1>5, <2>1, <2>2 DEF Known, Bound
  <1>7. ASSUME NEW k \in Checkouts PROVE HeldBy(k)' \subseteq HeldBy(k)
    <2> SUFFICES ASSUME NEW id \in HeldBy(k)' PROVE id \in HeldBy(k)
      OBVIOUS
    <2>1. id \in Identity
      BY DEF HeldBy, Identity
    <2>2. \/ file[k] = id
          \/ In[p] = k /\ id = IdentityOf(p)
          \/ \E q \in Processes : In[q] = k /\ Minted(q)' /\ IdentityOf(q)' = id
      <3>1. file'[k] = id \/ \E q \in Processes : In[q] = k /\ Minted(q)' /\ IdentityOf(q)' = id
        BY DEF HeldBy
      <3>2. file'[k] = id => file[k] = id \/ (In[p] = k /\ id = IdentityOf(p))
        <4>1. file'[k] = IF k = In[p] THEN f ELSE file[k]
          BY <1>3
        <4>2. f = Torn \/ f = IdentityOf(p)
          OBVIOUS
        <4> QED BY <4>1, <4>2, <2>1, TornIsNoIdentity
      <3> QED BY <3>1, <3>2
    <2> QED BY <1>5, <2>1, <2>2 DEF HeldBy
  <1>8. TokensInv'
    BY <1>6, <1>7, TokensKept
  <1>9. ASSUME NEW q \in Processes, q # p PROVE CommandOK(q)'
    <2>1. CommandOK(q) /\ proc'[q] = proc[q] /\ In[q] \in Checkouts
      BY <1>1, <1>9, ConstantsAssumption DEF CommandsInv
    <2>2. SUFFICES ASSUME q \notin meddled' PROVE Undisturbed(q)'
      BY <2>1 DEF CommandOK, Minted
    <2>3. Undisturbed(q)
      BY <2>1, <2>2 DEF CommandOK
    <2>4. In[q] = In[p] => proc[q].at \in {"idle", "register", First(proc[q].kind)}
      BY <1>9, <2>2 DEF Others, Loaded
    <2>5. In[q] # In[p] => file'[In[q]] = file[In[q]]
      BY <1>3, <2>1
    <2>6. CASE In[q] = In[p]
      BY <2>1, <2>4, <2>6 DEF Undisturbed, First
    <2>7. CASE In[q] # In[p]
      BY <2>1, <2>3, <2>5, <2>7 DEF Undisturbed, IdentityOf
    <2> QED BY <2>6, <2>7
  <1> QED BY <1>4, <1>8, <1>9 DEF CommandsInv

LEMMA TruncateKeeps ==
    ASSUME IdentityInv, NEW p \in Processes, Truncate(p)
    PROVE  IdentityInv'
  <1>1. CommandOK(p) /\ proc[p] \in Command /\ In[p] \in Checkouts
    BY ConstantsAssumption DEF IdentityInv, CommandsInv, TypeOK
  <1>2. /\ Minted(p) /\ p \notin Others(p)
        /\ proc'[p] = [proc[p] EXCEPT !.at = "fill"]
        /\ file'[In[p]] = Torn
    BY <1>1 DEF Truncate, Minted, Others, IdentityInv, TypeOK
  <1>3. CommandOK(p)'
    BY <1>1, <1>2 DEF Truncate, CommandOK, Minted, Undisturbed, IdentityOf, Command, Registering, Acting
  <1> QED BY <1>2, <1>3, WriteKeeps DEF Truncate

LEMMA FillKeeps ==
    ASSUME IdentityInv, NEW p \in Processes, Fill(p)
    PROVE  IdentityInv'
  <1>1. CommandOK(p) /\ proc[p] \in Command /\ In[p] \in Checkouts
    BY ConstantsAssumption DEF IdentityInv, CommandsInv, TypeOK
  <1>2. /\ Minted(p) /\ p \notin Others(p)
        /\ proc'[p] = [proc[p] EXCEPT !.at = "report"]
    BY <1>1 DEF Fill, Minted, Others, IdentityInv, TypeOK
  <1>3. PICK f \in {Torn, IdentityOf(p)} :
           /\ file' = [file EXCEPT ![In[p]] = f]
           /\ f = Torn => file[In[p]] # Torn \/ f = IdentityOf(p)
    BY DEF Fill, IdentityOf
  <1>4. file'[In[p]] = f
    BY <1>1, <1>3 DEF IdentityInv, TypeOK
  <1>5. CommandOK(p)'
    BY <1>1, <1>2, <1>3, <1>4
       DEF Fill, CommandOK, Minted, Undisturbed, IdentityOf, Command, Registering, Acting
  <1> QED BY <1>2, <1>3, <1>5, WriteKeeps DEF Fill

LEMMA RemoveFileKeeps ==
    ASSUME IdentityInv, NEW k \in Checkouts, RemoveFile(k)
    PROVE  IdentityInv'
  <1> USE DEF IdentityInv
  <1>1. /\ file' = [file EXCEPT ![k] = Absent]
        /\ \A p \in Processes :
              proc'[p] = IF In[p] = k /\ proc[p].at = "fill"
                         THEN [proc[p] EXCEPT !.at = "unlinked"] ELSE proc[p]
        /\ meddled' = meddled \cup {p \in Loaded : In[p] = k}
        /\ UNCHANGED <<agents, unminted>>
    BY DEF RemoveFile
  <1>2. ASSUME NEW p \in Processes
        PROVE  proc[p] \in Command /\ proc'[p] \in Command /\ In[p] \in Checkouts
    <2>1. proc[p] \in Command /\ In[p] \in Checkouts
      BY ConstantsAssumption DEF TypeOK
    <2>2. [proc[p] EXCEPT !.at = "unlinked"] \in Command
      BY <2>1 DEF Command, Registering
    <2> QED BY <1>1, <2>1, <2>2
  <1>3. \A l \in Checkouts : file'[l] = IF l = k THEN Absent ELSE file[l]
    BY <1>1 DEF TypeOK
  <1>4. TypeOK'
    <2>1. proc' \in [Processes -> Command]
      BY <1>2 DEF RemoveFile
    <2> QED BY <1>1, <2>1 DEF TypeOK, Loaded
  <1>5. ASSUME NEW q \in Processes
        PROVE  /\ IdentityOf(q)' = IdentityOf(q)
               /\ Minted(q)' = Minted(q)
               /\ Bound(q)' = Bound(q)
    <2>1. CASE proc'[q] = proc[q]
      BY <2>1 DEF IdentityOf, Minted, Bound
    <2>2. CASE proc[q].at = "fill" /\ proc'[q] = [proc[q] EXCEPT !.at = "unlinked"]
      BY <1>2, <2>2 DEF IdentityOf, Minted, Bound, Command
    <2> QED BY <1>1, <2>1, <2>2
  <1>6. Known' \subseteq Known
    <2> SUFFICES ASSUME NEW id \in Known' PROVE id \in Known
      OBVIOUS
    <2>1. id \in Identity
      BY DEF Known, Identity
    <2>2. \/ id \in agents \/ (\E l \in Checkouts : file[l] = id)
          \/ \E q \in Processes : Bound(q)' /\ IdentityOf(q)' = id
      BY <1>1, <1>3, <2>1, TornIsNoIdentity DEF Known
    <2> QED BY <1>5, <2>1, <2>2 DEF Known
  <1>7. ASSUME NEW l \in Checkouts PROVE HeldBy(l)' \subseteq HeldBy(l)
    <2> SUFFICES ASSUME NEW id \in HeldBy(l)' PROVE id \in HeldBy(l)
      OBVIOUS
    <2>1. id \in Identity
      BY DEF HeldBy, Identity
    <2>2. \/ file[l] = id
          \/ \E q \in Processes : In[q] = l /\ Minted(q)' /\ IdentityOf(q)' = id
      BY <1>3, <2>1, TornIsNoIdentity DEF HeldBy
    <2> QED BY <1>5, <2>1, <2>2 DEF HeldBy
  <1>8. TokensInv'
    BY <1>1, <1>6, <1>7, TokensKept
  <1>9. ASSUME NEW q \in Processes PROVE CommandOK(q)'
    <2>1. CommandOK(q)
      BY DEF CommandsInv
    <2>2. CASE In[q] = k /\ q \in Loaded
      <3>1. q \in meddled'
        BY <1>1, <2>2
      <3>2. proc'[q] = proc[q] \/ (proc[q].at = "fill" /\ proc'[q] = [proc[q] EXCEPT !.at = "unlinked"])
        BY <1>1
      <3> QED BY <1>2, <2>1, <3>1, <3>2 DEF CommandOK, Minted, Registering, Acting, Command
    <2>3. CASE In[q] = k /\ q \notin Loaded
      <3>1. proc[q].at \in {"idle", "register", First(proc[q].kind)}
        BY <2>3 DEF Loaded
      <3>2. proc'[q] = proc[q]
        BY <1>1, <3>1 DEF First
      <3> QED BY <2>1, <3>1, <3>2, <1>1 DEF CommandOK, Minted, Undisturbed, First
    <2>4. CASE In[q] # k
      <3>1. proc'[q] = proc[q] /\ file'[In[q]] = file[In[q]]
        BY <1>1, <1>2, <1>3, <2>4
      <3> QED BY <1>1, <2>1, <2>4, <3>1 DEF CommandOK, Minted, Undisturbed, IdentityOf
    <2> QED BY <2>2, <2>3, <2>4
  <1> QED BY <1>4, <1>8, <1>9 DEF CommandsInv

-----------------------------------------------------------------------------
(* The theorems.                                                           *)

LEMMA InitiallyInv == Init => IdentityInv
  <1> SUFFICES ASSUME Init PROVE IdentityInv
    OBVIOUS
  <1>1. TypeOK
    BY NoCommandTyped DEF Init, TypeOK
  <1>2. \A p \in Processes : proc[p] = NoCommand
    BY DEF Init
  <1>3. Known = {} /\ \A k \in Checkouts : HeldBy(k) = {}
    BY <1>2, NoCommandTyped, TornIsNoIdentity DEF Init, Known, HeldBy, Bound, Minted
  <1>4. TokensInv
    BY <1>3 DEF TokensInv
  <1>5. CommandsInv
    BY <1>2, NoCommandTyped DEF CommandsInv, CommandOK, Undisturbed, Minted, Registering, Acting
  <1> QED BY <1>1, <1>4, <1>5 DEF IdentityInv

LEMMA StepKeeps ==
    ASSUME IdentityInv, [Next]_vars
    PROVE  IdentityInv'
  <1>1. CASE UNCHANGED vars
    BY <1>1 DEF vars, IdentityInv, TypeOK, TokensInv, CommandsInv, CommandOK, Undisturbed,
                Known, HeldBy, Bound, Minted, IdentityOf
  <1>2. ASSUME NEW p \in Processes, Quiet(p) PROVE IdentityInv'
    BY <1>2, QuietKeeps
  <1>3. ASSUME NEW p \in Processes, Upsert(p) PROVE IdentityInv'
    BY <1>3, UpsertKeeps
  <1>4. ASSUME NEW p \in Processes, Truncate(p) PROVE IdentityInv'
    BY <1>4, TruncateKeeps
  <1>5. ASSUME NEW p \in Processes, Fill(p) PROVE IdentityInv'
    BY <1>5, FillKeeps
  <1>6. ASSUME NEW k \in Checkouts, RemoveFile(k) PROVE IdentityInv'
    BY <1>6, RemoveFileKeeps
  <1> QED BY <1>1, <1>2, <1>3, <1>4, <1>5, <1>6 DEF Next, Quiet

(* The invariant holds throughout: every token is minted for one name and    *)
(* one checkout, and a registration that is left alone finds the file and   *)
(* the row as it left them.                                                *)
THEOREM Invariance == Spec => []IdentityInv
  <1>1. Init => IdentityInv
    BY InitiallyInv
  <1>2. IdentityInv /\ [Next]_vars => IdentityInv'
    BY StepKeeps
  <1> QED BY <1>1, <1>2, PTL DEF Spec

(* Typing, with the uniqueness of agents' names and tokens.                *)
THEOREM TypeCorrect == Spec => []TypeOK
  <1>1. IdentityInv => TypeOK
    BY DEF IdentityInv
  <1> QED BY <1>1, Invariance, PTL

(* No two checkouts hold working identities of one agent.                  *)
THEOREM SingleHolder == Spec => []OneCheckoutPerAgent
  <1>1. ASSUME IdentityInv PROVE OneCheckoutPerAgent
    <2> SUFFICES ASSUME NEW k \in Checkouts, NEW l \in Checkouts, k # l, Works(k), Works(l),
                        file[k].name = file[l].name
                 PROVE  FALSE
      BY DEF OneCheckoutPerAgent
    <2>1. file[k] = file[l] /\ file[k] \in Identity
      BY <1>1 DEF IdentityInv, TypeOK, Works
    <2>2. file[k] \in HeldBy(k) /\ file[l] \in HeldBy(l)
      BY <2>1 DEF HeldBy
    <2> QED BY <1>1, <2>1, <2>2 DEF IdentityInv, TokensInv
  <1> QED BY <1>1, Invariance, PTL

(* Files, rows and processes implement the abstract names: each step changes *)
(* the name of one checkout at most, and to a name no other has.           *)
THEOREM Implements == Spec => ImplementsNames
  <1>1. Init => Holders!Init
    <2> SUFFICES ASSUME Init PROVE Holders!Init
      OBVIOUS
    <2>1. \A k \in Checkouts : ~Works(k)
      BY DEF Init, Works
    <2> QED BY <2>1 DEF Holders!Init, NamesHeld, NameOf
  <1>2. ASSUME IdentityInv, IdentityInv', [Next]_vars
        PROVE  [Holders!Next]_NamesHeld
    <2>1. \A k \in Checkouts : Works(k) => file[k] \in Identity /\ file[k] \in HeldBy(k)
      BY <1>2 DEF IdentityInv, TypeOK, Works, HeldBy
    <2>2. \A k, l \in Checkouts : k # l => NameOf(k)' = NameOf(k) \/ NameOf(l)' = NameOf(l)
      <3> SUFFICES ASSUME NEW k \in Checkouts, NEW l \in Checkouts, k # l
                   PROVE  NameOf(k)' = NameOf(k) \/ NameOf(l)' = NameOf(l)
        OBVIOUS
      <3>1. CASE UNCHANGED <<agents, file>>
        BY <3>1 DEF NameOf, Works
      <3>2. ASSUME NEW j \in Checkouts, agents' = agents,
                   \A i \in Checkouts : i # j => file'[i] = file[i]
            PROVE  NameOf(k)' = NameOf(k) \/ NameOf(l)' = NameOf(l)
        BY <3>2 DEF NameOf, Works
      <3>3. ASSUME NEW p \in Processes, Upsert(p)
            PROVE  NameOf(k)' = NameOf(k) \/ NameOf(l)' = NameOf(l)
        <4>1. PICK t \in unminted :
                 /\ agents' = {a \in agents : a.name # proc[p].name}
                                 \cup {[name |-> proc[p].name, token |-> t]}
                 /\ UNCHANGED file
          BY <3>3 DEF Upsert
        <4>2. ASSUME NEW i \in Checkouts PROVE file[i] # [name |-> proc[p].name, token |-> t]
          <5>1. file[i] \in Identity => file[i] \in Known /\ file[i].token # t
            BY <1>2 DEF IdentityInv, TokensInv, Known
          <5>2. [name |-> proc[p].name, token |-> t] \in Identity
            <6>1. proc[p].name \in Names
              BY <1>2, <3>3 DEF IdentityInv, CommandsInv, CommandOK, Upsert, Registering
            <6>2. t \in Tokens
              BY <1>2, <4>1 DEF IdentityInv, TypeOK
            <6> QED BY <6>1, <6>2 DEF Identity
          <5> QED BY <5>1, <5>2
        <4>3. \A i \in Checkouts : Works(i)' <=> Works(i) /\ file[i].name # proc[p].name
          BY <4>1, <4>2 DEF Works
        <4>4. ~(Works(k) /\ Works(l) /\ file[k].name = file[l].name)
          BY <1>2, <2>1, <3>3 DEF IdentityInv, TypeOK, TokensInv, Works
        <4> QED BY <4>1, <4>3, <4>4 DEF NameOf
      <3>4. ASSUME NEW p \in Processes, Truncate(p) \/ Fill(p)
            PROVE  NameOf(k)' = NameOf(k) \/ NameOf(l)' = NameOf(l)
        <4>1. /\ In[p] \in Checkouts /\ agents' = agents
              /\ \A i \in Checkouts : i # In[p] => file'[i] = file[i]
          BY <1>2, <3>4, ConstantsAssumption DEF Truncate, Fill, IdentityInv, TypeOK
        <4> QED BY <3>2, <4>1
      <3>5. ASSUME NEW j \in Checkouts, RemoveFile(j)
            PROVE  NameOf(k)' = NameOf(k) \/ NameOf(l)' = NameOf(l)
        <4>1. /\ agents' = agents
              /\ \A i \in Checkouts : i # j => file'[i] = file[i]
          BY <1>2, <3>5 DEF RemoveFile, IdentityInv, TypeOK
        <4> QED BY <3>2, <4>1
      <3>6. ASSUME NEW p \in Processes, Quiet(p) PROVE UNCHANGED <<agents, file>>
        BY <1>2, <3>6, QuietSteps DEF IdentityInv
      <3> QED BY <1>2, <3>1, <3>3, <3>4, <3>5, <3>6 DEF Next, Quiet, vars
    <2>3. \A k \in Checkouts : NameOf(k)' \in Names \cup {None}
      BY <1>2 DEF IdentityInv, TypeOK, NameOf, Works, Identity
    <2>4. \A k, l \in Checkouts : k # l /\ NameOf(k)' # None => NameOf(l)' # NameOf(k)'
      BY <1>2, ConstantsAssumption
         DEF IdentityInv, TypeOK, TokensInv, NameOf, Works, HeldBy, Identity
    <2>5. CASE \A k \in Checkouts : NameOf(k)' = NameOf(k)
      BY <2>5 DEF NamesHeld
    <2>6. ASSUME NEW k \in Checkouts, NameOf(k)' # NameOf(k)
          PROVE  Holders!Next
      <3>1. \A l \in Checkouts \ {k} : NameOf(l)' = NameOf(l)
        BY <2>2, <2>6
      <3>2. NamesHeld' = [NamesHeld EXCEPT ![k] = NameOf(k)']
        BY <3>1 DEF NamesHeld
      <3>3. CASE NameOf(k)' = None
        BY <3>2, <3>3 DEF Holders!Next, Holders!Lose
      <3>4. CASE NameOf(k)' # None
        <4>1. \A l \in Checkouts \ {k} : NamesHeld[l] # NameOf(k)'
          BY <2>4, <3>1, <3>4 DEF NamesHeld
        <4>2. Holders!Take(k, NameOf(k)')
          BY <3>2, <4>1 DEF Holders!Take
        <4>3. NameOf(k)' \in Names
          BY <2>3, <3>4
        <4> QED BY <4>2, <4>3 DEF Holders!Next
      <3> QED BY <3>3, <3>4
    <2> QED BY <2>5, <2>6
  <1> QED BY <1>1, <1>2, Invariance, PTL DEF Spec, ImplementsNames, Holders!Spec

(* A registration that reports success, and that nobody interfered with,    *)
(* has left a working identity of its name.                                *)
THEOREM ReportsHold == Spec => []ReportedWorks
  <1>1. ASSUME IdentityInv PROVE ReportedWorks
    <2> SUFFICES ASSUME NEW p \in Processes, proc[p].at = "report", p \notin meddled
                 PROVE  Works(In[p]) /\ file[In[p]].name = proc[p].name
      BY DEF ReportedWorks
    <2>1. Undisturbed(p)
      BY <1>1 DEF IdentityInv, CommandsInv, CommandOK
    <2> QED BY <2>1 DEF Undisturbed, Works, IdentityOf
  <1> QED BY <1>1, Invariance, PTL

(* A command is served under the name its checkout's file held with the      *)
(* token, or anonymously if it presents none; one that requires an identity *)
(* is served as the agent it found, unless somebody interfered.            *)
THEOREM ServesAsFiled == Spec => ServedAsFiled
  <1> DEFINE Served(p, as) ==
        /\ proc[p].kind \in LookedUp => IF as = None THEN proc[p].token = None ELSE as = proc[p].name
        /\ proc[p].kind \in Requiring /\ p \notin meddled => as = proc[p].found /\ as = proc[p].name
  <1>1. ASSUME IdentityInv, NEW p \in Processes, NEW as \in Names \cup {None}, Call(p, as)
        PROVE  Served(p, as)
    <2>1. /\ proc[p].at = "call" /\ proc[p] \in Command /\ CommandOK(p)
          /\ In[p] \in Checkouts
      BY <1>1, ConstantsAssumption DEF Call, IdentityInv, TypeOK, CommandsInv
    <2>2. proc[p].kind \in Requiring /\ p \notin meddled =>
             proc[p].token # None /\ proc[p].found = proc[p].name
      BY <2>1 DEF CommandOK, Undisturbed
    <2>3. CASE proc[p].kind \in LookedUp /\ \E a \in Resolves(proc[p].token) : as = a.name
      <3>1. PICK a \in agents : a.token = proc[p].token /\ as = a.name
        BY <2>3 DEF Resolves
      <3>2. a \in Identity /\ a \in Known /\ as # None /\ proc[p].token # None
        BY <1>1, <3>1, ConstantsAssumption DEF IdentityInv, TypeOK, Identity, Known
      <3>3. IdentityOf(p) \in Known
        BY <2>1, <3>2 DEF Known, Bound, IdentityOf, Identity, Command, CommandOK, Acting
      <3>4. IdentityOf(p) = a
        BY <1>1, <3>1, <3>2, <3>3 DEF IdentityInv, TokensInv, IdentityOf
      <3>5. as = proc[p].name
        BY <3>1, <3>4 DEF IdentityOf
      <3> QED BY <2>2, <3>2, <3>5
    <2>4. CASE proc[p].kind \in LookedUp \ Insisted /\ proc[p].token = None /\ as = None
      BY <2>2, <2>4
    <2>5. CASE proc[p].kind = "read" /\ as = None
      BY <2>5 DEF LookedUp, Requiring
    <2>6. CASE proc[p].kind = "mine" /\ as = proc[p].found
      BY <2>2, <2>6 DEF LookedUp
    <2> QED BY <1>1, <2>3, <2>4, <2>5, <2>6 DEF Call
  <1>2. IdentityInv /\ [Next]_vars =>
           [\A p \in Processes, as \in Names \cup {None} : Call(p, as) => Served(p, as)]_vars
    BY <1>1
  <1> QED BY <1>2, Invariance, PTL DEF Spec, ServedAsFiled

(* A working identity ends only with its file or through a registration that *)
(* found none in its own checkout.                                         *)
THEOREM KeepsWorking == Spec => WorkingIdentityKept
  <1> DEFINE Ends(k) ==
        \/ RemoveFile(k)
        \/ \E p \in Processes :
              \/ In[p] # k /\ Upsert(p) /\ proc[p].name = file[k].name
              \/ In[p] = k /\ p \in meddled /\ (Upsert(p) \/ Truncate(p) \/ Fill(p))
  <1>1. ASSUME IdentityInv, [Next]_vars, NEW k \in Checkouts, Works(k), ~Works(k)'
        PROVE  Ends(k)
    <2>0. /\ TypeOK /\ \A p \in Processes : CommandOK(p) /\ In[p] \in Checkouts
          /\ file[k] \in Identity
      BY <1>1, ConstantsAssumption DEF IdentityInv, CommandsInv, Works, TypeOK
    <2>1. CASE UNCHANGED vars
      BY <1>1, <2>1 DEF vars, Works
    <2>2. ASSUME NEW p \in Processes, Quiet(p) PROVE FALSE
      BY <1>1, <2>0, <2>2, QuietSteps DEF Works
    <2>3. ASSUME NEW p \in Processes, Upsert(p) PROVE Ends(k)
      <3>1. proc[p].name = file[k].name
        BY <1>1, <2>3 DEF Upsert, Works
      <3>2. In[p] = k => p \in meddled
        BY <2>0, <2>3, TornIsNoIdentity DEF Upsert, CommandOK, Undisturbed
      <3> QED BY <2>3, <3>1, <3>2
    <2>4. ASSUME NEW p \in Processes, Truncate(p) \/ Fill(p) PROVE Ends(k)
      <3>1. In[p] = k
        BY <1>1, <2>0, <2>4 DEF Truncate, Fill, Works, TypeOK
      <3>2. p \in meddled
        BY <2>0, <2>4, <3>1, TornIsNoIdentity DEF Truncate, Fill, CommandOK, Undisturbed
      <3> QED BY <2>4, <3>1, <3>2
    <2>5. ASSUME NEW l \in Checkouts, RemoveFile(l) PROVE Ends(k)
      <3>1. l = k
        BY <1>1, <2>0, <2>5 DEF RemoveFile, Works, TypeOK
      <3> QED BY <2>5, <3>1
    <2> QED BY <1>1, <2>1, <2>2, <2>3, <2>4, <2>5 DEF Next, Quiet
  <1>2. IdentityInv /\ [Next]_vars => [\A k \in Checkouts : Works(k) /\ ~Works(k)' => Ends(k)]_vars
    BY <1>1
  <1> QED BY <1>2, Invariance, PTL DEF Spec, WorkingIdentityKept
=============================================================================
