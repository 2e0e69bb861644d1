--------------------------- MODULE AgentIdentity ---------------------------
(***************************************************************************)
(* Who a command acts as: the agents and token hashes on the server, and    *)
(* the identity file of each checkout, .config/taskline/agent.json.         *)
(*                                                                          *)
(* `taskline register` reads the file, asks the server to create the agent  *)
(* or rotate its token, and writes the file in place: truncated first, then *)
(* filled.  Any other command reads the file, some of them twice, and calls *)
(* a handler that may or may not ask who is calling.  Processes of one checkout and of others interleave between  *)
(* these steps; an answer can be lost, a process killed, a file removed by  *)
(* the user.  A token and its hash are one value here, minted once.         *)
(*                                                                          *)
(* There is one server, so an identity is never that of another server.     *)
(***************************************************************************)
CONSTANTS
    Checkouts,   \* working directories
    Processes,   \* processes of the command line client, each run again and again
    In,          \* In[p]: the checkout process p runs in
    Runs,        \* Runs[p]: the kinds of commands process p runs besides register
    Names,       \* agent names
    Tokens,      \* tokens that can ever be minted
    Absent,      \* there is no identity file
    Torn,        \* an identity file that does not parse or is incomplete
    None         \* no token; the anonymous caller

(* The commands, by how they use an identity.  read: get, history, search,  *)
(* list, project commands, reading attachments; write: create, delete, list *)
(* --runnable, next without --claim, dependencies, links, changes of        *)
(* attachments, update and release with --force; mine: list --mine; claim: claim, heartbeat and     *)
(* release; next: next --claim.  list --mine --runnable is like update.     *)
Kinds == {"read", "write", "status", "mine", "update", "claim", "next"}

ASSUME ConstantsAssumption ==
    /\ In \in [Processes -> Checkouts]
    /\ Runs \in [Processes -> SUBSET Kinds]
    /\ Names # {}
    /\ None \notin Tokens \cup Names
    /\ Absent # Torn
    /\ \A n \in Names, t \in Tokens : [name |-> n, token |-> t] \notin {Absent, Torn}

VARIABLES
    agents,     \* rows of task_agents: name and token hash
    unminted,   \* tokens not minted yet
    file,       \* file[k]: the identity file of checkout k
    proc,       \* proc[p]: the command process p runs
    meddled     \* processes whose file or token somebody else has touched since
                \* they first read the file (history)

vars == <<agents, unminted, file, proc, meddled>>

-----------------------------------------------------------------------------
Identity == [name: Names, token: Tokens]

Registering == {"register", "ask", "upsert", "reread", "answer", "truncate", "fill", "unlinked", "report"}
Acting == {"client", "require", "call"}

(* Commands that run requireIdentity; all but next do so before newClient.  *)
Requiring == {"mine", "update", "claim", "next"}

First(kind) == IF kind \in Requiring \ {"next"} THEN "require" ELSE "client"

(* Those whose handler looks the token up, and those it refuses without one. *)
LookedUp == Kinds \ {"read", "mine"}
Insisted == {"claim", "next"}

(* name: the name to register, or the one newClient loaded; token: the      *)
(* token presented to the server, or, once it is minted, the new one;       *)
(* found: the name requireIdentity found.                                  *)
Command == [at: {"idle"} \cup Registering \cup Acting, kind: Kinds \cup {"register"},
            name: Names \cup {None}, token: Tokens \cup {None}, found: Names \cup {None}]

NoCommand == [at |-> "idle", kind |-> "register", name |-> None, token |-> None, found |-> None]

(* The type invariant: rows, files and commands stay in their domains, and *)
(* the columns name and token_hash of task_agents are unique.              *)
TypeOK ==
    /\ agents \subseteq Identity
    /\ \A a, b \in agents : a.name = b.name \/ a.token = b.token => a = b
    /\ unminted \subseteq Tokens
    /\ file \in [Checkouts -> Identity \cup {Absent, Torn}]
    /\ proc \in [Processes -> Command]
    /\ meddled \subseteq Processes

Init ==
    /\ agents = {}
    /\ unminted = Tokens
    /\ file = [k \in Checkouts |-> Absent]
    /\ proc = [p \in Processes |-> NoCommand]
    /\ meddled = {}

Goes(p, step) ==
    /\ proc' = [proc EXCEPT ![p].at = step]
    /\ UNCHANGED meddled

Exit(p) ==
    /\ proc' = [proc EXCEPT ![p] = NoCommand]
    /\ meddled' = meddled \ {p}

(* The agent a token resolves to: a row, or none.                          *)
Resolves(t) == {a \in agents : a.token = t}

(* Commands under way that have read the identity file.                    *)
Loaded == {p \in Processes : proc[p].at \notin {"idle", "register", First(proc[p].kind)}}

Others(p) == {q \in Loaded \ {p} : In[q] = In[p]}

-----------------------------------------------------------------------------
(* taskline register: runRegister, and registerAgent on the server.        *)

StartRegister(p, n) ==
    /\ proc[p].at = "idle"
    /\ proc' = [proc EXCEPT ![p] = [NoCommand EXCEPT !.at = "register", !.name = n]]
    /\ UNCHANGED <<agents, unminted, file, meddled>>

(* A file that cannot be read ends the command before anything is asked.   *)
Load(p) ==
    LET f == file[In[p]] IN
    /\ proc[p].at = "register"
    /\ IF f = Torn THEN Exit(p)
       ELSE /\ proc' = [proc EXCEPT ![p].at = "ask", ![p].token = IF f = Absent THEN None ELSE f.token]
            /\ UNCHANGED meddled
    /\ UNCHANGED <<agents, unminted, file>>

AskNothing(p) ==
    /\ proc[p].at = "ask"
    /\ Goes(p, "upsert")
    /\ UNCHANGED <<agents, unminted, file>>

(* A caller that presents a token is refused: with 409 if it resolves,      *)
(* with 401 if it does not.                                                *)
Ask(p) ==
    /\ proc[p].at = "ask"
    /\ IF proc[p].token = None THEN Goes(p, "upsert") ELSE Exit(p)
    /\ UNCHANGED <<agents, unminted, file>>

InsertOnly(p) ==
    \E t \in unminted :
        LET n == proc[p].name IN
        /\ proc[p].at = "upsert"
        /\ unminted' = unminted \ {t}
        /\ agents' = IF \E a \in agents : a.name = n THEN agents
                     ELSE agents \cup {[name |-> n, token |-> t]}
        /\ proc' = [proc EXCEPT ![p].at = "reread", ![p].token = t]
        /\ meddled' = meddled
        /\ UNCHANGED file

InsertAlways(p) ==
    \E t \in unminted :
        LET n == proc[p].name IN
        /\ proc[p].at = "upsert"
        /\ unminted' = unminted \ {t}
        /\ agents' = agents \cup {[name |-> n, token |-> t]}
        /\ proc' = [proc EXCEPT ![p].at = "reread", ![p].token = t]
        /\ meddled' = meddled
        /\ UNCHANGED file

(* A new row, or a new token hash in the row of that name.                 *)
Upsert(p) ==
    \E t \in unminted :
        LET n == proc[p].name IN
        /\ proc[p].at = "upsert"
        /\ unminted' = unminted \ {t}
        /\ agents' = {a \in agents : a.name # n} \cup {[name |-> n, token |-> t]}
        /\ proc' = [proc EXCEPT ![p].at = "reread", ![p].token = t]
        /\ meddled' = meddled \cup {q \in Loaded \ {p} : proc[q].name = n}
        /\ UNCHANGED file

(* GetAgentByName; an error here comes after the token has been rotated.   *)
Reread(p) ==
    /\ proc[p].at = "reread"
    /\ Goes(p, "answer") \/ Exit(p)
    /\ UNCHANGED <<agents, unminted, file>>

(* The answer arrives, or the client has given up after thirty seconds.    *)
Receive(p) ==
    /\ proc[p].at = "answer"
    /\ Goes(p, "truncate") \/ Exit(p)
    /\ UNCHANGED <<agents, unminted, file>>

(* os.WriteFile opens the file and truncates it.                           *)
Truncate(p) ==
    /\ proc[p].at = "truncate"
    /\ file' = [file EXCEPT ![In[p]] = Torn]
    /\ proc' = [proc EXCEPT ![p].at = "fill"]
    /\ meddled' = meddled \cup Others(p)
    /\ UNCHANGED <<agents, unminted>>

(* Two processes that have the file open write over each other; when the   *)
(* later identity is shorter the rest of the earlier one stays behind it.  *)
Fill(p) ==
    LET k == In[p]
        id == [name |-> proc[p].name, token |-> proc[p].token] IN
    /\ proc[p].at = "fill"
    /\ \/ file' = [file EXCEPT ![k] = id]
       \/ file[k] # Torn /\ file' = [file EXCEPT ![k] = Torn]
    /\ proc' = [proc EXCEPT ![p].at = "report"]
    /\ meddled' = meddled \cup Others(p)
    /\ UNCHANGED <<agents, unminted>>

FillRemoved(p) ==
    /\ proc[p].at = "unlinked"
    /\ Goes(p, "report")
    /\ UNCHANGED <<agents, unminted, file>>

Report(p) ==
    /\ proc[p].at = "report"
    /\ Exit(p)
    /\ UNCHANGED <<agents, unminted, file>>

(* The user removes an identity; a process that has the file open writes   *)
(* into nothing.                                                           *)
RemoveFile(k) ==
    /\ file[k] # Absent
    /\ file' = [file EXCEPT ![k] = Absent]
    /\ proc' = [p \in Processes |->
                  IF In[p] = k /\ proc[p].at = "fill" THEN [proc[p] EXCEPT !.at = "unlinked"] ELSE proc[p]]
    /\ meddled' = meddled \cup {p \in Loaded : In[p] = k}
    /\ UNCHANGED <<agents, unminted>>

(* A process is killed; a file it had truncated stays torn.                *)
Kill(p) ==
    /\ proc[p].at # "idle"
    /\ Exit(p)
    /\ UNCHANGED <<agents, unminted, file>>

-----------------------------------------------------------------------------
(* Every other command: newClient and requireIdentity, in the order of the  *)
(* command, and the handler, with optionalAgent, requireAgent or neither.   *)

StartCommand(p, kind) ==
    /\ proc[p].at = "idle"
    /\ kind \in Runs[p]
    /\ proc' = [proc EXCEPT ![p] = [NoCommand EXCEPT !.at = First(kind), !.kind = kind]]
    /\ UNCHANGED <<agents, unminted, file, meddled>>

(* The client takes over the identity in the file, if there is one.        *)
TakesIdentity(p, f, next) ==
    /\ proc' = IF f \in {Absent, Torn} THEN [proc EXCEPT ![p].at = next]
               ELSE [proc EXCEPT ![p].at = next, ![p].name = f.name, ![p].token = f.token]
    /\ UNCHANGED meddled

(* newClient takes a file it cannot read for no identity at all.           *)
NewClient(p) ==
    /\ proc[p].at = "client"
    /\ proc[p].kind # "status"
    /\ TakesIdentity(p, file[In[p]], IF proc[p].kind = "next" THEN "require" ELSE "call")
    /\ UNCHANGED <<agents, unminted, file>>

(* taskline status does not.  What it checks of the answer is the name it   *)
(* loaded against the agent it was served as.                              *)
LoadStatus(p) ==
    /\ proc[p].at = "client"
    /\ proc[p].kind = "status"
    /\ IF file[In[p]] = Torn THEN Exit(p) ELSE TakesIdentity(p, file[In[p]], "call")
    /\ UNCHANGED <<agents, unminted, file>>

(* requireIdentity reads the file for itself.  Only list --mine uses the    *)
(* name it finds; what is presented is the token newClient reads.          *)
RequireIdentity(p) ==
    LET f == file[In[p]] IN
    /\ proc[p].at = "require"
    /\ IF f \in {Absent, Torn} THEN Exit(p)
       ELSE /\ proc' = [proc EXCEPT ![p].at = IF proc[p].kind = "next" THEN "call" ELSE "client",
                                    ![p].found = f.name]
            /\ UNCHANGED meddled
    /\ UNCHANGED <<agents, unminted, file>>

CallAsAnyone(p, as) ==
    /\ proc[p].at = "call"
    /\ as = IF Resolves(proc[p].token) = {} THEN None ELSE (CHOOSE a \in Resolves(proc[p].token) : TRUE).name
    /\ Exit(p)
    /\ UNCHANGED <<agents, unminted, file>>

(* The request is served for the agent of its token, for the anonymous      *)
(* caller if it has none and the handler does not insist on one, or by a    *)
(* handler that looks at no token: for anybody, or, by listTasks with an    *)
(* owner, for the name in the query.                                       *)
Call(p, as) ==
    /\ proc[p].at = "call"
    /\ \/ proc[p].kind \in LookedUp /\ \E a \in Resolves(proc[p].token) : as = a.name
       \/ proc[p].kind \in LookedUp \ Insisted /\ proc[p].token = None /\ as = None
       \/ proc[p].kind = "read" /\ as = None
       \/ proc[p].kind = "mine" /\ as = proc[p].found
    /\ Exit(p)
    /\ UNCHANGED <<agents, unminted, file>>

(* 401: a token that is looked up and does not resolve, or none where the   *)
(* handler insists on one.                                                 *)
Unauthorized(p) ==
    /\ proc[p].at = "call"
    /\ proc[p].kind \in LookedUp
    /\ Resolves(proc[p].token) = {}
    /\ proc[p].token # None \/ proc[p].kind \in Insisted
    /\ Exit(p)
    /\ UNCHANGED <<agents, unminted, file>>

Next ==
    \/ \E p \in Processes :
          \/ \E n \in Names : StartRegister(p, n)
          \/ Load(p) \/ Ask(p) \/ Upsert(p) \/ Reread(p) \/ Receive(p)
          \/ Truncate(p) \/ Fill(p) \/ FillRemoved(p) \/ Report(p) \/ Kill(p)
          \/ \E kind \in Kinds : StartCommand(p, kind)
          \/ NewClient(p) \/ LoadStatus(p) \/ RequireIdentity(p) \/ Unauthorized(p)
          \/ \E as \in Names \cup {None} : Call(p, as)
    \/ \E k \in Checkouts : RemoveFile(k)

Spec == Init /\ [][Next]_vars

-----------------------------------------------------------------------------
(* Properties.                                                             *)

Works(k) == file[k] \in agents

(* Where the token is looked up, a command is served as the agent that its  *)
(* checkout's file named with that token, or anonymously if it presents     *)
(* none: a token never comes to stand for another name, and one that was    *)
(* rotated away does not pass for none.  A command that requires an         *)
(* identity, task update among them, whose handler would serve anybody, and *)
(* list --mine, whose handler believes the name it is given, is served as   *)
(* the agent it found, unless somebody has since changed its file, or       *)
(* rotated the token it loaded.                                            *)
ServedAsFiled ==
    [][\A p \in Processes, as \in Names \cup {None} :
          Call(p, as) =>
              /\ proc[p].kind \in LookedUp =>
                     IF as = None THEN proc[p].token = None ELSE as = proc[p].name
              /\ proc[p].kind \in Requiring /\ p \notin meddled =>
                     as = proc[p].found /\ as = proc[p].name]_vars

(* No two checkouts hold working identities of one agent: a claim under a  *)
(* name is kept by one checkout.                                           *)
OneCheckoutPerAgent ==
    \A k, l \in Checkouts : k # l /\ Works(k) /\ Works(l) => file[k].name # file[l].name

NameOf(k) == IF Works(k) THEN file[k].name ELSE None

NamesHeld == [k \in Checkouts |-> NameOf(k)]

Holders == INSTANCE AgentNames WITH name <- NamesHeld

(* Files, rows and processes together do no more than hand out names: a     *)
(* name never stands for two checkouts, not even while it passes from one   *)
(* to the other, and no step takes the names of two checkouts.             *)
ImplementsNames == Holders!Spec

(* A register that reports success has left a working identity of that     *)
(* name in its checkout, unless another process of the checkout, the user   *)
(* or another registration of the name interfered after it read the file.  *)
ReportedWorks ==
    \A p \in Processes :
        proc[p].at = "report" /\ p \notin meddled =>
            Works(In[p]) /\ file[In[p]].name = proc[p].name

(* A working identity ends with its file removed, or through a registration *)
(* that found no identity file in its own checkout: running register where *)
(* an identity works never breaks it.                                      *)
WorkingIdentityKept ==
    [][\A k \in Checkouts :
          Works(k) /\ ~Works(k)' =>
              \/ RemoveFile(k)
              \/ \E p \in Processes :
                    \/ In[p] # k /\ Upsert(p) /\ proc[p].name = file[k].name
                    \/ In[p] = k /\ p \in meddled /\ (Upsert(p) \/ Truncate(p) \/ Fill(p))]_vars
=============================================================================
