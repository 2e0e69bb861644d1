---------------------------- MODULE MCTaskQueue ----------------------------
(* A small instance of TaskQueue: two tasks, an agent that stays and asks    *)
(* for one label, and one that may leave.                                  *)
EXTENDS TaskQueue, TLC

CONSTANTS t1, t2, a, b

MCTasks == {t1, t2}
MCAgents == {a, b}
MCSteady == {a}
MCWants == a :> {"UI"} @@ b :> {}

(* "ETE" and "ete" stand for two spellings with a letter outside ASCII.     *)
MCNames == {"ui", "UI", "ete", "ETE", ""}
MCLower == [n \in MCNames |-> IF n = "UI" THEN "ui" ELSE n]
MCKey == [n \in MCNames |-> IF n = "ETE" THEN "ete" ELSE MCLower[n]]
MCMalformed == {""}

New(autoStart, priority, labels) == [autoStart |-> autoStart, priority |-> priority, labels |-> labels]

(* The last of them is refused: its only label is blank.                   *)
MCCreations == {New(TRUE, 0, <<"ui">>), New(TRUE, 1, <<>>), New(FALSE, 1, <<"UI">>), New(TRUE, 0, <<"">>)}

Op(add, remove) == [add |-> add, remove |-> remove]

(* A label that is there in another spelling, one that takes the place of    *)
(* another, one too many, and one that is none.                            *)
MCLabelOps == {Op(<<"UI">>, <<>>), Op(<<"ete">>, <<"UI">>), Op(<<"ETE">>, <<>>), Op(<<"">>, <<"ui">>)}
=============================================================================
