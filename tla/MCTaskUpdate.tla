---------------------------- MODULE MCTaskUpdate ----------------------------
(* Small instances of TaskUpdate for TLC: one agent against the anonymous   *)
(* caller, one pull request, and requests that get in each other's way.     *)
EXTENDS TaskUpdate

CONSTANTS v1, v2, l1, l2, p1

Plain == [force |-> FALSE, ifState |-> Unset, state |-> Unset, title |-> Unset,
          add |-> {}, remove |-> {}, append |-> Unset]

Reopen == [Plain EXCEPT !.state = "start"]
Finish == [Plain EXCEPT !.state = "done"]
Retitle == [Plain EXCEPT !.title = v2]
AddLabel == [Plain EXCEPT !.add = {l1}]
AppendPiece == [Plain EXCEPT !.append = p1]

(* Conditional moves and an append, one of them forced and with a change of *)
(* labels, beside a request that reopens the task and labels it.           *)
Mixed == {[Reopen EXCEPT !.add = {l1}],
          [Finish EXCEPT !.ifState = "start"],
          [AppendPiece EXCEPT !.ifState = "done"],
          [Plain EXCEPT !.ifState = "done", !.state = "review", !.force = TRUE,
                        !.add = {l2}, !.remove = {l1}]}

(* Nobody uses if_state.                                                   *)
Moves == {Reopen, Finish, Retitle}

(* Nobody replaces anything.                                               *)
Increments == {AddLabel, AppendPiece}
=============================================================================
