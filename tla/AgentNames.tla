----------------------------- MODULE AgentNames -----------------------------
(* What registration promises, with files, tokens and processes left out: at *)
(* any moment an agent's name stands for one checkout.  A checkout comes to  *)
(* a name that no other has, or loses its own, one checkout in a step.      *)
CONSTANTS
    Checkouts,   \* working directories
    Names,       \* agent names
    None         \* no name

VARIABLE name    \* name[k]: the agent that checkout k acts as

Init == name = [k \in Checkouts |-> None]

Take(k, n) ==
    /\ \A l \in Checkouts \ {k} : name[l] # n
    /\ name' = [name EXCEPT ![k] = n]

Lose(k) == name' = [name EXCEPT ![k] = None]

Next == \E k \in Checkouts : Lose(k) \/ \E n \in Names : Take(k, n)

Spec == Init /\ [][Next]_name
=============================================================================
