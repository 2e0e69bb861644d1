--------------------------- MODULE AttachmentStore ---------------------------
(* What the attachments of a task promise, with rows, files, temporary files *)
(* and requests left out: each attachment is a register.  It appears once,   *)
(* under a fresh id and with a whole content; an update replaces its content *)
(* in one step by one that was never shown before; and once it is gone it    *)
(* does not come back.                                                       *)
CONSTANTS
    Ids,        \* attachments that can ever exist
    Contents,   \* contents that can ever be sent
    None        \* nothing is shown

VARIABLES
    shown,     \* shown[d]: what a reader of d gets, or None
    fresh,     \* ids under which an attachment may still appear
    pending    \* contents that may still be shown

vars == <<shown, fresh, pending>>

Init ==
    /\ shown = [d \in Ids |-> None]
    /\ fresh = Ids
    /\ pending = Contents

(* A request that fails takes its id and its content with it, in any step. *)
Publish(d, x) ==
    /\ d \in fresh /\ x \in pending
    /\ shown' = [shown EXCEPT ![d] = x]
    /\ fresh' \subseteq fresh \ {d}
    /\ pending' \subseteq pending \ {x}

Replace(d, x) ==
    /\ shown[d] # None /\ x \in pending
    /\ shown' = [shown EXCEPT ![d] = x]
    /\ fresh' \subseteq fresh
    /\ pending' \subseteq pending \ {x}

(* Attachments go one at a time, or with their task.                       *)
Withdraw(gone) ==
    /\ shown' = [d \in Ids |-> IF d \in gone THEN None ELSE shown[d]]
    /\ fresh' \subseteq fresh
    /\ pending' \subseteq pending

Next ==
    \/ \E gone \in SUBSET Ids : Withdraw(gone)
    \/ \E d \in Ids, x \in Contents : Publish(d, x) \/ Replace(d, x)

Spec == Init /\ [][Next]_vars
=============================================================================
