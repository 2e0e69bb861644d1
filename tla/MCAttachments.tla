--------------------------- MODULE MCAttachments ---------------------------
(* A small instance of Attachments: one document and one image of a task.  *)
EXTENDS Attachments, TLC

CONSTANTS c1, c2, d1, i1, x1, x2, x3, t1, t2

MCCallers == {c1, c2}
MCDocuments == {d1}
MCImages == {i1}
MCContents == {x1, x2, x3}
MCTitles == {t1, t2}

(* Callers, contents and titles are treated alike; the run checks no       *)
(* liveness.                                                               *)
Symmetry == Permutations(MCCallers) \cup Permutations(MCContents) \cup Permutations(MCTitles)
=============================================================================
