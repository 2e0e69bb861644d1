----------------------- MODULE MCPullRequestVerifier -----------------------
(* A small instance of PullRequestVerifier: two gates, one of which has two  *)
(* pull requests to choose from, and pages of one thread.                  *)
EXTENDS PullRequestVerifier, TLC

CONSTANTS c1, c2, p1, p2, issue, k1

MCCallers == {c1, c2}
MCPRs == {p1, p2}
MCTokens == {k1}
MCLinks == c1 :> {{p1, p2}} @@ c2 :> {{issue}, {p2, issue}}

PR(visible, state, checks, threads) ==
    [visible |-> visible, state |-> state, checks |-> checks, threads |-> threads]

(* One merged with a thread still open beside one to be merged; one out of  *)
(* sight beside one that is ready for done.                                *)
MCInitialPRs ==
    {p1 :> PR(TRUE, "MERGED", "SUCCESS", <<TRUE, FALSE>>) @@ p2 :> PR(TRUE, "OPEN", "FAILURE", <<>>),
     p1 :> PR(FALSE, "OPEN", "", <<>>) @@ p2 :> PR(TRUE, "MERGED", "", <<FALSE>>)}
=============================================================================
