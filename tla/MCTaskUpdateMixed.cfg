SPECIFICATION Spec
CONSTANTS
    v1 = v1
    v2 = v2
    l1 = l1
    l2 = l2
    p1 = p1
    Agents = {a}
    Nobody = Nobody
    OtherStates = {"start"}
    FirstState = "start"
    Titles = {v1, v2}
    FirstTitle = v1
    Labels = {l1, l2}
    Pieces = {p1}
    PullRequests = {pr1}
    Unset = Unset
    Asks <- Mixed
    MaxAttempts = 2
    MaxPieces = 1
INVARIANT TypeOK
PROPERTIES ConditionalEntryVerified IncrementalExact ClaimRespected
