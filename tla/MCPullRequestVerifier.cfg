SPECIFICATION FairSpec
CONSTANTS
    c1 = c1
    c2 = c2
    p1 = p1
    p2 = p2
    issue = issue
    k1 = k1
    None = None
    Callers <- MCCallers
    PRs <- MCPRs
    NotPR = issue
    Links <- MCLinks
    Tokens <- MCTokens
    Environment = None
    InitialPRs <- MCInitialPRs
    PageSize = 1
    MaxThreads = 2
    MaxChanges = 2
INVARIANTS
    TypeOK
PROPERTIES
    GateAnswered
    AcceptanceExplained
    RefusalExplained

