SPECIFICATION Spec
CONSTANTS
    t1 = t1
    Tasks = {t1}
    Agents = {a, b}
    Nobody = Nobody
    ActiveStates = {"start"}
    Deps <- MCDeps
    Priority <- MCPriority
    CreatedAt <- MCCreatedAt
    Filters <- MCFilters
    Leases = {2}
    DefaultLease = 1
    MaxTime = 3
    MaxInFlight = 2
SYMMETRY AgentSymmetry
INVARIANTS TypeOK DoneIffCompleted LeaseHonoured ClaimIsolates
PROPERTY TakeoverOnlyAfterExpiry
