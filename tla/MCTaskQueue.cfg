SPECIFICATION FairSpec
CONSTANTS
    t1 = t1
    t2 = t2
    a = a
    b = b
    Nobody = Nobody
    None = None
    Tasks <- MCTasks
    Agents <- MCAgents
    Steady <- MCSteady
    Wants <- MCWants
    Priorities = {0, 1}
    Names <- MCNames
    Key <- MCKey
    Lower <- MCLower
    Malformed <- MCMalformed
    MaxLabels = 1
    Creations <- MCCreations
    LabelOps <- MCLabelOps
    MaxClock = 1
    MaxMoves = 1
INVARIANTS
    TypeOK
    OneTaskAtATime
    ListingsAgree
PROPERTIES
    Drained
