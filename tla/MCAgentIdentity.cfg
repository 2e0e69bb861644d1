SPECIFICATION Spec
CONSTANTS
    p1 = p1
    p2 = p2
    q1 = q1
    k1 = k1
    k2 = k2
    a = a
    b = b
    t1 = t1
    t2 = t2
    t3 = t3
    Processes <- MCProcesses
    Checkouts <- MCCheckouts
    In <- MCIn
    Runs <- MCRuns
    Names <- MCNames
    Tokens <- MCTokens
    Absent = Absent
    Torn = Torn
    None = None
SYMMETRY Symmetry
INVARIANTS
    TypeOK
    ReportedWorks
PROPERTIES
    ImplementsNames
    ServedAsFiled
    WorkingIdentityKept
