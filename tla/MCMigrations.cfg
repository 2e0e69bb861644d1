SPECIFICATION Spec
CONSTANTS
    s1 = s1
    s2 = s2
    None = None
    Servers <- MCServers
    Releases = {2, 6, 13}
    Children = {"deps", "links"}
    MaxStarts = 3
\* every server may be off when the starts are used up
CHECK_DEADLOCK FALSE
SYMMETRY Symmetry
INVARIANTS
    TypeOK
    ExactlyOnce
    NeverStuck
    ReadyToServe
PROPERTIES
    RowsKept
