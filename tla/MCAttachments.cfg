SPECIFICATION Spec
CONSTANTS
    c1 = c1
    c2 = c2
    d1 = d1
    i1 = i1
    x1 = x1
    x2 = x2
    x3 = x3
    t1 = t1
    t2 = t2
    Callers <- MCCallers
    Documents <- MCDocuments
    Images <- MCImages
    Contents <- MCContents
    Titles <- MCTitles
    Missing = Missing
    Partial = Partial
    None = None
SYMMETRY Symmetry
INVARIANTS
    TypeOK
    ListedIsWhole
    ShownIsCurrent
    OrphansExplained
    TempsCollected
PROPERTIES
    RetitlingKept
    ImplementsStore
