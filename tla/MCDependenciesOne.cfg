SPECIFICATION Spec
CONSTANTS
    t1 = t1
    t2 = t2
    t3 = t3
    Tasks = {t1, t2, t3}
    Clients = {c1}
    Asked <- AnyEdge
INVARIANTS TypeOK Acyclic EdgesJoinTasks RefusalJustified
PROPERTY ImplementsGraph
