SPECIFICATION FairSpec
CONSTANTS
    t1 = t1
    t2 = t2
    t3 = t3
    Tasks = {t1, t2, t3}
    Clients = {c1, c2}
    Asked <- EdgesIntoCycle
PROPERTY AddAnswered
