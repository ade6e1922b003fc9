SPECIFICATION FairSpec
CONSTANTS
    Threads = {t1, t2}
    Clients = {c1}
    Subs = {s1}
    Paths = {p1}
    c1 = c1
    t1 = t1
    OwnerOf <- OneOwner
    RunsOn <- OneDispatcher
    Stubborn = {}
CHECK_DEADLOCK FALSE
PROPERTY StopReturns
