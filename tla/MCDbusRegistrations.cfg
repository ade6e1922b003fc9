SPECIFICATION FairSpec
CONSTANTS
    Threads = {t1, t2}
    Clients = {c1}
    Subs = {s1}
    Paths = {p1, p2}
    c1 = c1
    t1 = t1
    OwnerOf <- OneOwner
    RunsOn <- OneDispatcher
    Stubborn = {p1}
INVARIANT TypeOK
INVARIANT UnregisteredIsSilent
INVARIANT UnsubscribedIsSilent
INVARIANT TablesAgree
PROPERTY OperationsReturn
CHECK_DEADLOCK FALSE
