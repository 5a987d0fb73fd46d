SPECIFICATION FairSpec
CONSTANTS
    x1 = x1
    x2 = x2
    s1 = s1
    t1 = t1
    t2 = t2
    c1 = c1
    Requests <- TwoRequests
    Scripts <- OneScript
    Tenants <- TwoTenants
    Connections <- OneConnection
    MaxThreads = 1
    None = None
CHECK_DEADLOCK FALSE
INVARIANT ContextIsExact
PROPERTY RowsStayPut
PROPERTY EveryRequestEnds
