SPECIFICATION ReadsSpec
CONSTANTS
    None = None
    p1 = p1
    f1 = f1
    r1 = r1
    f2 = f2
    r2 = r2
    g1 = g1
    c1 = c1
    c2 = c2
    s1 = s1
    lost = lost
    room = room
    mdf = mdf
    building = building
    Ports <- MCPorts
    PortMedia <- MCPortMedia
    Media <- MCMedia
    CopperMedia <- MCCopper
    FiberMedia <- MCFiber
    Cables <- MCCables
    Segments = {s1}
    Routes <- MCRoutes
    Wanted <- MCWanted
    Requests <- MCRequests
    q1 = q1
    q2 = q2
    Mappings <- Lanes
    BatchSize = 2
    MaxTraceNodes = 4
    InOrder <- ByIdentifier
    Locations <- MCLocations
    Parent <- MCParent
    PortLocation <- MCPortLocation
    Limit = 1
CHECK_DEADLOCK FALSE
INVARIANT PortsHoldOneCable
INVARIANT CablesAreWhole
INVARIANT TraceIsAWalk
INVARIANT TraceIsWhole
INVARIANT SchedulesAreHonest
INVARIANT FindingsWereTrue
PROPERTY CreatesAreAtomic
PROPERTY EveryRequestEnds
PROPERTY TraceEnds
