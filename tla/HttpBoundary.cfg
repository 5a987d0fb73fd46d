SPECIFICATION BoundarySpec
CONSTANTS
    None = None
    p1 = p1
    p2 = p2
    Processes <- OneOfEach
    FailMode <- BothModes
    Requests = {q1, q2, q3}
    Keys = {k1}
    Limits = {1, 2}
    Window = 2
    Retention = 2
    CleanupInterval = 2
    MaxDelay = 2
    MaxTime = 4
    Shapes <- FourShapes
    Production = TRUE
    RequireHttps = TRUE
    CookieAuth = TRUE
    CorsCredentials = TRUE
SYMMETRY MCSymmetry
CHECK_DEADLOCK FALSE
INVARIANT QuotaHolds
INVARIANT RefusedOnlyWhenFull
INVARIANT HandledWhenAdmitted
INVARIANT AnswersAreHonest
