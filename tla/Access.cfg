SPECIFICATION Spec
CONSTANTS
    None = None
    ann = ann
    tina = tina
    bob = bob
    campus = campus
    other = other
    s1 = s1
    s2 = s2
    room = room
    floor = floor
    Identities = {ann, tina, bob}
    Active = {ann, tina, bob}
    Subjects = {s1, s2}
    Tenants = {campus, other}
    Projects = {"j"}
    Locations = {room, floor}
    Parent <- MCParent
    Memberships <- MCMemberships
    Permissions <- MCPermissions
    Work = {"cable:install"}
    Payloads <- MCPayloads
    Scopes <- MCScopes
    Grants = {g1, g2}
    Tokens <- MCTokens
    AuthMode = "hybrid"
    DemoMode = TRUE
    EmailLinking = TRUE
    Requests = {r1, r2}
    MaxEvents = 3
    MaxTime = 1
SYMMETRY Sym
CHECK_DEADLOCK FALSE
INVARIANT ActsAreAuthorised
INVARIANT TrustIsRooted
INVARIANT LinksAreUnique
INVARIANT RevocationsAreLogged
PROPERTY LinksStay
