SPECIFICATION MCSpec
CONSTANTS
    None = None
    p = p
    q = q
    channel = channel
    Racks = {k1}
    Templates = {t1, t2}
    Identifiers = {i1, i2}
    Requests = {r1, r2}
    MaxHeight = 3
    MaxUnits = 2
    Faces = {front, rear}
    Prefixes <- MCPrefixes
    Keys <- MCKeys
    Blueprints <- AllBlueprints
SYMMETRY MCSymmetry
CHECK_DEADLOCK FALSE
INVARIANT InsideRack
INVARIANT DevicesAreComplete
INVARIANT MappingsAreLanes
INVARIANT ElevationAddsUp
PROPERTY OverlapsOnlyUnseen
