SPECIFICATION Spec
CONSTANTS
    None = None
    old = old
    new = new
    Keys = {old, new}
    Current = {old}
    Requests = {r1, r2}
    TTL = 2
    Delay = 1
    MaxTime = 4
SYMMETRY Sym
INVARIANT RetiredKeysExpire
INVARIANT PublishedKeysAreFound
