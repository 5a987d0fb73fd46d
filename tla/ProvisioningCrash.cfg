SPECIFICATION Spec
CONSTANTS
    j1 = j1
    j2 = j2
    j3 = j3
    s1 = s1
    Jobs <- Three
    OtherEmails <- Owners
    OtherSlugs <- Others
    Created <- Rivals
    None = None
CHECK_DEADLOCK FALSE
INVARIANT SeedIsIdempotent
