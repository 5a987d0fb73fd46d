SPECIFICATION Spec
CONSTANTS
    contractor = contractor
    supervisor = supervisor
    admin = admin
    deputy = deputy
    None = None
    Actors <- MCActors
    Permissions <- MCPermissions
    Cables = {c1, c2}
    WorkOrders = {w1}
    Tests = {t1, t2}
    Requests = {r1}
SYMMETRY CablesSymmetry
CHECK_DEADLOCK FALSE
INVARIANT TestColumnsAgree
INVARIANT AuditIsAHistory
PROPERTY FollowsLifecycle
PROPERTY VersionCountsChanges
