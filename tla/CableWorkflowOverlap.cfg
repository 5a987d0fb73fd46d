SPECIFICATION Spec
CONSTANTS
    contractor = contractor
    supervisor = supervisor
    admin = admin
    deputy = deputy
    None = None
    Actors <- MCActors
    Permissions <- MCPermissions
    Cables = {c1}
    WorkOrders = {}
    Tests = {t1, t2}
    Requests = {r1, r2}
SYMMETRY MCSymmetry
CHECK_DEADLOCK FALSE
PROPERTY FollowsLifecycle
