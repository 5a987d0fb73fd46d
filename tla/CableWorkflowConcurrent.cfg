SPECIFICATION Spec
CONSTANTS
    contractor = contractor
    supervisor = supervisor
    admin = admin
    deputy = deputy
    None = None
    Actors <- Supervised
    Permissions <- TwoSupervisors
    Cables = {c1}
    WorkOrders = {w1}
    Tests = {t1, t2}
    Requests = {r1, r2}
SYMMETRY TeamSymmetry
CHECK_DEADLOCK FALSE
INVARIANT SeparationOfDuties
INVARIANT InServiceHasApprovedPass
INVARIANT AuditNamesActors
INVARIANT OrderStatusHasEvidence
PROPERTY ImplementsPromise
