-------------------------- MODULE MCCableWorkflow --------------------------
(* Small instances of CableWorkflow: the users of the seed data with the   *)
(* permissions that seed.py gives them.                                    *)
EXTENDS CableWorkflow, TLC

CONSTANTS contractor, supervisor, admin, deputy

MCActors == {contractor, supervisor, admin}

MCPermissions ==
    contractor :> {"cable:install", "cable:test"}
        @@ supervisor :> {"cable:approve"}
        @@ admin :> {"*"}

(* Two supervisors, who approve the same records, and an administrator who *)
(* does the work in the field.                                             *)
Supervised == {admin, supervisor, deputy}
TwoSupervisors ==
    admin :> {"*"} @@ supervisor :> {"cable:approve"} @@ deputy :> {"cable:approve"}

MCSymmetry == Permutations(Requests) \cup Permutations(Tests)
CablesSymmetry == MCSymmetry \cup Permutations(Cables)
TeamSymmetry == MCSymmetry \cup Permutations({supervisor, deputy})

=============================================================================
