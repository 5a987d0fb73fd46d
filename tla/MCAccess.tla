----------------------------- MODULE MCAccess ------------------------------
(* A small instance of Access: an owner, a contractor with grants, and a   *)
(* member of another tenant.                                               *)
EXTENDS Access, TLC

CONSTANTS ann, tina, bob, campus, other, s1, s2, room, floor

Create == "access_grant:create"
Revoke == "access_grant:revoke"

MCMemberships ==
    campus :> (ann :> {"*"}) @@ other :> (bob :> {Revoke})

MCParent == room :> floor @@ floor :> None

MCScopes ==
    { [project |-> "j", location |-> room], [project |-> "j", location |-> None],
      [project |-> None, location |-> room] }

MCPermissions == {"*", Create, Revoke, "cable:install"}

Terms(subj, location, permissions, starts, expires) ==
    [subject |-> subj, project |-> "j", location |-> location,
     permissions |-> permissions, starts |-> starts, expires |-> expires]

MCPayloads ==
    { Terms(tina, floor, {Create}, None, 1),
      Terms(bob, None, {Revoke, "cable:install"}, 1, None),
      Terms(tina, room, {"cable:install"}, None, None) }

MCTokens ==
    { [subject |-> s1, email |-> tina, tenant |-> None],
      [subject |-> s1, email |-> bob, tenant |-> None],
      [subject |-> s2, email |-> tina, tenant |-> campus] }

Sym == Permutations(Requests) \cup Permutations(Grants)

=============================================================================
