--------------------------- MODULE MCProvisioning ---------------------------
(* Provisioning with three jobs, one other tenant beside the demo's, whose *)
(* owner has an address of the demo, and a member who creates two things.  *)
EXTENDS Provisioning, TLC

CONSTANTS j1, j2, j3, s1

Three == {j1, j2, j3}
Owners == {}
Others == {s1}
Rivals == {"room", "cable"}
=============================================================================
