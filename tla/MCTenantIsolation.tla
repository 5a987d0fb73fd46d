-------------------------- MODULE MCTenantIsolation --------------------------
(* TenantIsolation with two requests and a script for two tenants, on one  *)
(* connection and one thread: enough for a circle of waits.                *)
EXTENDS TenantIsolation, TLC

CONSTANTS x1, x2, s1, t1, t2, c1

TwoRequests == {x1, x2}
OneScript == {s1}
TwoTenants == {t1, t2}
OneConnection == {c1}
=============================================================================
