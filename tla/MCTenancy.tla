----------------------------- MODULE MCTenancy -----------------------------
(* Three creations that ask for two slugs, on a pool of two connections.   *)
EXTENDS Tenancy

CONSTANTS c1, c2, c3, acme, zeta

=============================================================================
