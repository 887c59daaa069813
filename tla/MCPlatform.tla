----------------------------- MODULE MCPlatform -----------------------------
(* One seeded plan, whose name another plan may want once it is deleted, a *)
(* tenant that subscribes to it, and members to be added meanwhile.        *)
EXTENDS Platform, TLC

CONSTANTS free, p1, p2, nameA, s1, s2, a1, t1, u0, u1

MCSeedRow == free :> [state |-> "live", name |-> nameA, limit |-> 2]
MCOwner == t1 :> u0

=============================================================================
