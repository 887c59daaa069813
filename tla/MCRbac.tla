------------------------------- MODULE MCRbac -------------------------------
(* Two tenants with a member and the default role each; the first has made *)
(* a second role.  The other default roles are left out, since no request  *)
(* names them.  One permission has been deleted.                           *)
EXTENDS AuditLog, TLC

CONSTANTS q1, q2, q3, t1, t2, u1, u2, m1, m2, k1, p1, member, clerk, read, write

MCSeedRoleRow == m1 :> [state |-> "live", tenant |-> t1, name |-> member]
              @@ m2 :> [state |-> "live", tenant |-> t2, name |-> member]
              @@ k1 :> [state |-> "live", tenant |-> t1, name |-> clerk]
MCSeedPermRow == p1 :> [state |-> "deleted", name |-> read]
MCSeedGrants == {}
MCSeedRoleOf == t1 :> (u1 :> m1 @@ u2 :> Nil) @@ t2 :> (u1 :> Nil @@ u2 :> m2)

ThreeRequests == {q1, q2, q3}

Symmetry == Permutations(ThreeRequests)

=============================================================================
