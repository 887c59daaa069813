-------------------------- MODULE MCSubscriptions --------------------------
(* Two plans, one of them seeded, that come and go while the subscription  *)
(* requests of two tenants run.                                            *)
EXTENDS Subscriptions, TLC

CONSTANTS free, pro, s1, s2, s3, t1, t2

MCSeedLimit == free :> 1

OneTenant == {t1}
TwoTenants == {t1, t2}
TwoRequests == {s1, s2}
ThreeRequests == {s1, s2, s3}

Symmetry == Permutations(ThreeRequests) \cup Permutations(TwoTenants)

=============================================================================
