\* Safety and refinement, three requests of two tenants.
CONSTANTS
    Nil = Nil
    free = free
    pro = pro
    s1 = s1
    s2 = s2
    s3 = s3
    t1 = t1
    t2 = t2
    PlanIds = {free, pro}
    Limits = {1}
    SeedLimit <- MCSeedLimit
    SubRequests <- ThreeRequests
    Tenants <- TwoTenants
SPECIFICATION SubsSafety
SYMMETRY Symmetry
INVARIANTS
    SubTypeOK
    AtMostOneActive
    NoSilentLapse
    CanceledByItsOwn
    CancelTakesEffect
PROPERTIES
    ImplementsEntitlement
