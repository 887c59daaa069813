\* The documented meaning of 404.
CONSTANTS
    Nil = Nil
    free = free
    pro = pro
    s1 = s1
    s2 = s2
    s3 = s3
    t1 = t1
    t2 = t2
    PlanIds = {free, pro}
    Limits = {1}
    SeedLimit <- MCSeedLimit
    SubRequests <- TwoRequests
    Tenants <- OneTenant
SPECIFICATION SubsSafety
PROPERTIES
    NotFoundMeansNone
