\* Two additions in flight, a plan of one or two seats.
CONSTANTS
    Nil = Nil
    free = free
    s1 = s1
    a1 = a1
    a2 = a2
    t1 = t1
    u0 = u0
    u1 = u1
    u2 = u2
    u3 = u3
    PlanIds = {free}
    Limits = {1, 2}
    SeedLimit <- MCSeedLimit
    SubRequests = {s1}
    Tenants = {t1}
    Owner <- MCOwner
    Users = {u0, u1, u2, u3}
    Slots = {a1, a2}
SPECIFICATION SeatsSafety
INVARIANTS
    SeatTypeOK
    SeatOvershootBounded
