\* Plan, subscription and member requests at once.
CONSTANTS
    Nil = Nil
    free = free
    p1 = p1
    p2 = p2
    nameA = nameA
    s1 = s1
    s2 = s2
    a1 = a1
    t1 = t1
    u0 = u0
    u1 = u1
    PlanRequests = {p1, p2}
    SeedPlans = {free}
    PlanNames = {nameA}
    Limits = {2}
    SeedRow <- MCSeedRow
    Tenants = {t1}
    SubRequests = {s1}
    Slots = {a1}
    Users = {u0, u1}
    Owner <- MCOwner
SPECIFICATION PlatformSpec
INVARIANTS
    DeletedPlanIsOutOfUse
PROPERTIES
    ServicesCompose
    PlatformAnswered
