\* Safety and liveness, two guards in flight.
CONSTANTS
    Nil = Nil
    t1 = t1
    g1 = g1
    g2 = g2
    Tenants = {t1}
    Slots = {g1, g2}
    Limits = {1, 2}
    Window = 2
    MaxCount = 3
    MaxLost = 2
SPECIFICATION RateSpec
INVARIANTS
    RateTypeOK
    WindowCap
    RenewalsAreResent
    TendedUnlessMishap
PROPERTIES
    WindowEnds
