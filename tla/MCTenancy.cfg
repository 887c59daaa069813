\* Atomic creation, conserved connections and liveness.
CONSTANTS
    Nil = Nil
    c1 = c1
    c2 = c2
    c3 = c3
    acme = acme
    zeta = zeta
    CreateRequests = {c1, c2, c3}
    Slugs = {acme, zeta}
    PoolSize = 2
SPECIFICATION TenancySpec
INVARIANTS
    TenancyTypeOK
    AnswersAreTrue
    PoolConserved
    NobodyIsStuck
PROPERTIES
    ImplementsRegistry
    CreateAnswered
