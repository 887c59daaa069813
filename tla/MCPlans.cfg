\* Safety and refinement, three requests.
CONSTANTS
    Nil = Nil
    free = free
    p1 = p1
    p2 = p2
    p3 = p3
    nameA = nameA
    nameB = nameB
    PlanRequests <- ThreeRequests
    SeedPlans <- MCSeedPlans
    PlanNames <- MCPlanNames
    Limits = {1}
    SeedRow <- MCSeedRow
SPECIFICATION PlansSafety
INVARIANTS
    PlanTypeOK
    UniquePlanNames
    DeletedMeansGone
PROPERTIES
    ImplementsCatalogue
