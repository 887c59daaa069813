\* Roles, permissions, memberships and the log, three requests.
CONSTANTS
    Nil = Nil
    q1 = q1
    q2 = q2
    q3 = q3
    t1 = t1
    t2 = t2
    u1 = u1
    u2 = u2
    m1 = m1
    m2 = m2
    k1 = k1
    p1 = p1
    member = member
    clerk = clerk
    read = read
    write = write
    RbacRequests <- ThreeRequests
    Tenants = {t1, t2}
    Users = {u1, u2}
    RoleNames = {member, clerk}
    PermNames = {read, write}
    DefaultRole = member
    SeedRoles = {m1, m2, k1}
    SeedPerms = {p1}
    SeedRoleRow <- MCSeedRoleRow
    SeedPermRow <- MCSeedPermRow
    SeedGrants <- MCSeedGrants
    SeedRoleOf <- MCSeedRoleOf
SPECIFICATION AuditSpec
SYMMETRY Symmetry
INVARIANTS
    DeletedRoleAdmitsNobody
    DeletedPermissionAdmitsNobody
    MembersHaveRolesOfTheirTenant
    GoneIsRefused
    AuditTypeOK
    LogIsTruthful
PROPERTIES
    OnlyAssignmentsChangeRoles
    TenantsAreIsolated
