-------------------------------- MODULE Rbac --------------------------------
(***************************************************************************)
(* Roles and permissions: RolesService, PermissionsService and the role    *)
(* that TenantsService.addUser gives a new member, on the tables roles,    *)
(* permissions, role_permissions and user_tenants, and the guards that     *)
(* read them.  Roles and permissions are soft-deleted; their names are     *)
(* UNIQUE over all rows, those of roles within a tenant.  Memberships are  *)
(* never deleted.  The row that request r inserts has the id r.            *)
(***************************************************************************)
EXTENDS Requests

CONSTANTS RbacRequests, Tenants, Users, RoleNames, PermNames,
          DefaultRole,  \* the name "member" in addUser
          SeedRoles, SeedPerms, SeedRoleRow, SeedPermRow, SeedGrants, SeedRoleOf

RoleIds == SeedRoles \cup RbacRequests
PermIds == SeedPerms \cup RbacRequests
States == {"absent", "live", "deleted"}

RoleRow == [state : States, tenant : Tenants \cup {Nil}, name : RoleNames \cup {Nil}]
PermRow == [state : States, name : PermNames \cup {Nil}]

(* What earlier requests have left, the roles of createTenant among it.    *)
ASSUME RbacAssumption ==
    /\ Nil \notin RoleIds \cup PermIds \cup Tenants \cup Users \cup RoleNames \cup PermNames
    /\ (SeedRoles \cup SeedPerms) \cap RbacRequests = {}
    /\ DefaultRole \in RoleNames
    /\ SeedRoleRow \in [SeedRoles -> [state : States \ {"absent"}, tenant : Tenants,
                                      name : RoleNames]]
    /\ SeedPermRow \in [SeedPerms -> [state : States \ {"absent"}, name : PermNames]]
    /\ \A p, q \in SeedRoles : p # q => \/ SeedRoleRow[p].tenant # SeedRoleRow[q].tenant
                                        \/ SeedRoleRow[p].name # SeedRoleRow[q].name
    /\ \A p, q \in SeedPerms : p # q => SeedPermRow[p].name # SeedPermRow[q].name
    /\ SeedGrants \subseteq SeedRoles \X SeedPerms
    /\ SeedRoleOf \in [Tenants -> [Users -> SeedRoles \cup {Nil}]]
    /\ \A t \in Tenants, u \in Users :
          SeedRoleOf[t][u] # Nil => SeedRoleRow[SeedRoleOf[t][u]].tenant = t

VARIABLES role,    \* the roles table
          perm,    \* the permissions table
          grants,  \* the role_permissions table
          roleOf,  \* user_tenants: role_id of a member, Nil for no member
          rbacPc,  \* control state of each request
          rbacCall \* its user and tenant, its parameters and what it has found

tables == <<role, perm, grants, roleOf>>
rbacVars == <<tables, rbacPc, rbacCall>>

RbacOps == {"createRole", "assignRole", "deleteRole", "createPerm", "deletePerm",
            "addToRole", "removeFromRole", "addUser"}

RbacSteps == {"handler", "findRoleByName", "insertRole", "findRole", "updateRoleOf", "deleteRole",
              "findPermByName", "insertPerm", "findPerm", "deletePerm",
              "insertGrant", "deleteGrant",
              "findMember", "findDefaultRole", "insertMember"}

RbacCalls == [op : {"none"} \cup RbacOps, caller : Users \cup {Nil},
              tenant : Tenants \cup {Nil}, role : RoleIds \cup {Nil},
              perm : PermIds \cup {Nil}, user : Users \cup {Nil},
              name : RoleNames \cup PermNames \cup {Nil}, late : BOOLEAN]

NoCall == [op |-> "none", caller |-> Nil, tenant |-> Nil, role |-> Nil, perm |-> Nil,
           user |-> Nil, name |-> Nil, late |-> FALSE]

(* A row that exists has its columns, and a membership is given a role     *)
(* that was found.                                                         *)
RbacTypeOK ==
    /\ role \in [RoleIds -> RoleRow]
    /\ perm \in [PermIds -> PermRow]
    /\ grants \subseteq RoleIds \X PermIds
    /\ roleOf \in [Tenants -> [Users -> RoleIds \cup {Nil}]]
    /\ rbacPc \in [RbacRequests -> {"idle"} \cup RbacSteps \cup Answers]
    /\ rbacCall \in [RbacRequests -> RbacCalls]
    /\ \A p \in RoleIds : role[p].state # "absent" => role[p].tenant # Nil /\ role[p].name # Nil
    /\ \A r \in RbacRequests : rbacPc[r] = "insertMember" => rbacCall[r].role # Nil

RbacInit ==
    /\ role = [p \in RoleIds |-> IF p \in SeedRoles THEN SeedRoleRow[p]
                                 ELSE [state |-> "absent", tenant |-> Nil, name |-> Nil]]
    /\ perm = [p \in PermIds |-> IF p \in SeedPerms THEN SeedPermRow[p]
                                 ELSE [state |-> "absent", name |-> Nil]]
    /\ grants = SeedGrants
    /\ roleOf = SeedRoleOf
    /\ rbacPc = [r \in RbacRequests |-> "idle"]
    /\ rbacCall = [r \in RbacRequests |-> NoCall]

----------------------------------------------------------------------------
(* What the queries find: every SELECT but that of a user's permissions    *)
(* leaves out deleted rows of each table it reads.                         *)
RoleLive(p) == role[p].state = "live"
PermLive(p) == perm[p].state = "live"
RolesNamed(name, t) == {p \in RoleIds : RoleLive(p) /\ role[p].tenant = t /\ role[p].name = name}
PermsNamed(name) == {p \in PermIds : PermLive(p) /\ perm[p].name = name}

(* The UNIQUE constraints, which do not know of deleted_at.                *)
RoleNameTaken(t, name) ==
    \E p \in RoleIds : role[p].state # "absent" /\ role[p].tenant = t /\ role[p].name = name
PermNameTaken(name) == \E p \in PermIds : perm[p].state # "absent" /\ perm[p].name = name

(* RolesGuard and PermissionsGuard for a route that requires these names.  *)
(* A user's permissions are found through the role of the membership,      *)
(* without a look at that role's row.                                      *)
UserRole(t, u) == {p \in RoleIds : roleOf[t][u] = p /\ RoleLive(p)}
RolesGuard(t, u, required) ==
    required # {} => \E p \in UserRole(t, u) : role[p].name \in required

UserPermissions(t, u) == {p \in PermIds : <<roleOf[t][u], p>> \in grants /\ PermLive(p)}
PermissionsGuard(t, u, required) == required \subseteq {perm[p].name : p \in UserPermissions(t, u)}

RbacGoto(r, step) == rbacPc' = [rbacPc EXCEPT ![r] = step]

(* Nobody acts on the parameters of a request that was refused or failed,  *)
(* and the model forgets them.                                             *)
RbacRefuse(r, answer) == RbacGoto(r, answer) /\ rbacCall' = [rbacCall EXCEPT ![r] = NoCall]

RbacReply(r, answer) ==
    \E a \in Committed(answer) :
        IF a = "failed" THEN RbacRefuse(r, a) ELSE RbacGoto(r, a) /\ UNCHANGED rbacCall

----------------------------------------------------------------------------
(* Faulty variant: any membership of the user will do.                     *)
AnyTenantGuard(r) ==
    /\ rbacPc[r] = "idle"
    /\ \E c \in Users, t \in Tenants :
          \/ (\A s \in Tenants : roleOf[s][c] = Nil) /\ RbacRefuse(r, "forbidden")
          \/ /\ \E s \in Tenants : roleOf[s][c] # Nil
             /\ rbacCall' = [rbacCall EXCEPT ![r] = [NoCall EXCEPT !.caller = c, !.tenant = t]]
             /\ RbacGoto(r, "handler")
    /\ UNCHANGED tables

(* A request from user c with the tenant t of its x-tenant-id.  The guards *)
(* before and after TenantGuard do not read these tables: a request they   *)
(* turn away is one that is not sent.                                      *)
TenantGuard(r) ==
    /\ rbacPc[r] = "idle"
    /\ \E c \in Users, t \in Tenants :
          \/ roleOf[t][c] = Nil /\ RbacRefuse(r, "forbidden")
          \/ /\ roleOf[t][c] # Nil
             /\ rbacCall' = [rbacCall EXCEPT ![r] = [NoCall EXCEPT !.caller = c, !.tenant = t]]
             /\ RbacGoto(r, "handler")
    /\ UNCHANGED tables

(* The handler begins.  Which one, and its parameters, were decided by the *)
(* client and matter from here on.  A client names rows it has seen, of    *)
(* its own tenant or of another, and the DTOs ask for a UUID only; a       *)
(* lookup answers an id of no row like a deleted one, and an INSERT fails. *)
(* A request is late if a row it needs has been deleted by now.            *)
KnownRoles == {p \in RoleIds : role[p].state # "absent"}
KnownPerms == {p \in PermIds : perm[p].state # "absent"}
DefaultRoleGone(t) == RolesNamed(DefaultRole, t) = {} /\ RoleNameTaken(t, DefaultRole)

Begin(r, call, step) ==
    /\ rbacPc[r] = "handler"
    /\ rbacCall' = [rbacCall EXCEPT ![r] = call]
    /\ RbacGoto(r, step)
    /\ UNCHANGED tables

CreateRole(r) == \E n \in RoleNames :
    Begin(r, [rbacCall[r] EXCEPT !.op = "createRole", !.name = n], "findRoleByName")

AssignRole(r) == \E p \in KnownRoles, u \in Users :
    Begin(r, [rbacCall[r] EXCEPT !.op = "assignRole", !.role = p, !.user = u,
                                 !.late = ~RoleLive(p)], "findRole")

DeleteRole(r) == \E p \in KnownRoles :
    Begin(r, [rbacCall[r] EXCEPT !.op = "deleteRole", !.role = p,
                                 !.late = ~RoleLive(p)], "findRole")

CreatePermission(r) == \E n \in PermNames :
    Begin(r, [rbacCall[r] EXCEPT !.op = "createPerm", !.name = n], "findPermByName")

DeletePermission(r) == \E p \in KnownPerms :
    Begin(r, [rbacCall[r] EXCEPT !.op = "deletePerm", !.perm = p,
                                 !.late = ~PermLive(p)], "findPerm")

AddPermissionToRole(r) == \E p \in KnownRoles, q \in KnownPerms :
    Begin(r, [rbacCall[r] EXCEPT !.op = "addToRole", !.role = p, !.perm = q,
                                 !.late = ~RoleLive(p) \/ ~PermLive(q)], "insertGrant")

RemovePermissionFromRole(r) == \E p \in KnownRoles, q \in KnownPerms :
    Begin(r, [rbacCall[r] EXCEPT !.op = "removeFromRole", !.role = p, !.perm = q,
                                 !.late = ~RoleLive(p) \/ ~PermLive(q)], "deleteGrant")

AddUser(r) == \E u \in Users :
    Begin(r, [rbacCall[r] EXCEPT !.op = "addUser", !.user = u,
                                 !.late = DefaultRoleGone(rbacCall[r].tenant)], "findMember")

----------------------------------------------------------------------------
FindRoleByName(r) ==
    LET found == RolesNamed(rbacCall[r].name, rbacCall[r].tenant)
    IN  /\ rbacPc[r] = "findRoleByName"
        /\ \/ found # {} /\ RbacRefuse(r, "conflict")
           \/ found = {} /\ RbacGoto(r, "insertRole") /\ UNCHANGED rbacCall
        /\ UNCHANGED tables

NewRole(r) == [state |-> "live", tenant |-> rbacCall[r].tenant, name |-> rbacCall[r].name]

(* Faulty variant: a table without UNIQUE(tenant_id, name).                *)
InsertRoleUnchecked(r) ==
    /\ rbacPc[r] = "insertRole"
    /\ role' = [role EXCEPT ![r] = NewRole(r)]
    /\ RbacReply(r, "created")
    /\ UNCHANGED <<perm, grants, roleOf>>

InsertRole(r) ==
    LET taken == RoleNameTaken(rbacCall[r].tenant, rbacCall[r].name)
    IN  /\ rbacPc[r] = "insertRole"
        /\ \/ taken /\ RbacRefuse(r, "duplicate") /\ UNCHANGED role
           \/ /\ ~taken
              /\ role' = [role EXCEPT ![r] = NewRole(r)]
              /\ RbacReply(r, "created")
        /\ UNCHANGED <<perm, grants, roleOf>>

RoleFound(r, found) ==
    /\ rbacPc[r] = "findRole"
    /\ \/ ~found /\ RbacRefuse(r, "notFound")
       \/ /\ found /\ UNCHANGED rbacCall
          /\ RbacGoto(r, IF rbacCall[r].op = "assignRole" THEN "updateRoleOf" ELSE "deleteRole")
    /\ UNCHANGED tables

(* Faulty variant: a lookup that does not look at deleted_at.              *)
FindDeletedRole(r) == RoleFound(r, role[rbacCall[r].role].tenant = rbacCall[r].tenant)

FindRole(r) ==
    LET call == rbacCall[r]
    IN  RoleFound(r, RoleLive(call.role) /\ role[call.role].tenant = call.tenant)

(* UPDATE user_tenants ... RETURNING: no row returned is an Error, a 500.  *)
UpdateRoleOf(r) ==
    LET call == rbacCall[r]
    IN  /\ rbacPc[r] = "updateRoleOf"
        /\ \/ roleOf[call.tenant][call.user] = Nil /\ RbacRefuse(r, "failed") /\ UNCHANGED roleOf
           \/ /\ roleOf[call.tenant][call.user] # Nil
              /\ roleOf' = [roleOf EXCEPT ![call.tenant][call.user] = call.role]
              /\ RbacReply(r, "ok")
        /\ UNCHANGED <<role, perm, grants>>

(* The result of the UPDATE is ignored: a role that another request has    *)
(* deleted meanwhile is answered 204 as well.                              *)
DeleteRoleRow(r) ==
    /\ rbacPc[r] = "deleteRole"
    /\ role' = [role EXCEPT ![rbacCall[r].role].state = "deleted"]
    /\ RbacReply(r, "noContent")
    /\ UNCHANGED <<perm, grants, roleOf>>

----------------------------------------------------------------------------
FindPermByName(r) ==
    LET found == PermsNamed(rbacCall[r].name)
    IN  /\ rbacPc[r] = "findPermByName"
        /\ \/ found # {} /\ RbacRefuse(r, "conflict")
           \/ found = {} /\ RbacGoto(r, "insertPerm") /\ UNCHANGED rbacCall
        /\ UNCHANGED tables

NewPerm(r) == [state |-> "live", name |-> rbacCall[r].name]

(* Faulty variant: a table without UNIQUE on name.                         *)
InsertPermUnchecked(r) ==
    /\ rbacPc[r] = "insertPerm"
    /\ perm' = [perm EXCEPT ![r] = NewPerm(r)]
    /\ RbacReply(r, "created")
    /\ UNCHANGED <<role, grants, roleOf>>

InsertPerm(r) ==
    LET taken == PermNameTaken(rbacCall[r].name)
    IN  /\ rbacPc[r] = "insertPerm"
        /\ \/ taken /\ RbacRefuse(r, "duplicate") /\ UNCHANGED perm
           \/ /\ ~taken
              /\ perm' = [perm EXCEPT ![r] = NewPerm(r)]
              /\ RbacReply(r, "created")
        /\ UNCHANGED <<role, grants, roleOf>>

FindPerm(r) ==
    /\ rbacPc[r] = "findPerm"
    /\ \/ ~PermLive(rbacCall[r].perm) /\ RbacRefuse(r, "notFound")
       \/ PermLive(rbacCall[r].perm) /\ RbacGoto(r, "deletePerm") /\ UNCHANGED rbacCall
    /\ UNCHANGED tables

DeletePermRow(r) ==
    /\ rbacPc[r] = "deletePerm"
    /\ perm' = [perm EXCEPT ![rbacCall[r].perm].state = "deleted"]
    /\ RbacReply(r, "noContent")
    /\ UNCHANGED <<role, grants, roleOf>>

(* Neither statement looks at deleted_at or at the tenant of the role; the *)
(* INSERT is subject to UNIQUE(role_id, permission_id).                    *)
InsertGrant(r) ==
    LET grant == <<rbacCall[r].role, rbacCall[r].perm>>
    IN  /\ rbacPc[r] = "insertGrant"
        /\ \/ grant \in grants /\ RbacRefuse(r, "duplicate") /\ UNCHANGED grants
           \/ /\ grant \notin grants
              /\ grants' = grants \cup {grant}
              /\ RbacReply(r, "ok")
        /\ UNCHANGED <<role, perm, roleOf>>

DeleteGrant(r) ==
    /\ rbacPc[r] = "deleteGrant"
    /\ grants' = grants \ {<<rbacCall[r].role, rbacCall[r].perm>>}
    /\ RbacReply(r, "noContent")
    /\ UNCHANGED <<role, perm, roleOf>>

----------------------------------------------------------------------------
(* addUser; the user limit, module Seats, may forbid it.                   *)
FindMember(r) ==
    LET known == roleOf[rbacCall[r].tenant][rbacCall[r].user] # Nil
    IN  /\ rbacPc[r] = "findMember"
        /\ \/ known /\ RbacRefuse(r, "conflict")
           \/ ~known /\ RbacRefuse(r, "forbidden")
           \/ ~known /\ RbacGoto(r, "findDefaultRole") /\ UNCHANGED rbacCall
        /\ UNCHANGED tables

(* Faulty variants: no test of what was found, and a lookup by name alone. *)
FindDefaultRoleUntested(r) ==
    LET found == RolesNamed(DefaultRole, rbacCall[r].tenant)
    IN  /\ rbacPc[r] = "findDefaultRole"
        /\ rbacCall' = [rbacCall EXCEPT ![r].role =
                          IF found = {} THEN Nil ELSE CHOOSE p \in found : TRUE]
        /\ RbacGoto(r, "insertMember")
        /\ UNCHANGED tables

FindDefaultRoleAnywhere(r) ==
    /\ rbacPc[r] = "findDefaultRole"
    /\ \E t \in Tenants : \E p \in RolesNamed(DefaultRole, t) :
          rbacCall' = [rbacCall EXCEPT ![r].role = p]
    /\ RbacGoto(r, "insertMember")
    /\ UNCHANGED tables

FindDefaultRole(r) ==
    LET found == RolesNamed(DefaultRole, rbacCall[r].tenant)
    IN  /\ rbacPc[r] = "findDefaultRole"
        /\ \/ found = {} /\ RbacRefuse(r, "notFound")
           \/ /\ \E p \in found : rbacCall' = [rbacCall EXCEPT ![r].role = p]
              /\ RbacGoto(r, "insertMember")
        /\ UNCHANGED tables

(* Faulty variant: INSERT ... ON CONFLICT DO UPDATE.                       *)
UpsertMember(r) ==
    LET call == rbacCall[r]
    IN  /\ rbacPc[r] = "insertMember"
        /\ roleOf' = [roleOf EXCEPT ![call.tenant][call.user] = call.role]
        /\ RbacReply(r, "created")
        /\ UNCHANGED <<role, perm, grants>>

(* UNIQUE(user_id, tenant_id) rejects a user admitted since FindMember.    *)
InsertMember(r) ==
    LET call == rbacCall[r]
    IN  /\ rbacPc[r] = "insertMember"
        /\ \/ /\ roleOf[call.tenant][call.user] # Nil
              /\ RbacRefuse(r, "duplicate") /\ UNCHANGED roleOf
           \/ /\ roleOf[call.tenant][call.user] = Nil
              /\ roleOf' = [roleOf EXCEPT ![call.tenant][call.user] = call.role]
              /\ RbacReply(r, "created")
        /\ UNCHANGED <<role, perm, grants>>

FailRbac(r) ==
    /\ rbacPc[r] \in RbacSteps
    /\ RbacRefuse(r, "failed")
    /\ UNCHANGED tables

RbacWork(r) ==
    \/ FindRoleByName(r) \/ InsertRole(r) \/ FindRole(r) \/ UpdateRoleOf(r) \/ DeleteRoleRow(r)
    \/ FindPermByName(r) \/ InsertPerm(r) \/ FindPerm(r) \/ DeletePermRow(r)
    \/ InsertGrant(r) \/ DeleteGrant(r)
    \/ FindMember(r) \/ FindDefaultRole(r) \/ InsertMember(r)

RbacStep(r) ==
    \/ TenantGuard(r) \/ CreateRole(r) \/ AssignRole(r) \/ DeleteRole(r)
    \/ CreatePermission(r) \/ DeletePermission(r)
    \/ AddPermissionToRole(r) \/ RemovePermissionFromRole(r) \/ AddUser(r)
    \/ RbacWork(r) \/ FailRbac(r)

RbacNext == \E r \in RbacRequests : RbacStep(r)

RbacSpec == RbacInit /\ [][RbacNext]_rbacVars

----------------------------------------------------------------------------
(* A role that was deleted admits nobody through RolesGuard, for good: no  *)
(* assignment that found it before the deletion and lands after it, and no *)
(* role created under its name later, lets a user of the tenant pass where *)
(* that name is required.                                                  *)
DeletedRoleAdmitsNobody ==
    \A p \in RoleIds : role[p].state = "deleted" =>
        \A u \in Users : ~RolesGuard(role[p].tenant, u, {role[p].name})

(* The same of a permission and PermissionsGuard, in every tenant, even if *)
(* it is added to a role after its deletion.                               *)
DeletedPermissionAdmitsNobody ==
    \A p \in PermIds : perm[p].state = "deleted" =>
        \A t \in Tenants, u \in Users : ~PermissionsGuard(t, u, {perm[p].name})

(* The role of a member is a role of that tenant.  No foreign key says so: *)
(* it rests on the lookups of assignRole and addUser alone.                *)
MembersHaveRolesOfTheirTenant ==
    \A t \in Tenants, u \in Users : roleOf[t][u] # Nil => role[roleOf[t][u]].tenant = t

(* A request that was late does not succeed, however creations, deletions  *)
(* and other requests interleave with it: a role or permission that was    *)
(* gone when the handler began is not assigned, nor reported as deleted    *)
(* once more, and a tenant whose member role is gone gets no new member,   *)
(* for a role of that name cannot be created again.  The two operations on *)
(* grants are the exception: they look nothing up and answer 200 or 204.   *)
GoneIsRefused ==
    \A r \in RbacRequests :
        rbacCall[r].late /\ rbacPc[r] \in {"created", "ok", "noContent"} =>
            rbacCall[r].op \in {"addToRole", "removeFromRole"}

(* Once a member, a user's role is changed by an assignment only: adding   *)
(* the user a second time, begun before the first was done, does not undo  *)
(* what was assigned in between.                                           *)
OnlyAssignmentsChangeRoles ==
    [][\A t \in Tenants, u \in Users :
          roleOf[t][u] # Nil /\ roleOf'[t][u] # roleOf[t][u] =>
              \E r \in RbacRequests :
                  /\ rbacPc[r] = "updateRoleOf" /\ rbacPc'[r] # rbacPc[r]
                  /\ rbacCall[r].tenant = t /\ rbacCall[r].user = u
                  /\ roleOf'[t][u] = rbacCall[r].role]_rbacVars

(* The roles and the members of a tenant are changed only on behalf of a   *)
(* member of that tenant, whichever tenants the ids of the request belong  *)
(* to.  (role_permissions is not in this promise: its statements do not    *)
(* look at the tenant of the role.)                                        *)
RoleChanges(p, t) == role'[p] # role[p] /\ t \in {role[p].tenant, role'[p].tenant}
TenantsAreIsolated ==
    [][\A t \in Tenants :
          roleOf'[t] # roleOf[t] \/ (\E p \in RoleIds : RoleChanges(p, t)) =>
              \E r \in RbacRequests :
                  /\ rbacPc'[r] # rbacPc[r] /\ rbacCall[r].tenant = t
                  /\ roleOf[t][rbacCall[r].caller] # Nil]_rbacVars

=============================================================================
