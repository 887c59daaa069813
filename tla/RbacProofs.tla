----------------------------- MODULE RbacProofs -----------------------------
(***************************************************************************)
(* Proofs about Rbac and AuditLog for every set of requests, tenants,      *)
(* users, names and rows left by earlier requests.                         *)
(***************************************************************************)
EXTENDS AuditLog, TLAPS

(* What a request carries fits the step it is at: the ids it has looked up *)
(* are those of rows, of its own tenant where the code has seen to that,   *)
(* its caller is a member, and its own row is not there yet.  A request    *)
(* for a row that was gone when it began has not got past the lookup,      *)
(* unless it is one that looks nothing up.                                 *)
MemberRoleDeleted(t) ==
    \E p \in RoleIds : role[p].state = "deleted" /\ role[p].tenant = t /\ role[p].name = DefaultRole

Fits(r, pc, c) ==
    /\ pc = "idle" => c = NoCall
    /\ pc \notin Answers => role[r].state = "absent" /\ perm[r].state = "absent"
    /\ pc \in RbacSteps => /\ c.caller # Nil /\ c.tenant # Nil
                           /\ roleOf[c.tenant][c.caller] # Nil
    /\ pc = "handler" => c.op = "none" /\ ~c.late
    /\ pc \in {"findRoleByName", "insertRole"} => c.op = "createRole" /\ c.name \in RoleNames
    /\ pc \in {"findPermByName", "insertPerm"} => c.op = "createPerm" /\ c.name \in PermNames
    /\ pc = "findRole" => c.op \in {"assignRole", "deleteRole"}
    /\ pc = "updateRoleOf" => c.op = "assignRole"
    /\ pc = "deleteRole" => c.op = "deleteRole"
    /\ pc \in {"findRole", "updateRoleOf", "deleteRole", "insertMember"} =>
          c.role # Nil /\ role[c.role].state # "absent"
    /\ pc \in {"updateRoleOf", "deleteRole", "insertMember"} =>
          role[c.role].tenant = c.tenant
    /\ pc \in {"findPerm", "deletePerm"} =>
          c.op = "deletePerm" /\ c.perm # Nil /\ perm[c.perm].state # "absent"
    /\ pc = "insertGrant" => c.op = "addToRole" /\ c.role # Nil /\ c.perm # Nil
    /\ pc = "deleteGrant" => c.op = "removeFromRole" /\ c.role # Nil /\ c.perm # Nil
    /\ pc \in {"findMember", "findDefaultRole", "insertMember"} => c.op = "addUser"
    /\ c.op \in {"assignRole", "addUser"} => c.user # Nil
    /\ c.late => \/ pc = "findRole" /\ role[c.role].state = "deleted"
                 \/ pc = "findPerm" /\ perm[c.perm].state = "deleted"
                 \/ c.op \in {"addToRole", "removeFromRole"}
                 \/ pc \in {"findMember", "findDefaultRole"} /\ MemberRoleDeleted(c.tenant)

(* The UNIQUE constraints hold, deleted rows included, and a member has a  *)
(* role that is a row of the tenant.                                       *)
RowsFit ==
    /\ \A p \in RoleIds : role[p].state = "absent" => role[p].tenant = Nil
    /\ \A p, q \in RoleIds :
          /\ role[p].state # "absent" /\ role[q].state # "absent"
          /\ role[p].tenant = role[q].tenant /\ role[p].name = role[q].name
          => p = q
    /\ \A p, q \in PermIds :
          /\ perm[p].state # "absent" /\ perm[q].state # "absent" /\ perm[p].name = perm[q].name
          => p = q
    /\ \A t \in Tenants, u \in Users :
          roleOf[t][u] # Nil => /\ role[roleOf[t][u]].state # "absent"
                                /\ role[roleOf[t][u]].tenant = t

CallsFit == \A r \in RbacRequests : Fits(r, rbacPc[r], rbacCall[r])

RbacInv == RbacTypeOK /\ RowsFit /\ CallsFit

----------------------------------------------------------------------------
(* What every step of a request leaves alone.                              *)

TablesTyped ==
    /\ role \in [RoleIds -> RoleRow]
    /\ perm \in [PermIds -> PermRow]
    /\ grants \subseteq RoleIds \X PermIds
    /\ roleOf \in [Tenants -> [Users -> RoleIds \cup {Nil}]]
    /\ \A p \in RoleIds : role[p].state # "absent" => role[p].tenant # Nil /\ role[p].name # Nil

Steps == {"idle"} \cup RbacSteps \cup Answers

(* Rows keep what makes them what they are, deleted ones stay deleted,     *)
(* members stay members, and no request inserts the row of another.        *)
TablesGrow(r) ==
    /\ \A p \in RoleIds : role[p].state # "absent" =>
          /\ role'[p].tenant = role[p].tenant /\ role'[p].name = role[p].name
          /\ role'[p].state # "absent"
          /\ role[p].state = "deleted" => role'[p].state = "deleted"
    /\ \A p \in PermIds : perm[p].state # "absent" =>
          /\ perm'[p].name = perm[p].name /\ perm'[p].state # "absent"
          /\ perm[p].state = "deleted" => perm'[p].state = "deleted"
    /\ \A t \in Tenants, u \in Users : roleOf[t][u] # Nil => roleOf'[t][u] # Nil
    /\ \A q \in RbacRequests \ {r} :
          /\ role[q].state = "absent" => role'[q].state = "absent"
          /\ perm[q].state = "absent" => perm'[q].state = "absent"

MovesTo(r, pc, c) ==
    /\ rbacPc' = [rbacPc EXCEPT ![r] = pc]
    /\ rbacCall' = [rbacCall EXCEPT ![r] = c]

LEMMA OthersFit ==
  ASSUME RbacInv, NEW r \in RbacRequests, NEW q \in RbacRequests \ {r}, TablesGrow(r),
         NEW pc, NEW c, pc = rbacPc[q], c = rbacCall[q]
  PROVE  Fits(q, pc, c)'
<1>1. Fits(q, pc, c) /\ c \in RbacCalls
  BY DEF RbacInv, CallsFit, RbacTypeOK
<1>2. pc \in {"findRole", "updateRoleOf", "deleteRole", "insertMember"} => c.role \in RoleIds
  BY <1>1 DEF Fits, RbacCalls
<1>3. pc \in {"findPerm", "deletePerm"} => c.perm \in PermIds
  BY <1>1 DEF Fits, RbacCalls
<1>4. pc \in RbacSteps => c.caller \in Users /\ c.tenant \in Tenants
  BY <1>1 DEF Fits, RbacCalls
<1>5. \A t : MemberRoleDeleted(t) => MemberRoleDeleted(t)'
  BY DEF MemberRoleDeleted, TablesGrow
<1>6. QED
  BY <1>1, <1>2, <1>3, <1>4, <1>5 DEF Fits, TablesGrow, RbacSteps

(* A step preserves the invariant if it leaves its own request fitting.    *)
LEMMA StepKeeps ==
  ASSUME RbacInv, NEW r \in RbacRequests, NEW pc \in Steps, NEW c \in RbacCalls,
         MovesTo(r, pc, c), Fits(r, pc, c)', TablesTyped', RowsFit', TablesGrow(r)
  PROVE  RbacInv'
<1>1. /\ rbacPc \in [RbacRequests -> Steps] /\ rbacCall \in [RbacRequests -> RbacCalls]
  BY DEF RbacInv, RbacTypeOK, Steps
<1>2. ASSUME NEW q \in RbacRequests, NEW pq, NEW cq, pq = rbacPc[q]', cq = rbacCall[q]'
      PROVE  Fits(q, pq, cq)'
  <2>1. CASE q = r
    <3>1. pq = pc /\ cq = c
      BY <1>1, <1>2, <2>1 DEF MovesTo
    <3>2. QED
      BY <2>1, <3>1
  <2>2. CASE q # r
    <3>1. pq = rbacPc[q] /\ cq = rbacCall[q]
      BY <1>1, <1>2, <2>2 DEF MovesTo
    <3>2. QED
      BY <2>2, <3>1, OthersFit
  <2>3. QED
    BY <2>1, <2>2
<1>3. CallsFit'
  BY <1>2 DEF CallsFit, Fits
<1>4. rbacPc[r]' = pc /\ rbacCall[r]' = c
  BY <1>1 DEF MovesTo
<1>5. \A q \in RbacRequests : rbacPc[q]' = "insertMember" => rbacCall[q]'.role # Nil
  BY <1>3 DEF CallsFit, Fits
<1>6. rbacPc' \in [RbacRequests -> Steps] /\ rbacCall' \in [RbacRequests -> RbacCalls]
  BY <1>1 DEF MovesTo
<1>7. QED
  BY <1>3, <1>5, <1>6 DEF RbacInv, RbacTypeOK, TablesTyped, Steps

(* A step that leaves the tables alone.                                    *)
LEMMA LocalStep ==
  ASSUME RbacInv, NEW r \in RbacRequests, NEW pc \in Steps, NEW c \in RbacCalls,
         MovesTo(r, pc, c), Fits(r, pc, c), UNCHANGED tables
  PROVE  RbacInv' /\ TablesGrow(r)
<1>1. TablesTyped'
  BY DEF RbacInv, RbacTypeOK, TablesTyped, tables
<1>2. RowsFit'
  BY DEF RbacInv, RowsFit, tables
<1>3. TablesGrow(r)
  BY DEF TablesGrow, tables
<1>4. Fits(r, pc, c)'
  BY DEF Fits, MemberRoleDeleted, tables
<1>5. QED
  BY <1>1, <1>2, <1>3, <1>4, StepKeeps

LEMMA NothingFits ==
  ASSUME NEW r \in RbacRequests, NEW answer \in Answers
  PROVE  Fits(r, answer, NoCall) /\ NoCall \in RbacCalls
BY DEF Fits, NoCall, RbacCalls, Answers, RbacSteps

LEMMA RefusedStep ==
  ASSUME RbacInv, NEW r \in RbacRequests, NEW answer \in Answers,
         RbacRefuse(r, answer), UNCHANGED tables
  PROVE  RbacInv' /\ TablesGrow(r)
<1>1. MovesTo(r, answer, NoCall)
  BY DEF RbacRefuse, RbacGoto, MovesTo
<1>2. QED
  BY <1>1, NothingFits, LocalStep DEF Steps

(* The last statement of a request, which may have changed a table.        *)
LEMMA LastStep ==
  ASSUME RbacInv, NEW r \in RbacRequests, NEW answer \in Answers,
         rbacCall[r].late => rbacCall[r].op \in {"addToRole", "removeFromRole"},
         RbacReply(r, answer), TablesTyped', RowsFit', TablesGrow(r)
  PROVE  RbacInv'
<1>1. "failed" \in Answers
  BY DEF Answers
<1>2. CASE RbacRefuse(r, "failed")
  <2>1. MovesTo(r, "failed", NoCall)
    BY <1>2 DEF RbacRefuse, RbacGoto, MovesTo
  <2>2. Fits(r, "failed", NoCall)'
    BY NothingFits DEF Fits, NoCall, Answers, RbacSteps
  <2>3. QED
    BY <1>1, <2>1, <2>2, NothingFits, StepKeeps DEF Steps
<1>3. CASE RbacGoto(r, answer) /\ UNCHANGED rbacCall
  <2> DEFINE c == rbacCall[r]
  <2>1. /\ c \in RbacCalls /\ Fits(r, rbacPc[r], c)
        /\ c.late => c.op \in {"addToRole", "removeFromRole"}
    BY DEF RbacInv, RbacTypeOK, CallsFit
  <2>2. MovesTo(r, answer, c)
    BY <1>3 DEF RbacGoto, MovesTo, RbacInv, RbacTypeOK
  <2>3. \A d : d = c => Fits(r, answer, d)'
    BY <2>1 DEF Fits, Answers, RbacSteps
  <2>4. QED
    BY <2>1, <2>2, <2>3, StepKeeps DEF Steps
<1>4. QED
  BY <1>2, <1>3 DEF RbacReply, Committed

----------------------------------------------------------------------------
(* The steps one by one.  First those that only read.                      *)

LEMMA GuardStep ==
  ASSUME RbacInv, NEW r \in RbacRequests, TenantGuard(r)
  PROVE  RbacInv' /\ TablesGrow(r)
<1>1. PICK u \in Users, t \in Tenants :
         \/ RbacRefuse(r, "forbidden")
         \/ /\ roleOf[t][u] # Nil
            /\ MovesTo(r, "handler", [NoCall EXCEPT !.caller = u, !.tenant = t])
  BY DEF TenantGuard, RbacGoto, MovesTo
<1>2. UNCHANGED tables /\ rbacPc[r] = "idle"
  BY DEF TenantGuard
<1>3. CASE RbacRefuse(r, "forbidden")
  BY <1>2, <1>3, RefusedStep DEF Answers
<1>4. CASE /\ roleOf[t][u] # Nil
           /\ MovesTo(r, "handler", [NoCall EXCEPT !.caller = u, !.tenant = t])
  <2> DEFINE c == [NoCall EXCEPT !.caller = u, !.tenant = t]
  <2>1. c \in RbacCalls
    BY DEF NoCall, RbacCalls
  <2>2. role[r].state = "absent" /\ perm[r].state = "absent"
    BY <1>2 DEF RbacInv, CallsFit, Fits, Answers
  <2>3. c.caller = u /\ c.tenant = t /\ c.op = "none" /\ ~c.late
    BY DEF NoCall
  <2> HIDE DEF c
  <2>4. Fits(r, "handler", c)
    BY <1>4, <2>2, <2>3, RbacAssumption DEF Fits
  <2>5. MovesTo(r, "handler", c)
    BY <1>4 DEF c
  <2>6. QED
    BY <1>2, <2>1, <2>4, <2>5, LocalStep DEF Steps, RbacSteps
<1>5. QED
  BY <1>1, <1>3, <1>4

(* A handler that begins with parameters that fit its first statement.     *)
LEMMA BeginStep ==
  ASSUME RbacInv, NEW r \in RbacRequests, NEW step \in RbacSteps \ {"handler"},
         NEW c \in RbacCalls, Begin(r, c, step),
         c.caller = rbacCall[r].caller, c.tenant = rbacCall[r].tenant,
         \/ step = "findRoleByName" /\ c.op = "createRole" /\ c.name \in RoleNames
         \/ step = "findPermByName" /\ c.op = "createPerm" /\ c.name \in PermNames
         \/ /\ step = "findRole" /\ c.role \in KnownRoles
            /\ \/ c.op = "deleteRole"
               \/ c.op = "assignRole" /\ c.user # Nil
         \/ step = "findPerm" /\ c.op = "deletePerm" /\ c.perm \in KnownPerms
         \/ step = "insertGrant" /\ c.op = "addToRole" /\ c.role # Nil /\ c.perm # Nil
         \/ step = "deleteGrant" /\ c.op = "removeFromRole" /\ c.role # Nil /\ c.perm # Nil
         \/ step = "findMember" /\ c.op = "addUser" /\ c.user # Nil,
         c.late => \/ step = "findRole" /\ ~RoleLive(c.role)
                   \/ step = "findPerm" /\ ~PermLive(c.perm)
                   \/ step \in {"insertGrant", "deleteGrant"}
                   \/ step = "findMember" /\ DefaultRoleGone(c.tenant)
  PROVE  RbacInv' /\ TablesGrow(r)
<1>1. /\ rbacPc[r] = "handler" /\ UNCHANGED tables
      /\ MovesTo(r, step, c)
  BY DEF Begin, RbacGoto, MovesTo
<1>2. Fits(r, "handler", rbacCall[r])
  BY <1>1 DEF RbacInv, CallsFit
<1>3. /\ role[r].state = "absent" /\ perm[r].state = "absent"
      /\ c.caller # Nil /\ c.tenant # Nil /\ roleOf[c.tenant][c.caller] # Nil
  BY <1>2 DEF Fits, Answers, RbacSteps
<1>4. \A p \in KnownRoles : /\ p # Nil /\ role[p].state # "absent"
                            /\ ~RoleLive(p) => role[p].state = "deleted"
  BY RbacAssumption DEF KnownRoles, RoleLive, RbacInv, RbacTypeOK, RoleRow, States
<1>5. \A p \in KnownPerms : /\ p # Nil /\ perm[p].state # "absent"
                            /\ ~PermLive(p) => perm[p].state = "deleted"
  BY RbacAssumption DEF KnownPerms, PermLive, RbacInv, RbacTypeOK, PermRow, States
<1>6. DefaultRoleGone(c.tenant) => MemberRoleDeleted(c.tenant)
  BY DEF DefaultRoleGone, MemberRoleDeleted, RolesNamed, RoleNameTaken, RoleLive,
         RbacInv, RbacTypeOK, RoleRow, States
<1>7. Fits(r, step, c)
  BY <1>3, <1>4, <1>5, <1>6 DEF Fits, RbacSteps
<1>8. QED
  BY <1>1, <1>7, LocalStep DEF Steps

LEMMA HandlerStep ==
  ASSUME RbacInv, NEW r \in RbacRequests,
         \/ CreateRole(r) \/ AssignRole(r) \/ DeleteRole(r)
         \/ CreatePermission(r) \/ DeletePermission(r)
         \/ AddPermissionToRole(r) \/ RemovePermissionFromRole(r) \/ AddUser(r)
  PROVE  RbacInv' /\ TablesGrow(r)
<1>0. /\ rbacCall[r] \in RbacCalls
      /\ rbacPc[r] = "handler" => ~rbacCall[r].late
      /\ \A p \in Users \cup RoleIds \cup PermIds : p # Nil
  BY RbacAssumption DEF RbacInv, RbacTypeOK, CallsFit, Fits
<1>1. CASE CreateRole(r)
  <2>1. PICK n \in RoleNames :
           Begin(r, [rbacCall[r] EXCEPT !.op = "createRole", !.name = n], "findRoleByName")
    BY <1>1 DEF CreateRole
  <2> DEFINE c == [rbacCall[r] EXCEPT !.op = "createRole", !.name = n]
  <2>2. c \in RbacCalls /\ c.op = "createRole" /\ c.name = n /\ c.late = rbacCall[r].late
        /\ c.caller = rbacCall[r].caller /\ c.tenant = rbacCall[r].tenant
    BY <1>0, RbacAssumption DEF RbacCalls, RbacOps
  <2>3. Begin(r, c, "findRoleByName") /\ ~rbacCall[r].late
    BY <1>0, <2>1 DEF Begin
  <2> HIDE DEF c
  <2>4. QED
    BY <1>0, <2>1, <2>2, <2>3, BeginStep DEF RbacSteps
<1>2. CASE AssignRole(r)
  <2>1. PICK p \in KnownRoles, u \in Users :
           Begin(r, [rbacCall[r] EXCEPT !.op = "assignRole", !.role = p, !.user = u,
                                          !.late = ~RoleLive(p)], "findRole")
    BY <1>2 DEF AssignRole
  <2> DEFINE late == ~RoleLive(p)
  <2> DEFINE c == [rbacCall[r] EXCEPT !.op = "assignRole", !.role = p, !.user = u,
                                          !.late = late]
  <2>9. late \in BOOLEAN
    BY DEF RoleLive
  <2> HIDE DEF late
  <2>2. c \in RbacCalls
    BY <1>0, <2>9, RbacAssumption DEF KnownRoles, RbacCalls, RbacOps
  <2>6. /\ c.op = "assignRole" /\ c.role = p /\ c.user = u /\ c.late = late
        /\ c.caller = rbacCall[r].caller /\ c.tenant = rbacCall[r].tenant
    BY <1>0 DEF RbacCalls
  <2> USE DEF late
  <2>3. Begin(r, c, "findRole")
    BY <2>1
  <2> HIDE DEF c
  <2>4. QED
    BY <1>0, <2>1, <2>2, <2>3, <2>6, BeginStep DEF RbacSteps
<1>3. CASE DeleteRole(r)
  <2>1. PICK p \in KnownRoles :
           Begin(r, [rbacCall[r] EXCEPT !.op = "deleteRole", !.role = p,
                                          !.late = ~RoleLive(p)], "findRole")
    BY <1>3 DEF DeleteRole
  <2> DEFINE late == ~RoleLive(p)
  <2> DEFINE c == [rbacCall[r] EXCEPT !.op = "deleteRole", !.role = p,
                                          !.late = late]
  <2>9. late \in BOOLEAN
    BY DEF RoleLive
  <2> HIDE DEF late
  <2>2. c \in RbacCalls
    BY <1>0, <2>9, RbacAssumption DEF KnownRoles, RbacCalls, RbacOps
  <2>6. /\ c.op = "deleteRole" /\ c.role = p /\ c.late = late
        /\ c.caller = rbacCall[r].caller /\ c.tenant = rbacCall[r].tenant
    BY <1>0 DEF RbacCalls
  <2> USE DEF late
  <2>3. Begin(r, c, "findRole")
    BY <2>1
  <2> HIDE DEF c
  <2>4. QED
    BY <1>0, <2>1, <2>2, <2>3, <2>6, BeginStep DEF RbacSteps
<1>4. CASE CreatePermission(r)
  <2>1. PICK n \in PermNames :
           Begin(r, [rbacCall[r] EXCEPT !.op = "createPerm", !.name = n], "findPermByName")
    BY <1>4 DEF CreatePermission
  <2> DEFINE c == [rbacCall[r] EXCEPT !.op = "createPerm", !.name = n]
  <2>2. c \in RbacCalls /\ c.op = "createPerm" /\ c.name = n /\ c.late = rbacCall[r].late
        /\ c.caller = rbacCall[r].caller /\ c.tenant = rbacCall[r].tenant
    BY <1>0, RbacAssumption DEF RbacCalls, RbacOps
  <2>3. Begin(r, c, "findPermByName") /\ ~rbacCall[r].late
    BY <1>0, <2>1 DEF Begin
  <2> HIDE DEF c
  <2>4. QED
    BY <1>0, <2>1, <2>2, <2>3, BeginStep DEF RbacSteps
<1>5. CASE DeletePermission(r)
  <2>1. PICK p \in KnownPerms :
           Begin(r, [rbacCall[r] EXCEPT !.op = "deletePerm", !.perm = p,
                                          !.late = ~PermLive(p)], "findPerm")
    BY <1>5 DEF DeletePermission
  <2> DEFINE late == ~PermLive(p)
  <2> DEFINE c == [rbacCall[r] EXCEPT !.op = "deletePerm", !.perm = p,
                                          !.late = late]
  <2>9. late \in BOOLEAN
    BY DEF PermLive
  <2> HIDE DEF late
  <2>2. c \in RbacCalls
    BY <1>0, <2>9, RbacAssumption DEF KnownPerms, RbacCalls, RbacOps
  <2>6. /\ c.op = "deletePerm" /\ c.perm = p /\ c.late = late
        /\ c.caller = rbacCall[r].caller /\ c.tenant = rbacCall[r].tenant
    BY <1>0 DEF RbacCalls
  <2> USE DEF late
  <2>3. Begin(r, c, "findPerm")
    BY <2>1
  <2> HIDE DEF c
  <2>4. QED
    BY <1>0, <2>1, <2>2, <2>3, <2>6, BeginStep DEF RbacSteps
<1>6. CASE AddPermissionToRole(r)
  <2>1. PICK p \in KnownRoles, q \in KnownPerms :
           Begin(r, [rbacCall[r] EXCEPT !.op = "addToRole", !.role = p, !.perm = q,
                                        !.late = ~RoleLive(p) \/ ~PermLive(q)], "insertGrant")
    BY <1>6 DEF AddPermissionToRole
  <2> DEFINE late == ~RoleLive(p) \/ ~PermLive(q)
  <2> DEFINE c == [rbacCall[r] EXCEPT !.op = "addToRole", !.role = p, !.perm = q, !.late = late]
  <2>9. late \in BOOLEAN
    BY DEF RoleLive, PermLive
  <2> HIDE DEF late
  <2>2. c \in RbacCalls /\ p # Nil /\ q # Nil
    BY <1>0, <2>9, RbacAssumption DEF KnownRoles, KnownPerms, RbacCalls, RbacOps
  <2>6. /\ c.op = "addToRole" /\ c.role = p /\ c.perm = q
        /\ c.caller = rbacCall[r].caller /\ c.tenant = rbacCall[r].tenant
    BY <1>0 DEF RbacCalls
  <2> USE DEF late
  <2>3. Begin(r, c, "insertGrant")
    BY <2>1
  <2> HIDE DEF c
  <2>4. QED
    BY <1>0, <2>1, <2>2, <2>3, <2>6, BeginStep DEF RbacSteps
<1>7. CASE RemovePermissionFromRole(r)
  <2>1. PICK p \in KnownRoles, q \in KnownPerms :
           Begin(r, [rbacCall[r] EXCEPT !.op = "removeFromRole", !.role = p, !.perm = q,
                                        !.late = ~RoleLive(p) \/ ~PermLive(q)], "deleteGrant")
    BY <1>7 DEF RemovePermissionFromRole
  <2> DEFINE late == ~RoleLive(p) \/ ~PermLive(q)
  <2> DEFINE c == [rbacCall[r] EXCEPT !.op = "removeFromRole", !.role = p, !.perm = q, !.late = late]
  <2>9. late \in BOOLEAN
    BY DEF RoleLive, PermLive
  <2> HIDE DEF late
  <2>2. c \in RbacCalls /\ p # Nil /\ q # Nil
    BY <1>0, <2>9, RbacAssumption DEF KnownRoles, KnownPerms, RbacCalls, RbacOps
  <2>6. /\ c.op = "removeFromRole" /\ c.role = p /\ c.perm = q
        /\ c.caller = rbacCall[r].caller /\ c.tenant = rbacCall[r].tenant
    BY <1>0 DEF RbacCalls
  <2> USE DEF late
  <2>3. Begin(r, c, "deleteGrant")
    BY <2>1
  <2> HIDE DEF c
  <2>4. QED
    BY <1>0, <2>1, <2>2, <2>3, <2>6, BeginStep DEF RbacSteps
<1>8. CASE AddUser(r)
  <2>1. PICK u \in Users :
           Begin(r, [rbacCall[r] EXCEPT !.op = "addUser", !.user = u,
                                        !.late = DefaultRoleGone(rbacCall[r].tenant)],
                 "findMember")
    BY <1>8 DEF AddUser
  <2> DEFINE late == DefaultRoleGone(rbacCall[r].tenant)
  <2> DEFINE c == [rbacCall[r] EXCEPT !.op = "addUser", !.user = u, !.late = late]
  <2>9. late \in BOOLEAN
    BY DEF DefaultRoleGone, RoleNameTaken
  <2> HIDE DEF late
  <2>2. c \in RbacCalls
    BY <1>0, <2>9, RbacAssumption DEF RbacCalls, RbacOps
  <2>6. /\ c.op = "addUser" /\ c.user = u /\ c.late = late
        /\ c.caller = rbacCall[r].caller /\ c.tenant = rbacCall[r].tenant
    BY <1>0 DEF RbacCalls
  <2> USE DEF late
  <2>3. Begin(r, c, "findMember")
    BY <2>1
  <2> HIDE DEF c
  <2>4. QED
    BY <1>0, <2>1, <2>2, <2>3, <2>6, BeginStep DEF RbacSteps
<1>9. QED
  BY <1>1, <1>2, <1>3, <1>4, <1>5, <1>6, <1>7, <1>8

LEMMA LookupStep ==
  ASSUME RbacInv, NEW r \in RbacRequests,
         \/ FindRoleByName(r) \/ FindRole(r) \/ FindPermByName(r) \/ FindPerm(r)
         \/ FindMember(r) \/ FindDefaultRole(r) \/ FailRbac(r)
  PROVE  RbacInv' /\ TablesGrow(r)
<1> DEFINE c == rbacCall[r]
<1>0. /\ c \in RbacCalls /\ Fits(r, rbacPc[r], c)
      /\ rbacPc \in [RbacRequests -> Steps] /\ rbacCall \in [RbacRequests -> RbacCalls]
  BY DEF RbacInv, RbacTypeOK, CallsFit, Steps
<1>1. ASSUME NEW answer \in {"conflict", "notFound", "forbidden", "failed"},
             RbacRefuse(r, answer), UNCHANGED tables
      PROVE  RbacInv' /\ TablesGrow(r)
  BY <1>1, RefusedStep DEF Answers
<1>2. ASSUME NEW step \in RbacSteps, RbacGoto(r, step), UNCHANGED <<tables, rbacCall>>,
             Fits(r, step, c)
      PROVE  RbacInv' /\ TablesGrow(r)
  <2>1. MovesTo(r, step, c) /\ UNCHANGED tables
    BY <1>0, <1>2 DEF MovesTo, RbacGoto, tables
  <2>2. QED
    BY <1>0, <1>2, <2>1, LocalStep DEF Steps
<1>3. CASE FindRoleByName(r)
  <2>1. rbacPc[r] = "findRoleByName" => Fits(r, "insertRole", c)
    BY <1>0 DEF Fits, RbacSteps, Answers
  <2>2. QED
    BY <1>1, <1>2, <1>3, <2>1 DEF FindRoleByName, RbacSteps
<1>4. CASE FindRole(r)
  <2>1. CASE RbacRefuse(r, "notFound")
    BY <1>1, <1>4, <2>1 DEF FindRole, RoleFound
  <2>2. CASE RoleLive(c.role) /\ role[c.role].tenant = c.tenant /\ ~RbacRefuse(r, "notFound")
    <3> DEFINE step == IF c.op = "assignRole" THEN "updateRoleOf" ELSE "deleteRole"
    <3>1. /\ rbacPc[r] = "findRole" /\ RbacGoto(r, step) /\ UNCHANGED <<tables, rbacCall>>
      BY <1>4, <2>2 DEF FindRole, RoleFound
    <3>2. Fits(r, step, c)
      BY <1>0, <2>2, <3>1 DEF Fits, RbacSteps, Answers, RoleLive
    <3>3. QED
      BY <1>2, <3>1, <3>2 DEF RbacSteps
  <2>3. QED
    BY <1>4, <2>1, <2>2 DEF FindRole, RoleFound
<1>5. CASE FindPermByName(r)
  <2>1. rbacPc[r] = "findPermByName" => Fits(r, "insertPerm", c)
    BY <1>0 DEF Fits, RbacSteps, Answers
  <2>2. QED
    BY <1>1, <1>2, <1>5, <2>1 DEF FindPermByName, RbacSteps
<1>6. CASE FindPerm(r)
  <2>1. rbacPc[r] = "findPerm" /\ PermLive(c.perm) => Fits(r, "deletePerm", c)
    BY <1>0 DEF Fits, RbacSteps, Answers, PermLive
  <2>2. QED
    BY <1>1, <1>2, <1>6, <2>1 DEF FindPerm, RbacSteps
<1>7. CASE FindMember(r)
  <2>1. rbacPc[r] = "findMember" => Fits(r, "findDefaultRole", c)
    BY <1>0 DEF Fits, RbacSteps, Answers
  <2>2. QED
    BY <1>1, <1>2, <1>7, <2>1 DEF FindMember, RbacSteps
<1>8. CASE FindDefaultRole(r)
  <2>1. CASE RbacRefuse(r, "notFound")
    BY <1>1, <1>8, <2>1 DEF FindDefaultRole
  <2>2. CASE \E p \in RolesNamed(DefaultRole, c.tenant) :
                rbacCall' = [rbacCall EXCEPT ![r].role = p] /\ RbacGoto(r, "insertMember")
    <3>1. PICK p \in RolesNamed(DefaultRole, c.tenant) :
                rbacCall' = [rbacCall EXCEPT ![r].role = p] /\ RbacGoto(r, "insertMember")
      BY <2>2
    <3> DEFINE d == [c EXCEPT !.role = p]
    <3>2. /\ p \in RoleIds /\ p # Nil /\ role[p].state = "live" /\ role[p].tenant = c.tenant
          /\ role[p].name = DefaultRole
      BY RbacAssumption DEF RolesNamed, RoleLive
    <3>8. ~MemberRoleDeleted(c.tenant)
      BY <3>2 DEF MemberRoleDeleted, RbacInv, RowsFit
    <3>3. /\ d \in RbacCalls /\ d.role = p /\ d.caller = c.caller /\ d.tenant = c.tenant
          /\ d.op = c.op /\ d.user = c.user /\ d.late = c.late
      BY <1>0, <3>2 DEF RbacCalls
    <3>4. rbacCall' = [rbacCall EXCEPT ![r] = d] /\ rbacPc[r] = "findDefaultRole"
          /\ UNCHANGED tables
      BY <1>0, <1>8, <3>1 DEF FindDefaultRole
    <3> HIDE DEF d
    <3>5. Fits(r, "insertMember", d)
      BY <1>0, <3>2, <3>3, <3>4, <3>8 DEF Fits, RbacSteps, Answers
    <3>6. MovesTo(r, "insertMember", d)
      BY <3>1, <3>4 DEF MovesTo, RbacGoto
    <3>7. QED
      BY <3>3, <3>4, <3>5, <3>6, LocalStep DEF Steps, RbacSteps
  <2>3. QED
    BY <1>8, <2>1, <2>2 DEF FindDefaultRole
<1>9. CASE FailRbac(r)
  BY <1>1, <1>9 DEF FailRbac
<1>10. QED
  BY <1>3, <1>4, <1>5, <1>6, <1>7, <1>8, <1>9

----------------------------------------------------------------------------
(* The steps that write.                                                   *)

LEMMA OwnRow == ASSUME NEW r \in RbacRequests
                PROVE  r \in RoleIds /\ r \in PermIds
BY DEF RoleIds, PermIds

LEMMA InsertRoleStep ==
  ASSUME RbacInv, NEW r \in RbacRequests, InsertRole(r)
  PROVE  RbacInv' /\ TablesGrow(r)
<1> DEFINE c == rbacCall[r]
           row == NewRole(r)
<1>1. /\ c \in RbacCalls /\ Fits(r, "insertRole", c) /\ role \in [RoleIds -> RoleRow]
      /\ UNCHANGED <<perm, grants, roleOf>>
  BY DEF RbacInv, RbacTypeOK, CallsFit, InsertRole
<1>2. CASE RbacRefuse(r, "duplicate") /\ UNCHANGED role
  BY <1>1, <1>2, RefusedStep DEF Answers, tables
<1>3. CASE /\ ~RoleNameTaken(c.tenant, c.name) /\ role' = [role EXCEPT ![r] = row]
           /\ RbacReply(r, "created")
  <2>1. /\ role[r].state = "absent" /\ ~c.late
        /\ c.tenant \in Tenants /\ c.tenant # Nil /\ c.name \in RoleNames /\ c.name # Nil
    BY <1>1, RbacAssumption DEF Fits, RbacCalls, RbacSteps, Answers
  <2>2. /\ row \in RoleRow /\ row.state = "live" /\ row.tenant = c.tenant /\ row.name = c.name
    BY <2>1 DEF NewRole, RoleRow, States
  <2> HIDE DEF row
  <2>3. /\ role'[r] = row /\ \A p \in RoleIds \ {r} : role'[p] = role[p]
        /\ role' \in [RoleIds -> RoleRow]
    BY <1>1, <1>3, <2>2, OwnRow
  <2>4. TablesTyped'
    BY <1>1, <2>1, <2>2, <2>3 DEF TablesTyped, RbacInv, RbacTypeOK
  <2>5. TablesGrow(r)
    BY <1>1, <2>1, <2>3, OwnRow DEF TablesGrow
  <2>6. RowsFit'
    <3>1. \A p, q \in RoleIds :
             /\ role'[p].state # "absent" /\ role'[q].state # "absent"
             /\ role'[p].tenant = role'[q].tenant /\ role'[p].name = role'[q].name
             => p = q
      BY <1>3, <2>2, <2>3 DEF RbacInv, RowsFit, RoleNameTaken
    <3>2. \A t \in Tenants, u \in Users :
             roleOf[t][u] # Nil => /\ role'[roleOf[t][u]].state # "absent"
                                   /\ role'[roleOf[t][u]].tenant = t
      <4>1. \A t \in Tenants, u \in Users : roleOf[t][u] \in RoleIds \cup {Nil}
        BY DEF RbacInv, RbacTypeOK
      <4>2. QED
        BY <2>1, <2>3, <4>1 DEF RbacInv, RowsFit
    <3>3. \A p \in RoleIds : role'[p].state = "absent" => role'[p].tenant = Nil
      BY <2>2, <2>3 DEF RbacInv, RowsFit
    <3>4. QED
      BY <1>1, <3>1, <3>2, <3>3 DEF RbacInv, RowsFit
  <2>7. QED
    BY <1>3, <2>1, <2>4, <2>5, <2>6, LastStep DEF Answers
<1>4. QED
  BY <1>2, <1>3 DEF InsertRole

LEMMA UpdateRoleOfStep ==
  ASSUME RbacInv, NEW r \in RbacRequests, UpdateRoleOf(r)
  PROVE  RbacInv' /\ TablesGrow(r)
<1> DEFINE c == rbacCall[r]
<1>1. /\ c \in RbacCalls /\ Fits(r, "updateRoleOf", c)
      /\ roleOf \in [Tenants -> [Users -> RoleIds \cup {Nil}]]
      /\ UNCHANGED <<role, perm, grants>>
  BY DEF RbacInv, RbacTypeOK, CallsFit, UpdateRoleOf
<1>2. CASE RbacRefuse(r, "failed") /\ UNCHANGED roleOf
  BY <1>1, <1>2, RefusedStep DEF Answers, tables
<1>3. CASE /\ roleOf' = [roleOf EXCEPT ![c.tenant][c.user] = c.role]
           /\ RbacReply(r, "ok")
  <2>1. /\ c.tenant \in Tenants /\ c.user \in Users /\ c.role \in RoleIds /\ c.role # Nil
        /\ role[c.role].state # "absent" /\ role[c.role].tenant = c.tenant /\ ~c.late
    BY <1>1 DEF Fits, RbacCalls, RbacSteps, Answers
  <2> HIDE DEF c
  <2>2. /\ roleOf' \in [Tenants -> [Users -> RoleIds \cup {Nil}]]
        /\ \A t \in Tenants, u \in Users :
              roleOf'[t][u] = IF t = c.tenant /\ u = c.user THEN c.role ELSE roleOf[t][u]
    BY <1>1, <1>3, <2>1
  <2>3. TablesTyped'
    BY <1>1, <2>2 DEF TablesTyped, RbacInv, RbacTypeOK
  <2>4. TablesGrow(r)
    BY <1>1, <2>1, <2>2 DEF TablesGrow
  <2>5. RowsFit'
    BY <1>1, <2>1, <2>2 DEF RbacInv, RowsFit
  <2>6. QED
    BY <1>3, <2>1, <2>3, <2>4, <2>5, LastStep DEF Answers, c
<1>4. QED
  BY <1>2, <1>3 DEF UpdateRoleOf

LEMMA DeleteRoleRowStep ==
  ASSUME RbacInv, NEW r \in RbacRequests, DeleteRoleRow(r)
  PROVE  RbacInv' /\ TablesGrow(r)
<1> DEFINE c == rbacCall[r]
<1>1. /\ c \in RbacCalls /\ Fits(r, "deleteRole", c) /\ role \in [RoleIds -> RoleRow]
      /\ role' = [role EXCEPT ![c.role].state = "deleted"]
      /\ RbacReply(r, "noContent") /\ UNCHANGED <<perm, grants, roleOf>>
  BY DEF RbacInv, RbacTypeOK, CallsFit, DeleteRoleRow
<1>2. c.role \in RoleIds /\ role[c.role].state # "absent" /\ ~c.late
  BY <1>1 DEF Fits, RbacCalls, RbacSteps, Answers
<1> HIDE DEF c
<1>3. /\ role' \in [RoleIds -> RoleRow]
      /\ \A p \in RoleIds : /\ role'[p].tenant = role[p].tenant /\ role'[p].name = role[p].name
                            /\ role'[p].state = IF p = c.role THEN "deleted" ELSE role[p].state
  BY <1>1, <1>2 DEF RoleRow, States
<1>4. TablesTyped'
  BY <1>1, <1>2, <1>3 DEF TablesTyped, RbacInv, RbacTypeOK
<1>5. TablesGrow(r)
  BY <1>1, <1>2, <1>3, OwnRow DEF TablesGrow
<1>6. RowsFit'
  <2>1. \A p \in RoleIds : role'[p].state = "absent" <=> role[p].state = "absent"
    BY <1>2, <1>3
  <2>2. \A t \in Tenants, u \in Users : roleOf[t][u] \in RoleIds \cup {Nil}
    BY DEF RbacInv, RbacTypeOK
  <2>3. \A p \in RoleIds : role'[p].state = "absent" => role'[p].tenant = Nil
    BY <1>3, <2>1 DEF RbacInv, RowsFit
  <2>4. \A p, q \in RoleIds :
           /\ role'[p].state # "absent" /\ role'[q].state # "absent"
           /\ role'[p].tenant = role'[q].tenant /\ role'[p].name = role'[q].name
           => p = q
    BY <1>3, <2>1 DEF RbacInv, RowsFit
  <2>5. \A t \in Tenants, u \in Users :
           roleOf[t][u] # Nil => /\ role'[roleOf[t][u]].state # "absent"
                                 /\ role'[roleOf[t][u]].tenant = t
    BY <1>3, <2>1, <2>2 DEF RbacInv, RowsFit
  <2>6. QED
    BY <1>1, <2>3, <2>4, <2>5 DEF RbacInv, RowsFit
<1>7. QED
  BY <1>1, <1>2, <1>4, <1>5, <1>6, LastStep DEF Answers, c

LEMMA InsertPermStep ==
  ASSUME RbacInv, NEW r \in RbacRequests, InsertPerm(r)
  PROVE  RbacInv' /\ TablesGrow(r)
<1> DEFINE c == rbacCall[r]
           row == NewPerm(r)
<1>1. /\ c \in RbacCalls /\ Fits(r, "insertPerm", c) /\ perm \in [PermIds -> PermRow]
      /\ UNCHANGED <<role, grants, roleOf>>
  BY DEF RbacInv, RbacTypeOK, CallsFit, InsertPerm
<1>2. CASE RbacRefuse(r, "duplicate") /\ UNCHANGED perm
  BY <1>1, <1>2, RefusedStep DEF Answers, tables
<1>3. CASE /\ ~PermNameTaken(c.name) /\ perm' = [perm EXCEPT ![r] = row]
           /\ RbacReply(r, "created")
  <2>1. perm[r].state = "absent" /\ ~c.late /\ c.name \in PermNames
    BY <1>1 DEF Fits, RbacCalls, RbacSteps, Answers
  <2>2. row \in PermRow /\ row.state = "live" /\ row.name = c.name
    BY <2>1 DEF NewPerm, PermRow, States
  <2> HIDE DEF row
  <2>3. /\ perm'[r] = row /\ \A p \in PermIds \ {r} : perm'[p] = perm[p]
        /\ perm' \in [PermIds -> PermRow]
    BY <1>1, <1>3, <2>2, OwnRow
  <2>4. TablesTyped'
    BY <1>1, <2>3 DEF TablesTyped, RbacInv, RbacTypeOK
  <2>5. TablesGrow(r)
    BY <1>1, <2>1, <2>3, OwnRow DEF TablesGrow
  <2>6. RowsFit'
    BY <1>1, <1>3, <2>2, <2>3 DEF RbacInv, RowsFit, PermNameTaken
  <2>7. QED
    BY <1>3, <2>1, <2>4, <2>5, <2>6, LastStep DEF Answers
<1>4. QED
  BY <1>2, <1>3 DEF InsertPerm

LEMMA DeletePermRowStep ==
  ASSUME RbacInv, NEW r \in RbacRequests, DeletePermRow(r)
  PROVE  RbacInv' /\ TablesGrow(r)
<1> DEFINE c == rbacCall[r]
<1>1. /\ c \in RbacCalls /\ Fits(r, "deletePerm", c) /\ perm \in [PermIds -> PermRow]
      /\ perm' = [perm EXCEPT ![c.perm].state = "deleted"]
      /\ RbacReply(r, "noContent") /\ UNCHANGED <<role, grants, roleOf>>
  BY DEF RbacInv, RbacTypeOK, CallsFit, DeletePermRow
<1>2. c.perm \in PermIds /\ perm[c.perm].state # "absent" /\ ~c.late
  BY <1>1 DEF Fits, RbacCalls, RbacSteps, Answers
<1> HIDE DEF c
<1>3. /\ perm' \in [PermIds -> PermRow]
      /\ \A p \in PermIds : /\ perm'[p].name = perm[p].name
                            /\ perm'[p].state = IF p = c.perm THEN "deleted" ELSE perm[p].state
  BY <1>1, <1>2 DEF PermRow, States
<1>4. TablesTyped'
  BY <1>1, <1>3 DEF TablesTyped, RbacInv, RbacTypeOK
<1>5. TablesGrow(r)
  BY <1>1, <1>2, <1>3, OwnRow DEF TablesGrow
<1>6. RowsFit'
  BY <1>1, <1>2, <1>3 DEF RbacInv, RowsFit
<1>7. QED
  BY <1>1, <1>2, <1>4, <1>5, <1>6, LastStep DEF Answers, c

LEMMA GrantStep ==
  ASSUME RbacInv, NEW r \in RbacRequests, InsertGrant(r) \/ DeleteGrant(r)
  PROVE  RbacInv' /\ TablesGrow(r)
<1> DEFINE c == rbacCall[r]
<1>1. /\ c \in RbacCalls /\ Fits(r, rbacPc[r], c) /\ rbacPc[r] \in {"insertGrant", "deleteGrant"}
      /\ UNCHANGED <<role, perm, roleOf>>
  BY DEF RbacInv, RbacTypeOK, CallsFit, InsertGrant, DeleteGrant
<1>2. CASE RbacRefuse(r, "duplicate") /\ UNCHANGED grants
  BY <1>1, <1>2, RefusedStep DEF Answers, tables
<1>3. CASE /\ grants' \subseteq grants \cup {<<c.role, c.perm>>}
           /\ RbacReply(r, "ok") \/ RbacReply(r, "noContent")
  <2>1. c.role \in RoleIds /\ c.perm \in PermIds /\ c.op \in {"addToRole", "removeFromRole"}
    BY <1>1 DEF Fits, RbacCalls, RbacSteps, Answers
  <2>2. TablesTyped'
    BY <1>1, <1>3, <2>1 DEF TablesTyped, RbacInv, RbacTypeOK
  <2>3. TablesGrow(r) /\ RowsFit'
    BY <1>1 DEF TablesGrow, RbacInv, RowsFit
  <2>4. QED
    BY <1>3, <2>1, <2>2, <2>3, LastStep DEF Answers
<1>4. QED
  BY <1>2, <1>3 DEF InsertGrant, DeleteGrant

LEMMA InsertMemberStep ==
  ASSUME RbacInv, NEW r \in RbacRequests, InsertMember(r)
  PROVE  RbacInv' /\ TablesGrow(r)
<1> DEFINE c == rbacCall[r]
<1>1. /\ c \in RbacCalls /\ Fits(r, "insertMember", c)
      /\ roleOf \in [Tenants -> [Users -> RoleIds \cup {Nil}]]
      /\ UNCHANGED <<role, perm, grants>>
  BY DEF RbacInv, RbacTypeOK, CallsFit, InsertMember
<1>2. CASE RbacRefuse(r, "duplicate") /\ UNCHANGED roleOf
  BY <1>1, <1>2, RefusedStep DEF Answers, tables
<1>3. CASE /\ roleOf' = [roleOf EXCEPT ![c.tenant][c.user] = c.role]
           /\ RbacReply(r, "created")
  <2>1. /\ c.tenant \in Tenants /\ c.user \in Users /\ c.role \in RoleIds /\ c.role # Nil
        /\ role[c.role].state # "absent" /\ role[c.role].tenant = c.tenant /\ ~c.late
    BY <1>1 DEF Fits, RbacCalls, RbacSteps, Answers
  <2> HIDE DEF c
  <2>2. /\ roleOf' \in [Tenants -> [Users -> RoleIds \cup {Nil}]]
        /\ \A t \in Tenants, u \in Users :
              roleOf'[t][u] = IF t = c.tenant /\ u = c.user THEN c.role ELSE roleOf[t][u]
    BY <1>1, <1>3, <2>1
  <2>3. TablesTyped'
    BY <1>1, <2>2 DEF TablesTyped, RbacInv, RbacTypeOK
  <2>4. TablesGrow(r)
    BY <1>1, <2>1, <2>2 DEF TablesGrow
  <2>5. RowsFit'
    BY <1>1, <2>1, <2>2 DEF RbacInv, RowsFit
  <2>6. QED
    BY <1>3, <2>1, <2>3, <2>4, <2>5, LastStep DEF Answers, c
<1>4. QED
  BY <1>2, <1>3 DEF InsertMember

LEMMA RequestStep ==
  ASSUME RbacInv, NEW r \in RbacRequests, RbacStep(r)
  PROVE  RbacInv' /\ TablesGrow(r)
BY GuardStep, HandlerStep, LookupStep, InsertRoleStep, UpdateRoleOfStep, DeleteRoleRowStep,
   InsertPermStep, DeletePermRowStep, GrantStep, InsertMemberStep DEF RbacStep, RbacWork

----------------------------------------------------------------------------
LEMMA RbacInitFits == RbacInit => RbacInv
<1> SUFFICES ASSUME RbacInit PROVE RbacInv
  OBVIOUS
<1>1. NoCall \in RbacCalls /\ "idle" \notin RbacSteps \cup Answers
  BY DEF NoCall, RbacCalls, RbacSteps, Answers
<1>2. /\ \A p \in RoleIds : role[p] = IF p \in SeedRoles THEN SeedRoleRow[p]
                                      ELSE [state |-> "absent", tenant |-> Nil, name |-> Nil]
      /\ \A p \in PermIds : perm[p] = IF p \in SeedPerms THEN SeedPermRow[p]
                                      ELSE [state |-> "absent", name |-> Nil]
      /\ roleOf = SeedRoleOf /\ grants = SeedGrants
      /\ \A r \in RbacRequests : rbacPc[r] = "idle" /\ rbacCall[r] = NoCall
  BY DEF RbacInit
<1>3. RbacTypeOK
  <2>1. role \in [RoleIds -> RoleRow]
    BY RbacAssumption DEF RbacInit, RoleRow, States
  <2>2. perm \in [PermIds -> PermRow]
    BY RbacAssumption DEF RbacInit, PermRow, States
  <2>3. /\ grants \subseteq RoleIds \X PermIds
        /\ roleOf \in [Tenants -> [Users -> RoleIds \cup {Nil}]]
    BY <1>2, RbacAssumption DEF RoleIds, PermIds
  <2>4. /\ rbacPc \in [RbacRequests -> {"idle"} \cup RbacSteps \cup Answers]
        /\ rbacCall \in [RbacRequests -> RbacCalls]
    BY <1>1 DEF RbacInit
  <2>5. /\ \A p \in RoleIds : role[p].state # "absent" => role[p].tenant # Nil /\ role[p].name # Nil
        /\ \A r \in RbacRequests : rbacPc[r] = "insertMember" => rbacCall[r].role # Nil
    BY <1>2, RbacAssumption
  <2>6. QED
    BY <2>1, <2>2, <2>3, <2>4, <2>5 DEF RbacTypeOK
<1>4. RowsFit
  <2>1. \A p \in SeedRoles : SeedRoleRow[p].state # "absent"
    BY RbacAssumption
  <2>2. \A p, q \in RoleIds :
           /\ role[p].state # "absent" /\ role[q].state # "absent"
           /\ role[p].tenant = role[q].tenant /\ role[p].name = role[q].name
           => p = q
    BY <1>2, RbacAssumption
  <2>3. \A p, q \in PermIds :
           /\ perm[p].state # "absent" /\ perm[q].state # "absent" /\ perm[p].name = perm[q].name
           => p = q
    BY <1>2, RbacAssumption
  <2>4. \A t \in Tenants, u \in Users :
           roleOf[t][u] # Nil => /\ role[roleOf[t][u]].state # "absent"
                                 /\ role[roleOf[t][u]].tenant = t
    <3>1. \A t \in Tenants, u \in Users : roleOf[t][u] # Nil => roleOf[t][u] \in SeedRoles
      BY <1>2, RbacAssumption
    <3>2. QED
      BY <1>2, <2>1, <3>1, RbacAssumption DEF RoleIds
  <2>5. QED
    BY <1>2, <2>1, <2>2, <2>3, <2>4 DEF RowsFit
<1>5. CallsFit
  <2>1. \A r \in RbacRequests : role[r].state = "absent" /\ perm[r].state = "absent"
    BY <1>2, OwnRow, RbacAssumption
  <2>2. NoCall.op = "none" /\ ~NoCall.late
    BY DEF NoCall
  <2>3. \A r \in RbacRequests : Fits(r, "idle", NoCall)
    BY <1>1, <2>1, <2>2 DEF Fits, RbacSteps
  <2>4. QED
    BY <1>2, <2>3 DEF CallsFit, Fits
<1>6. QED
  BY <1>3, <1>4, <1>5 DEF RbacInv

(* A process that dies leaves the tables as they are.                      *)
LEMMA DeathKeeps ==
  ASSUME RbacInv, ProcessDies
  PROVE  RbacInv'
<1> DEFINE inFlight == {r \in RbacRequests : rbacPc[r] \in RbacSteps}
<1>1. /\ rbacPc' = [r \in RbacRequests |-> IF r \in inFlight THEN "failed" ELSE rbacPc[r]]
      /\ rbacCall' = [r \in RbacRequests |-> IF r \in inFlight THEN NoCall ELSE rbacCall[r]]
      /\ UNCHANGED tables
  BY DEF ProcessDies
<1>2. "failed" \in Answers /\ NoCall \in RbacCalls /\ "failed" # "insertMember"
  BY DEF Answers, NoCall, RbacCalls
<1>3. RbacTypeOK'
  BY <1>1, <1>2 DEF RbacInv, RbacTypeOK, tables
<1>4. RowsFit'
  BY <1>1 DEF RbacInv, RowsFit, tables
<1>5. ASSUME NEW q \in RbacRequests, NEW pc, NEW c, pc = rbacPc[q]', c = rbacCall[q]'
      PROVE  Fits(q, pc, c)'
  <2>1. Fits(q, pc, c)
    <3>1. CASE q \in inFlight
      BY <1>1, <1>2, <1>5, <3>1, NothingFits
    <3>2. CASE q \notin inFlight
      BY <1>1, <1>5, <3>2 DEF RbacInv, CallsFit
    <3>3. QED
      BY <3>1, <3>2
  <2>2. QED
    BY <1>1, <2>1 DEF Fits, MemberRoleDeleted, tables
<1>6. CallsFit'
  BY <1>5 DEF CallsFit, Fits
<1>7. QED
  BY <1>3, <1>4, <1>6 DEF RbacInv

LEMMA AuditStepKeepsRbac ==
  ASSUME RbacInv, [AuditNext \/ AuditDone]_allAuditVars
  PROVE  RbacInv'
<1>1. ASSUME UNCHANGED rbacVars
      PROVE  RbacInv'
  BY <1>1 DEF RbacInv, RbacTypeOK, RowsFit, CallsFit, Fits, MemberRoleDeleted, rbacVars,
               tables
<1>2. ASSUME NEW r \in RbacRequests, Handle(r)
      PROVE  RbacInv'
  BY <1>2, RequestStep DEF Handle
<1>3. ASSUME NEW r \in RbacRequests, WriteEntry(r)
      PROVE  RbacInv'
  BY <1>1, <1>3 DEF WriteEntry
<1>4. QED
  BY <1>1, <1>2, <1>3, DeathKeeps DEF AuditNext, AuditDone, allAuditVars

LEMMA RbacInvariant == AuditSpec => []RbacInv
<1>1. AuditInit => RbacInv
  BY RbacInitFits DEF AuditInit
<1>2. RbacInv /\ [AuditNext \/ AuditDone]_allAuditVars => RbacInv'
  BY AuditStepKeepsRbac
<1>3. QED
  BY <1>1, <1>2, PTL DEF AuditSpec

----------------------------------------------------------------------------
(* The values the services keep have their types.                          *)
THEOREM RbacTyped == AuditSpec => []RbacTypeOK
<1>1. RbacInv => RbacTypeOK
  BY DEF RbacInv
<1>2. QED
  BY <1>1, RbacInvariant, PTL

(* updateUserTenantRole and addUser give a member no role of another       *)
(* tenant, although user_tenants.role_id refers to any row of roles.       *)
THEOREM RolesStayInTheirTenant == AuditSpec => []MembersHaveRolesOfTheirTenant
<1>1. RbacInv => MembersHaveRolesOfTheirTenant
  BY DEF RbacInv, RowsFit, MembersHaveRolesOfTheirTenant
<1>2. QED
  BY <1>1, RbacInvariant, PTL

(* A role deleted by deleteRole never admits anybody through RolesGuard:   *)
(* the lookup of a user's role filters on roles.deleted_at, and the UNIQUE *)
(* constraint keeps the name of a deleted role taken.                      *)
THEOREM DeletedRolesAdmitNobody == AuditSpec => []DeletedRoleAdmitsNobody
<1>1. ASSUME RbacInv, NEW p \in RoleIds, role[p].state = "deleted", NEW u \in Users,
             RolesGuard(role[p].tenant, u, {role[p].name})
      PROVE  FALSE
  <2>1. role[p].tenant \in Tenants
    BY <1>1 DEF RbacInv, RbacTypeOK, RoleRow
  <2>2. PICK q \in RoleIds : /\ roleOf[role[p].tenant][u] = q /\ role[q].state = "live"
                             /\ role[q].name = role[p].name
    BY <1>1 DEF RolesGuard, UserRole, RoleLive
  <2>3. role[q].tenant = role[p].tenant
    BY <1>1, <2>1, <2>2, RbacAssumption DEF RbacInv, RowsFit
  <2>4. p = q
    BY <1>1, <2>2, <2>3 DEF RbacInv, RowsFit
  <2>5. QED
    BY <1>1, <2>2, <2>4
<1>2. RbacInv => DeletedRoleAdmitsNobody
  BY <1>1 DEF DeletedRoleAdmitsNobody
<1>3. QED
  BY <1>2, RbacInvariant, PTL

(* A permission deleted by deletePermission never admits anybody through   *)
(* PermissionsGuard, whatever grants still name it or are inserted later.  *)
THEOREM DeletedPermissionsAdmitNobody == AuditSpec => []DeletedPermissionAdmitsNobody
<1>1. ASSUME RbacInv, NEW p \in PermIds, perm[p].state = "deleted",
             NEW t \in Tenants, NEW u \in Users, PermissionsGuard(t, u, {perm[p].name})
      PROVE  FALSE
  <2>1. PICK q \in PermIds : perm[q].state = "live" /\ perm[q].name = perm[p].name
    BY <1>1 DEF PermissionsGuard, UserPermissions, PermLive
  <2>2. p = q
    BY <1>1, <2>1 DEF RbacInv, RowsFit
  <2>3. QED
    BY <1>1, <2>1, <2>2
<1>2. RbacInv => DeletedPermissionAdmitsNobody
  BY <1>1 DEF DeletedPermissionAdmitsNobody
<1>3. QED
  BY <1>2, RbacInvariant, PTL

(* assignRoleToUser, deleteRole and deletePermission do not succeed for a  *)
(* row that was deleted before they began, since no row comes back to      *)
(* life, nor addUser for a tenant whose role "member" was, since no other  *)
(* row can take its name.  Only the operations on grants do succeed for    *)
(* deleted rows.                                                           *)
THEOREM GoneRowsAreRefused == AuditSpec => []GoneIsRefused
<1>1. RbacInv => GoneIsRefused
  BY DEF RbacInv, CallsFit, Fits, GoneIsRefused
<1>2. QED
  BY <1>1, RbacInvariant, PTL

LEMMA RoleWriters ==
  ASSUME NEW r \in RbacRequests, RbacStep(r)
  PROVE  \/ UNCHANGED <<role, roleOf>>
         \/ InsertRole(r) \/ UpdateRoleOf(r) \/ DeleteRoleRow(r) \/ InsertMember(r)
<1>1. ASSUME NEW call, NEW step, Begin(r, call, step) PROVE UNCHANGED tables
  BY <1>1 DEF Begin
<1>2. CreateRole(r) \/ AssignRole(r) \/ DeleteRole(r) \/ CreatePermission(r)
         \/ DeletePermission(r) \/ AddPermissionToRole(r) \/ RemovePermissionFromRole(r)
         \/ AddUser(r) => UNCHANGED tables
  BY <1>1 DEF CreateRole, AssignRole, DeleteRole, CreatePermission, DeletePermission,
              AddPermissionToRole, RemovePermissionFromRole, AddUser
<1>3. TenantGuard(r) \/ FindRoleByName(r) \/ FindRole(r) \/ FindPermByName(r) \/ FindPerm(r)
         \/ FindMember(r) \/ FindDefaultRole(r) \/ FailRbac(r) => UNCHANGED tables
  BY DEF TenantGuard, FindRoleByName, FindRole, RoleFound, FindPermByName, FindPerm,
         FindMember, FindDefaultRole, FailRbac
<1>4. InsertPerm(r) \/ DeletePermRow(r) \/ InsertGrant(r) \/ DeleteGrant(r)
         => UNCHANGED <<role, roleOf>>
  BY DEF InsertPerm, DeletePermRow, InsertGrant, DeleteGrant
<1>5. QED
  BY <1>2, <1>3, <1>4 DEF RbacStep, RbacWork, tables

LEMMA EndsDiffer ==
  ASSUME RbacInv, NEW r \in RbacRequests, NEW answer \in Answers, rbacPc[r] \in RbacSteps,
         RbacReply(r, answer) \/ RbacRefuse(r, answer)
  PROVE  rbacPc'[r] # rbacPc[r]
BY DEF RbacInv, RbacTypeOK, RbacReply, RbacRefuse, RbacGoto, Committed, Answers, RbacSteps

LEMMA MovesRequest ==
  ASSUME RbacInv, NEW r \in RbacRequests,
         InsertRole(r) \/ UpdateRoleOf(r) \/ DeleteRoleRow(r) \/ InsertMember(r)
  PROVE  /\ rbacPc'[r] # rbacPc[r] /\ rbacPc[r] \in RbacSteps
         /\ Fits(r, rbacPc[r], rbacCall[r]) /\ rbacCall[r] \in RbacCalls
<1>1. /\ rbacPc[r] \in RbacSteps
      /\ \E answer \in {"created", "ok", "noContent", "duplicate", "failed"} :
            RbacReply(r, answer) \/ RbacRefuse(r, answer)
  BY DEF InsertRole, UpdateRoleOf, DeleteRoleRow, InsertMember, RbacSteps
<1>2. QED
  BY <1>1, EndsDiffer DEF RbacInv, RbacTypeOK, CallsFit, Answers

LEMMA StepChangesRoles ==
  ASSUME RbacInv, AuditNext \/ AuditDone
  PROVE  \/ UNCHANGED <<role, roleOf>>
         \/ \E r \in RbacRequests :
               InsertRole(r) \/ UpdateRoleOf(r) \/ DeleteRoleRow(r) \/ InsertMember(r)
BY RoleWriters DEF AuditNext, AuditDone, Handle, WriteEntry, ProcessDies, tables, rbacVars,
                   allAuditVars

(* A member's role is changed by updateUserTenantRole only: the INSERT of  *)
(* addUser does not touch a membership that exists.                        *)
THEOREM OnlyAssignmentsChange == AuditSpec => OnlyAssignmentsChangeRoles
<1>1. ASSUME RbacInv, AuditNext \/ AuditDone, NEW t \in Tenants, NEW u \in Users,
             roleOf[t][u] # Nil, roleOf'[t][u] # roleOf[t][u]
      PROVE  \E r \in RbacRequests :
                /\ rbacPc[r] = "updateRoleOf" /\ rbacPc'[r] # rbacPc[r]
                /\ rbacCall[r].tenant = t /\ rbacCall[r].user = u
                /\ roleOf'[t][u] = rbacCall[r].role
  <2>1. PICK r \in RbacRequests :
           InsertRole(r) \/ UpdateRoleOf(r) \/ DeleteRoleRow(r) \/ InsertMember(r)
    BY <1>1, StepChangesRoles
  <2> DEFINE c == rbacCall[r]
  <2>2. /\ rbacPc'[r] # rbacPc[r] /\ c.tenant \in Tenants /\ c.user \in Users \cup {Nil}
        /\ rbacPc[r] \in {"updateRoleOf", "insertMember"} => c.user \in Users
        /\ roleOf \in [Tenants -> [Users -> RoleIds \cup {Nil}]]
    BY <1>1, <2>1, MovesRequest DEF Fits, RbacCalls, RbacInv, RbacTypeOK
  <2>3. UpdateRoleOf(r) \/ InsertMember(r)
    BY <1>1, <2>1 DEF InsertRole, DeleteRoleRow
  <2>4. /\ rbacPc[r] \in {"updateRoleOf", "insertMember"}
        /\ roleOf' = [roleOf EXCEPT ![c.tenant][c.user] = c.role]
    BY <1>1, <2>3 DEF UpdateRoleOf, InsertMember
  <2>5. c.tenant = t /\ c.user = u /\ roleOf'[t][u] = c.role
    <3> HIDE DEF c
    <3>1. QED
      BY <1>1, <2>2, <2>4
  <2>6. ~InsertMember(r)
    BY <1>1, <2>5 DEF InsertMember
  <2>7. QED
    BY <2>2, <2>3, <2>5, <2>6 DEF UpdateRoleOf
<1>2. RbacInv /\ [AuditNext \/ AuditDone]_allAuditVars =>
        [\A t \in Tenants, u \in Users :
            roleOf[t][u] # Nil /\ roleOf'[t][u] # roleOf[t][u] =>
              \E r \in RbacRequests :
                  /\ rbacPc[r] = "updateRoleOf" /\ rbacPc'[r] # rbacPc[r]
                  /\ rbacCall[r].tenant = t /\ rbacCall[r].user = u
                  /\ roleOf'[t][u] = rbacCall[r].role]_rbacVars
  BY <1>1 DEF allAuditVars
<1>3. QED
  BY <1>2, RbacInvariant, PTL DEF AuditSpec, OnlyAssignmentsChangeRoles

(* Roles and memberships of a tenant are written on behalf of its members: *)
(* TenantGuard looks the caller up, memberships are never deleted, and the *)
(* writing statements take the tenant of x-tenant-id or a row found in it. *)
THEOREM TenantsIsolated == AuditSpec => TenantsAreIsolated
<1>1. ASSUME RbacInv, AuditNext \/ AuditDone, NEW t \in Tenants,
             roleOf'[t] # roleOf[t] \/ (\E p \in RoleIds : RoleChanges(p, t))
      PROVE  \E r \in RbacRequests :
                /\ rbacPc'[r] # rbacPc[r] /\ rbacCall[r].tenant = t
                /\ roleOf[t][rbacCall[r].caller] # Nil
  <2>1. PICK r \in RbacRequests :
           InsertRole(r) \/ UpdateRoleOf(r) \/ DeleteRoleRow(r) \/ InsertMember(r)
    BY <1>1, StepChangesRoles DEF RoleChanges
  <2> DEFINE c == rbacCall[r]
  <2>2. /\ rbacPc'[r] # rbacPc[r] /\ roleOf[c.tenant][c.caller] # Nil
        /\ Fits(r, rbacPc[r], c) /\ c \in RbacCalls
    BY <1>1, <2>1, MovesRequest DEF Fits
  <2>3. /\ roleOf \in [Tenants -> [Users -> RoleIds \cup {Nil}]]
        /\ role \in [RoleIds -> RoleRow] /\ t # Nil
    BY <1>1, RbacAssumption DEF RbacInv, RbacTypeOK
  <2>4. c.tenant = t
    <3>1. CASE UpdateRoleOf(r) \/ InsertMember(r)
      <4>1. /\ \/ roleOf' = [roleOf EXCEPT ![c.tenant][c.user] = c.role]
               \/ UNCHANGED roleOf
            /\ UNCHANGED role
        BY <3>1 DEF UpdateRoleOf, InsertMember
      <4> HIDE DEF c
      <4>2. QED
        BY <1>1, <2>3, <4>1 DEF RoleChanges
    <3>2. CASE InsertRole(r)
      <4>1. /\ role' = [role EXCEPT ![r] = NewRole(r)] \/ UNCHANGED role
            /\ NewRole(r).tenant = c.tenant /\ UNCHANGED roleOf
            /\ role[r].tenant = Nil
        BY <1>1, <2>2, <3>2, OwnRow
        DEF InsertRole, NewRole, RbacInv, RowsFit, Fits, Answers, RbacSteps
      <4>2. PICK p \in RoleIds : RoleChanges(p, t)
        BY <1>1, <4>1
      <4>3. p = r /\ role'[r] = NewRole(r)
        BY <2>3, <4>1, <4>2, OwnRow DEF RoleChanges
      <4>4. QED
        BY <2>3, <4>1, <4>2, <4>3 DEF RoleChanges
    <3>3. CASE DeleteRoleRow(r)
      <4>1. /\ role' = [role EXCEPT ![c.role].state = "deleted"]
            /\ UNCHANGED roleOf /\ c.role \in RoleIds /\ role[c.role].tenant = c.tenant
        BY <2>2, <3>3 DEF DeleteRoleRow, Fits, RbacCalls
      <4>2. PICK p \in RoleIds : RoleChanges(p, t)
        BY <1>1, <4>1
      <4> HIDE DEF c
      <4>3. p = c.role /\ role'[p].tenant = role[p].tenant
        BY <2>3, <4>1, <4>2 DEF RoleChanges, RoleRow
      <4>4. QED
        BY <4>1, <4>2, <4>3 DEF RoleChanges
    <3>4. QED
      BY <2>1, <3>1, <3>2, <3>3
  <2>5. QED
    BY <2>2, <2>4
<1>2. RbacInv /\ [AuditNext \/ AuditDone]_allAuditVars =>
        [\A t \in Tenants :
            roleOf'[t] # roleOf[t] \/ (\E p \in RoleIds : RoleChanges(p, t)) =>
              \E r \in RbacRequests :
                  /\ rbacPc'[r] # rbacPc[r] /\ rbacCall[r].tenant = t
                  /\ roleOf[t][rbacCall[r].caller] # Nil]_rbacVars
  <2>1. UNCHANGED allAuditVars => UNCHANGED rbacVars
    BY DEF allAuditVars
  <2>2. QED
    BY <1>1, <2>1
<1>3. QED
  BY <1>2, RbacInvariant, PTL DEF AuditSpec, TenantsAreIsolated

----------------------------------------------------------------------------
(* The audit log.                                                          *)

(* What an entry of r with the call c says was done.                       *)
Done(r, c) ==
    /\ c.op = "createRole" => role[r].state # "absent"
    /\ c.op = "deleteRole" => c.role \in RoleIds /\ role[c.role].state = "deleted"
    /\ c.op = "createPerm" => perm[r].state # "absent"
    /\ c.op = "deletePerm" => c.perm \in PermIds /\ perm[c.perm].state = "deleted"
    /\ c.op \in {"assignRole", "addUser"} =>
          c.tenant \in Tenants /\ c.user \in Users /\ roleOf[c.tenant][c.user] # Nil

AnsweredAndDone ==
    \A r \in RbacRequests : entry[r] # "none" => rbacPc[r] \in Answers /\ Done(r, rbacCall[r])

AuditInv == RbacInv /\ EntriesTyped /\ AnsweredAndDone

LEMMA SuccessDoes ==
  ASSUME RbacInv, NEW r \in RbacRequests, RbacWork(r), Succeeded(rbacPc'[r])
  PROVE  \A c : c = rbacCall[r] => c = rbacCall'[r] /\ Done(r, c)'
<1> DEFINE c == rbacCall[r]
<1>1. /\ c \in RbacCalls /\ Fits(r, rbacPc[r], c)
      /\ rbacPc \in [RbacRequests -> Steps]
      /\ role \in [RoleIds -> RoleRow] /\ perm \in [PermIds -> PermRow]
      /\ roleOf \in [Tenants -> [Users -> RoleIds \cup {Nil}]]
  BY DEF RbacInv, RbacTypeOK, CallsFit, Steps
<1>2. ASSUME NEW pc \in RbacSteps \cup {"conflict", "duplicate", "notFound", "forbidden", "failed"}
      PROVE  ~RbacGoto(r, pc) /\ ~RbacRefuse(r, pc)
  BY <1>1 DEF RbacGoto, RbacRefuse, Succeeded, RbacSteps
<1>3. ASSUME NEW answer \in Answers, RbacReply(r, answer)
      PROVE  c = rbacCall'[r]
  BY <1>2, <1>3 DEF RbacReply, Committed
<1>4. /\ ~FindRoleByName(r) /\ ~FindRole(r) /\ ~FindPermByName(r) /\ ~FindPerm(r)
      /\ ~FindMember(r) /\ ~FindDefaultRole(r)
  BY <1>2 DEF FindRoleByName, FindRole, RoleFound, FindPermByName, FindPerm, FindMember,
              FindDefaultRole, RbacSteps
<1>5. CASE InsertRole(r)
  <2>1. c.op = "createRole" /\ c = rbacCall'[r] /\ role' = [role EXCEPT ![r] = NewRole(r)]
    BY <1>1, <1>2, <1>3, <1>5 DEF InsertRole, Fits, Answers
  <2>2. \A d : d = c => Done(r, d)'
    BY <1>1, <2>1, OwnRow DEF Done, NewRole
  <2>3. QED
    BY <2>1, <2>2
<1>6. CASE UpdateRoleOf(r) \/ InsertMember(r)
  <2>1. /\ c.op \in {"assignRole", "addUser"} /\ c = rbacCall'[r]
        /\ c.tenant \in Tenants /\ c.user \in Users /\ c.role \in RoleIds /\ c.role # Nil
        /\ roleOf' = [roleOf EXCEPT ![c.tenant][c.user] = c.role]
    BY <1>1, <1>2, <1>3, <1>6 DEF UpdateRoleOf, InsertMember, Fits, Answers, RbacCalls, RbacSteps
  <2>2. roleOf'[c.tenant][c.user] # Nil
    <3> HIDE DEF c
    <3>1. QED
      BY <1>1, <2>1
  <2>3. \A d : d = c => Done(r, d)'
    BY <2>1, <2>2 DEF Done
  <2>4. QED
    BY <2>1, <2>3
<1>7. CASE DeleteRoleRow(r)
  <2>1. /\ c.op = "deleteRole" /\ c = rbacCall'[r] /\ c.role \in RoleIds
        /\ role' = [role EXCEPT ![c.role].state = "deleted"]
    BY <1>1, <1>3, <1>7 DEF DeleteRoleRow, Fits, Answers, RbacCalls
  <2>2. role'[c.role].state = "deleted"
    <3> HIDE DEF c
    <3>1. QED
      BY <1>1, <2>1 DEF RoleRow
  <2>3. \A d : d = c => Done(r, d)'
    BY <2>1, <2>2 DEF Done
  <2>4. QED
    BY <2>1, <2>3
<1>8. CASE InsertPerm(r)
  <2>1. c.op = "createPerm" /\ c = rbacCall'[r] /\ perm' = [perm EXCEPT ![r] = NewPerm(r)]
    BY <1>1, <1>2, <1>3, <1>8 DEF InsertPerm, Fits, Answers
  <2>2. \A d : d = c => Done(r, d)'
    BY <1>1, <2>1, OwnRow DEF Done, NewPerm
  <2>3. QED
    BY <2>1, <2>2
<1>9. CASE DeletePermRow(r)
  <2>1. /\ c.op = "deletePerm" /\ c = rbacCall'[r] /\ c.perm \in PermIds
        /\ perm' = [perm EXCEPT ![c.perm].state = "deleted"]
    BY <1>1, <1>3, <1>9 DEF DeletePermRow, Fits, Answers, RbacCalls
  <2>2. perm'[c.perm].state = "deleted"
    <3> HIDE DEF c
    <3>1. QED
      BY <1>1, <2>1 DEF PermRow
  <2>3. \A d : d = c => Done(r, d)'
    BY <2>1, <2>2 DEF Done
  <2>4. QED
    BY <2>1, <2>3
<1>10. CASE InsertGrant(r) \/ DeleteGrant(r)
  <2>1. c.op \in {"addToRole", "removeFromRole"} /\ c = rbacCall'[r]
    BY <1>1, <1>2, <1>3, <1>10 DEF InsertGrant, DeleteGrant, Fits, Answers
  <2>2. QED
    BY <2>1 DEF Done
<1>11. QED
  BY <1>4, <1>5, <1>6, <1>7, <1>8, <1>9, <1>10 DEF RbacWork

(* The other steps of a request end in no success.                         *)
LEMMA OnlyWorkSucceeds ==
  ASSUME RbacInv, NEW r \in RbacRequests, RbacStep(r), ~RbacWork(r)
  PROVE  ~Succeeded(rbacPc'[r])
<1>1. rbacPc \in [RbacRequests -> Steps]
  BY DEF RbacInv, RbacTypeOK, Steps
<1>2. ASSUME NEW pc \in RbacSteps \cup {"forbidden", "failed"},
             RbacGoto(r, pc) \/ RbacRefuse(r, pc)
      PROVE  ~Succeeded(rbacPc'[r])
  BY <1>1, <1>2 DEF RbacGoto, RbacRefuse, Succeeded, RbacSteps
<1>3. ASSUME NEW call, NEW step \in RbacSteps, Begin(r, call, step)
      PROVE  ~Succeeded(rbacPc'[r])
  BY <1>2, <1>3 DEF Begin
<1>4. CASE TenantGuard(r) \/ FailRbac(r)
  BY <1>2, <1>4 DEF TenantGuard, FailRbac, RbacSteps
<1>5. CASE CreateRole(r) \/ AssignRole(r) \/ DeleteRole(r) \/ CreatePermission(r)
             \/ DeletePermission(r) \/ AddPermissionToRole(r) \/ RemovePermissionFromRole(r)
             \/ AddUser(r)
  BY <1>3, <1>5 DEF CreateRole, AssignRole, DeleteRole, CreatePermission, DeletePermission,
                    AddPermissionToRole, RemovePermissionFromRole, AddUser, RbacSteps
<1>6. QED
  BY <1>4, <1>5 DEF RbacStep

(* A request that was answered takes no further step, and one request's    *)
(* step is no other's.                                                     *)
LEMMA StepsOfOne ==
  ASSUME RbacInv, NEW r \in RbacRequests, RbacStep(r)
  PROVE  /\ rbacPc[r] \notin Answers
         /\ \A q \in RbacRequests \ {r} : rbacPc'[q] = rbacPc[q] /\ rbacCall'[q] = rbacCall[q]
<1>1. rbacPc \in [RbacRequests -> Steps] /\ rbacCall \in [RbacRequests -> RbacCalls]
  BY DEF RbacInv, RbacTypeOK, Steps
<1> DEFINE Rest == \A q \in RbacRequests \ {r} :
                      rbacPc'[q] = rbacPc[q] /\ rbacCall'[q] = rbacCall[q]
<1>2. ASSUME NEW pc, \/ RbacRefuse(r, pc) \/ RbacReply(r, pc)
                     \/ RbacGoto(r, pc) /\ UNCHANGED rbacCall
                     \/ RbacGoto(r, pc) /\ \E c : rbacCall' = [rbacCall EXCEPT ![r] = c]
      PROVE  Rest
  BY <1>1, <1>2 DEF RbacRefuse, RbacReply, RbacGoto
<1>3. ASSUME NEW c, NEW pc, Begin(r, c, pc) PROVE rbacPc[r] = "handler" /\ Rest
  BY <1>2, <1>3 DEF Begin
<1>4. "idle" \notin Answers /\ RbacSteps \cap Answers = {}
  BY DEF RbacSteps, Answers
<1>5. CASE CreateRole(r) \/ AssignRole(r) \/ DeleteRole(r) \/ CreatePermission(r)
             \/ DeletePermission(r) \/ AddPermissionToRole(r) \/ RemovePermissionFromRole(r)
             \/ AddUser(r)
  BY <1>3, <1>5 DEF CreateRole, AssignRole, DeleteRole, CreatePermission, DeletePermission,
                    AddPermissionToRole, RemovePermissionFromRole, AddUser, Answers
<1>6. CASE TenantGuard(r) \/ FailRbac(r)
  BY <1>2, <1>4, <1>6 DEF TenantGuard, FailRbac
<1>7. CASE RbacWork(r)
  <2>1. rbacPc[r] \in RbacSteps
    BY <1>7 DEF RbacWork, FindRoleByName, InsertRole, FindRole, RoleFound, UpdateRoleOf,
                DeleteRoleRow, FindPermByName, InsertPerm, FindPerm, DeletePermRow, InsertGrant,
                DeleteGrant, FindMember, FindDefaultRole, InsertMember, RbacSteps
  <2>2. CASE FindDefaultRole(r)
    <3>1. ASSUME RbacRefuse(r, "notFound") PROVE Rest
      BY <1>2, <3>1
    <3>2. ASSUME NEW p \in RoleIds, rbacCall' = [rbacCall EXCEPT ![r].role = p],
                 RbacGoto(r, "insertMember")
          PROVE  Rest
      BY <1>1, <3>2 DEF RbacGoto
    <3>3. Rest
      BY <2>2, <3>1, <3>2 DEF FindDefaultRole, RolesNamed
    <3>4. QED
      BY <1>4, <2>1, <3>3
  <2>3. CASE ~FindDefaultRole(r)
    <3>1. Rest
      BY <1>2, <1>7, <2>3
      DEF RbacWork, FindRoleByName, InsertRole, FindRole, RoleFound, UpdateRoleOf,
          DeleteRoleRow, FindPermByName, InsertPerm, FindPerm, DeletePermRow, InsertGrant,
          DeleteGrant, FindMember, InsertMember
    <3>2. QED
      BY <1>4, <2>1, <3>1
  <2>4. QED
    BY <2>2, <2>3
<1>8. QED
  BY <1>5, <1>6, <1>7 DEF RbacStep

LEMMA StepKeepsDone ==
  ASSUME RbacInv, NEW r \in RbacRequests, RbacStep(r), NEW q \in RbacRequests \ {r},
         NEW c, Done(q, c)
  PROVE  Done(q, c)'
BY RequestStep, OwnRow DEF Done, TablesGrow

LEMMA HandleKeepsAudit ==
  ASSUME AuditInv, NEW r \in RbacRequests, Handle(r)
  PROVE  AuditInv'
<1>1. /\ RbacInv /\ EntriesTyped /\ AnsweredAndDone
      /\ RbacStep(r) /\ Intercept(r) /\ UNCHANGED deaths
  BY DEF AuditInv, Handle
<1>2. RbacInv'
  BY <1>1, RequestStep
<1>3. /\ rbacPc[r] \notin Answers /\ entry[r] = "none"
      /\ \A q \in RbacRequests \ {r} : rbacPc'[q] = rbacPc[q] /\ rbacCall'[q] = rbacCall[q]
  BY <1>1, StepsOfOne DEF AnsweredAndDone, EntriesTyped
<1>4. ~Succeeded(rbacPc[r])
  BY <1>3 DEF Succeeded, Answers
<1>5. /\ entry'[r] = IF Succeeded(rbacPc'[r]) THEN "sent" ELSE "none"
      /\ \A q \in RbacRequests \ {r} : entry'[q] = entry[q]
      /\ entry' \in [RbacRequests -> {"none", "sent", "written", "lost"}]
  BY <1>1, <1>3, <1>4 DEF Intercept, EntriesTyped
<1>6. EntriesTyped'
  BY <1>1, <1>5 DEF EntriesTyped
<1>8. ASSUME NEW q \in RbacRequests, entry'[q] # "none", NEW c, c = rbacCall'[q]
      PROVE  rbacPc'[q] \in Answers /\ Done(q, c)'
  <2>1. CASE q = r
    <3>1. Succeeded(rbacPc'[r])
      BY <1>5, <1>8, <2>1
    <3>2. RbacWork(r)
      BY <1>1, <3>1, OnlyWorkSucceeds
    <3>3. c = rbacCall[r] /\ Done(r, c)'
      BY <1>1, <1>8, <2>1, <3>1, <3>2, SuccessDoes
    <3>4. QED
      BY <2>1, <3>1, <3>3 DEF Succeeded, Answers
  <2>2. CASE q # r
    <3>1. c = rbacCall[q] /\ rbacPc'[q] = rbacPc[q] /\ entry[q] # "none"
      BY <1>3, <1>5, <1>8, <2>2
    <3>2. rbacPc[q] \in Answers /\ Done(q, c)
      BY <1>1, <3>1 DEF AnsweredAndDone
    <3>3. QED
      BY <1>1, <2>2, <3>1, <3>2, StepKeepsDone
  <2>3. QED
    BY <2>1, <2>2
<1>9. AnsweredAndDone'
  BY <1>8 DEF AnsweredAndDone, Done
<1>10. QED
  BY <1>2, <1>6, <1>9 DEF AuditInv

LEMMA WriteKeepsAudit ==
  ASSUME AuditInv, NEW r \in RbacRequests, WriteEntry(r)
  PROVE  AuditInv'
<1>1. RbacInv'
  BY AuditStepKeepsRbac DEF AuditInv, AuditNext
<1>2. /\ UNCHANGED <<rbacVars, deaths>> /\ entry[r] = "sent"
      /\ entry' = [entry EXCEPT ![r] = "written"]
      /\ entry \in [RbacRequests -> {"none", "sent", "written", "lost"}]
  BY DEF WriteEntry, AuditInv, EntriesTyped
<1>3. EntriesTyped'
  BY <1>2 DEF AuditInv, EntriesTyped
<1>4. AnsweredAndDone'
  BY <1>2 DEF AuditInv, AnsweredAndDone, Done, rbacVars, tables
<1>5. QED
  BY <1>1, <1>3, <1>4 DEF AuditInv

LEMMA DeathKeepsAudit ==
  ASSUME AuditInv, ProcessDies
  PROVE  AuditInv'
<1>1. RbacInv'
  BY DeathKeeps DEF AuditInv
<1> DEFINE inFlight == {q \in RbacRequests : rbacPc[q] \in RbacSteps}
           sent == {q \in RbacRequests : entry[q] = "sent"}
<1>2. PICK done \in SUBSET sent :
         entry' = [q \in RbacRequests |-> IF q \in done THEN "written"
                                          ELSE IF q \in sent THEN "lost" ELSE entry[q]]
  BY DEF ProcessDies
<1>3. /\ rbacPc' = [q \in RbacRequests |-> IF q \in inFlight THEN "failed" ELSE rbacPc[q]]
      /\ rbacCall' = [q \in RbacRequests |-> IF q \in inFlight THEN NoCall ELSE rbacCall[q]]
      /\ UNCHANGED tables /\ deaths'
  BY DEF ProcessDies
<1>4. EntriesTyped'
  BY <1>2, <1>3 DEF ProcessDies, AuditInv, EntriesTyped
<1>5. ASSUME NEW q \in RbacRequests, entry'[q] # "none", NEW c, c = rbacCall'[q]
      PROVE  rbacPc'[q] \in Answers /\ Done(q, c)'
  <2>1. rbacPc[q] \in Answers /\ Done(q, rbacCall[q])
    BY <1>2, <1>5 DEF AuditInv, AnsweredAndDone
  <2>2. q \notin inFlight
    BY <2>1 DEF Answers, RbacSteps
  <2>3. rbacPc'[q] = rbacPc[q] /\ c = rbacCall[q]
    BY <1>3, <1>5, <2>2
  <2>4. QED
    BY <1>3, <2>1, <2>3 DEF Done, tables
<1>6. AnsweredAndDone'
  BY <1>5 DEF AnsweredAndDone, Done
<1>7. QED
  BY <1>1, <1>4, <1>6 DEF AuditInv

LEMMA AuditInvariant == AuditSpec => []AuditInv
<1>1. AuditInit => AuditInv
  <2>1. AuditInit => RbacInv /\ \A q \in RbacRequests : rbacPc[q] = "idle"
    BY RbacInitFits DEF AuditInit, RbacInit
  <2>2. QED
    BY <2>1 DEF AuditInit, AuditInv, EntriesTyped, AnsweredAndDone
<1>2. AuditInv /\ [AuditNext \/ AuditDone]_allAuditVars => AuditInv'
  <2>1. ASSUME AuditInv, UNCHANGED allAuditVars
        PROVE  AuditInv'
    <3>1. RbacInv'
      BY <2>1, AuditStepKeepsRbac DEF AuditInv
    <3>2. QED
      BY <2>1, <3>1 DEF AuditInv, EntriesTyped, AnsweredAndDone, Done, allAuditVars,
                        auditVars, rbacVars, tables
  <2>2. QED
    BY <2>1, HandleKeepsAudit, WriteKeepsAudit, DeathKeepsAudit DEF AuditNext, AuditDone
<1>3. QED
  BY <1>1, <1>2, PTL DEF AuditSpec

(* Rows that exist have their columns, a membership is given a role that   *)
(* was found, and an entry is lost only in the death of a process.         *)
THEOREM AuditTyped == AuditSpec => []AuditTypeOK
<1>1. AuditInv => AuditTypeOK
  BY DEF AuditInv, RbacInv, AuditTypeOK
<1>2. QED
  BY <1>1, AuditInvariant, PTL

(* The interceptor logs no change that was not made: the entry of a        *)
(* created row is there only when the row is, and the row of a deletion    *)
(* stays deleted.                                                          *)
THEOREM LogTellsTheTruth == AuditSpec => []LogIsTruthful
<1>1. AuditInv => LogIsTruthful
  <2>1. SUFFICES ASSUME AuditInv, NEW r \in RbacRequests, Logged(r)
                 PROVE  Done(r, rbacCall[r])
    BY DEF LogIsTruthful, Done
  <2>2. QED
    BY <2>1 DEF Logged, AuditInv, AnsweredAndDone
<1>2. QED
  BY <1>1, AuditInvariant, PTL

=============================================================================
