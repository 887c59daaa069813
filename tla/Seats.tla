------------------------------- MODULE Seats -------------------------------
(***************************************************************************)
(* TenantsService.addUser, which admits a user to a tenant if the tenant's *)
(* plan has a seat left.  It reads the membership, the plan's limit, the   *)
(* number of members and the member role in four statements and inserts in *)
(* a fifth; nothing is locked in between, and the limit it compares with   *)
(* is the one it read.  A slot is a handler in flight and is used again    *)
(* for the next request: Slots bounds how many additions overlap.          *)
(***************************************************************************)
EXTENDS Subscriptions, FiniteSets

CONSTANTS Slots, Users,
          Owner  \* the user who created each tenant

ASSUME SeatsAssumption ==
    /\ Nil \notin Users
    /\ Owner \in [Tenants -> Users]
    /\ IsFiniteSet(Slots) /\ Slots # {}
    /\ IsFiniteSet(Users)
    /\ \A l \in Limits : l >= 1  \* @Min(1) in the plan DTOs
    /\ \E l \in Limits : \A m \in Limits : m <= l  \* an INT column

VARIABLES members,     \* user_tenants: the members of each tenant
          memberRole,  \* the row of the default role "member" of each tenant
          addPc,       \* control state of each slot
          addCall,     \* the tenant and the user of its request
          addLimit     \* max_users as it was read

seatVars == <<members, memberRole, addPc, addCall, addLimit>>
allSeatVars == <<allSubVars, seatVars>>

AddSteps == {"findMember", "findLimit", "count", "findRole", "insert"}

(* What the code dereferences is there: the count is compared with a limit *)
(* that was found.                                                         *)
SeatTypeOK ==
    /\ members \in [Tenants -> SUBSET Users]
    /\ memberRole \in [Tenants -> {"live", "deleted"}]
    /\ addPc \in [Slots -> {"idle"} \cup AddSteps \cup Answers]
    /\ addCall \in [Slots -> [tenant : Tenants \cup {Nil}, user : Users \cup {Nil}]]
    /\ addLimit \in [Slots -> Limits \cup {Nil}]
    /\ \A s \in Slots : addPc[s] = "count" => addLimit[s] # Nil

(* createTenant has made the roles and the owner's membership.             *)
SeatInit ==
    /\ members = [t \in Tenants |-> {Owner[t]}]
    /\ memberRole = [t \in Tenants |-> "live"]
    /\ addPc = [s \in Slots |-> "idle"]
    /\ addCall = [s \in Slots |-> [tenant |-> Nil, user |-> Nil]]
    /\ addLimit = [s \in Slots |-> Nil]

----------------------------------------------------------------------------
AddGoto(s, step) == addPc' = [addPc EXCEPT ![s] = step]
AddReply(s, answer) == \E a \in Committed(answer) : AddGoto(s, a)

AddUser(s) ==
    /\ addPc[s] \notin AddSteps
    /\ \E t \in Tenants, u \in Users :
          addCall' = [addCall EXCEPT ![s] = [tenant |-> t, user |-> u]]
    /\ addLimit' = [addLimit EXCEPT ![s] = Nil]
    /\ AddGoto(s, "findMember")
    /\ UNCHANGED <<members, memberRole>>

FindMember(s) ==
    /\ addPc[s] = "findMember"
    /\ AddGoto(s, IF addCall[s].user \in members[addCall[s].tenant]
                  THEN "conflict" ELSE "findLimit")
    /\ UNCHANGED <<members, memberRole, addCall, addLimit>>

(* Faulty variant: no test for a tenant without a visible subscription.    *)
FindLimitUnchecked(s) ==
    /\ addPc[s] = "findLimit"
    /\ addLimit' = [addLimit EXCEPT ![s] =
                      IF VisibleRows(addCall[s].tenant) = {} THEN Nil
                      ELSE CHOOSE l \in Limits : TRUE]
    /\ AddGoto(s, "count")
    /\ UNCHANGED <<members, memberRole, addCall>>

FindLimit(s) ==
    LET visible == VisibleRows(addCall[s].tenant)
    IN  /\ addPc[s] = "findLimit"
        /\ \/ visible = {} /\ AddGoto(s, "forbidden") /\ UNCHANGED addLimit
           \/ \E r \in visible :
                 /\ addLimit' = [addLimit EXCEPT ![s] = catalogue[sub[r].plan].limit]
                 /\ AddGoto(s, "count")
        /\ UNCHANGED <<members, memberRole, addCall>>

(* Faulty variant: > where the code has >=.                                *)
CountMembersOffByOne(s) ==
    /\ addPc[s] = "count"
    /\ AddGoto(s, IF Cardinality(members[addCall[s].tenant]) > addLimit[s]
                  THEN "forbidden" ELSE "findRole")
    /\ UNCHANGED <<members, memberRole, addCall, addLimit>>

CountMembers(s) ==
    /\ addPc[s] = "count"
    /\ AddGoto(s, IF Cardinality(members[addCall[s].tenant]) >= addLimit[s]
                  THEN "forbidden" ELSE "findRole")
    /\ UNCHANGED <<members, memberRole, addCall, addLimit>>

FindRole(s) ==
    /\ addPc[s] = "findRole"
    /\ AddGoto(s, IF memberRole[addCall[s].tenant] = "live" THEN "insert" ELSE "notFound")
    /\ UNCHANGED <<members, memberRole, addCall, addLimit>>

(* UNIQUE(user_id, tenant_id) rejects a user admitted since FindMember.    *)
InsertMember(s) ==
    LET t == addCall[s].tenant
        u == addCall[s].user
    IN  /\ addPc[s] = "insert"
        /\ \/ u \in members[t] /\ AddGoto(s, "duplicate") /\ UNCHANGED members
           \/ /\ u \notin members[t]
              /\ members' = [members EXCEPT ![t] = @ \cup {u}]
              /\ AddReply(s, "created")
        /\ UNCHANGED <<memberRole, addCall, addLimit>>

FailAdd(s) ==
    /\ addPc[s] \in AddSteps
    /\ AddGoto(s, "failed")
    /\ UNCHANGED <<members, memberRole, addCall, addLimit>>

(* DELETE /roles/:id on the default role.  It cannot be created again: the *)
(* UNIQUE constraint on its name counts the deleted row.                   *)
DeleteMemberRole(t) ==
    /\ memberRole[t] = "live"
    /\ memberRole' = [memberRole EXCEPT ![t] = "deleted"]
    /\ UNCHANGED <<members, addPc, addCall, addLimit>>

AddWork(s) ==
    FindMember(s) \/ FindLimit(s) \/ CountMembers(s) \/ FindRole(s) \/ InsertMember(s)

SeatNext ==
    \/ \E s \in Slots : AddUser(s) \/ AddWork(s) \/ FailAdd(s)
    \/ \E t \in Tenants : DeleteMemberRole(t)

SeatsInit == SubsInit /\ SeatInit

SeatsNext ==
    \/ SeatNext /\ UNCHANGED allSubVars
    \/ SubsNext /\ UNCHANGED seatVars

SeatsSafety == SeatsInit /\ [][SeatsNext]_allSeatVars

----------------------------------------------------------------------------
(* The additions to t that have found a free seat and not taken it yet.    *)
Admitted(t) == {s \in Slots : addPc[s] \in {"findRole", "insert"} /\ addCall[s].tenant = t}

LargestLimit == CHOOSE l \in Limits : \A m \in Limits : m <= l

(* Additions that overlap can exceed the largest plan limit, but by no     *)
(* more than one member for each addition in flight beyond the first: the  *)
(* members of a tenant and the additions that were promised a seat are     *)
(* together fewer than that limit plus the number of slots, however often  *)
(* the slots are used and whatever happens to the plan meanwhile.          *)
SeatOvershootBounded ==
    \A t \in Tenants :
        Cardinality(members[t]) + Cardinality(Admitted(t)) < LargestLimit + Cardinality(Slots)

(* README.md promises that adding a user "validates plan user limit": no   *)
(* tenant has more members than the limit of the largest plan.  Two        *)
(* additions that count before either inserts exceed it.                   *)
SeatsWithinPlan == \A t \in Tenants : Cardinality(members[t]) <= LargestLimit

=============================================================================
