------------------------------ MODULE Platform ------------------------------
(***************************************************************************)
(* Plans, subscriptions and members in one database.  PlansService writes  *)
(* the plans table that the subscriptions refer to and the user limit is   *)
(* read from; here it is the requests of module Plans that change it,      *)
(* where Subscriptions and Seats alone are built on the abstract Catalogue.*)
(* The services share no state but the tables, and a statement of one      *)
(* falls between any two of the others.                                    *)
(***************************************************************************)
EXTENDS Plans, FiniteSets

CONSTANTS Tenants, SubRequests, Slots, Users, Owner

ASSUME PlatformAssumption ==
    /\ Nil \notin Tenants \cup SubRequests \cup Users
    /\ Owner \in [Tenants -> Users]
    /\ IsFiniteSet(Slots) /\ Slots # {}
    /\ IsFiniteSet(Users)
    /\ \A l \in Limits : l >= 1  \* @Min(1) in the plan DTOs
    /\ \E l \in Limits : \A m \in Limits : m <= l  \* an INT column

VARIABLES sub, subPc, subCall, subSeen,
          members, memberRole, addPc, addCall, addLimit

(* What the joins of SubscriptionQueries read of the plans table.          *)
Services == INSTANCE Seats WITH
    SeedLimit <- [p \in SeedPlans |-> SeedRow[p].limit],
    catalogue <- [p \in PlanIds |-> [state |-> plan[p].state, limit |-> plan[p].limit]]

subscriptionVars == <<sub, subPc, subCall, subSeen>>
memberVars == <<members, memberRole, addPc, addCall, addLimit>>
platformVars == <<planVars, subscriptionVars, memberVars>>

PlatformInit == PlanInit /\ Services!SubInit /\ Services!SeatInit

PlatformNext ==
    \/ PlanNext /\ UNCHANGED <<subscriptionVars, memberVars>>
    \/ Services!SubNext /\ UNCHANGED <<planVars, memberVars>>
    \/ Services!SeatNext /\ UNCHANGED <<planVars, subscriptionVars>>

PlatformSafety == PlatformInit /\ [][PlatformNext]_platformVars

(* A request that was sent is run to its answer: the event loop resumes    *)
(* every settled await, whichever services the other requests are at.      *)
PlatformSpec ==
    /\ PlatformSafety
    /\ \A r \in PlanRequests :
          WF_platformVars(PlanWork(r) /\ UNCHANGED <<subscriptionVars, memberVars>>)
    /\ \A r \in SubRequests :
          WF_platformVars(Services!SubWork(r) /\ UNCHANGED <<planVars, memberVars>>)
    /\ \A s \in Slots :
          WF_platformVars(Services!AddWork(s) /\ UNCHANGED <<planVars, subscriptionVars>>)

----------------------------------------------------------------------------
(* With the real plan service in the place of the catalogue, subscriptions *)
(* and the user limit still behave as their own models say: what was       *)
(* assumed of the plans table there is what PlansService does to it.       *)
ServicesCompose == Services!SeatsSafety

(* The deletion of a plan that was answered 204 ends its use for good: no  *)
(* tenant's limits are taken from it any more, whichever updates of the    *)
(* plan, subscriptions to it and changes to it were under way.             *)
DeletedPlanIsOutOfUse ==
    \A r \in PlanRequests, t \in Tenants :
        planPc[r] = "noContent" =>
            \A s \in Services!VisibleRows(t) : sub[s].plan # planCall[r].id

(* Every request to the three services that was sent is answered; no       *)
(* traffic at one of them starves a request at another.                    *)
PlatformAnswered ==
    /\ \A r \in PlanRequests : planPc[r] # "idle" ~> planPc[r] \in Answers
    /\ \A r \in SubRequests : subPc[r] # "idle" ~> subPc[r] \in Answers
    /\ \A s \in Slots : addPc[s] \in Services!AddSteps ~> addPc[s] \in Answers

=============================================================================
