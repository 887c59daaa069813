--------------------------- MODULE PlatformProofs ---------------------------
(***************************************************************************)
(* Proofs about Platform.  The invariant of PlansService carries over, it  *)
(* makes PlansService the catalogue that the other two services were       *)
(* proved on, and with that their theorems hold on the platform.           *)
(***************************************************************************)
EXTENDS Platform, PlansProofs

(* Module Seats with its theorems, on the state of the platform.           *)
Proved == INSTANCE SeatsProofs WITH
    SeedLimit <- [p \in SeedPlans |-> SeedRow[p].limit],
    catalogue <- [p \in PlanIds |-> [state |-> plan[p].state, limit |-> plan[p].limit]]

(* Subscriptions and members do not disturb PlansService: every theorem    *)
(* about Plans holds on the platform (the other services only read plans). *)
LEMMA PlatformKeepsPlans == PlatformSafety => PlansSafety
<1>1. PlatformInit => PlanInit
  BY DEF PlatformInit
<1>2. [PlatformNext]_platformVars => [PlanNext \/ PlansDone]_planVars
  BY DEF PlatformNext, platformVars, planVars
<1>3. QED
  BY <1>1, <1>2, PTL DEF PlatformSafety, PlansSafety

(* What a step of the platform is to Seats: one of its steps, or none.     *)
LEMMA PlatformStepComposes ==
  ASSUME PlanInv, [PlatformNext]_platformVars
  PROVE  [Services!SeatsNext]_(Services!allSeatVars)
<1> USE DEF Services!allSeatVars, Services!allSubVars, Services!subVars, Services!seatVars,
            subscriptionVars, memberVars
<1>1. CASE UNCHANGED platformVars
  BY <1>1 DEF platformVars, planVars
<1>2. CASE PlanNext /\ UNCHANGED <<subscriptionVars, memberVars>>
  <2>1. Table!CatalogueNext \/ UNCHANGED View
    BY <1>2, CatalogueStep DEF PlanInv, PlanNext
  <2>2. CASE Table!CatalogueNext
    <3>1. Services!CatalogueNext
      BY <2>2 DEF Table!CatalogueNext, Table!PublishPlan, Table!ResizePlan, Table!RetirePlan,
                  Table!PlanLive, Services!CatalogueNext, Services!PublishPlan,
                  Services!ResizePlan, Services!RetirePlan, Services!PlanLive
    <3>2. QED
      BY <1>2, <3>1 DEF Services!SeatsNext, Services!SubsNext
  <2>3. CASE UNCHANGED View
    BY <1>2, <2>3 DEF View
  <2>4. QED
    BY <2>1, <2>2, <2>3
<1>3. CASE Services!SubNext /\ UNCHANGED <<planVars, memberVars>>
  BY <1>3 DEF planVars, Services!SeatsNext, Services!SubsNext
<1>4. CASE Services!SeatNext /\ UNCHANGED <<planVars, subscriptionVars>>
  BY <1>4 DEF planVars, Services!SeatsNext
<1>5. QED
  BY <1>1, <1>2, <1>3, <1>4 DEF PlatformNext

LEMMA PlatformInitComposes == PlatformInit => Services!SeatsInit
<1> SUFFICES ASSUME PlatformInit PROVE Services!SeatsInit
  OBVIOUS
<1>1. \A p \in PlanIds :
        [state |-> plan[p].state, limit |-> plan[p].limit] =
           IF p \in SeedPlans THEN [state |-> "live", limit |-> SeedRow[p].limit]
                              ELSE [state |-> "absent", limit |-> Nil]
  BY PlansAssumption DEF PlatformInit, PlanInit, PlanIds
<1>2. Services!CatalogueInit
  BY <1>1 DEF Services!CatalogueInit
<1>3. QED
  BY <1>2 DEF PlatformInit, Services!SeatsInit, Services!SubsInit

(* The three services in one process are, to subscriptions and members,    *)
(* what their own models assume: PlansService under any interleaving is a  *)
(* catalogue (plans.service.ts, subscriptions.service.ts,                  *)
(* tenants.service.ts addUser on one database).                            *)
THEOREM ServicesAreComposed == PlatformSafety => ServicesCompose
<1>1. PlatformSafety => []PlanInv
  BY PlatformKeepsPlans, PlanInvariant, PTL
<1>2. PlanInv /\ [PlatformNext]_platformVars => [Services!SeatsNext]_(Services!allSeatVars)
  BY PlatformStepComposes
<1>3. QED
  BY <1>1, <1>2, PlatformInitComposes, PTL
     DEF PlatformSafety, ServicesCompose, Services!SeatsSafety

(* Once a plan's deletion was answered 204, no tenant's request limit or   *)
(* user limit is taken from it again (the join of FIND_ACTIVE_BY_TENANT    *)
(* on plans whose deleted_at no later statement clears).                   *)
THEOREM DeletedPlansAreOutOfUse == PlatformSafety => []DeletedPlanIsOutOfUse
<1>1. PlanInv => DeletedPlanIsOutOfUse
  <2>1. ASSUME PlanInv, NEW r \in PlanRequests, NEW t \in Tenants, planPc[r] = "noContent",
               NEW s \in Services!VisibleRows(t), sub[s].plan = planCall[r].id
        PROVE  FALSE
    <3>1. planCall[r].id \in PlanIds /\ plan[planCall[r].id].state = "deleted"
      BY <2>1 DEF PlanInv, PlanStructure, PlanFits, DeletedMeansGone
    <3>2. Services!PlanLive(planCall[r].id)
      BY <2>1 DEF Services!VisibleRows
    <3>3. QED
      BY <3>1, <3>2 DEF Services!PlanLive
  <2>2. QED
    BY <2>1 DEF DeletedPlanIsOutOfUse
<1>2. QED
  BY <1>1, PlatformKeepsPlans, PlanInvariant, PTL

----------------------------------------------------------------------------
(* The two instances of Seats are the same module on the same state, here  *)
(* read definition by definition.                                          *)
LEMMA SameCardinality ==
  ASSUME NEW S PROVE Services!Cardinality(S) = Proved!Cardinality(S)
BY DEF Services!Cardinality, Proved!Cardinality

LEMMA SameCatalogue == Services!CatalogueNext <=> Proved!CatalogueNext
BY DEF Services!CatalogueNext, Services!PublishPlan, Services!ResizePlan,
       Services!RetirePlan, Services!PlanLive, Proved!CatalogueNext,
       Proved!PublishPlan, Proved!ResizePlan, Proved!RetirePlan,
       Proved!PlanLive

LEMMA SameSubscriptions == Services!SubNext <=> Proved!SubNext
<1>1. ASSUME NEW r \in SubRequests PROVE Services!SubWork(r) <=> Proved!SubWork(r)
  <2>1. Services!GetPlan(r) <=> Proved!GetPlan(r)
    BY DEF Services!GetPlan, Services!PlanLive, Services!SubGoto,
           Proved!GetPlan, Proved!PlanLive, Proved!SubGoto
  <2>2. Services!FindActive(r) <=> Proved!FindActive(r)
    BY DEF Services!FindActive, Services!VisibleRows, Services!ActiveRows,
           Services!PlanLive, Services!SubGoto, Proved!FindActive,
           Proved!VisibleRows, Proved!ActiveRows, Proved!PlanLive,
           Proved!SubGoto
  <2>3. Services!CancelActive(r) <=> Proved!CancelActive(r)
    BY DEF Services!CancelActive, Services!Canceled, Services!ActiveRows,
           Services!SubGoto, Proved!CancelActive, Proved!Canceled,
           Proved!ActiveRows, Proved!SubGoto
  <2>4. Services!CreateSub(r) <=> Proved!CreateSub(r)
    BY DEF Services!CreateSub, Services!ActiveRows, Services!NewSubRow,
           Services!SubReply, Services!SubGoto, Services!Committed,
           Proved!CreateSub, Proved!ActiveRows, Proved!NewSubRow,
           Proved!SubReply, Proved!SubGoto, Proved!Committed
  <2>5. Services!CancelById(r) <=> Proved!CancelById(r)
    BY DEF Services!CancelById, Services!Canceled, Services!SubReply,
           Services!SubGoto, Services!Committed, Proved!CancelById,
           Proved!Canceled, Proved!SubReply, Proved!SubGoto,
           Proved!Committed
  <2>6. QED
    BY <2>1, <2>2, <2>3, <2>4, <2>5 DEF Services!SubWork, Proved!SubWork
<1>2. ASSUME NEW r \in SubRequests PROVE Services!SubStep(r) <=> Proved!SubStep(r)
  <2>1. Services!Subscribe(r) <=> Proved!Subscribe(r)
    BY DEF Services!Subscribe, Services!BeginSub, Services!SubGoto,
           Services!KnownPlans, Proved!Subscribe, Proved!BeginSub,
           Proved!SubGoto, Proved!KnownPlans
  <2>2. Services!ChangePlan(r) <=> Proved!ChangePlan(r)
    BY DEF Services!ChangePlan, Services!BeginSub, Services!SubGoto,
           Services!KnownPlans, Proved!ChangePlan, Proved!BeginSub,
           Proved!SubGoto, Proved!KnownPlans
  <2>3. Services!CancelSubscription(r) <=> Proved!CancelSubscription(r)
    BY DEF Services!CancelSubscription, Services!BeginSub,
           Services!SubGoto, Proved!CancelSubscription, Proved!BeginSub,
           Proved!SubGoto
  <2>4. Services!FailSub(r) <=> Proved!FailSub(r)
    BY DEF Services!FailSub, Services!SubSteps, Services!SubGoto,
           Proved!FailSub, Proved!SubSteps, Proved!SubGoto
  <2>5. QED
    BY <1>1, <2>1, <2>2, <2>3, <2>4 DEF Services!SubStep, Proved!SubStep
<1>3. QED
  BY <1>2 DEF Services!SubNext, Proved!SubNext

LEMMA SameMembers == Services!SeatNext <=> Proved!SeatNext
<1>1. ASSUME NEW s \in Slots PROVE Services!AddWork(s) <=> Proved!AddWork(s)
  <2>1. Services!FindMember(s) <=> Proved!FindMember(s)
    BY DEF Services!FindMember, Services!AddGoto, Proved!FindMember,
           Proved!AddGoto
  <2>2. Services!FindLimit(s) <=> Proved!FindLimit(s)
    BY DEF Services!FindLimit, Services!VisibleRows, Services!ActiveRows,
           Services!PlanLive, Services!AddGoto, Proved!FindLimit,
           Proved!VisibleRows, Proved!ActiveRows, Proved!PlanLive,
           Proved!AddGoto
  <2>3. Services!CountMembers(s) <=> Proved!CountMembers(s)
    BY SameCardinality DEF Services!CountMembers, Services!AddGoto,
                           Proved!CountMembers, Proved!AddGoto
  <2>4. Services!FindRole(s) <=> Proved!FindRole(s)
    BY DEF Services!FindRole, Services!AddGoto, Proved!FindRole,
           Proved!AddGoto
  <2>5. Services!InsertMember(s) <=> Proved!InsertMember(s)
    BY DEF Services!InsertMember, Services!AddGoto, Services!AddReply,
           Services!Committed, Proved!InsertMember, Proved!AddGoto,
           Proved!AddReply, Proved!Committed
  <2>6. QED
    BY <2>1, <2>2, <2>3, <2>4, <2>5 DEF Services!AddWork, Proved!AddWork
<1>2. ASSUME NEW s \in Slots
      PROVE  (Services!AddUser(s) <=> Proved!AddUser(s)) /\ (Services!FailAdd(s) <=> Proved!FailAdd(s))
  BY DEF Services!AddUser, Services!FailAdd, Services!AddSteps,
         Services!AddGoto, Proved!AddUser, Proved!FailAdd, Proved!AddSteps,
         Proved!AddGoto
<1>3. ASSUME NEW t PROVE Services!DeleteMemberRole(t) <=> Proved!DeleteMemberRole(t)
  BY DEF Services!DeleteMemberRole, Proved!DeleteMemberRole
<1>4. QED
  BY <1>1, <1>2, <1>3 DEF Services!SeatNext, Proved!SeatNext

LEMMA SameSeats ==
  /\ Services!SeatsInit <=> Proved!SeatsInit
  /\ [Services!SeatsNext]_(Services!allSeatVars) <=> [Proved!SeatsNext]_(Proved!allSeatVars)
<1>1. Services!SeatsInit <=> Proved!SeatsInit
  BY DEF Services!SeatsInit, Services!SubsInit, Services!CatalogueInit,
         Services!SubInit, Services!SeatInit, Proved!SeatsInit,
         Proved!SubsInit, Proved!CatalogueInit, Proved!SubInit,
         Proved!SeatInit
<1>2. Services!SeatsNext <=> Proved!SeatsNext
  BY SameCatalogue, SameSubscriptions, SameMembers
     DEF Services!SeatsNext, Services!SubsNext, Services!allSubVars, Services!subVars,
         Services!seatVars, Proved!SeatsNext, Proved!SubsNext, Proved!allSubVars,
         Proved!subVars, Proved!seatVars
<1>3. QED
  BY <1>1, <1>2 DEF Services!allSeatVars, Services!allSubVars, Services!subVars,
                    Services!seatVars, Proved!allSeatVars, Proved!allSubVars,
                    Proved!subVars, Proved!seatVars

(* The assumptions of Seats about its constants, from those of Platform.   *)
LEMMA SeatsApply == Proved!CatalogueAssumption /\ Proved!SubscriptionsAssumption /\ Proved!SeatsAssumption
<1>1. Proved!CatalogueAssumption
  BY PlansAssumption DEF Proved!CatalogueAssumption, PlanIds, PlanRow
<1>2. \A S : IsFiniteSet(S) => Proved!IsFiniteSet(S)
  BY DEF IsFiniteSet, Proved!IsFiniteSet
<1>3. Proved!SubscriptionsAssumption
  BY PlatformAssumption DEF Proved!SubscriptionsAssumption
<1>4. Proved!SeatsAssumption
  BY <1>2, PlatformAssumption DEF Proved!SeatsAssumption
<1>5. QED
  BY <1>1, <1>3, <1>4

(* The properties of the two services, read on the platform.              *)
Guarantees ==
    /\ Services!AtMostOneActive /\ Services!NoSilentLapse
    /\ Services!CanceledByItsOwn /\ Services!CancelTakesEffect
    /\ Services!SeatOvershootBounded

(* The invariant proved for Seats is the conjunction of its guarantees.    *)
LEMMA SameGuarantees == Proved!SeatInv => Guarantees
<1> SUFFICES ASSUME Proved!SeatInv PROVE Guarantees
  OBVIOUS
<1>1. Services!AtMostOneActive
  BY DEF Proved!SeatInv, Proved!SubInv, Proved!AtMostOneActive, Services!AtMostOneActive
<1>2. Services!NoSilentLapse
  BY DEF Proved!SeatInv, Proved!SubInv, Proved!NoSilentLapse, Proved!ActiveRows,
         Services!NoSilentLapse, Services!ActiveRows
<1>3. Services!CanceledByItsOwn
  BY DEF Proved!SeatInv, Proved!SubInv, Proved!CanceledByItsOwn, Services!CanceledByItsOwn
<1>4. Services!CancelTakesEffect
  BY DEF Proved!SeatInv, Proved!SubInv, Proved!CancelTakesEffect, Services!CancelTakesEffect
<1>5. Services!SeatOvershootBounded
  <2>1. Proved!SeatOvershootBounded
    BY DEF Proved!SeatInv
  <2>2. Services!LargestLimit = Proved!LargestLimit
    BY DEF Services!LargestLimit, Proved!LargestLimit
  <2>3. \A t \in Tenants : Services!Admitted(t) = Proved!Admitted(t)
    BY DEF Services!Admitted, Proved!Admitted
  <2>4. QED
    BY <2>1, <2>2, <2>3, SameCardinality
       DEF Proved!SeatOvershootBounded, Services!SeatOvershootBounded
<1>6. QED
  BY <1>1, <1>2, <1>3, <1>4, <1>5 DEF Guarantees

----------------------------------------------------------------------------
(* What Subscriptions and Seats guarantee, with the real PlansService      *)
(* under them: of overlapping subscriptions and plan changes one wins, a   *)
(* subscription ends only by a request of its own tenant that meant it, a  *)
(* cancellation answered 204 lasts, and additions overshoot the user limit *)
(* by no more than the ones in flight (SubscriptionsService and addUser).  *)
THEOREM GuaranteesHold == PlatformSafety => []Guarantees
<1>1. PlatformSafety => Proved!SeatsSafety
  BY ServicesAreComposed, SameSeats, PTL
     DEF ServicesCompose, Services!SeatsSafety, Proved!SeatsSafety
<1>2. Proved!SeatsSafety => []Proved!SeatInv
  BY SeatsApply, Proved!SeatInvariant, PTL
<1>3. QED
  BY <1>1, <1>2, SameGuarantees, PTL

(* SubscriptionsService keeps the promise of Entitlement also on the table *)
(* that PlansService writes and beside addUser: a tenant is granted and    *)
(* loses one subscription at a time, and a past one never returns.         *)
THEOREM EntitlementHolds == PlatformSafety => Services!ImplementsEntitlement
<1>1. PlatformSafety => Proved!SeatsSafety
  BY ServicesAreComposed, SameSeats, PTL
     DEF ServicesCompose, Services!SeatsSafety, Proved!SeatsSafety
<1>2. Proved!SeatsSafety => Proved!SubsSafety
  BY SeatsApply, Proved!SeatsKeepSubscriptions, PTL
<1>3. Proved!SubsSafety => Proved!ImplementsEntitlement
  BY SeatsApply, Proved!EntitlementImplemented, PTL
<1>4. Proved!currentRow = Services!currentRow /\ Proved!currentRow' = Services!currentRow'
  BY DEF Proved!currentRow, Proved!TheRow, Proved!ActiveRows,
         Services!currentRow, Services!TheRow, Services!ActiveRows
<1>5. Proved!Promise!Init <=> Services!Promise!Init
  BY <1>4 DEF Proved!Promise!Init, Services!Promise!Init
<1>6. [Proved!Promise!Next]_<<Proved!currentRow, {s \in SubRequests : sub[s].status = "canceled"}>>
      <=> [Services!Promise!Next]_<<Services!currentRow, {s \in SubRequests : sub[s].status = "canceled"}>>
  BY <1>4 DEF Proved!Promise!Next, Proved!Promise!Grant, Proved!Promise!Revoke,
              Services!Promise!Next, Services!Promise!Grant, Services!Promise!Revoke
<1>7. QED
  BY <1>1, <1>2, <1>3, <1>5, <1>6, PTL
     DEF Proved!ImplementsEntitlement, Proved!Promise!Spec,
         Services!ImplementsEntitlement, Services!Promise!Spec

----------------------------------------------------------------------------
(* How many statements a request at step pc has at most before it is       *)
(* answered; an answer has none.                                           *)
StepsLeft(pc) ==
    CASE pc = "idle" -> 6
      [] pc = "findMember" -> 5
      [] pc = "findLimit" -> 4
      [] pc \in {"findById", "getPlanById", "count"} -> 3
      [] pc \in {"findByName", "findActive", "cancelActive", "findRole"} -> 2
      [] pc \in {"insert", "update", "delete", "create", "cancelById"} -> 1
      [] OTHER -> 0

Moved(pc, new) == new = pc \/ StepsLeft(new) < StepsLeft(pc)

(* No request repeats a statement or is taken up again once answered; only *)
(* a slot whose addition was answered begins another.                      *)
RequestsMoveOn ==
    /\ \A r \in PlanRequests : Moved(planPc[r], planPc'[r])
    /\ \A r \in SubRequests : Moved(subPc[r], subPc'[r])
    /\ \A s \in Slots :
          \/ Moved(addPc[s], addPc'[s])
          \/ addPc[s] \notin Services!AddSteps /\ addPc'[s] = "findMember"

LEMMA PlanMovesOn ==
  ASSUME PlanInv, PlanNext, NEW r \in PlanRequests
  PROVE  Moved(planPc[r], planPc'[r])
<1> USE DEF Moved, StepsLeft, PlanGoto, PlanReply, Committed, BeginPlan
<1>1. planPc \in [PlanRequests -> {"idle"} \cup PlanSteps \cup Answers]
  BY DEF PlanInv, PlanStructure, PlanTypeOK
<1>2. PICK q \in PlanRequests : PlanStep(q)
  BY DEF PlanNext
<1>3. CASE CreatePlan(q) \/ UpdatePlan(q) \/ DeletePlan(q)
  BY <1>1, <1>3 DEF CreatePlan, UpdatePlan, DeletePlan
<1>4. CASE FindPlanById(q) \/ FindPlanByName(q)
  BY <1>1, <1>4 DEF FindPlanById, FindPlanByName
<1>5. CASE InsertPlan(q)
  BY <1>1, <1>5 DEF InsertPlan
<1>6. CASE UpdatePlanRow(q)
  BY <1>1, <1>6 DEF UpdatePlanRow
<1>7. CASE DeletePlanRow(q)
  BY <1>1, <1>7 DEF DeletePlanRow
<1>8. CASE FailPlan(q)
  BY <1>1, <1>8 DEF FailPlan, PlanSteps
<1>9. QED
  BY <1>2, <1>3, <1>4, <1>5, <1>6, <1>7, <1>8 DEF PlanStep, PlanWork

LEMMA SubMovesOn ==
  ASSUME Proved!SeatInv, Proved!SubNext, NEW r \in SubRequests
  PROVE  Moved(subPc[r], subPc'[r])
<1> USE DEF Moved, StepsLeft, Proved!SubGoto, Proved!SubReply, Proved!Committed,
            Proved!BeginSub
<1>1. subPc \in [SubRequests -> {"idle"} \cup Proved!SubSteps \cup Proved!Answers]
  BY DEF Proved!SeatInv, Proved!SubInv, Proved!SubStructure, Proved!SubTypeOK
<1>2. PICK q \in SubRequests : Proved!SubStep(q)
  BY DEF Proved!SubNext
<1>3. CASE Proved!Subscribe(q) \/ Proved!ChangePlan(q) \/ Proved!CancelSubscription(q)
  BY <1>1, <1>3 DEF Proved!Subscribe, Proved!ChangePlan, Proved!CancelSubscription
<1>4. CASE Proved!GetPlan(q) \/ Proved!FindActive(q) \/ Proved!CancelActive(q)
  BY <1>1, <1>4 DEF Proved!GetPlan, Proved!FindActive, Proved!CancelActive
<1>5. CASE Proved!CreateSub(q) \/ Proved!CancelById(q)
  BY <1>1, <1>5 DEF Proved!CreateSub, Proved!CancelById
<1>6. CASE Proved!FailSub(q)
  BY <1>1, <1>6 DEF Proved!FailSub, Proved!SubSteps
<1>7. QED
  BY <1>2, <1>3, <1>4, <1>5, <1>6 DEF Proved!SubStep, Proved!SubWork

LEMMA AddMovesOn ==
  ASSUME Proved!SeatInv, Proved!SeatNext, NEW s \in Slots
  PROVE  \/ Moved(addPc[s], addPc'[s])
         \/ addPc[s] \notin Proved!AddSteps /\ addPc'[s] = "findMember"
<1> USE DEF Moved, StepsLeft, Proved!AddGoto, Proved!AddReply, Proved!Committed
<1>1. addPc \in [Slots -> {"idle"} \cup Proved!AddSteps \cup Proved!Answers]
  BY DEF Proved!SeatInv, Proved!SeatTypeOK
<1>2. ASSUME NEW q \in Slots, Proved!AddUser(q)
      PROVE  addPc'[s] = addPc[s] \/ (addPc[s] \notin Proved!AddSteps /\ addPc'[s] = "findMember")
  BY <1>1, <1>2 DEF Proved!AddUser
<1>3. ASSUME NEW q \in Slots, Proved!AddWork(q) \/ Proved!FailAdd(q)
      PROVE  Moved(addPc[s], addPc'[s])
  <2>1. CASE Proved!FindMember(q) \/ Proved!FindLimit(q)
    <3>1. \/ /\ addPc[q] = "findMember"
             /\ \E a \in {"conflict", "findLimit"} : addPc' = [addPc EXCEPT ![q] = a]
          \/ /\ addPc[q] = "findLimit"
             /\ \E a \in {"forbidden", "count"} : addPc' = [addPc EXCEPT ![q] = a]
      BY <2>1 DEF Proved!FindMember, Proved!FindLimit
    <3>2. QED
      BY <1>1, <3>1
  <2>2. CASE Proved!CountMembers(q) \/ Proved!FindRole(q)
    BY <1>1, <2>2 DEF Proved!CountMembers, Proved!FindRole
  <2>3. CASE Proved!InsertMember(q)
    BY <1>1, <2>3 DEF Proved!InsertMember
  <2>4. CASE Proved!FailAdd(q)
    BY <1>1, <2>4 DEF Proved!FailAdd, Proved!AddSteps
  <2>5. QED
    BY <1>3, <2>1, <2>2, <2>3, <2>4 DEF Proved!AddWork
<1>4. ASSUME NEW t \in Tenants, Proved!DeleteMemberRole(t)
      PROVE  addPc' = addPc
  BY <1>4 DEF Proved!DeleteMemberRole
<1>5. QED
  BY <1>2, <1>3, <1>4 DEF Proved!SeatNext

(* The safety half of PlatformAnswered: under the fairness of PlatformSpec *)
(* a request is answered because its statements run out, whatever runs in  *)
(* between (no handler of the three services loops or retries).            *)
THEOREM StatementsRunOut == PlatformSafety => [][RequestsMoveOn]_platformVars
<1>1. ASSUME PlanInv, Proved!SeatInv, [PlatformNext]_platformVars
      PROVE  [RequestsMoveOn]_platformVars
  <2>1. CASE PlanNext /\ UNCHANGED <<subscriptionVars, memberVars>>
    BY <1>1, <2>1, PlanMovesOn DEF RequestsMoveOn, subscriptionVars, memberVars, Moved
  <2>2. CASE Services!SubNext /\ UNCHANGED <<planVars, memberVars>>
    BY <1>1, <2>2, SameSubscriptions, SubMovesOn
       DEF RequestsMoveOn, planVars, memberVars, Moved
  <2>3. CASE Services!SeatNext /\ UNCHANGED <<planVars, subscriptionVars>>
    <3>1. Services!AddSteps = Proved!AddSteps
      BY DEF Services!AddSteps, Proved!AddSteps
    <3>2. QED
      BY <1>1, <2>3, <3>1, SameMembers, AddMovesOn
         DEF RequestsMoveOn, planVars, subscriptionVars, Moved
  <2>4. QED
    BY <1>1, <2>1, <2>2, <2>3 DEF PlatformNext
<1>2. PlatformSafety => []PlanInv
  BY PlatformKeepsPlans, PlanInvariant, PTL
<1>3. PlatformSafety => []Proved!SeatInv
  BY ServicesAreComposed, SameSeats, SeatsApply, Proved!SeatInvariant, PTL
     DEF ServicesCompose, Services!SeatsSafety, Proved!SeatsSafety
<1>4. QED
  BY <1>1, <1>2, <1>3, PTL DEF PlatformSafety

=============================================================================
