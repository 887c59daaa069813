---------------------------- MODULE SeatsProofs ----------------------------
(***************************************************************************)
(* Proofs about Seats for every number of overlapping additions, and any   *)
(* subscriptions and plans changing under them.                            *)
(***************************************************************************)
EXTENDS Seats, SubscriptionsProofs, FiniteSetTheorems

(* A slot that was ever used has a tenant and a user.                      *)
SeatFits ==
    \A s \in Slots : addPc[s] # "idle" => addCall[s].tenant # Nil /\ addCall[s].user # Nil

SeatInv == SubInv /\ SeatTypeOK /\ SeatFits /\ SeatOvershootBounded

SeatTotal(t) == Cardinality(members[t]) + Cardinality(Admitted(t))

LEMMA LargestSeatLimit ==
  /\ LargestLimit \in Limits /\ LargestLimit \in Nat \ {0}
  /\ \A l \in Limits : l \in Nat /\ l <= LargestLimit
<1>1. LargestLimit \in Limits /\ \A l \in Limits : l <= LargestLimit
  BY SeatsAssumption DEF LargestLimit
<1>2. QED
  BY <1>1, SeatsAssumption, CatalogueAssumption

LEMMA MembersFinite ==
  ASSUME SeatTypeOK, NEW t \in Tenants
  PROVE  IsFiniteSet(members[t]) /\ Cardinality(members[t]) \in Nat
<1>1. members[t] \in SUBSET Users
  BY DEF SeatTypeOK
<1>2. QED
  BY <1>1, SeatsAssumption, FS_Subset, FS_CardinalityType

LEMMA AdmittedFinite ==
  ASSUME NEW t \in Tenants
  PROVE  /\ IsFiniteSet(Admitted(t))
         /\ Cardinality(Admitted(t)) \in Nat
         /\ Cardinality(Admitted(t)) <= Cardinality(Slots)
<1>1. Admitted(t) \in SUBSET Slots
  BY DEF Admitted
<1>2. QED
  BY <1>1, SeatsAssumption, FS_Subset, FS_CardinalityType

LEMMA SlotsCounted == Cardinality(Slots) \in Nat \ {0}
BY SeatsAssumption, FS_CardinalityType, FS_EmptySet

LEMMA SeatInitInv == SeatsInit => SeatInv
<1> SUFFICES ASSUME SeatsInit PROVE SeatInv
  OBVIOUS
<1>1. SubInv
  BY SubInitInv DEF SeatsInit
<1>2. SeatTypeOK /\ SeatFits
  BY SeatsAssumption DEF SeatsInit, SeatInit, SeatTypeOK, SeatFits
<1>3. ASSUME NEW t \in Tenants
      PROVE  Cardinality(members[t]) = 1 /\ Cardinality(Admitted(t)) = 0
  <2>1. Admitted(t) = {} /\ members[t] = {Owner[t]}
    BY DEF SeatsInit, SeatInit, Admitted
  <2>2. QED
    BY <2>1, FS_EmptySet, FS_Singleton
<1>4. SeatOvershootBounded
  BY <1>3, LargestSeatLimit, SlotsCounted DEF SeatOvershootBounded
<1>5. QED
  BY <1>1, <1>2, <1>4 DEF SeatInv

----------------------------------------------------------------------------
(* The limit that FindLimit reads is that of an existing plan.             *)
LEMMA VisibleLimit ==
  ASSUME SubInv, NEW t, NEW r \in VisibleRows(t)
  PROVE  catalogue[sub[r].plan].limit \in Limits
<1>1. r \in SubRequests /\ sub[r].status = "active" /\ PlanLive(sub[r].plan)
  BY DEF VisibleRows, ActiveRows
<1>2. sub[r] \in SubRow /\ sub[r].plan # Nil
  BY <1>1 DEF SubInv, SubStructure, SubTypeOK
<1>3. sub[r].plan \in PlanIds
  BY <1>2 DEF SubRow
<1>4. QED
  BY <1>1, <1>3 DEF SubInv, SubStructure, CatalogueTypeOK, PlanLive

LEMMA SeatStepTyped ==
  ASSUME SubInv, SeatTypeOK, SeatFits, SeatNext
  PROVE  SeatTypeOK' /\ SeatFits'
<1> USE DEF SeatTypeOK, SeatFits, AddSteps, AddGoto, AddReply, Committed, Answers
<1>0. Nil \notin Tenants /\ Nil \notin Users /\ Nil \notin Limits
  BY SubscriptionsAssumption, SeatsAssumption, CatalogueAssumption
<1>1. ASSUME NEW s \in Slots, AddUser(s)
      PROVE  SeatTypeOK' /\ SeatFits'
  BY <1>0, <1>1 DEF AddUser
<1>2. ASSUME NEW s \in Slots, FindMember(s) \/ CountMembers(s) \/ FindRole(s) \/ FailAdd(s)
      PROVE  SeatTypeOK' /\ SeatFits'
  BY <1>2 DEF FindMember, CountMembers, FindRole, FailAdd
<1>3. ASSUME NEW s \in Slots, FindLimit(s)
      PROVE  SeatTypeOK' /\ SeatFits'
  <2>1. CASE AddGoto(s, "forbidden") /\ UNCHANGED addLimit
    BY <1>3, <2>1 DEF FindLimit
  <2>2. ASSUME NEW l \in Limits, addLimit' = [addLimit EXCEPT ![s] = l], AddGoto(s, "count")
        PROVE  SeatTypeOK' /\ SeatFits'
    BY <1>0, <1>3, <2>2 DEF FindLimit
  <2>3. QED
    BY <1>3, <2>1, <2>2, VisibleLimit DEF FindLimit
<1>4. ASSUME NEW s \in Slots, InsertMember(s)
      PROVE  SeatTypeOK' /\ SeatFits'
  <2>1. addCall[s].tenant \in Tenants /\ addCall[s].user \in Users
    BY <1>4 DEF InsertMember
  <2>2. members' \in [Tenants -> SUBSET Users]
    BY <1>4, <2>1 DEF InsertMember
  <2>3. QED
    BY <1>4, <2>2 DEF InsertMember
<1>5. ASSUME NEW t \in Tenants, DeleteMemberRole(t)
      PROVE  SeatTypeOK' /\ SeatFits'
  BY <1>5 DEF DeleteMemberRole
<1>6. QED
  BY <1>1, <1>2, <1>3, <1>4, <1>5 DEF SeatNext, AddWork

----------------------------------------------------------------------------
(* Three ways in which a step changes the members of a tenant and the      *)
(* additions that were promised a seat.                                    *)

(* No member is added and no seat promised: the sum does not grow.         *)
LEMMA NoSeatTaken ==
  ASSUME SeatInv, SeatTypeOK', NEW t \in Tenants,
         members'[t] = members[t], Admitted(t)' \subseteq Admitted(t)
  PROVE  SeatTotal(t)' < LargestLimit + Cardinality(Slots)
<1>1. Cardinality(Admitted(t)') <= Cardinality(Admitted(t)) /\ Cardinality(Admitted(t)') \in Nat
  BY AdmittedFinite, FS_Subset, FS_CardinalityType
<1>2. /\ Cardinality(members[t]) \in Nat /\ Cardinality(Admitted(t)) \in Nat
      /\ SeatTotal(t) < LargestLimit + Cardinality(Slots)
  BY MembersFinite, AdmittedFinite DEF SeatInv, SeatOvershootBounded, SeatTotal
<1>3. QED
  BY <1>1, <1>2, LargestSeatLimit, SlotsCounted DEF SeatTotal

(* A seat is promised because a limit that was read is not reached yet:    *)
(* then the members alone are fewer than the largest limit, and no more    *)
(* than all slots hold a promise.                                          *)
LEMMA SeatPromised ==
  ASSUME SeatInv, SeatTypeOK', NEW t \in Tenants, NEW s \in Slots,
         members'[t] = members[t], Cardinality(members[t]) < LargestLimit
  PROVE  SeatTotal(t)' < LargestLimit + Cardinality(Slots)
<1>1. Admitted(t)' \in SUBSET Slots
  BY DEF Admitted
<1>2. Cardinality(Admitted(t)') <= Cardinality(Slots) /\ Cardinality(Admitted(t)') \in Nat
  BY <1>1, SeatsAssumption, FS_Subset, FS_CardinalityType
<1>3. Cardinality(members[t]) \in Nat
  BY MembersFinite DEF SeatInv
<1>4. QED
  BY <1>2, <1>3, LargestSeatLimit, SlotsCounted DEF SeatTotal

(* A promise is redeemed: one more member, one promise less.               *)
LEMMA SeatTaken ==
  ASSUME SeatInv, SeatTypeOK', NEW t \in Tenants, NEW s \in Admitted(t), NEW u,
         members'[t] = members[t] \cup {u}, Admitted(t)' = Admitted(t) \ {s}
  PROVE  SeatTotal(t)' < LargestLimit + Cardinality(Slots)
<1>1. /\ Cardinality(Admitted(t)') = Cardinality(Admitted(t)) - 1
      /\ Cardinality(Admitted(t)) \in Nat
  BY AdmittedFinite, FS_RemoveElement
<1>2. /\ Cardinality(members'[t]) <= Cardinality(members[t]) + 1
      /\ Cardinality(members'[t]) \in Nat /\ Cardinality(members[t]) \in Nat
  <2>1. IsFiniteSet(members[t]) /\ Cardinality(members[t]) \in Nat
    BY MembersFinite DEF SeatInv
  <2>2. /\ IsFiniteSet(members[t] \cup {u})
        /\ Cardinality(members[t] \cup {u}) =
              IF u \in members[t] THEN Cardinality(members[t]) ELSE Cardinality(members[t]) + 1
    BY <2>1, FS_AddElement, Zenon
  <2>3. Cardinality(members[t] \cup {u}) \in Nat
    BY <2>2, FS_CardinalityType
  <2>4. QED
    BY <2>1, <2>2, <2>3
<1>3. SeatTotal(t) < LargestLimit + Cardinality(Slots)
  BY DEF SeatInv, SeatOvershootBounded, SeatTotal
<1>4. QED
  BY <1>1, <1>2, <1>3, LargestSeatLimit, SlotsCounted DEF SeatTotal

LEMMA SeatStepBounded ==
  ASSUME SeatInv, SeatTypeOK', SeatNext, NEW t \in Tenants
  PROVE  SeatTotal(t)' < LargestLimit + Cardinality(Slots)
<1>0. /\ addPc \in [Slots -> {"idle"} \cup AddSteps \cup Answers]
      /\ addCall \in [Slots -> [tenant : Tenants \cup {Nil}, user : Users \cup {Nil}]]
      /\ members \in [Tenants -> SUBSET Users]
  BY DEF SeatInv, SeatTypeOK
<1> USE DEF AddGoto, AddReply, Committed
<1>1. ASSUME NEW s \in Slots, AddUser(s) \/ FindMember(s) \/ FindLimit(s) \/ FailAdd(s)
      PROVE  SeatTotal(t)' < LargestLimit + Cardinality(Slots)
  <2>1. Admitted(t)' \subseteq Admitted(t)
    BY <1>0, <1>1 DEF Admitted, AddUser, FindMember, FindLimit, FailAdd, AddSteps
  <2>2. members' = members
    BY <1>1 DEF AddUser, FindMember, FindLimit, FailAdd
  <2>3. QED
    BY <2>1, <2>2, NoSeatTaken
<1>2. ASSUME NEW s \in Slots, CountMembers(s)
      PROVE  SeatTotal(t)' < LargestLimit + Cardinality(Slots)
  <2>1. members' = members
    BY <1>2 DEF CountMembers
  <2>2. CASE addCall[s].tenant = t /\ Cardinality(members[t]) < LargestLimit
    BY <2>1, <2>2, SeatPromised
  <2>3. CASE addCall[s].tenant # t \/ ~(Cardinality(members[t]) < LargestLimit)
    <3>1. addCall[s].tenant # t \/ addPc'[s] = "forbidden"
      <4>1. addLimit[s] \in Nat /\ addLimit[s] <= LargestLimit
        <5>1. addLimit[s] \in Limits
          BY <1>2 DEF SeatInv, SeatTypeOK, CountMembers
        <5>2. QED
          BY <5>1, LargestSeatLimit
      <4>2. Cardinality(members[t]) \in Nat
        BY MembersFinite DEF SeatInv
      <4>3. addCall[s].tenant = t => Cardinality(members[t]) >= addLimit[s]
        <5>1. LargestLimit \in Nat
          BY LargestSeatLimit
        <5>2. QED
          BY <2>3, <4>1, <4>2, <5>1
      <4>4. addCall[s].tenant = t => AddGoto(s, "forbidden")
        BY <1>2, <4>3 DEF CountMembers
      <4>5. QED
        BY <1>0, <4>4
    <3>2. Admitted(t)' \subseteq Admitted(t)
      BY <1>0, <1>2, <3>1 DEF Admitted, CountMembers
    <3>3. QED
      BY <2>1, <3>2, NoSeatTaken
  <2>4. QED
    BY <2>2, <2>3
<1>3. ASSUME NEW s \in Slots, FindRole(s)
      PROVE  SeatTotal(t)' < LargestLimit + Cardinality(Slots)
  <2>1. Admitted(t)' \subseteq Admitted(t)
    BY <1>0, <1>3 DEF Admitted, FindRole
  <2>2. members' = members
    BY <1>3 DEF FindRole
  <2>3. QED
    BY <2>1, <2>2, NoSeatTaken
<1>4. ASSUME NEW s \in Slots, InsertMember(s)
      PROVE  SeatTotal(t)' < LargestLimit + Cardinality(Slots)
  <2>1. addPc'[s] \in {"duplicate", "created", "failed"} /\ addPc[s] = "insert"
    BY <1>0, <1>4 DEF InsertMember
  <2>2. /\ addCall' = addCall
        /\ \A r \in Slots \ {s} : addPc'[r] = addPc[r]
    BY <1>0, <1>4 DEF InsertMember
  <2>3. Admitted(t)' = IF addCall[s].tenant = t THEN Admitted(t) \ {s} ELSE Admitted(t)
    BY <2>1, <2>2 DEF Admitted
  <2>4. CASE members'[t] = members[t]
    BY <2>3, <2>4, NoSeatTaken
  <2>5. CASE members'[t] # members[t]
    <3>1. addCall[s].tenant = t /\ members'[t] = members[t] \cup {addCall[s].user}
      BY <1>0, <1>4, <2>5 DEF InsertMember
    <3>2. s \in Admitted(t)
      BY <2>1, <3>1 DEF Admitted
    <3>3. QED
      BY <2>3, <3>1, <3>2, SeatTaken
  <2>6. QED
    BY <2>4, <2>5
<1>5. ASSUME NEW x \in Tenants, DeleteMemberRole(x)
      PROVE  SeatTotal(t)' < LargestLimit + Cardinality(Slots)
  BY <1>5, NoSeatTaken DEF DeleteMemberRole, Admitted
<1>6. QED
  BY <1>1, <1>2, <1>3, <1>4, <1>5 DEF SeatNext, AddWork

LEMMA SeatStepInv ==
  ASSUME SeatInv, [SeatsNext]_allSeatVars
  PROVE  SeatInv'
<1>1. CASE SeatNext /\ UNCHANGED allSubVars
  <2>1. SubInv'
    BY <1>1, SubStepInv DEF SeatInv
  <2>2. SeatTypeOK' /\ SeatFits'
    BY <1>1, SeatStepTyped DEF SeatInv
  <2>3. SeatOvershootBounded'
    BY <1>1, <2>2, SeatStepBounded DEF SeatOvershootBounded, SeatTotal, LargestLimit
  <2>4. QED
    BY <2>1, <2>2, <2>3 DEF SeatInv
<1>2. CASE [SubsNext]_allSubVars /\ UNCHANGED seatVars
  <2>1. SubInv'
    BY <1>2, SubStepInv DEF SeatInv
  <2>2. SeatTypeOK' /\ SeatFits' /\ SeatOvershootBounded'
    BY <1>2 DEF SeatInv, SeatTypeOK, SeatFits, SeatOvershootBounded, Admitted, LargestLimit,
                seatVars
  <2>3. QED
    BY <2>1, <2>2 DEF SeatInv
<1>3. QED
  BY <1>1, <1>2 DEF SeatsNext, allSeatVars

LEMMA SeatInvariant == SeatsSafety => []SeatInv
<1>1. SeatsInit => SeatInv
  BY SeatInitInv
<1>2. SeatInv /\ [SeatsNext]_allSeatVars => SeatInv'
  BY SeatStepInv
<1>3. QED
  BY <1>1, <1>2, PTL DEF SeatsSafety

----------------------------------------------------------------------------
(* A count is compared only with a limit that was found (validateUserLimit *)
(* throws when there is no visible subscription).                          *)
THEOREM SeatTyped == SeatsSafety => []SeatTypeOK
<1>1. SeatInv => SeatTypeOK
  BY DEF SeatInv
<1>2. QED
  BY <1>1, SeatInvariant, PTL

(* Overlapping additions take a tenant past the largest plan limit by at   *)
(* most one member for each addition in flight beyond the first (addUser   *)
(* counts, and inserts three statements later).                            *)
THEOREM OvershootIsBounded == SeatsSafety => []SeatOvershootBounded
<1>1. SeatInv => SeatOvershootBounded
  BY DEF SeatInv
<1>2. QED
  BY <1>1, SeatInvariant, PTL

(* With a single addition in flight no tenant ever has more members than   *)
(* the largest plan allows, whatever its subscription and the plans do     *)
(* meanwhile: the overshoot that README.md's "validates plan user limit"   *)
(* rules out takes two additions that overlap.                             *)
THEOREM AloneWithinPlan == Cardinality(Slots) = 1 => (SeatsSafety => []SeatsWithinPlan)
<1> SUFFICES ASSUME Cardinality(Slots) = 1 PROVE SeatsSafety => []SeatsWithinPlan
  OBVIOUS
<1>1. ASSUME SeatInv, NEW t \in Tenants
      PROVE  Cardinality(members[t]) <= LargestLimit
  <2>1. /\ Cardinality(members[t]) \in Nat /\ Cardinality(Admitted(t)) \in Nat
        /\ Cardinality(members[t]) + Cardinality(Admitted(t)) < LargestLimit + 1
    BY <1>1, MembersFinite, AdmittedFinite DEF SeatInv, SeatOvershootBounded
  <2>2. QED
    BY <2>1, LargestSeatLimit
<1>2. SeatInv => SeatsWithinPlan
  BY <1>1 DEF SeatsWithinPlan
<1>3. QED
  BY <1>2, SeatInvariant, PTL

(* Adding members leaves the subscriptions alone: every theorem about      *)
(* Subscriptions holds for it beside addUser as well.                      *)
LEMMA SeatsKeepSubscriptions == SeatsSafety => SubsSafety
<1>1. SeatsInit => SubsInit
  BY DEF SeatsInit
<1>2. [SeatsNext]_allSeatVars => [SubsNext \/ SubsDone]_allSubVars
  BY DEF SeatsNext, allSeatVars
<1>3. QED
  BY <1>1, <1>2, PTL DEF SeatsSafety, SubsSafety

=============================================================================
