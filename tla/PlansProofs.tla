---------------------------- MODULE PlansProofs ----------------------------
(***************************************************************************)
(* Proofs about Plans for every number of overlapping requests, every set  *)
(* of names and limits, and every seed of the table.                       *)
(***************************************************************************)
EXTENDS Plans, TLAPS

(* A request is at a step of its own operation, and the row it works on is *)
(* there, except for the row a creation has not inserted yet.              *)
PlanFits(r) ==
    LET call == planCall[r]
    IN  /\ planPc[r] = "idle" <=> call.op = "none"
        /\ planPc[r] # "idle" => call.id \in PlanIds
        /\ call.op = "create" => call.id = r /\ call.name # Nil /\ call.limit # Nil
        /\ call.op \in {"update", "delete"} => plan[call.id].state # "absent"
        /\ planPc[r] = "findById" => call.op \in {"update", "delete"}
        /\ planPc[r] = "findByName" => call.op \in {"create", "update"}
        /\ planPc[r] = "insert" => call.op = "create"
        /\ planPc[r] = "update" => call.op = "update"
        /\ planPc[r] \in {"delete", "noContent"} => call.op = "delete"
        /\ call.op = "none" \/ (call.op = "create" /\ planPc[r] \in PlanSteps)
              => plan[r].state = "absent"

PlanStructure == PlanTypeOK /\ \A r \in PlanRequests : PlanFits(r)

PlanInv == PlanStructure /\ UniquePlanNames /\ DeletedMeansGone

LEMMA PlanInitInv == PlanInit => PlanInv
<1> SUFFICES ASSUME PlanInit PROVE PlanInv
  OBVIOUS
<1> USE PlansAssumption DEF PlanIds
<1>1. \A p \in PlanIds :
        /\ plan[p] = IF p \in SeedPlans THEN SeedRow[p]
                     ELSE [state |-> "absent", name |-> Nil, limit |-> Nil]
        /\ plan[p] \in PlanRow
  BY DEF PlanInit, PlanRow
<1>2. plan \in [PlanIds -> PlanRow]
  BY <1>1 DEF PlanInit
<1>3. PlanTypeOK
  <2>1. \A r \in PlanRequests : planCall[r] \in PlanOps
    BY DEF PlanInit, PlanOps
  <2>2. planCall \in [PlanRequests -> PlanOps]
    BY <2>1 DEF PlanInit
  <2>3. QED
    BY <1>1, <1>2, <2>2 DEF PlanInit, PlanTypeOK
<1>4. ASSUME NEW r \in PlanRequests PROVE PlanFits(r)
  <2>1. plan[r].state = "absent"
    BY <1>1
  <2>2. planPc[r] = "idle" /\ planCall[r].op = "none"
    BY DEF PlanInit
  <2>3. QED
    BY <2>1, <2>2 DEF PlanFits
<1>5. UniquePlanNames
  BY <1>1 DEF UniquePlanNames
<1>6. DeletedMeansGone
  BY DEF PlanInit, DeletedMeansGone
<1>7. QED
  BY <1>3, <1>4, <1>5, <1>6 DEF PlanInv, PlanStructure

----------------------------------------------------------------------------
(* One lemma per statement that writes: what it does to its row.           *)
LEMMA InsertRow ==
  ASSUME PlanStructure, NEW r \in PlanRequests, InsertPlan(r)
  PROVE  \/ UNCHANGED plan /\ planPc' = [planPc EXCEPT ![r] = "duplicate"]
         \/ \E row \in PlanRow :
              /\ plan' = [plan EXCEPT ![r] = row]
              /\ plan[r].state = "absent" /\ row.state = "live"
              /\ row.name # Nil /\ row.limit # Nil
              /\ ~NameTaken(r, row.name)
              /\ \E a \in {"created", "failed"} : planPc' = [planPc EXCEPT ![r] = a]
<1> DEFINE call == planCall[r]
           row == [state |-> "live", name |-> call.name, limit |-> call.limit]
<1>1. call \in PlanOps /\ call.op = "create" /\ planPc[r] = "insert"
  BY DEF PlanStructure, PlanTypeOK, PlanFits, InsertPlan
<1>2. call.name # Nil /\ call.limit # Nil /\ plan[r].state = "absent"
  BY <1>1 DEF PlanStructure, PlanFits, PlanSteps
<1>3. row \in PlanRow
  BY <1>1 DEF PlanRow, PlanOps
<1>4. QED
  BY <1>2, <1>3 DEF InsertPlan, PlanGoto, PlanReply, Committed

LEMMA UpdateRow ==
  ASSUME PlanStructure, NEW r \in PlanRequests, UpdatePlanRow(r)
  PROVE  \/ /\ UNCHANGED plan
            /\ \E a \in {"notFound", "duplicate"} : planPc' = [planPc EXCEPT ![r] = a]
         \/ \E row \in PlanRow :
              /\ plan' = [plan EXCEPT ![planCall[r].id] = row]
              /\ planCall[r].id \in PlanIds
              /\ plan[planCall[r].id].state = "live" /\ row.state = "live"
              /\ row.name # Nil /\ row.limit # Nil
              /\ ~NameTaken(planCall[r].id, row.name)
              /\ \E a \in {"ok", "failed"} : planPc' = [planPc EXCEPT ![r] = a]
<1> DEFINE call == planCall[r]
           old == plan[call.id]
           row == [state |-> "live", name |-> Coalesce(call.name, old.name),
                   limit |-> Coalesce(call.limit, old.limit)]
<1>1. call \in PlanOps /\ call.id \in PlanIds /\ old \in PlanRow
  BY DEF PlanStructure, PlanTypeOK, PlanFits, UpdatePlanRow
<1>2. old.state # "absent" => old.name # Nil /\ old.limit # Nil
  BY <1>1 DEF PlanStructure, PlanTypeOK
<1>3. row \in PlanRow
  BY <1>1 DEF PlanRow, PlanOps, Coalesce
<1>4. PlanLive(call.id) => old.state = "live" /\ row.name # Nil /\ row.limit # Nil
  BY <1>1, <1>2 DEF PlanLive, Coalesce
<1>5. QED
  BY <1>1, <1>3, <1>4 DEF UpdatePlanRow, PlanGoto, PlanReply, Committed

LEMMA DeleteRow ==
  ASSUME PlanStructure, NEW r \in PlanRequests, DeletePlanRow(r)
  PROVE  /\ planCall[r].id \in PlanIds
         /\ \E row \in PlanRow :
              /\ plan' = [plan EXCEPT ![planCall[r].id] = row]
              /\ row.state = "deleted"
              /\ row.name = plan[planCall[r].id].name
              /\ row.limit = plan[planCall[r].id].limit
              /\ row.name # Nil /\ row.limit # Nil
              /\ plan[planCall[r].id].state \in {"live", "deleted"}
         /\ \E a \in {"noContent", "failed"} : planPc' = [planPc EXCEPT ![r] = a]
<1> DEFINE id == planCall[r].id
           old == plan[id]
           row == [old EXCEPT !.state = IF @ = "live" THEN "deleted" ELSE @]
<1>1. id \in PlanIds /\ old.state # "absent"
  BY DEF PlanStructure, PlanFits, DeletePlanRow
<1>2. old \in PlanRow /\ old.name # Nil /\ old.limit # Nil
  BY <1>1 DEF PlanStructure, PlanTypeOK
<1>3. row \in PlanRow /\ row.name = old.name /\ row.limit = old.limit /\ row.state = "deleted"
  BY <1>1, <1>2 DEF PlanRow
<1>4. plan' = [plan EXCEPT ![id] = row]
  BY <1>1 DEF DeletePlanRow, PlanStructure, PlanTypeOK
<1>5. old.state \in {"live", "deleted"}
  BY <1>1, <1>2 DEF PlanRow
<1>6. QED
  BY <1>1, <1>2, <1>3, <1>4, <1>5 DEF DeletePlanRow, PlanGoto, PlanReply, Committed

(* The three together: what any step of a request may do to the table.     *)
(* Rows appear once, live, in the creation that owns them; a deleted row   *)
(* stays as it is; a name is new or the row's own.                         *)
TableChange(r, id, row) ==
    /\ plan' = [plan EXCEPT ![id] = row]
    /\ row.state # "absent" /\ row.name # Nil /\ row.limit # Nil
    /\ plan[id].state = "absent" =>
          /\ id = r /\ planPc[r] = "insert" /\ planPc'[r] \in Answers
          /\ row.state = "live"
    /\ plan[id].state = "deleted" => row.state = "deleted"
    /\ row.state = "deleted" => row.limit = plan[id].limit
    /\ \/ ~NameTaken(id, row.name)
       \/ plan[id].state # "absent" /\ row.name = plan[id].name

LEMMA TableStep ==
  ASSUME PlanStructure, NEW r \in PlanRequests, PlanStep(r)
  PROVE  \/ UNCHANGED plan
         \/ \E id \in PlanIds, row \in PlanRow : TableChange(r, id, row)
<1> USE DEF TableChange
<1>0. r \in PlanIds /\ planPc \in [PlanRequests -> {"idle"} \cup PlanSteps \cup Answers]
  BY DEF PlanIds, PlanStructure, PlanTypeOK
<1>1. CASE InsertPlan(r)
  BY <1>0, <1>1, InsertRow DEF InsertPlan, Answers
<1>2. CASE UpdatePlanRow(r)
  BY <1>2, UpdateRow
<1>3. CASE DeletePlanRow(r)
  BY <1>3, DeleteRow
<1>4. QED
  BY <1>1, <1>2, <1>3 DEF PlanStep, PlanWork, CreatePlan, UpdatePlan, DeletePlan,
     BeginPlan, FindPlanById, FindPlanByName, FailPlan

(* What a step does to the request itself.                                 *)
LEMMA RequestStep ==
  ASSUME PlanStructure, NEW r \in PlanRequests, PlanStep(r)
  PROVE  /\ \E step \in PlanSteps \cup Answers : planPc' = [planPc EXCEPT ![r] = step]
         /\ \/ UNCHANGED planCall
            \/ planPc[r] = "idle" /\ \E call \in PlanOps : planCall' = [planCall EXCEPT ![r] = call]
<1> USE DEF PlanGoto, PlanSteps, Answers
<1>1. CASE InsertPlan(r)
  BY <1>1, InsertRow DEF InsertPlan
<1>2. CASE UpdatePlanRow(r)
  BY <1>2, UpdateRow DEF UpdatePlanRow
<1>3. CASE DeletePlanRow(r)
  BY <1>3, DeleteRow DEF DeletePlanRow
<1>4. CASE CreatePlan(r) \/ UpdatePlan(r) \/ DeletePlan(r)
  BY <1>4 DEF CreatePlan, UpdatePlan, DeletePlan, BeginPlan, PlanOps, KnownPlans, PlanIds
<1>5. CASE FindPlanById(r) \/ FindPlanByName(r) \/ FailPlan(r)
  BY <1>5 DEF FindPlanById, FindPlanByName, FailPlan
<1>6. QED
  BY <1>1, <1>2, <1>3, <1>4, <1>5 DEF PlanStep, PlanWork

----------------------------------------------------------------------------
LEMMA TypeStep ==
  ASSUME PlanStructure, NEW r \in PlanRequests, PlanStep(r)
  PROVE  PlanTypeOK'
<1>1. plan' \in [PlanIds -> PlanRow]
  BY TableStep DEF TableChange, PlanStructure, PlanTypeOK
<1>2. \A p \in PlanIds : plan'[p].state # "absent" => plan'[p].name # Nil /\ plan'[p].limit # Nil
  BY TableStep DEF TableChange, PlanStructure, PlanTypeOK
<1>3. /\ planPc' \in [PlanRequests -> {"idle"} \cup PlanSteps \cup Answers]
      /\ planCall' \in [PlanRequests -> PlanOps]
  BY RequestStep DEF PlanStructure, PlanTypeOK
<1>4. QED
  BY <1>1, <1>2, <1>3 DEF PlanTypeOK

(* The request that steps fits its next step.                              *)
LEMMA OwnFit ==
  ASSUME PlanStructure, NEW r \in PlanRequests, PlanStep(r)
  PROVE  PlanFits(r)'
<1>0. /\ PlanTypeOK /\ PlanFits(r) /\ r \in PlanIds
      /\ planPc \in [PlanRequests -> {"idle"} \cup PlanSteps \cup Answers]
      /\ planCall \in [PlanRequests -> PlanOps]
  BY DEF PlanStructure, PlanTypeOK, PlanIds
<1> USE PlansAssumption DEF PlanFits, PlanSteps, PlanGoto
<1>1. CASE InsertPlan(r)
  <2>1. planPc'[r] \in {"duplicate", "created", "failed"} /\ UNCHANGED planCall
    BY <1>0, <1>1, InsertRow DEF InsertPlan
  <2>2. planCall[r].op = "create"
    BY <1>0, <1>1 DEF InsertPlan
  <2>3. QED
    BY <1>0, <2>1, <2>2
<1>2. CASE UpdatePlanRow(r)
  <2>1. planPc'[r] \in {"notFound", "duplicate", "ok", "failed"} /\ UNCHANGED planCall
    BY <1>0, <1>2, UpdateRow DEF UpdatePlanRow
  <2>2. planCall[r].op = "update" /\ planCall[r].id \in PlanIds
    BY <1>0, <1>2 DEF UpdatePlanRow
  <2>3. plan'[planCall[r].id].state # "absent"
    BY <1>0, <1>2, <2>2, UpdateRow DEF PlanTypeOK
  <2>4. planCall[r].id \in PlanIds /\ planPc[r] # "idle" /\ planCall'[r] = planCall[r]
    BY <1>2, <2>1, <2>2 DEF UpdatePlanRow
  <2>5. QED
    BY <2>1, <2>2, <2>3, <2>4
<1>3. CASE DeletePlanRow(r)
  <2>1. planPc'[r] \in {"noContent", "failed"} /\ planCall'[r] = planCall[r]
    BY <1>0, <1>3, DeleteRow DEF DeletePlanRow
  <2>2. planCall[r].op = "delete" /\ planCall[r].id \in PlanIds
    BY <1>0, <1>3 DEF DeletePlanRow
  <2>3. plan'[planCall[r].id].state # "absent"
    BY <1>0, <1>3, <2>2, DeleteRow DEF PlanTypeOK
  <2>4. QED
    BY <2>1, <2>2, <2>3
<1>4. CASE CreatePlan(r)
  BY <1>0, <1>4 DEF CreatePlan, BeginPlan
<1>5. CASE UpdatePlan(r)
  BY <1>0, <1>5 DEF UpdatePlan, BeginPlan, KnownPlans
<1>6. CASE DeletePlan(r)
  BY <1>0, <1>6 DEF DeletePlan, BeginPlan, KnownPlans
<1>7. CASE FindPlanById(r)
  BY <1>0, <1>7 DEF FindPlanById
<1>8. CASE FindPlanByName(r)
  BY <1>0, <1>8 DEF FindPlanByName
<1>9. CASE FailPlan(r)
  BY <1>0, <1>9 DEF FailPlan
<1>10. QED
  BY <1>1, <1>2, <1>3, <1>4, <1>5, <1>6, <1>7, <1>8, <1>9 DEF PlanStep, PlanWork

(* The others fit the step they are at: nobody inserts their row for them, *)
(* and no row disappears.                                                  *)
LEMMA OthersFit ==
  ASSUME PlanStructure, NEW r \in PlanRequests, PlanStep(r),
         NEW q \in PlanRequests \ {r}
  PROVE  PlanFits(q)'
<1>1. planPc'[q] = planPc[q] /\ planCall'[q] = planCall[q]
  BY RequestStep DEF PlanStructure, PlanTypeOK
<1>2. PlanFits(q) /\ q \in PlanIds /\ planCall[q] \in PlanOps
  BY DEF PlanStructure, PlanTypeOK, PlanIds
<1>3. \A p \in PlanIds : plan[p].state # "absent" => plan'[p].state # "absent"
  BY TableStep DEF TableChange, PlanStructure, PlanTypeOK
<1>4. plan[q].state = "absent" => plan'[q].state = "absent"
  BY <1>2, TableStep DEF TableChange, PlanStructure, PlanTypeOK
<1>5. (planPc[q] # "idle") => planCall[q].id \in PlanIds
  BY <1>2 DEF PlanFits
<1>6. planCall[q].op # "none" => planCall[q].id \in PlanIds
  BY <1>2 DEF PlanFits
<1>7. QED
  BY <1>1, <1>2, <1>3, <1>4, <1>5, <1>6 DEF PlanFits

(* A name written to a row is taken by no other row.                       *)
LEMMA UniqueStep ==
  ASSUME PlanStructure, UniquePlanNames, NEW r \in PlanRequests, PlanStep(r)
  PROVE  UniquePlanNames'
<1>1. CASE UNCHANGED plan
  BY <1>1 DEF UniquePlanNames
<1>2. ASSUME NEW id \in PlanIds, NEW row \in PlanRow, TableChange(r, id, row)
      PROVE  UniquePlanNames'
  <2>1. \A q \in PlanIds \ {id} : plan'[q] = plan[q] /\ plan'[id] = row
    BY <1>2 DEF TableChange, PlanStructure, PlanTypeOK
  <2>2. \A q \in PlanIds \ {id} : plan[q].state # "absent" => plan[q].name # row.name
    BY <1>2 DEF TableChange, NameTaken, UniquePlanNames
  <2>3. QED
    BY <2>1, <2>2 DEF UniquePlanNames
<1>3. QED
  BY <1>1, <1>2, TableStep

(* A deleted row stays deleted, and a 204 is given with the row deleted.   *)
LEMMA DeletedStep ==
  ASSUME PlanStructure, DeletedMeansGone, NEW r \in PlanRequests, PlanStep(r)
  PROVE  DeletedMeansGone'
<1>1. \A p \in PlanIds : plan[p].state = "deleted" => plan'[p].state = "deleted"
  BY TableStep DEF TableChange, PlanStructure, PlanTypeOK
<1>2. ASSUME NEW q \in PlanRequests, planPc'[q] = "noContent"
      PROVE  plan'[planCall'[q].id].state = "deleted"
  <2>1. CASE planPc[q] = "noContent"
    <3>1. planCall'[q] = planCall[q]
      BY <2>1, RequestStep DEF PlanStructure, PlanTypeOK
    <3>2. planCall[q].id \in PlanIds
      BY <2>1 DEF PlanStructure, PlanFits
    <3>3. QED
      BY <1>1, <2>1, <3>1, <3>2 DEF DeletedMeansGone
  <2>2. CASE planPc[q] # "noContent"
    <3>1. q = r
      BY <1>2, <2>2, RequestStep DEF PlanStructure, PlanTypeOK
    <3>2. DeletePlanRow(r)
      <4> USE <1>2, <3>1 DEF PlanStructure, PlanTypeOK, PlanGoto, PlanSteps
      <4>1. ~InsertPlan(r)
        BY InsertRow
      <4>2. ~UpdatePlanRow(r)
        BY UpdateRow
      <4>3. ~CreatePlan(r) /\ ~UpdatePlan(r) /\ ~DeletePlan(r)
        BY DEF CreatePlan, UpdatePlan, DeletePlan, BeginPlan
      <4>4. ~FindPlanById(r) /\ ~FindPlanByName(r) /\ ~FailPlan(r)
        BY DEF FindPlanById, FindPlanByName, FailPlan
      <4>5. QED
        BY <4>1, <4>2, <4>3, <4>4 DEF PlanStep, PlanWork
    <3>3. planCall'[r] = planCall[r]
      BY <3>2 DEF DeletePlanRow
    <3>4. QED
      BY <3>1, <3>2, <3>3, DeleteRow DEF PlanStructure, PlanTypeOK
  <2>3. QED
    BY <2>1, <2>2
<1>3. QED
  BY <1>2 DEF DeletedMeansGone

LEMMA PlanStepInv ==
  ASSUME PlanInv, [PlanNext \/ PlansDone]_planVars
  PROVE  PlanInv'
<1>1. CASE UNCHANGED planVars
  BY <1>1 DEF planVars, PlanInv, PlanStructure, PlanTypeOK, PlanFits, UniquePlanNames,
              DeletedMeansGone
<1>2. ASSUME NEW r \in PlanRequests, PlanStep(r)
      PROVE  PlanInv'
  <2>1. PlanTypeOK'
    BY <1>2, TypeStep DEF PlanInv
  <2>2. \A q \in PlanRequests : PlanFits(q)'
    BY <1>2, OwnFit, OthersFit DEF PlanInv
  <2>3. UniquePlanNames' /\ DeletedMeansGone'
    BY <1>2, UniqueStep, DeletedStep DEF PlanInv
  <2>4. QED
    BY <2>1, <2>2, <2>3 DEF PlanInv, PlanStructure
<1>3. QED
  BY <1>1, <1>2 DEF PlanNext, PlansDone

LEMMA PlanInvariant == PlansSafety => []PlanInv
<1>1. PlanInit => PlanInv
  BY PlanInitInv
<1>2. PlanInv /\ [PlanNext \/ PlansDone]_planVars => PlanInv'
  BY PlanStepInv
<1>3. QED
  BY <1>1, <1>2, PTL DEF PlansSafety

----------------------------------------------------------------------------
(* Every row and every request of PlansService is well formed.             *)
THEOREM PlanTyped == PlansSafety => []PlanTypeOK
<1>1. PlanInv => PlanTypeOK
  BY DEF PlanInv, PlanStructure
<1>2. QED
  BY <1>1, PlanInvariant, PTL

(* No interleaving of creations and renamings gives two plans one name     *)
(* (createPlan and updatePlan look the name up before they write it).      *)
THEOREM PlanNamesUnique == PlansSafety => []UniquePlanNames
<1>1. PlanInv => UniquePlanNames
  BY DEF PlanInv
<1>2. QED
  BY <1>1, PlanInvariant, PTL

(* A plan whose deletion was answered 204 stays deleted, whatever updates  *)
(* of it were under way (deletePlan, updatePlan).                          *)
THEOREM DeletionIsFinal == PlansSafety => []DeletedMeansGone
<1>1. PlanInv => DeletedMeansGone
  BY DEF PlanInv
<1>2. QED
  BY <1>1, PlanInvariant, PTL

----------------------------------------------------------------------------

(* What Catalogue sees of the table.                                       *)
View == [p \in PlanIds |-> [state |-> plan[p].state, limit |-> plan[p].limit]]

(* Each change of the table is one step of the catalogue, or none.         *)
LEMMA CatalogueStep ==
  ASSUME PlanStructure, NEW r \in PlanRequests, PlanStep(r)
  PROVE  Table!CatalogueNext \/ UNCHANGED View
<1>1. CASE UNCHANGED plan
  BY <1>1 DEF View
<1>2. ASSUME NEW id \in PlanIds, NEW row \in PlanRow, TableChange(r, id, row)
      PROVE  Table!CatalogueNext \/ UNCHANGED View
  <2>1. plan[id] \in PlanRow
    BY DEF PlanStructure, PlanTypeOK
  <2>2. View' = [View EXCEPT ![id] = [state |-> row.state, limit |-> row.limit]]
    BY <1>2 DEF TableChange, PlanStructure, PlanTypeOK, View
  <2>3. row.limit \in Limits /\ row.state \in {"live", "deleted"}
    BY <1>2 DEF TableChange, PlanRow
  <2>4. View[id] = [state |-> plan[id].state, limit |-> plan[id].limit]
    BY DEF View
  <2>5. CASE plan[id].state = "absent"
    <3>1. Table!PublishPlan(id, row.limit)
      BY <1>2, <2>2, <2>4, <2>5 DEF TableChange, Table!PublishPlan, View
    <3>2. QED
      BY <2>3, <3>1 DEF Table!CatalogueNext
  <2>6. CASE plan[id].state = "live" /\ row.state = "live"
    <3>1. Table!ResizePlan(id, row.limit)
      BY <2>2, <2>4, <2>6 DEF Table!ResizePlan, Table!PlanLive, View
    <3>2. QED
      BY <2>3, <3>1 DEF Table!CatalogueNext
  <2>7. CASE plan[id].state = "live" /\ row.state = "deleted"
    <3>1. row.limit = plan[id].limit
      BY <1>2, <2>7 DEF TableChange
    <3>2. Table!RetirePlan(id)
      BY <2>2, <2>4, <2>7, <3>1 DEF Table!RetirePlan, Table!PlanLive, View
    <3>3. QED
      BY <3>2 DEF Table!CatalogueNext
  <2>8. CASE plan[id].state = "deleted"
    <3>1. row.state = "deleted" /\ row.limit = plan[id].limit
      BY <1>2, <2>8 DEF TableChange
    <3>2. View' = View
      BY <2>2, <2>4, <2>8, <3>1 DEF View
    <3>3. QED
      BY <3>2
  <2>9. QED
    BY <2>1, <2>3, <2>5, <2>6, <2>7, <2>8 DEF PlanRow
<1>3. QED
  BY <1>1, <1>2, TableStep

(* PlansService on its table implements the catalogue the subscriptions    *)
(* and the user limit are built on: plans appear once, change their limit  *)
(* while they live, and never change again once deleted.                   *)
THEOREM CatalogueImplemented == PlansSafety => ImplementsCatalogue
<1>1. PlanInit => Table!CatalogueInit
  <2>1. ASSUME PlanInit, NEW p \in PlanIds
        PROVE  [state |-> plan[p].state, limit |-> plan[p].limit] =
                 IF p \in SeedPlans THEN [state |-> "live", limit |-> SeedRow[p].limit]
                                    ELSE [state |-> "absent", limit |-> Nil]
    BY <2>1, PlansAssumption DEF PlanInit, PlanIds
  <2>2. \A p \in SeedPlans : [q \in SeedPlans |-> SeedRow[q].limit][p] = SeedRow[p].limit
    OBVIOUS
  <2>3. QED
    BY <2>1, <2>2 DEF Table!CatalogueInit
<1>2. PlanInv /\ [PlanNext \/ PlansDone]_planVars => [Table!CatalogueNext]_View
  <2>1. ASSUME PlanInv, UNCHANGED planVars PROVE UNCHANGED View
    BY <2>1 DEF planVars, View
  <2>2. QED
    BY <2>1, CatalogueStep DEF PlanInv, PlanNext, PlansDone
<1>3. [Table!CatalogueNext]_View <=> [Table!CatalogueNext]_([p \in PlanIds |-> [state |-> plan[p].state, limit |-> plan[p].limit]])
  BY DEF View
<1>4. QED
  BY <1>1, <1>2, <1>3, PlanInvariant, PTL DEF PlansSafety, ImplementsCatalogue, Table!CatalogueSpec

=============================================================================
