------------------------ MODULE SubscriptionsProofs ------------------------
(***************************************************************************)
(* Proofs about Subscriptions for every set of tenants, plans and          *)
(* requests: its invariants, and that it implements Entitlement.           *)
(***************************************************************************)
EXTENDS Subscriptions, TLAPS

----------------------------------------------------------------------------
(* The inductive invariant.                                                *)

(* What a request carries when it comes to a statement.                    *)
CallFitsStep ==
    \A r \in SubRequests :
        /\ subPc[r] \in SubSteps => subCall[r].tenant # Nil
        /\ subPc[r] \in SubSteps /\ subCall[r].op # "cancel" => subCall[r].plan # Nil
        /\ subPc[r] \in {"getPlanById", "create"} => subCall[r].op # "cancel"
        /\ subPc[r] = "cancelActive" => subCall[r].op = "change"
        /\ subPc[r] \in {"cancelById", "noContent"} =>
              subCall[r].op = "cancel" /\ subSeen[r] # Nil

(* A request that has not been answered has inserted no row.               *)
NoRowBeforeAnswer ==
    \A r \in SubRequests :
        subPc[r] \in {"idle"} \cup SubSteps => sub[r].status = "none"

(* The row a cancellation has found is one of its tenant.                  *)
SeenIsOwn ==
    \A r \in SubRequests : subSeen[r] # Nil =>
        /\ subPc[r] # "idle"
        /\ sub[subSeen[r]].status # "none"
        /\ sub[subSeen[r]].tenant = subCall[r].tenant

SubStructure ==
    /\ CatalogueTypeOK
    /\ SubTypeOK
    /\ CallFitsStep
    /\ NoRowBeforeAnswer
    /\ SeenIsOwn

SubInv ==
    /\ SubStructure
    /\ AtMostOneActive
    /\ NoSilentLapse
    /\ CanceledByItsOwn
    /\ CancelTakesEffect

LEMMA SubInitInv == SubsInit => SubInv
<1> SUFFICES ASSUME SubsInit PROVE SubInv
  OBVIOUS
<1>1. CatalogueTypeOK
  BY CatalogueAssumption DEF SubsInit, CatalogueInit, CatalogueTypeOK, CatalogueRow
<1>2. SubTypeOK
  BY DEF SubsInit, SubInit, SubTypeOK, SubRow, SubOps
<1>3. QED
  BY <1>1, <1>2, SubscriptionsAssumption DEF SubsInit, SubInit, SubInv, SubStructure,
     CallFitsStep, NoRowBeforeAnswer, SeenIsOwn, SubSteps, AtMostOneActive, NoSilentLapse,
     CanceledByItsOwn, CancelTakesEffect, ActiveRows

LEMMA CatalogueStepTyped ==
  ASSUME CatalogueTypeOK, [CatalogueNext]_catalogue
  PROVE  CatalogueTypeOK'
<1> USE CatalogueAssumption DEF CatalogueTypeOK, CatalogueRow
<1>1. CASE UNCHANGED catalogue
  BY <1>1
<1>2. ASSUME NEW p \in PlanIds, NEW l \in Limits, PublishPlan(p, l)
      PROVE  CatalogueTypeOK'
  BY <1>2 DEF PublishPlan
<1>3. ASSUME NEW p \in PlanIds, NEW l \in Limits, ResizePlan(p, l)
      PROVE  CatalogueTypeOK'
  BY <1>3 DEF ResizePlan
<1>4. ASSUME NEW p \in PlanIds, RetirePlan(p)
      PROVE  CatalogueTypeOK'
  BY <1>4 DEF RetirePlan, PlanLive
<1>5. QED
  BY <1>1, <1>2, <1>3, <1>4 DEF CatalogueNext

(* What a step may do to a row: insert it, active, for a tenant that has   *)
(* no active one, or cancel it on behalf of a request that accounts for it.*)
LEMMA RowStep ==
  ASSUME SubStructure, [SubsNext \/ SubsDone]_allSubVars, NEW s \in SubRequests
  PROVE  \/ sub'[s] = sub[s]
         \/ /\ sub[s].status = "none" /\ subPc[s] = "create"
            /\ subPc'[s] \in {"ok", "created", "failed"}
            /\ sub' = [sub EXCEPT ![s] = NewSubRow(s)]
            /\ ActiveRows(subCall[s].tenant) = {}
         \/ /\ sub[s].status = "active"
            /\ sub'[s].status = "canceled"
            /\ sub'[s].tenant = sub[s].tenant
            /\ sub'[s].plan = sub[s].plan
            /\ \E r \in SubRequests :
                  /\ subCall[r].tenant = sub[s].tenant
                  /\ UNCHANGED <<subCall, subSeen>>
                  /\ \/ subCall[r].op = "cancel" /\ subSeen[r] = s
                                                 /\ subPc'[r] \in {"noContent", "failed"}
                     \/ subCall[r].op = "change" /\ subPc'[r] = "create"
<1> USE DEF SubStructure, SubTypeOK
<1>1. CASE UNCHANGED sub
  BY <1>1
<1>2. ASSUME NEW r \in SubRequests, CreateSub(r)
      PROVE  \/ sub'[s] = sub[s]
             \/ /\ s = r
                /\ sub[s].status = "none" /\ subPc[s] = "create"
                /\ subPc'[s] \in {"ok", "created", "failed"}
                /\ sub' = [sub EXCEPT ![s] = NewSubRow(s)]
                /\ ActiveRows(subCall[s].tenant) = {}
  BY <1>2 DEF CreateSub, SubReply, SubGoto, Committed, NoRowBeforeAnswer, SubSteps
<1>3. ASSUME NEW rows \in SUBSET SubRequests, sub' = Canceled(rows)
      PROVE  /\ s \notin rows => sub'[s] = sub[s]
             /\ s \in rows => /\ sub'[s].status = "canceled"
                              /\ sub'[s].tenant = sub[s].tenant
                              /\ sub'[s].plan = sub[s].plan
  BY <1>3 DEF Canceled, SubRow
<1>4. ASSUME NEW r \in SubRequests, CancelActive(r)
      PROVE  \/ sub'[s] = sub[s]
             \/ /\ sub[s].status = "active" /\ sub[s].tenant = subCall[r].tenant
                /\ sub'[s].status = "canceled"
                /\ sub'[s].tenant = sub[s].tenant
                /\ sub'[s].plan = sub[s].plan
                /\ UNCHANGED <<subCall, subSeen>>
                /\ subCall[r].op = "change" /\ subPc'[r] = "create"
  <2>1. /\ sub' = Canceled(ActiveRows(subCall[r].tenant))
        /\ UNCHANGED <<subCall, subSeen>>
        /\ subCall[r].op = "change" /\ subPc'[r] = "create"
    BY <1>4 DEF CancelActive, SubGoto, CallFitsStep
  <2>2. ActiveRows(subCall[r].tenant) \in SUBSET SubRequests
    BY DEF ActiveRows
  <2>3. QED
    BY <1>3, <2>1, <2>2 DEF ActiveRows
<1>5. ASSUME NEW r \in SubRequests, CancelById(r)
      PROVE  \/ sub'[s] = sub[s]
             \/ /\ sub[s].status = "active" /\ sub[s].tenant = subCall[r].tenant
                /\ sub'[s].status = "canceled"
                /\ sub'[s].tenant = sub[s].tenant
                /\ sub'[s].plan = sub[s].plan
                /\ UNCHANGED <<subCall, subSeen>>
                /\ subCall[r].op = "cancel" /\ subSeen[r] = s
                /\ subPc'[r] \in {"noContent", "failed"}
  <2> DEFINE rows == {u \in SubRequests : u = subSeen[r] /\ sub[u].status = "active"}
  <2>1. /\ sub' = Canceled(rows)
        /\ UNCHANGED <<subCall, subSeen>>
        /\ subCall[r].op = "cancel" /\ subPc'[r] \in {"noContent", "failed"}
    BY <1>5 DEF CancelById, SubReply, SubGoto, Committed, CallFitsStep
  <2>2. subSeen[r] # Nil => sub[subSeen[r]].tenant = subCall[r].tenant
    BY DEF SeenIsOwn
  <2>3. subSeen[r] # Nil
    BY <1>5 DEF CancelById
  <2>4. QED
    BY <1>3, <2>1, <2>2, <2>3
<1>6. QED
  BY <1>1, <1>2, <1>4, <1>5 DEF SubsNext, SubNext, SubStep, SubWork, SubsDone, allSubVars,
     subVars, BeginSub, Subscribe, ChangePlan, CancelSubscription, GetPlan, FindActive, FailSub

(* What a step may do to a request: send it, answer it, which is final, or *)
(* take it to its next statement.                                          *)
LEMMA RequestStep ==
  ASSUME SubStructure, [SubsNext \/ SubsDone]_allSubVars, NEW r \in SubRequests
  PROVE  \/ UNCHANGED <<subPc[r], subCall[r], subSeen[r]>>
         \/ /\ subPc[r] = "idle"
            /\ Subscribe(r) \/ ChangePlan(r) \/ CancelSubscription(r)
         \/ /\ subPc[r] \in SubSteps
            /\ subPc'[r] = "failed"
            /\ UNCHANGED <<sub, subCall[r], subSeen[r]>>
         \/ /\ subPc[r] \in SubSteps
            /\ GetPlan(r) \/ FindActive(r) \/ CancelActive(r) \/ CreateSub(r) \/ CancelById(r)
<1> USE DEF SubStructure, SubTypeOK
<1>1. CASE UNCHANGED subVars
  BY <1>1 DEF subVars
<1>2. ASSUME NEW q \in SubRequests, SubStep(q), q # r
      PROVE  UNCHANGED <<subPc[r], subCall[r], subSeen[r]>>
  BY <1>2 DEF SubStep, SubWork, BeginSub, Subscribe, ChangePlan, CancelSubscription, GetPlan,
     FindActive, CancelActive, CreateSub, CancelById, FailSub, SubGoto, SubReply
<1>3. CASE Subscribe(r) \/ ChangePlan(r) \/ CancelSubscription(r)
  BY <1>3 DEF Subscribe, ChangePlan, CancelSubscription, BeginSub
<1>4. CASE FailSub(r)
  BY <1>4 DEF FailSub, SubGoto
<1>5. CASE GetPlan(r) \/ FindActive(r) \/ CancelActive(r) \/ CreateSub(r) \/ CancelById(r)
  BY <1>5 DEF GetPlan, FindActive, CancelActive, CreateSub, CancelById, SubSteps
<1>6. QED
  BY <1>1, <1>2, <1>3, <1>4, <1>5 DEF SubsNext, SubNext, SubStep, SubWork, SubsDone, allSubVars,
     subVars

LEMMA BeginTyped ==
  ASSUME SubStructure, NEW r \in SubRequests,
         NEW op \in {"subscribe", "change", "cancel"}, NEW t \in Tenants,
         NEW p \in PlanIds \cup {Nil}, op # "cancel" => p # Nil,
         NEW step, step = IF op = "cancel" THEN "findActive" ELSE "getPlanById",
         BeginSub(r, [op |-> op, tenant |-> t, plan |-> p], step)
  PROVE  SubTypeOK' /\ CallFitsStep' /\ SeenIsOwn'
<1> DEFINE call == [op |-> op, tenant |-> t, plan |-> p]
<1>1. /\ call \in SubOps
      /\ call.op = op /\ call.tenant # Nil /\ call.plan = p
  BY SubscriptionsAssumption DEF SubOps
<1>2. /\ subPc[r] = "idle"
      /\ subCall' = [subCall EXCEPT ![r] = call]
      /\ subPc' = [subPc EXCEPT ![r] = step]
      /\ UNCHANGED <<sub, subSeen>>
  BY DEF BeginSub, SubGoto
<1> HIDE DEF call
<1>3. step \in SubSteps \ {"cancelById"}
  BY DEF SubSteps
<1>4. SubTypeOK'
  BY <1>1, <1>2, <1>3 DEF SubStructure, SubTypeOK
<1>5. CallFitsStep'
  BY <1>1, <1>2 DEF SubStructure, SubTypeOK, CallFitsStep
<1>6. SeenIsOwn'
  BY <1>1, <1>2 DEF SubStructure, SubTypeOK, SeenIsOwn
<1>7. QED
  BY <1>4, <1>5, <1>6

LEMMA CanceledTyped ==
  ASSUME SubStructure, NEW rows \in SUBSET SubRequests, sub' = Canceled(rows)
  PROVE  /\ sub' \in [SubRequests -> SubRow]
         /\ \A s \in SubRequests :
               /\ sub'[s].tenant = sub[s].tenant /\ sub'[s].plan = sub[s].plan
               /\ sub'[s].status = "none" => sub[s].status = "none"
               /\ s \notin rows => sub'[s] = sub[s]
<1>1. sub \in [SubRequests -> SubRow]
  BY DEF SubStructure, SubTypeOK
<1>2. ASSUME NEW s \in SubRequests
      PROVE  /\ [sub[s] EXCEPT !.status = "canceled"] \in SubRow
             /\ [sub[s] EXCEPT !.status = "canceled"].tenant = sub[s].tenant
             /\ [sub[s] EXCEPT !.status = "canceled"].plan = sub[s].plan
             /\ [sub[s] EXCEPT !.status = "canceled"].status = "canceled"
  BY <1>1 DEF SubRow
<1>3. QED
  BY <1>1, <1>2 DEF Canceled

LEMMA SubTypedStep ==
  ASSUME SubStructure, [SubsNext \/ SubsDone]_allSubVars
  PROVE  SubTypeOK' /\ CallFitsStep'
<1> USE DEF SubStructure, SubTypeOK, CallFitsStep, SubSteps, SubGoto, SubReply, Committed, Answers
<1>1. CASE UNCHANGED subVars
  BY <1>1 DEF subVars
<1>2. ASSUME NEW r \in SubRequests, Subscribe(r) \/ ChangePlan(r) \/ CancelSubscription(r)
      PROVE  SubTypeOK' /\ CallFitsStep'
  BY <1>2, BeginTyped, CatalogueAssumption DEF Subscribe, ChangePlan, CancelSubscription, KnownPlans
<1>3. ASSUME NEW r \in SubRequests, GetPlan(r)
      PROVE  SubTypeOK' /\ CallFitsStep'
  BY <1>3 DEF GetPlan
<1>4. ASSUME NEW r \in SubRequests, FindActive(r)
      PROVE  SubTypeOK' /\ CallFitsStep'
  <2>1. VisibleRows(subCall[r].tenant) \in SUBSET SubRequests
    BY DEF VisibleRows, ActiveRows
  <2>2. CASE subCall[r].op = "subscribe"
    BY <1>4, <2>2 DEF FindActive
  <2>3. CASE subCall[r].op = "cancel" /\ UNCHANGED subSeen /\ SubGoto(r, "notFound")
    BY <1>4, <2>3 DEF FindActive
  <2>4. CASE /\ subCall[r].op = "cancel" /\ SubGoto(r, "cancelById")
             /\ \E s \in SubRequests : subSeen' = [subSeen EXCEPT ![r] = s]
    BY <1>4, <2>4, SubscriptionsAssumption DEF FindActive
  <2>5. QED
    BY <1>4, <2>1, <2>2, <2>3, <2>4 DEF FindActive
<1>5. ASSUME NEW r \in SubRequests, CancelActive(r)
      PROVE  SubTypeOK' /\ CallFitsStep'
  <2>1. sub' = Canceled(ActiveRows(subCall[r].tenant))
    BY <1>5 DEF CancelActive
  <2>2. /\ sub' \in [SubRequests -> SubRow]
        /\ \A s \in SubRequests : sub'[s].status # "none" => sub'[s].tenant # Nil /\ sub'[s].plan # Nil
    BY <2>1, CanceledTyped DEF ActiveRows
  <2>3. QED
    BY <1>5, <2>2 DEF CancelActive
<1>6. ASSUME NEW r \in SubRequests, CreateSub(r)
      PROVE  SubTypeOK' /\ CallFitsStep'
  <2>1. /\ NewSubRow(r) \in SubRow
        /\ NewSubRow(r).tenant # Nil /\ NewSubRow(r).plan # Nil
    BY <1>6 DEF CreateSub, NewSubRow, SubRow, SubOps
  <2>2. sub' = sub \/ sub' = [sub EXCEPT ![r] = NewSubRow(r)]
    BY <1>6 DEF CreateSub
  <2>3. /\ sub' \in [SubRequests -> SubRow]
        /\ \A s \in SubRequests : sub'[s].status # "none" => sub'[s].tenant # Nil /\ sub'[s].plan # Nil
    BY <2>1, <2>2
  <2>4. QED
    BY <1>6, <2>3 DEF CreateSub
<1>7. ASSUME NEW r \in SubRequests, CancelById(r)
      PROVE  SubTypeOK' /\ CallFitsStep'
  <2> DEFINE rows == {s \in SubRequests : s = subSeen[r] /\ sub[s].status = "active"}
  <2>1. sub' = Canceled(rows)
    BY <1>7 DEF CancelById
  <2>2. /\ sub' \in [SubRequests -> SubRow]
        /\ \A s \in SubRequests : sub'[s].status # "none" => sub'[s].tenant # Nil /\ sub'[s].plan # Nil
    BY <2>1, CanceledTyped
  <2>3. QED
    BY <1>7, <2>2 DEF CancelById
<1>8. ASSUME NEW r \in SubRequests, FailSub(r)
      PROVE  SubTypeOK' /\ CallFitsStep'
  BY <1>8 DEF FailSub
<1>9. QED
  BY <1>1, <1>2, <1>3, <1>4, <1>5, <1>6, <1>7, <1>8 DEF SubsNext, SubNext, SubStep, SubWork,
     SubsDone, allSubVars, subVars

(* Only a request that is being sent changes its call, only one that looks *)
(* for the active row changes what it has seen, and an answer is final.    *)
LEMMA RequestKeeps ==
  ASSUME SubStructure, [SubsNext \/ SubsDone]_allSubVars, NEW r \in SubRequests
  PROVE  /\ subPc[r] # "idle" => subPc'[r] # "idle" /\ subCall'[r] = subCall[r]
         /\ subPc[r] # "findActive" => subSeen'[r] = subSeen[r]
         /\ subPc[r] \notin {"idle"} \cup SubSteps => subPc'[r] = subPc[r]
<1> USE DEF SubStructure, SubTypeOK, SubGoto, SubReply, Committed
<1>1. CASE UNCHANGED <<subPc[r], subCall[r], subSeen[r]>>
  BY <1>1
<1>2. CASE subPc[r] = "idle" /\ (Subscribe(r) \/ ChangePlan(r) \/ CancelSubscription(r))
  BY <1>2 DEF Subscribe, ChangePlan, CancelSubscription, BeginSub
<1>3. CASE subPc[r] \in SubSteps /\ (GetPlan(r) \/ FindActive(r) \/ CancelActive(r))
  BY <1>3 DEF GetPlan, FindActive, CancelActive
<1>4. CASE subPc[r] \in SubSteps /\ (CreateSub(r) \/ CancelById(r))
  BY <1>4 DEF CreateSub, CancelById
<1>5. QED
  BY <1>1, <1>2, <1>3, <1>4, RequestStep DEF Answers, SubSteps

LEMMA NoRowStep ==
  ASSUME SubStructure, [SubsNext \/ SubsDone]_allSubVars
  PROVE  NoRowBeforeAnswer'
<1> SUFFICES ASSUME NEW q \in SubRequests, sub'[q].status # "none"
             PROVE  subPc'[q] \notin {"idle"} \cup SubSteps
  BY DEF NoRowBeforeAnswer
<1>1. CASE sub[q].status = "none"
  BY <1>1, RowStep DEF SubSteps
<1>2. CASE sub[q].status # "none"
  <2>1. subPc[q] \notin {"idle"} \cup SubSteps
    BY <1>2 DEF SubStructure, NoRowBeforeAnswer
  <2>2. QED
    BY <2>1, RequestKeeps
<1>3. QED
  BY <1>1, <1>2

(* A row that exists keeps its tenant and never becomes active again.      *)
LEMMA RowsRemain ==
  ASSUME SubStructure, [SubsNext \/ SubsDone]_allSubVars, NEW s \in SubRequests,
         sub[s].status # "none"
  PROVE  /\ sub'[s].status # "none"
         /\ sub'[s].tenant = sub[s].tenant
         /\ sub[s].status = "canceled" => sub'[s].status = "canceled"
         /\ sub'[s].status = "active" => sub[s].status = "active"
<1>1. sub'[s] = sub[s] \/ (sub'[s].status = "canceled" /\ sub'[s].tenant = sub[s].tenant)
  BY RowStep
<1>2. QED
  BY <1>1

LEMMA SeenStep ==
  ASSUME SubStructure, [SubsNext \/ SubsDone]_allSubVars
  PROVE  SeenIsOwn'
<1> SUFFICES ASSUME NEW q \in SubRequests, subSeen'[q] # Nil
             PROVE  /\ subPc'[q] # "idle"
                    /\ sub'[subSeen'[q]].status # "none"
                    /\ sub'[subSeen'[q]].tenant = subCall'[q].tenant
  BY DEF SeenIsOwn
<1>1. subSeen[q] \in SubRequests \cup {Nil}
  BY DEF SubStructure, SubTypeOK
<1>2. CASE subSeen'[q] = subSeen[q]
  <2>1. /\ subPc[q] # "idle"
        /\ sub[subSeen[q]].status # "none"
        /\ sub[subSeen[q]].tenant = subCall[q].tenant
    BY <1>2 DEF SubStructure, SeenIsOwn
  <2>2. QED
    BY <1>1, <1>2, <2>1, RowsRemain, RequestKeeps
<1>3. CASE FindActive(q) /\ subSeen'[q] # subSeen[q]
  <2>1. PICK s \in VisibleRows(subCall[q].tenant) : subSeen' = [subSeen EXCEPT ![q] = s]
    BY <1>3 DEF FindActive
  <2>2. s \in SubRequests /\ sub[s].status = "active" /\ sub[s].tenant = subCall[q].tenant
    BY <2>1 DEF VisibleRows, ActiveRows
  <2>3. subSeen'[q] = s
    BY <2>1 DEF SubStructure, SubTypeOK
  <2>4. subPc[q] = "findActive" /\ sub' = sub
    BY <1>3 DEF FindActive
  <2>5. QED
    BY <2>2, <2>3, <2>4, RequestKeeps
<1>4. subSeen'[q] = subSeen[q] \/ FindActive(q)
  <2>1. subPc[q] # "findActive" => subSeen'[q] = subSeen[q]
    BY RequestKeeps
  <2>2. subPc[q] = "findActive" => UNCHANGED subSeen[q] \/ FindActive(q)
    BY RequestStep DEF GetPlan, CancelActive, CreateSub, CancelById, SubSteps
  <2>3. QED
    BY <2>1, <2>2
<1>5. QED
  BY <1>2, <1>3, <1>4

(* A row that a step cancels has a request that accounts for it.           *)
LEMMA RowCanceled ==
  ASSUME SubStructure, [SubsNext \/ SubsDone]_allSubVars, NEW s \in SubRequests,
         sub[s].status # "canceled", sub'[s].status = "canceled"
  PROVE  /\ sub[s].status = "active"
         /\ sub'[s].tenant = sub[s].tenant
         /\ \E r \in SubRequests :
               /\ subCall[r].tenant = sub[s].tenant
               /\ UNCHANGED <<subCall, subSeen>>
               /\ \/ subCall[r].op = "cancel" /\ subSeen[r] = s
                                              /\ subPc'[r] \in {"noContent", "failed"}
                  \/ subCall[r].op = "change" /\ subPc'[r] = "create"
<1>1. sub'[s] # sub[s]
  OBVIOUS
<1>2. sub' # [sub EXCEPT ![s] = NewSubRow(s)]
  BY DEF NewSubRow, SubStructure, SubTypeOK
<1>3. QED
  BY <1>1, <1>2, RowStep

(* What becomes of a request that is about to insert.                      *)
LEMMA CreateAnswers ==
  ASSUME SubStructure, [SubsNext \/ SubsDone]_allSubVars, NEW r \in SubRequests,
         subPc[r] = "create", subCall[r].op = "change"
  PROVE  /\ subPc'[r] \in {"create", "failed", "duplicate", "ok"}
         /\ subPc'[r] \in {"duplicate", "ok"} => ActiveRows(subCall[r].tenant)' # {}
<1> USE DEF SubStructure, SubTypeOK
<1>1. CASE subPc'[r] = subPc[r]
  BY <1>1
<1>2. CASE CreateSub(r)
  <2>1. subPc'[r] \in {"create", "failed", "duplicate", "ok"}
    BY <1>2 DEF CreateSub, SubReply, SubGoto, Committed
  <2>2. subCall' = subCall
    BY <1>2 DEF CreateSub
  <2>3. CASE UNCHANGED sub /\ ActiveRows(subCall[r].tenant) # {}
    BY <2>1, <2>2, <2>3 DEF ActiveRows
  <2>4. CASE sub' = [sub EXCEPT ![r] = NewSubRow(r)]
    BY <2>1, <2>2, <2>4 DEF ActiveRows, NewSubRow
  <2>5. QED
    BY <1>2, <2>3, <2>4 DEF CreateSub
<1>3. CASE subPc'[r] = "failed"
  BY <1>3
<1>4. QED
  BY <1>1, <1>2, <1>3, RequestStep DEF Subscribe, ChangePlan, CancelSubscription, BeginSub,
     GetPlan, FindActive, CancelActive, CancelById

LEMMA StructureStep ==
  ASSUME SubStructure, [SubsNext \/ SubsDone]_allSubVars
  PROVE  SubStructure'
<1>1. [CatalogueNext]_catalogue
  BY DEF SubsNext, SubsDone, allSubVars
<1>2. CatalogueTypeOK'
  BY <1>1, CatalogueStepTyped DEF SubStructure
<1>3. QED
  BY <1>2, SubTypedStep, NoRowStep, SeenStep DEF SubStructure

(* The row a step makes active is the only active one of its tenant.       *)
LEMMA AtMostOneStep ==
  ASSUME SubStructure, AtMostOneActive, [SubsNext \/ SubsDone]_allSubVars
  PROVE  AtMostOneActive'
<1> SUFFICES ASSUME NEW s \in SubRequests, NEW u \in SubRequests,
                    sub'[s].status = "active", sub'[u].status = "active",
                    sub'[s].tenant = sub'[u].tenant, s # u
             PROVE  FALSE
  BY DEF AtMostOneActive
<1>1. ASSUME NEW x \in SubRequests, NEW y \in SubRequests, x # y,
             sub'[x].status = "active", sub'[y].status = "active",
             sub'[x].tenant = sub'[y].tenant, sub[x].status = "none"
      PROVE  FALSE
  <2>1. /\ sub' = [sub EXCEPT ![x] = NewSubRow(x)]
        /\ ActiveRows(subCall[x].tenant) = {}
    BY <1>1, RowStep
  <2>2. sub'[x].tenant = subCall[x].tenant
    BY <2>1 DEF NewSubRow, SubStructure, SubTypeOK
  <2>3. sub[y] = sub'[y]
    BY <1>1, <2>1 DEF SubStructure, SubTypeOK
  <2>4. y \in ActiveRows(subCall[x].tenant)
    BY <1>1, <2>2, <2>3 DEF ActiveRows
  <2>5. QED
    BY <2>1, <2>4
<1>2. CASE sub[s].status # "none" /\ sub[u].status # "none"
  BY <1>2, RowsRemain DEF AtMostOneActive
<1>3. QED
  BY <1>1, <1>2

(* Rows become canceled only on behalf of a request that accounts for it.  *)
LEMMA CanceledByItsOwnStep ==
  ASSUME SubStructure, CanceledByItsOwn, [SubsNext \/ SubsDone]_allSubVars
  PROVE  CanceledByItsOwn'
<1> SUFFICES ASSUME NEW s \in SubRequests, sub'[s].status = "canceled"
             PROVE  \E r \in SubRequests :
                       /\ subCall'[r].tenant = sub'[s].tenant
                       /\ \/ subCall'[r].op = "cancel" /\ subSeen'[r] = s
                                             /\ subPc'[r] \in {"noContent", "failed"}
                          \/ subCall'[r].op = "change" /\ r # s
                                /\ subPc'[r] \in {"create", "failed", "duplicate", "ok"}
  BY DEF CanceledByItsOwn
<1>1. CASE sub[s].status = "canceled"
  <2>1. PICK r \in SubRequests :
            /\ subCall[r].tenant = sub[s].tenant
            /\ \/ subCall[r].op = "cancel" /\ subSeen[r] = s
                                          /\ subPc[r] \in {"noContent", "failed"}
               \/ subCall[r].op = "change" /\ r # s
                     /\ subPc[r] \in {"create", "failed", "duplicate", "ok"}
    BY <1>1 DEF CanceledByItsOwn
  <2>2. sub'[s].tenant = sub[s].tenant
    BY <1>1, RowsRemain
  <2>3. subCall'[r] = subCall[r] /\ subSeen'[r] = subSeen[r]
    BY <2>1, RequestKeeps
  <2>4. CASE subPc[r] # "create"
    <3>1. subPc[r] \notin {"idle"} \cup SubSteps
      BY <2>1, <2>4 DEF SubSteps
    <3>2. subPc'[r] = subPc[r]
      BY <3>1, RequestKeeps
    <3>3. QED
      BY <2>1, <2>2, <2>3, <3>2
  <2>5. CASE subPc[r] = "create"
    <3>1. subPc'[r] \in {"create", "failed", "duplicate", "ok"}
      BY <2>1, <2>5, CreateAnswers
    <3>2. QED
      BY <2>1, <2>2, <2>3, <2>5, <3>1
  <2>6. QED
    BY <2>4, <2>5
<1>2. CASE sub[s].status # "canceled"
  <2>1. /\ sub'[s].tenant = sub[s].tenant
        /\ \E r \in SubRequests :
              /\ subCall[r].tenant = sub[s].tenant
              /\ UNCHANGED <<subCall, subSeen>>
              /\ \/ subCall[r].op = "cancel" /\ subSeen[r] = s
                                             /\ subPc'[r] \in {"noContent", "failed"}
                 \/ subCall[r].op = "change" /\ subPc'[r] = "create"
    BY <1>2, RowCanceled
  <2>2. NoRowBeforeAnswer'
    BY StructureStep DEF SubStructure
  <2>3. \A r \in SubRequests : subPc'[r] = "create" => r # s
    BY <2>2 DEF NoRowBeforeAnswer, SubSteps
  <2>4. QED
    BY <2>1, <2>3
<1>3. QED
  BY <1>1, <1>2

(* After a cancellation the row it found is canceled.                      *)
LEMMA CancelStep ==
  ASSUME SubStructure, CancelTakesEffect, [SubsNext \/ SubsDone]_allSubVars
  PROVE  CancelTakesEffect'
<1> SUFFICES ASSUME NEW r \in SubRequests, subPc'[r] = "noContent"
             PROVE  sub'[subSeen'[r]].status = "canceled"
  BY DEF CancelTakesEffect
<1>1. subSeen[r] \in SubRequests \cup {Nil}
  BY DEF SubStructure, SubTypeOK
<1>2. CASE subPc[r] = "noContent"
  <2>1. subSeen[r] # Nil /\ sub[subSeen[r]].status = "canceled"
    BY <1>2 DEF SubStructure, CallFitsStep, CancelTakesEffect
  <2>2. QED
    BY <1>1, <1>2, <2>1, RowsRemain, RequestKeeps
<1>3. CASE CancelById(r)
  <2>1. /\ subSeen[r] # Nil /\ subSeen' = subSeen
        /\ sub' = Canceled({s \in SubRequests : s = subSeen[r] /\ sub[s].status = "active"})
    BY <1>3 DEF CancelById, SubStructure, CallFitsStep
  <2>2. sub[subSeen[r]].status \in {"active", "canceled"}
    BY <1>1, <2>1 DEF SubStructure, SeenIsOwn, SubTypeOK, SubRow
  <2>3. QED
    BY <1>1, <2>1, <2>2 DEF Canceled, SubStructure, SubTypeOK, SubRow
<1>4. QED
  BY <1>2, <1>3, RequestStep DEF SubSteps, Subscribe, ChangePlan, CancelSubscription, BeginSub,
     GetPlan, FindActive, CancelActive, CreateSub, SubGoto, SubReply, Committed,
     SubStructure, SubTypeOK

(* A tenant whose last active row is canceled has the request that did it; *)
(* a change that was to account for the gap closes it, is rejected because *)
(* it is closed, or has failed.                                            *)
LEMMA NoSilentLapseStep ==
  ASSUME SubStructure, NoSilentLapse, [SubsNext \/ SubsDone]_allSubVars
  PROVE  NoSilentLapse'
<1> SUFFICES ASSUME NEW s \in SubRequests, sub'[s].status # "none",
                    ActiveRows(sub[s].tenant)' = {}
             PROVE  \E r \in SubRequests :
                       /\ subCall'[r].tenant = sub'[s].tenant
                       /\ \/ subCall'[r].op = "cancel" /\ subPc'[r] \in {"noContent", "failed"}
                          \/ subCall'[r].op = "change" /\ subPc'[r] \in {"create", "failed"}
  BY DEF NoSilentLapse
<1> DEFINE t == sub[s].tenant
<1>1. \A u \in SubRequests : ~(sub'[u].status = "active" /\ sub'[u].tenant = sub'[s].tenant)
  BY DEF ActiveRows
<1>2. sub[s].status # "none"
  BY <1>1, RowStep DEF NewSubRow, SubStructure, SubTypeOK
<1>3. sub'[s].tenant = t
  BY <1>2, RowsRemain
<1>4. CASE ActiveRows(t) = {}
  <2>1. PICK r \in SubRequests :
            /\ subCall[r].tenant = t
            /\ \/ subCall[r].op = "cancel" /\ subPc[r] \in {"noContent", "failed"}
               \/ subCall[r].op = "change" /\ subPc[r] \in {"create", "failed"}
    BY <1>2, <1>4 DEF NoSilentLapse
  <2>2. subCall'[r] = subCall[r]
    BY <2>1, RequestKeeps
  <2>3. CASE subPc[r] # "create"
    <3>1. subPc'[r] = subPc[r]
      BY <2>1, <2>3, RequestKeeps DEF SubSteps
    <3>2. QED
      BY <1>3, <2>1, <2>2, <3>1
  <2>4. CASE subPc[r] = "create"
    <3>1. ActiveRows(subCall[r].tenant)' = {}
      BY <1>1, <1>3, <2>1, <2>2 DEF ActiveRows
    <3>2. subPc'[r] \in {"create", "failed"}
      BY <2>1, <2>4, <3>1, CreateAnswers
    <3>3. QED
      BY <1>3, <2>1, <2>2, <2>4, <3>2
  <2>5. QED
    BY <2>3, <2>4
<1>5. CASE ActiveRows(t) # {}
  <2>1. PICK u \in SubRequests : sub[u].status = "active" /\ sub[u].tenant = t
    BY <1>5 DEF ActiveRows
  <2>2. sub'[u].tenant = t
    BY <2>1, RowsRemain
  <2>3. sub'[u].status # "active"
    BY <1>1, <1>3, <2>2
  <2>4. sub'[u].status = "canceled"
    BY <2>1, <2>3, RowStep
  <2>5. QED
    BY <1>3, <2>1, <2>4, RowCanceled
<1>6. QED
  BY <1>4, <1>5

LEMMA SubStepInv ==
  ASSUME SubInv, [SubsNext \/ SubsDone]_allSubVars
  PROVE  SubInv'
BY StructureStep, AtMostOneStep, NoSilentLapseStep, CanceledByItsOwnStep, CancelStep DEF SubInv

LEMMA SubInvariant == SubsSafety => []SubInv
<1>1. SubsInit => SubInv
  BY SubInitInv
<1>2. SubInv /\ [SubsNext \/ SubsDone]_allSubVars => SubInv'
  BY SubStepInv
<1>3. QED
  BY <1>1, <1>2, PTL DEF SubsSafety

----------------------------------------------------------------------------
(* Rows and requests have what the service dereferences: a row has a       *)
(* tenant and a plan, and a cancellation that goes on has found a row.     *)
THEOREM SubTyped == SubsSafety => []SubTypeOK
<1>1. SubInv => SubTypeOK
  BY DEF SubInv, SubStructure
<1>2. QED
  BY <1>1, SubInvariant, PTL

(* A tenant never has two active subscriptions, for any number of          *)
(* overlapping requests and whatever happens to the plans.                 *)
THEOREM OneActive == SubsSafety => []AtMostOneActive
<1>1. SubInv => AtMostOneActive
  BY DEF SubInv
<1>2. QED
  BY <1>1, SubInvariant, PTL

(* A tenant loses its subscription only through a cancellation that was    *)
(* carried out or a plan change that stopped half-way.                     *)
THEOREM LapseHasACause == SubsSafety => []NoSilentLapse
<1>1. SubInv => NoSilentLapse
  BY DEF SubInv
<1>2. QED
  BY <1>1, SubInvariant, PTL

(* No subscription is canceled by a request that meant another one.        *)
THEOREM CancelHitsItsTarget == SubsSafety => []CanceledByItsOwn
<1>1. SubInv => CanceledByItsOwn
  BY DEF SubInv
<1>2. QED
  BY <1>1, SubInvariant, PTL

(* A cancellation that answers 204 leaves the row it found canceled.       *)
THEOREM CancelIsFinal == SubsSafety => []CancelTakesEffect
<1>1. SubInv => CancelTakesEffect
  BY DEF SubInv
<1>2. QED
  BY <1>1, SubInvariant, PTL

----------------------------------------------------------------------------
(* Subscriptions implements Entitlement.                                   *)

(* What a step may do to the table as a whole.                             *)
LEMMA TableStep ==
  ASSUME SubInv, [SubsNext \/ SubsDone]_allSubVars
  PROVE  \/ UNCHANGED sub
         \/ \E r \in SubRequests, t \in Tenants :
               /\ sub[r].status = "none" /\ ActiveRows(t) = {}
               /\ \E p \in PlanIds \cup {Nil} : sub' =
                     [sub EXCEPT ![r] = [status |-> "active", tenant |-> t, plan |-> p]]
         \/ \E t \in Tenants : \E s \in ActiveRows(t) : sub' = Canceled({s})
<1> USE DEF SubInv, SubStructure, SubTypeOK
<1>1. ASSUME NEW t \in Tenants, NEW rows \in SUBSET ActiveRows(t), sub' = Canceled(rows)
      PROVE  UNCHANGED sub \/ \E s \in ActiveRows(t) : sub' = Canceled({s})
  <2>1. CASE rows = {}
    <3>1. sub' = [s \in SubRequests |-> sub[s]]
      BY <1>1, <2>1 DEF Canceled
    <3>2. QED
      BY <3>1
  <2>2. CASE rows # {}
    <3>1. PICK s \in rows : TRUE
      BY <2>2
    <3>2. \A u \in rows : u = s
      BY <3>1 DEF AtMostOneActive, ActiveRows
    <3>3. rows = {s}
      BY <3>1, <3>2
    <3>4. QED
      BY <1>1, <3>1, <3>3
  <2>3. QED
    BY <2>1, <2>2
<1>2. ASSUME NEW r \in SubRequests, CancelActive(r)
      PROVE  \E t \in Tenants : \E rows \in SUBSET ActiveRows(t) : sub' = Canceled(rows)
  <2>1. subCall[r].tenant \in Tenants
    BY <1>2 DEF CancelActive, CallFitsStep, SubSteps, SubOps
  <2>2. sub' = Canceled(ActiveRows(subCall[r].tenant))
    BY <1>2 DEF CancelActive
  <2>3. QED
    BY <2>1, <2>2
<1>3. ASSUME NEW r \in SubRequests, CancelById(r)
      PROVE  \E t \in Tenants : \E rows \in SUBSET ActiveRows(t) : sub' = Canceled(rows)
  <2> DEFINE rows == {s \in SubRequests : s = subSeen[r] /\ sub[s].status = "active"}
  <2>1. subCall[r].tenant \in Tenants
    BY <1>3 DEF CancelById, CallFitsStep, SubSteps, SubOps
  <2>2. sub' = Canceled(rows) /\ subSeen[r] # Nil
    BY <1>3 DEF CancelById, CallFitsStep
  <2>3. rows \subseteq ActiveRows(subCall[r].tenant)
    BY <2>2 DEF ActiveRows, SeenIsOwn
  <2>4. QED
    BY <2>1, <2>2, <2>3
<1>4. ASSUME NEW r \in SubRequests, CreateSub(r)
      PROVE  \/ UNCHANGED sub
             \/ \E t \in Tenants :
                   /\ sub[r].status = "none" /\ ActiveRows(t) = {}
                   /\ \E p \in PlanIds \cup {Nil} : sub' =
                         [sub EXCEPT ![r] = [status |-> "active", tenant |-> t, plan |-> p]]
  <2>1. /\ subCall[r].tenant \in Tenants /\ subCall[r].plan \in PlanIds \cup {Nil}
        /\ sub[r].status = "none"
    BY <1>4 DEF CreateSub, CallFitsStep, NoRowBeforeAnswer, SubSteps, SubOps
  <2>2. QED
    BY <1>4, <2>1 DEF CreateSub, NewSubRow
<1>5. CASE UNCHANGED sub
  BY <1>5
<1>6. QED
  BY <1>1, <1>2, <1>3, <1>4, <1>5 DEF SubsNext, SubNext, SubStep, SubWork, SubsDone, allSubVars,
     subVars, BeginSub, Subscribe, ChangePlan, CancelSubscription, GetPlan, FindActive, FailSub

(* The refinement mapping on a table with at most one active row each.     *)
LEMMA CurrentRow ==
  ASSUME AtMostOneActive, NEW t \in Tenants
  PROVE  /\ ActiveRows(t) = {} => currentRow[t] = Nil
         /\ \A s \in ActiveRows(t) : currentRow[t] = s
<1>1. CASE ActiveRows(t) = {}
  BY <1>1 DEF currentRow, TheRow
<1>2. CASE ActiveRows(t) # {}
  <2>1. currentRow[t] = CHOOSE s \in ActiveRows(t) : TRUE
    BY <1>2 DEF currentRow, TheRow
  <2>2. currentRow[t] \in ActiveRows(t)
    BY <1>2, <2>1
  <2>3. QED
    BY <1>2, <2>2 DEF AtMostOneActive, ActiveRows
<1>3. QED
  BY <1>1, <1>2

LEMMA CurrentRowStep ==
  ASSUME NEW t \in Tenants, NEW c,
         \A u \in Tenants \ {t} : ActiveRows(u)' = ActiveRows(u), currentRow'[t] = c
  PROVE  currentRow' = [currentRow EXCEPT ![t] = c]
<1>1. ASSUME NEW u \in Tenants \ {t}
      PROVE  currentRow'[u] = currentRow[u]
  <2>1. currentRow[u] = TheRow(ActiveRows(u)) /\ currentRow'[u] = TheRow(ActiveRows(u)')
    BY DEF currentRow
  <2>2. QED
    BY <2>1
<1>2. DOMAIN currentRow = Tenants /\ DOMAIN currentRow' = Tenants
  BY DEF currentRow
<1>3. /\ currentRow = [u \in Tenants |-> currentRow[u]]
      /\ currentRow' = [u \in Tenants |-> currentRow'[u]]
  BY DEF currentRow
<1> HIDE DEF currentRow
<1>4. QED
  BY <1>1, <1>2, <1>3

(* Every step of the table is a grant, a revocation, or a stutter.         *)
LEMMA PromiseStep ==
  ASSUME SubInv, SubInv', [SubsNext \/ SubsDone]_allSubVars
  PROVE  [Promise!Next]_<<currentRow, {s \in SubRequests : sub[s].status = "canceled"}>>
<1> DEFINE past == {s \in SubRequests : sub[s].status = "canceled"}
<1> USE SubscriptionsAssumption
<1>0. sub \in [SubRequests -> SubRow] /\ AtMostOneActive
  BY DEF SubInv, SubStructure, SubTypeOK
<1>1. CASE UNCHANGED sub
  BY <1>1 DEF currentRow, TheRow, ActiveRows
<1>2. ASSUME NEW r \in SubRequests, NEW t \in Tenants, NEW p \in PlanIds \cup {Nil},
             sub[r].status = "none", ActiveRows(t) = {},
             sub' = [sub EXCEPT ![r] = [status |-> "active", tenant |-> t, plan |-> p]]
      PROVE  Promise!Next
  <2>1. sub'[r].status = "active" /\ sub'[r].tenant = t
    BY <1>0, <1>2
  <2>2. \A s \in SubRequests \ {r} : sub'[s] = sub[s]
    BY <1>0, <1>2
  <2>3. past' = past
    BY <1>2, <2>1, <2>2
  <2>4. ActiveRows(t)' = {r}
    BY <1>2, <2>1, <2>2 DEF ActiveRows
  <2>5. \A u \in Tenants \ {t} : ActiveRows(u)' = ActiveRows(u)
    BY <1>2, <2>1, <2>2 DEF ActiveRows
  <2>6. currentRow' = [currentRow EXCEPT ![t] = r]
    <3>1. currentRow'[t] = r
      BY <2>4 DEF currentRow, TheRow
    <3>2. QED
      BY <2>5, <3>1, CurrentRowStep
  <2>7. currentRow[t] = Nil
    BY <1>2 DEF currentRow, TheRow
  <2>8. \A u \in Tenants : currentRow[u] # r
    BY <1>0, <1>2, CurrentRow DEF ActiveRows
  <2>9. Promise!Grant(t, r)
    BY <1>2, <2>3, <2>6, <2>7, <2>8 DEF Promise!Grant
  <2>10. QED
    BY <2>9 DEF Promise!Next
<1>3. ASSUME NEW t \in Tenants, NEW s \in ActiveRows(t), sub' = Canceled({s})
      PROVE  Promise!Next
  <2>1. /\ s \in SubRequests /\ sub[s].status = "active" /\ sub[s].tenant = t
        /\ \A u \in SubRequests \ {s} : sub'[u] = sub[u]
        /\ sub'[s].status = "canceled"
    BY <1>0, <1>3 DEF ActiveRows, Canceled, SubRow
  <2>2. past' = past \cup {s}
    BY <2>1
  <2>3. currentRow[t] = s
    BY <1>0, CurrentRow
  <2>4. ActiveRows(t)' = {}
    BY <1>0, <2>1 DEF ActiveRows, AtMostOneActive
  <2>5. \A u \in Tenants \ {t} : ActiveRows(u)' = ActiveRows(u)
    BY <2>1 DEF ActiveRows
  <2>6. currentRow' = [currentRow EXCEPT ![t] = Nil]
    <3>1. currentRow'[t] = Nil
      BY <2>4 DEF currentRow, TheRow
    <3>2. QED
      BY <2>5, <3>1, CurrentRowStep
  <2>7. Promise!Revoke(t)
    BY <2>1, <2>2, <2>3, <2>6 DEF Promise!Revoke
  <2>8. QED
    BY <2>7 DEF Promise!Next
<1>4. QED
  BY <1>1, <1>2, <1>3, TableStep

(* The subscriptions table, through every interleaving and failure of the  *)
(* requests, behaves as the entitlement: one at a time, begun only when    *)
(* there is none, and never revived.                                       *)
THEOREM EntitlementImplemented == SubsSafety => ImplementsEntitlement
<1>1. SubsInit => Promise!Init
  BY DEF SubsInit, SubInit, Promise!Init, currentRow, TheRow, ActiveRows
<1>2. /\ SubInv /\ SubInv' /\ [SubsNext \/ SubsDone]_allSubVars
      => [Promise!Next]_<<currentRow, {s \in SubRequests : sub[s].status = "canceled"}>>
  BY PromiseStep
<1>3. QED
  BY <1>1, <1>2, SubInvariant, PTL DEF SubsSafety, ImplementsEntitlement, Promise!Spec

=============================================================================
