---------------------------- MODULE Subscriptions ----------------------------
(***************************************************************************)
(* SubscriptionsService on the subscriptions table, together with the      *)
(* plans it refers to.  None of its operations is a transaction: subscribe *)
(* checks and then inserts, changePlan cancels and then inserts, cancel    *)
(* looks a row up and then cancels that row.  What holds them together is  *)
(* the partial unique index on the active rows of a tenant.                *)
(* The row inserted by request r has the fresh id r.                       *)
(***************************************************************************)
EXTENDS Catalogue

CONSTANTS Tenants,
          SubRequests  \* requests to POST, POST change and DELETE /subscriptions

ASSUME SubscriptionsAssumption == Nil \notin Tenants \cup SubRequests

VARIABLES sub,      \* the subscriptions table
          subPc,    \* control state of each subscription request
          subCall,  \* its operation, tenant and plan
          subSeen   \* the active row a cancellation has found

subVars == <<sub, subPc, subCall, subSeen>>
allSubVars == <<catalogue, subVars>>

SubRow == [status : {"none", "active", "canceled"},
           tenant : Tenants \cup {Nil},
           plan   : PlanIds \cup {Nil}]

SubOps == [op     : {"none", "subscribe", "change", "cancel"},
           tenant : Tenants \cup {Nil},
           plan   : PlanIds \cup {Nil}]

SubSteps == {"getPlanById", "findActive", "cancelActive", "create", "cancelById"}

(* What the code dereferences is there: a row has a tenant and a plan, and *)
(* a cancellation that goes on has found a row.                            *)
SubTypeOK ==
    /\ sub \in [SubRequests -> SubRow]
    /\ subPc \in [SubRequests -> {"idle"} \cup SubSteps \cup Answers]
    /\ subCall \in [SubRequests -> SubOps]
    /\ subSeen \in [SubRequests -> SubRequests \cup {Nil}]
    /\ \A s \in SubRequests :
          /\ sub[s].status # "none" => sub[s].tenant # Nil /\ sub[s].plan # Nil
          /\ subPc[s] = "cancelById" => subSeen[s] # Nil

SubInit ==
    /\ sub = [r \in SubRequests |-> [status |-> "none", tenant |-> Nil, plan |-> Nil]]
    /\ subPc = [r \in SubRequests |-> "idle"]
    /\ subCall = [r \in SubRequests |-> [op |-> "none", tenant |-> Nil, plan |-> Nil]]
    /\ subSeen = [r \in SubRequests |-> Nil]

----------------------------------------------------------------------------
ActiveRows(t) == {s \in SubRequests : sub[s].status = "active" /\ sub[s].tenant = t}

(* FIND_ACTIVE_BY_TENANT joins the plan and skips soft-deleted ones, so an *)
(* active row can be invisible to every operation that looks it up.        *)
VisibleRows(t) == {s \in ActiveRows(t) : PlanLive(sub[s].plan)}

SubGoto(r, step) == subPc' = [subPc EXCEPT ![r] = step]
SubReply(r, answer) == \E a \in Committed(answer) : SubGoto(r, a)

BeginSub(r, call, step) ==
    /\ subPc[r] = "idle"
    /\ subCall' = [subCall EXCEPT ![r] = call]
    /\ SubGoto(r, step)
    /\ UNCHANGED <<sub, subSeen>>

Subscribe(r) == \E t \in Tenants, p \in KnownPlans :
    BeginSub(r, [op |-> "subscribe", tenant |-> t, plan |-> p], "getPlanById")

ChangePlan(r) == \E t \in Tenants, p \in KnownPlans :
    BeginSub(r, [op |-> "change", tenant |-> t, plan |-> p], "getPlanById")

CancelSubscription(r) == \E t \in Tenants :
    BeginSub(r, [op |-> "cancel", tenant |-> t, plan |-> Nil], "findActive")

GetPlan(r) ==
    LET live == PlanLive(subCall[r].plan)
    IN  /\ subPc[r] = "getPlanById"
        /\ \/ ~live /\ SubGoto(r, "notFound")
           \/ live /\ subCall[r].op = "subscribe" /\ SubGoto(r, "findActive")
           \/ live /\ subCall[r].op = "change" /\ SubGoto(r, "cancelActive")
        /\ UNCHANGED <<sub, subCall, subSeen>>

(* Faulty variant: a cancellation without the test for null.               *)
FindActiveUnchecked(r) ==
    LET visible == VisibleRows(subCall[r].tenant)
    IN  /\ subPc[r] = "findActive"
        /\ subSeen' = [subSeen EXCEPT ![r] =
                         IF visible = {} THEN Nil ELSE CHOOSE s \in visible : TRUE]
        /\ SubGoto(r, IF subCall[r].op = "cancel" THEN "cancelById" ELSE "create")
        /\ UNCHANGED <<sub, subCall>>

FindActive(r) ==
    LET visible == VisibleRows(subCall[r].tenant)
    IN  /\ subPc[r] = "findActive"
        /\ \/ /\ subCall[r].op = "subscribe"
              /\ SubGoto(r, IF visible # {} THEN "conflict" ELSE "create")
              /\ UNCHANGED subSeen
           \/ /\ subCall[r].op = "cancel" /\ visible = {}
              /\ SubGoto(r, "notFound")
              /\ UNCHANGED subSeen
           \/ /\ subCall[r].op = "cancel"
              /\ \E s \in visible : subSeen' = [subSeen EXCEPT ![r] = s]
              /\ SubGoto(r, "cancelById")
        /\ UNCHANGED <<sub, subCall>>

Canceled(rows) == [s \in SubRequests |->
    IF s \in rows THEN [sub[s] EXCEPT !.status = "canceled"] ELSE sub[s]]

(* Faulty variant: the UPDATE without its condition on tenant_id.          *)
CancelActiveEverywhere(r) ==
    /\ subPc[r] = "cancelActive"
    /\ sub' = Canceled({s \in SubRequests : sub[s].status = "active"})
    /\ SubGoto(r, "create")
    /\ UNCHANGED <<subCall, subSeen>>

(* First half of changePlan.  The rows are canceled whether or not their   *)
(* plan is visible, and whether or not the second half succeeds.           *)
CancelActive(r) ==
    /\ subPc[r] = "cancelActive"
    /\ sub' = Canceled(ActiveRows(subCall[r].tenant))
    /\ SubGoto(r, "create")
    /\ UNCHANGED <<subCall, subSeen>>

NewSubRow(r) == [status |-> "active", tenant |-> subCall[r].tenant, plan |-> subCall[r].plan]

(* Faulty variant: the INSERT without the unique index.                    *)
CreateSubUnchecked(r) ==
    /\ subPc[r] = "create"
    /\ sub' = [sub EXCEPT ![r] = NewSubRow(r)]
    /\ SubReply(r, IF subCall[r].op = "change" THEN "ok" ELSE "created")
    /\ UNCHANGED <<subCall, subSeen>>

(* The INSERT of subscribe and of changePlan.  The foreign key to plans    *)
(* holds for a soft-deleted plan, the partial unique index may not.        *)
CreateSub(r) ==
    /\ subPc[r] = "create"
    /\ \/ /\ ActiveRows(subCall[r].tenant) # {}
          /\ SubGoto(r, "duplicate")
          /\ UNCHANGED sub
       \/ /\ ActiveRows(subCall[r].tenant) = {}
          /\ sub' = [sub EXCEPT ![r] = NewSubRow(r)]
          /\ SubReply(r, IF subCall[r].op = "change" THEN "ok" ELSE "created")
    /\ UNCHANGED <<subCall, subSeen>>

(* Faulty variants: cancelling whatever is active by now, and cancelling   *)
(* through the join that hides the subscriptions to deleted plans.         *)
CancelWhatIsActive(r) ==
    /\ subPc[r] = "cancelById"
    /\ sub' = Canceled(ActiveRows(subCall[r].tenant))
    /\ SubReply(r, "noContent")
    /\ UNCHANGED <<subCall, subSeen>>

CancelIfVisible(r) ==
    /\ subPc[r] = "cancelById"
    /\ sub' = Canceled({s \in VisibleRows(subCall[r].tenant) : s = subSeen[r]})
    /\ SubReply(r, "noContent")
    /\ UNCHANGED <<subCall, subSeen>>

(* Cancels the row that was found, if it still is active; the number of    *)
(* rows updated is not looked at, so the answer is 204 either way.         *)
CancelById(r) ==
    /\ subPc[r] = "cancelById"
    /\ sub' = Canceled({s \in SubRequests : s = subSeen[r] /\ sub[s].status = "active"})
    /\ SubReply(r, "noContent")
    /\ UNCHANGED <<subCall, subSeen>>

FailSub(r) ==
    /\ subPc[r] \in SubSteps
    /\ SubGoto(r, "failed")
    /\ UNCHANGED <<sub, subCall, subSeen>>

SubWork(r) ==
    GetPlan(r) \/ FindActive(r) \/ CancelActive(r) \/ CreateSub(r) \/ CancelById(r)

SubStep(r) ==
    \/ Subscribe(r) \/ ChangePlan(r) \/ CancelSubscription(r)
    \/ SubWork(r) \/ FailSub(r)

SubNext == \E r \in SubRequests : SubStep(r)

SubsInit == CatalogueInit /\ SubInit

SubsNext ==
    \/ SubNext /\ UNCHANGED catalogue
    \/ CatalogueNext /\ UNCHANGED subVars

SubsDone ==
    /\ \A r \in SubRequests : subPc[r] \in Answers
    /\ UNCHANGED allSubVars

SubsSafety == SubsInit /\ [][SubsNext \/ SubsDone]_allSubVars

----------------------------------------------------------------------------
(* A tenant never has two active subscriptions, whichever subscriptions,   *)
(* changes and cancellations of it overlap.                                *)
AtMostOneActive ==
    \A s, u \in SubRequests :
        /\ sub[s].status = "active" /\ sub[u].status = "active"
        /\ sub[s].tenant = sub[u].tenant
        => s = u

(* A tenant that once subscribed is without an active subscription only if *)
(* one of its own requests accounts for it: a cancellation that was        *)
(* carried out, or a plan change that stopped between its two halves.  A   *)
(* change that lost the race for the unique index is no such reason, for   *)
(* the winner's subscription is active.                                    *)
NoSilentLapse ==
    \A s \in SubRequests :
        sub[s].status # "none" /\ ActiveRows(sub[s].tenant) = {} =>
            \E r \in SubRequests :
                /\ subCall[r].tenant = sub[s].tenant
                /\ \/ subCall[r].op = "cancel" /\ subPc[r] \in {"noContent", "failed"}
                   \/ subCall[r].op = "change" /\ subPc[r] \in {"create", "failed"}

(* A cancellation ends only the subscription it found.  One that a plan    *)
(* change puts in its place between the lookup and the UPDATE is not hit:  *)
(* every canceled row has a change of its tenant other than the one that   *)
(* inserted it, or a cancellation that had seen this very row, to account  *)
(* for it.                                                                 *)
CanceledByItsOwn ==
    \A s \in SubRequests : sub[s].status = "canceled" =>
        \E r \in SubRequests :
            /\ subCall[r].tenant = sub[s].tenant
            /\ \/ subCall[r].op = "cancel" /\ subSeen[r] = s
                                           /\ subPc[r] \in {"noContent", "failed"}
               \/ subCall[r].op = "change" /\ r # s
                                           /\ subPc[r] \in {"create", "failed",
                                                            "duplicate", "ok"}

(* After a 204 the subscription that was found is canceled, and stays so,  *)
(* also if its plan was deleted in between or a change got there first.    *)
CancelTakesEffect ==
    \A r \in SubRequests :
        subPc[r] = "noContent" => sub[subSeen[r]].status = "canceled"

(* The table implements the abstract entitlement: see Entitlement.         *)
TheRow(rows) == IF rows = {} THEN Nil ELSE CHOOSE s \in rows : TRUE

currentRow == [t \in Tenants |-> TheRow(ActiveRows(t))]

Promise == INSTANCE Entitlement WITH
    SubscriptionIds <- SubRequests,
    current <- currentRow,
    past    <- {s \in SubRequests : sub[s].status = "canceled"}

ImplementsEntitlement == Promise!Spec

(* subscriptions.controller.ts:54 documents 404 as "No active              *)
(* subscription".  The code answers it as well to a tenant whose active    *)
(* subscription is to a deleted plan.                                      *)
NotFoundMeansNone ==
    [][\A r \in SubRequests :
          subPc[r] = "findActive" /\ subPc'[r] = "notFound"
              => ActiveRows(subCall[r].tenant) = {}]_allSubVars

=============================================================================
