------------------------------- MODULE Plans -------------------------------
(***************************************************************************)
(* The catalogue of plans: PlansService on the plans table, whose rows are *)
(* soft-deleted (deleted_at) and whose names are UNIQUE over all rows, the *)
(* deleted ones included.  The row inserted by request r has the fresh id  *)
(* r.  limit stands for max_users and max_requests_per_minute.             *)
(***************************************************************************)
EXTENDS Requests, Naturals

CONSTANTS PlanRequests,  \* requests to POST, PATCH and DELETE /plans
          SeedPlans,     \* ids of the plans the migration inserts
          PlanNames,
          Limits,
          SeedRow        \* their rows

PlanIds == SeedPlans \cup PlanRequests

PlanRow == [state : {"absent", "live", "deleted"},
            name  : PlanNames \cup {Nil},
            limit : Limits \cup {Nil}]

ASSUME PlansAssumption ==
    /\ SeedPlans \cap PlanRequests = {}
    /\ Nil \notin PlanIds \cup PlanNames \cup Limits
    /\ Limits \subseteq Nat
    /\ SeedRow \in [SeedPlans -> PlanRow]
    /\ \A p \in SeedPlans : SeedRow[p].state = "live" /\ SeedRow[p].name # Nil
                                                      /\ SeedRow[p].limit # Nil
    /\ \A p, q \in SeedPlans : SeedRow[p].name = SeedRow[q].name => p = q

VARIABLES plan,      \* the plans table
          planPc,    \* control state of each plan request
          planCall   \* its path parameter and body

planVars == <<plan, planPc, planCall>>

PlanSteps == {"findById", "findByName", "insert", "update", "delete"}

PlanOps == [op    : {"none", "create", "update", "delete"},
            id    : PlanIds \cup {Nil},
            name  : PlanNames \cup {Nil},
            limit : Limits \cup {Nil}]

(* A row that exists has a name and a limit: the columns are NOT NULL.     *)
PlanTypeOK ==
    /\ plan \in [PlanIds -> PlanRow]
    /\ \A p \in PlanIds : plan[p].state # "absent" => plan[p].name # Nil /\ plan[p].limit # Nil
    /\ planPc \in [PlanRequests -> {"idle"} \cup PlanSteps \cup Answers]
    /\ planCall \in [PlanRequests -> PlanOps]

PlanInit ==
    /\ plan = [p \in PlanIds |->
                 IF p \in SeedPlans THEN SeedRow[p]
                 ELSE [state |-> "absent", name |-> Nil, limit |-> Nil]]
    /\ planPc = [r \in PlanRequests |-> "idle"]
    /\ planCall = [r \in PlanRequests |->
                     [op |-> "none", id |-> Nil, name |-> Nil, limit |-> Nil]]

----------------------------------------------------------------------------
(* A row the queries see: every query of the module filters deleted_at.    *)
PlanLive(p) == plan[p].state = "live"

(* The UNIQUE constraint on name, which does not know of deleted_at.       *)
NameTaken(p, name) ==
    \E q \in PlanIds \ {p} : plan[q].state # "absent" /\ plan[q].name = name

(* Faulty variant: assigning the parameter as it is.                       *)
Assign(new, old) == new

(* COALESCE($n, column): an update leaves a column it is not given.        *)
Coalesce(new, old) == IF new = Nil THEN old ELSE new

PlanGoto(r, step) == planPc' = [planPc EXCEPT ![r] = step]
PlanReply(r, answer) == \E a \in Committed(answer) : PlanGoto(r, a)

BeginPlan(r, call, step) ==
    /\ planPc[r] = "idle"
    /\ planCall' = [planCall EXCEPT ![r] = call]
    /\ PlanGoto(r, step)
    /\ UNCHANGED plan

CreatePlan(r) == \E n \in PlanNames, l \in Limits :
    BeginPlan(r, [op |-> "create", id |-> r, name |-> n, limit |-> l], "findByName")

(* A client addresses a row it has seen; an id of no row is answered 404   *)
(* like the id of a deleted row.                                           *)
KnownPlans == {p \in PlanIds : plan[p].state # "absent"}

UpdatePlan(r) == \E p \in KnownPlans, n \in PlanNames \cup {Nil}, l \in Limits \cup {Nil} :
    BeginPlan(r, [op |-> "update", id |-> p, name |-> n, limit |-> l], "findById")

DeletePlan(r) == \E p \in KnownPlans :
    BeginPlan(r, [op |-> "delete", id |-> p, name |-> Nil, limit |-> Nil], "findById")

(* findById, and the test of updatePlan that decides whether the new name  *)
(* is looked up at all.                                                    *)
FindPlanById(r) ==
    LET call == planCall[r]
        renamed == call.name \notin {Nil, plan[call.id].name}
    IN  /\ planPc[r] = "findById"
        /\ \/ ~PlanLive(call.id) /\ PlanGoto(r, "notFound")
           \/ PlanLive(call.id) /\ call.op = "delete" /\ PlanGoto(r, "delete")
           \/ PlanLive(call.id) /\ call.op = "update" /\ renamed /\ PlanGoto(r, "findByName")
           \/ PlanLive(call.id) /\ call.op = "update" /\ ~renamed /\ PlanGoto(r, "update")
        /\ UNCHANGED <<plan, planCall>>

FindPlanByName(r) ==
    LET found == \E q \in PlanIds : PlanLive(q) /\ plan[q].name = planCall[r].name
    IN  /\ planPc[r] = "findByName"
        /\ \/ found /\ PlanGoto(r, "conflict")
           \/ ~found /\ planCall[r].op = "create" /\ PlanGoto(r, "insert")
           \/ ~found /\ planCall[r].op = "update" /\ PlanGoto(r, "update")
        /\ UNCHANGED <<plan, planCall>>

(* Faulty variants: an insert that starts over when the name is taken, and *)
(* one on a table without the UNIQUE constraint.                           *)
InsertPlanRetrying(r) ==
    /\ planPc[r] = "insert"
    /\ \/ NameTaken(r, planCall[r].name) /\ PlanGoto(r, "findByName") /\ UNCHANGED plan
       \/ /\ ~NameTaken(r, planCall[r].name)
          /\ plan' = [plan EXCEPT ![r] = [state |-> "live", name |-> planCall[r].name,
                                          limit |-> planCall[r].limit]]
          /\ PlanReply(r, "created")
    /\ UNCHANGED planCall

InsertPlanUnchecked(r) ==
    /\ planPc[r] = "insert"
    /\ plan' = [plan EXCEPT ![r] = [state |-> "live", name |-> planCall[r].name,
                                    limit |-> planCall[r].limit]]
    /\ PlanReply(r, "created")
    /\ UNCHANGED planCall

InsertPlan(r) ==
    LET call == planCall[r]
    IN  /\ planPc[r] = "insert"
        /\ \/ NameTaken(r, call.name) /\ PlanGoto(r, "duplicate") /\ UNCHANGED plan
           \/ /\ ~NameTaken(r, call.name)
              /\ plan' = [plan EXCEPT ![r] =
                            [state |-> "live", name |-> call.name, limit |-> call.limit]]
              /\ PlanReply(r, "created")
        /\ UNCHANGED planCall

(* Faulty variant: writing the entity back as it was found, deleted_at     *)
(* included.                                                               *)
UpdateRestoring(r) ==
    LET call == planCall[r]
        row  == plan[call.id]
    IN  /\ planPc[r] = "update"
        /\ plan' = [plan EXCEPT ![call.id] =
                      [state |-> "live", name |-> row.name,
                       limit |-> Coalesce(call.limit, row.limit)]]
        /\ PlanReply(r, "ok")
        /\ UNCHANGED planCall

(* UPDATE ... WHERE deleted_at IS NULL RETURNING: no row returned is a 404. *)
UpdatePlanRow(r) ==
    LET call == planCall[r]
        row  == plan[call.id]
        new  == [state |-> "live", name |-> Coalesce(call.name, row.name),
                 limit |-> Coalesce(call.limit, row.limit)]
    IN  /\ planPc[r] = "update"
        /\ \/ ~PlanLive(call.id) /\ PlanGoto(r, "notFound") /\ UNCHANGED plan
           \/ /\ PlanLive(call.id) /\ NameTaken(call.id, new.name)
              /\ PlanGoto(r, "duplicate") /\ UNCHANGED plan
           \/ /\ PlanLive(call.id) /\ ~NameTaken(call.id, new.name)
              /\ plan' = [plan EXCEPT ![call.id] = new]
              /\ PlanReply(r, "ok")
        /\ UNCHANGED planCall

(* The result of the UPDATE is ignored: a plan that a concurrent request   *)
(* deleted first is answered 204 as well.                                  *)
DeletePlanRow(r) ==
    /\ planPc[r] = "delete"
    /\ plan' = [plan EXCEPT ![planCall[r].id].state = IF @ = "live" THEN "deleted" ELSE @]
    /\ PlanReply(r, "noContent")
    /\ UNCHANGED planCall

FailPlan(r) ==
    /\ planPc[r] \in PlanSteps
    /\ PlanGoto(r, "failed")
    /\ UNCHANGED <<plan, planCall>>

PlanWork(r) ==
    \/ FindPlanById(r) \/ FindPlanByName(r)
    \/ InsertPlan(r) \/ UpdatePlanRow(r) \/ DeletePlanRow(r)

PlanStep(r) ==
    \/ CreatePlan(r) \/ UpdatePlan(r) \/ DeletePlan(r)
    \/ PlanWork(r) \/ FailPlan(r)

PlanNext == \E r \in PlanRequests : PlanStep(r)

PlansDone == (\A r \in PlanRequests : planPc[r] \in Answers) /\ UNCHANGED planVars

PlansSafety == PlanInit /\ [][PlanNext \/ PlansDone]_planVars

----------------------------------------------------------------------------
(* No two rows, deleted ones included, ever share a name, whichever        *)
(* creations and renamings pass findByName at the same time: the window    *)
(* between the lookup and the write is closed by the UNIQUE constraint.    *)
UniquePlanNames ==
    \A p, q \in PlanIds :
        p # q /\ plan[p].state # "absent" /\ plan[q].state # "absent"
            => plan[p].name # plan[q].name

(* A deletion answered 204 is final: the plan it named is deleted, also    *)
(* when updates of the same plan found it before the deletion and write    *)
(* after it, and also when another request deleted it first.               *)
DeletedMeansGone ==
    \A r \in PlanRequests :
        planPc[r] = "noContent" => plan[planCall[r].id].state = "deleted"

(* The table, names aside, behaves as the catalogue the other components   *)
(* rely on: in particular an update that found the plan before it was      *)
(* deleted changes nothing of it afterwards.                               *)
Table == INSTANCE Catalogue WITH
    SeedLimit <- [p \in SeedPlans |-> SeedRow[p].limit],
    catalogue <- [p \in PlanIds |-> [state |-> plan[p].state, limit |-> plan[p].limit]]

ImplementsCatalogue == Table!CatalogueSpec

=============================================================================
