------------------------------ MODULE AuditLog ------------------------------
(***************************************************************************)
(* AuditLogInterceptor around the handlers of module Rbac.  When a handler *)
(* has succeeded the interceptor calls AuditLogsService.log and does not   *)
(* await it: the INSERT is on its way while the answer is, and a failure   *)
(* of it is an unhandled rejection, which ends the process and with it     *)
(* every request in flight.                                                *)
(***************************************************************************)
EXTENDS Rbac

VARIABLES entry,  \* audit_logs: the entry of each request
          deaths  \* whether a process has died

auditVars == <<entry, deaths>>
allAuditVars == <<rbacVars, auditVars>>

EntriesTyped ==
    /\ entry \in [RbacRequests -> {"none", "sent", "written", "lost"}]
    /\ deaths \in BOOLEAN
    /\ \A r \in RbacRequests : entry[r] = "lost" => deaths

AuditTypeOK == RbacTypeOK /\ EntriesTyped

AuditInit ==
    /\ RbacInit
    /\ entry = [r \in RbacRequests |-> "none"]
    /\ deaths = FALSE

----------------------------------------------------------------------------
Succeeded(answer) == answer \in {"created", "ok", "noContent"}

(* Faulty variant: calling log before the handler.                         *)
InterceptEarly(r) ==
    entry' = IF rbacPc'[r] = "handler"
             THEN [entry EXCEPT ![r] = "sent"] ELSE entry

(* The tap operator runs when the handler has delivered its result, and    *)
(* not when it has thrown.  No request of Rbac is a GET.                   *)
Intercept(r) ==
    entry' = IF Succeeded(rbacPc'[r]) /\ rbacPc'[r] # rbacPc[r]
             THEN [entry EXCEPT ![r] = "sent"] ELSE entry

Handle(r) == RbacStep(r) /\ Intercept(r) /\ UNCHANGED deaths

(* Faulty variant: a failure of the INSERT is caught and forgotten.        *)
WriteOrDropEntry(r) ==
    /\ entry[r] = "sent"
    /\ \E e \in {"written", "lost"} : entry' = [entry EXCEPT ![r] = e]
    /\ UNCHANGED <<rbacVars, deaths>>

WriteEntry(r) ==
    /\ entry[r] = "sent"
    /\ entry' = [entry EXCEPT ![r] = "written"]
    /\ UNCHANGED <<rbacVars, deaths>>

(* The INSERT of an entry fails, or the process dies for another reason.   *)
(* Statements that were under way are carried out or not.                  *)
ProcessDies ==
    LET inFlight == {r \in RbacRequests : rbacPc[r] \in RbacSteps}
        sent == {r \in RbacRequests : entry[r] = "sent"}
    IN  /\ inFlight \cup sent # {}
        /\ rbacPc' = [r \in RbacRequests |-> IF r \in inFlight THEN "failed" ELSE rbacPc[r]]
        /\ \E done \in SUBSET sent :
              entry' = [r \in RbacRequests |->
                          IF r \in done THEN "written"
                          ELSE IF r \in sent THEN "lost" ELSE entry[r]]
        /\ deaths' = TRUE
        /\ rbacCall' = [r \in RbacRequests |-> IF r \in inFlight THEN NoCall ELSE rbacCall[r]]
        /\ UNCHANGED tables

AuditNext ==
    \/ \E r \in RbacRequests : Handle(r) \/ WriteEntry(r)
    \/ ProcessDies

AuditDone ==
    /\ \A r \in RbacRequests : rbacPc[r] \in Answers /\ entry[r] # "sent"
    /\ UNCHANGED allAuditVars

AuditSpec == AuditInit /\ [][AuditNext \/ AuditDone]_allAuditVars

----------------------------------------------------------------------------
Logged(r) == entry[r] \in {"sent", "written"}

(* What the log says was done was done: behind every entry is its row,     *)
(* created or deleted, whatever else happened to it since; a failed        *)
(* handler leaves no entry.  (Grants come and go and leave no trace that   *)
(* an entry could be held against.)                                        *)
LogIsTruthful ==
    \A r \in RbacRequests : Logged(r) =>
        LET call == rbacCall[r]
        IN  /\ call.op = "createRole" => role[r].state # "absent"
            /\ call.op = "deleteRole" => role[call.role].state = "deleted"
            /\ call.op = "createPerm" => perm[r].state # "absent"
            /\ call.op = "deletePerm" => perm[call.perm].state = "deleted"
            /\ call.op \in {"assignRole", "addUser"} => roleOf[call.tenant][call.user] # Nil

=============================================================================
