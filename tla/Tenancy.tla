------------------------------ MODULE Tenancy ------------------------------
(***************************************************************************)
(* TenantsService.createTenant: a lookup of the slug, and then the rows of *)
(* the tenant, of its three default roles and of its owner's membership in *)
(* one PlsqlService.executeTransaction, on a connection of the pool.       *)
(*                                                                         *)
(* The rows a transaction has inserted are on the server and nobody sees   *)
(* them until it commits; its slug is locked in the UNIQUE index from the  *)
(* first row on.  A connection can be lost at any moment, and so can the   *)
(* process, while the server still holds the transaction.                  *)
(***************************************************************************)
EXTENDS Requests, Pool

CONSTANTS CreateRequests, Slugs

ASSUME TenancyAssumption == Nil \notin Slugs /\ IsFiniteSet(CreateRequests)

VARIABLES written,    \* uncommitted rows of the transaction of each request
          committed,  \* its rows that everybody sees
          broken,     \* the requests whose connection was lost
          createPc,   \* control state of each request
          createSlug  \* the slug it asks for

createVars == <<written, committed, broken, createPc, createSlug>>
tenancyVars == <<createVars, poolVars>>

(* The rows in the order of their INSERTs.                                 *)
TenantRows == <<"tenant", "owner", "admin", "member", "membership">>
Whole == Len(TenantRows)

InTransaction == {"begin", "insertTenant", "insertRole", "insertMember", "commit", "rollback"}
CreateSteps == {"findBySlug"} \cup InTransaction

(* Only a transaction that is still open has uncommitted rows, as many as  *)
(* the statements it has run; it has a connection, or lost it.             *)
TenancyTypeOK ==
    /\ written \in [CreateRequests -> 0..Whole]
    /\ committed \in [CreateRequests -> 0..Whole]
    /\ broken \subseteq CreateRequests
    /\ createPc \in [CreateRequests -> {"idle"} \cup CreateSteps \cup Answers]
    /\ createSlug \in [CreateRequests -> Slugs \cup {Nil}]
    /\ holders \subseteq CreateRequests
    /\ waiting \in Seq(CreateRequests)
    /\ \A r \in CreateRequests :
          written[r] > 0 => createPc[r] \in InTransaction \/ r \in broken

TenancyInit ==
    /\ written = [r \in CreateRequests |-> 0]
    /\ committed = [r \in CreateRequests |-> 0]
    /\ broken = {}
    /\ createPc = [r \in CreateRequests |-> "idle"]
    /\ createSlug = [r \in CreateRequests |-> Nil]
    /\ PoolInit

----------------------------------------------------------------------------
CreateGoto(r, step) == createPc' = [createPc EXCEPT ![r] = step]
CreateReply(r, answer) == CreateGoto(r, answer) /\ Release(r)

(* A request runs a statement when it is its turn and has a connection.    *)
At(r, step) == createPc[r] = step /\ r \in holders

Rivals(r) == {q \in CreateRequests \ {r} : createSlug[q] = createSlug[r]}
SlugTaken(r) == \E q \in Rivals(r) : committed[q] > 0
SlugLocked(r) == \E q \in Rivals(r) : written[q] > 0

CreateTenant(r) ==
    /\ createPc[r] = "idle"
    /\ \E s \in Slugs : createSlug' = [createSlug EXCEPT ![r] = s]
    /\ CreateGoto(r, "findBySlug")
    /\ Demand(r)
    /\ UNCHANGED <<written, committed, broken>>

FindBySlug(r) ==
    /\ At(r, "findBySlug")
    /\ \/ SlugTaken(r) /\ CreateReply(r, "conflict")
       \/ ~SlugTaken(r) /\ CreateGoto(r, "begin") /\ ReleaseAndDemand(r)
    /\ UNCHANGED <<written, committed, broken, createSlug>>

Begin(r) ==
    /\ At(r, "begin")
    /\ CreateGoto(r, "insertTenant")
    /\ UNCHANGED <<written, committed, broken, createSlug, poolVars>>

(* Faulty variants: a statement that does not use the transaction's        *)
(* connection is committed at once, and needs another connection.          *)
WriteRowAutocommitted(r, next) ==
    /\ committed' = [committed EXCEPT ![r] = @ + 1]
    /\ written' = [written EXCEPT ![r] = @ + 1]
    /\ CreateGoto(r, next)
    /\ UNCHANGED <<broken, createSlug, poolVars>>

(* The callback's query is client.query: the row is uncommitted.           *)
WriteRow(r, next) ==
    /\ written' = [written EXCEPT ![r] = @ + 1]
    /\ CreateGoto(r, next)
    /\ UNCHANGED <<committed, broken, createSlug, poolVars>>

(* The INSERT waits for a transaction that has inserted the same slug, and *)
(* fails once that has committed.                                          *)
InsertTenant(r) ==
    /\ At(r, "insertTenant")
    /\ ~SlugLocked(r)
    /\ \/ ~SlugTaken(r) /\ WriteRow(r, "insertRole")
       \/ /\ SlugTaken(r)
          /\ CreateGoto(r, "rollback")
          /\ UNCHANGED <<written, committed, broken, createSlug, poolVars>>

InsertRoleOnPool(r) ==
    /\ At(r, "insertRole")
    /\ Cardinality(holders) < PoolSize
    /\ WriteRow(r, IF written[r] + 1 < Whole - 1 THEN "insertRole" ELSE "insertMember")

(* The loop over defaultRoles.                                             *)
InsertRole(r) ==
    /\ At(r, "insertRole")
    /\ WriteRow(r, IF written[r] + 1 < Whole - 1 THEN "insertRole" ELSE "insertMember")

(* Faulty variant: the answer does not wait for COMMIT.                    *)
InsertMemberLast(r) ==
    /\ At(r, "insertMember")
    /\ written' = [written EXCEPT ![r] = @ + 1]
    /\ CreateReply(r, "created")
    /\ UNCHANGED <<committed, broken, createSlug>>

InsertMember(r) == At(r, "insertMember") /\ WriteRow(r, "commit")

CommitRows(r) ==
    /\ committed' = [committed EXCEPT ![r] = written[r]]
    /\ written' = [written EXCEPT ![r] = 0]

Commit(r) ==
    /\ At(r, "commit")
    /\ CommitRows(r)
    /\ CreateReply(r, "created")
    /\ UNCHANGED <<broken, createSlug>>

(* Faulty variants: a catch block without ROLLBACK, and release() at the   *)
(* end of both blocks instead of in finally, so that a ROLLBACK that       *)
(* throws skips it.                                                        *)
RollbackForgotten(r) ==
    /\ At(r, "rollback")
    /\ CreateReply(r, "failed")
    /\ UNCHANGED <<written, committed, broken, createSlug>>

RollbackUnreleased(r) ==
    /\ At(r, "rollback")
    /\ written' = [written EXCEPT ![r] = IF r \in broken THEN @ ELSE 0]
    /\ CreateGoto(r, "failed")
    /\ IF r \in broken THEN UNCHANGED poolVars ELSE Release(r)
    /\ UNCHANGED <<committed, broken, createSlug>>

(* The catch block and finally.  On a broken connection ROLLBACK throws in *)
(* its turn, and the server knows nothing of it.                           *)
Rollback(r) ==
    /\ At(r, "rollback")
    /\ written' = [written EXCEPT ![r] = IF r \in broken THEN @ ELSE 0]
    /\ CreateReply(r, "failed")
    /\ UNCHANGED <<committed, broken, createSlug>>

----------------------------------------------------------------------------
(* connect() fails, outside the try block, or the lookup does.             *)
ConnectFails(r) ==
    /\ createPc[r] \in {"findBySlug", "begin"}
    /\ CreateGoto(r, "failed")
    /\ GiveUp(r)
    /\ UNCHANGED <<written, committed, broken, createSlug>>

StatementFails(r) ==
    /\ createPc[r] \in InTransaction \ {"commit", "rollback"} /\ r \in holders
    /\ CreateGoto(r, "rollback")
    /\ UNCHANGED <<written, committed, broken, createSlug, poolVars>>

(* The connection of an open transaction is lost.                          *)
ConnectionLost(r) ==
    /\ createPc[r] \in InTransaction /\ r \in holders \ broken
    /\ CreateGoto(r, "rollback")
    /\ broken' = broken \cup {r}
    /\ UNCHANGED <<written, committed, createSlug, poolVars>>

(* The server ends a transaction whose connection is gone.  It aborts it,  *)
(* unless COMMIT was on its way: that may still be carried out.            *)
ServerEnds(r) ==
    /\ r \in broken /\ written[r] > 0
    /\ \/ written' = [written EXCEPT ![r] = 0] /\ UNCHANGED committed
       \/ written[r] = Whole /\ CommitRows(r)
    /\ UNCHANGED <<broken, createPc, createSlug, poolVars>>

(* Every request in flight is lost with the process, and its connections   *)
(* with it; the process that is started next has a new pool.               *)
ProcessDies ==
    LET inFlight == {r \in CreateRequests : createPc[r] \in CreateSteps}
    IN  /\ inFlight # {}
        /\ createPc' = [r \in CreateRequests |->
                          IF r \in inFlight THEN "failed" ELSE createPc[r]]
        /\ broken' = broken \cup {r \in inFlight : written[r] > 0}
        /\ holders' = {}
        /\ waiting' = <<>>
        /\ UNCHANGED <<written, committed, createSlug>>

CreateWork(r) ==
    \/ FindBySlug(r) \/ Begin(r) \/ InsertTenant(r) \/ InsertRole(r) \/ InsertMember(r)
    \/ Commit(r) \/ Rollback(r)

TenancyNext ==
    \/ \E r \in CreateRequests :
          \/ CreateTenant(r) \/ CreateWork(r) \/ ServerEnds(r)
          \/ ConnectFails(r) \/ StatementFails(r) \/ ConnectionLost(r)
    \/ ProcessDies

TenancyDone ==
    /\ \A r \in CreateRequests : createPc[r] \in Answers /\ (r \in broken => written[r] = 0)
    /\ UNCHANGED tenancyVars

TenancySafety == TenancyInit /\ [][TenancyNext \/ TenancyDone]_tenancyVars

(* A statement that can run is run, and the server notices in the end that *)
(* a connection is gone.  Nothing is assumed about timeouts: they may, but *)
(* need not, strike a request that waits.                                  *)
TenancySpec ==
    /\ TenancySafety
    /\ \A r \in CreateRequests : WF_tenancyVars(CreateWork(r)) /\ WF_tenancyVars(ServerEnds(r))

----------------------------------------------------------------------------
(* What others see of the transactions is the registry: a tenant appears   *)
(* in one step with its roles and its owner, no two have one slug, and     *)
(* none is changed by what fails, dies or is answered twice.               *)
Registry == INSTANCE TenantRegistry WITH
    TenantIds <- CreateRequests,
    rows      <- committed,
    slugOf    <- [r \in CreateRequests |-> IF committed[r] > 0 THEN createSlug[r] ELSE Nil]

ImplementsRegistry == Registry!Spec

(* Answers can be relied on.  After a 201 the whole tenant is there, and   *)
(* after a 409 a whole tenant that has the slug, whatever connections or   *)
(* processes were lost; only an error leaves it open.                      *)
AnswersAreTrue ==
    \A r \in CreateRequests :
        /\ createPc[r] = "created" => committed[r] = Whole
        /\ createPc[r] = "conflict" => \E q \in Rivals(r) : committed[q] = Whole

(* Connections are neither lost nor held twice.  A request has a place, in *)
(* the pool or in the line, exactly as long as it is in flight, however it *)
(* ends; and nobody waits while a connection is free.                      *)
PoolConserved ==
    LET line == {waiting[i] : i \in DOMAIN waiting}
    IN  /\ holders \cup line = {r \in CreateRequests : createPc[r] \in CreateSteps}
        /\ holders \cap line = {}
        /\ Cardinality(line) = Len(waiting)
        /\ Cardinality(holders) <= PoolSize
        /\ waiting # <<>> => Cardinality(holders) = PoolSize

(* Waiting never closes a circle.  Who has inserted a slug does not wait   *)
(* for anything in its turn, except for the server to notice that its      *)
(* connection is gone; and while somebody waits for a connection, somebody *)
(* else can go on.  A transaction holds its slug and its connection at     *)
(* once, so this rests on the order in which it takes them.                *)
CanMove(r) ==
    \/ /\ createPc[r] \in CreateSteps /\ r \in holders
       /\ createPc[r] = "insertTenant" => ~SlugLocked(r)
    \/ r \in broken /\ written[r] > 0

NobodyIsStuck ==
    /\ \A r \in CreateRequests : createPc[r] = "insertTenant" =>
          \A q \in Rivals(r) : written[q] > 0 => CanMove(q)
    /\ waiting # <<>> => \E r \in CreateRequests : CanMove(r)

(* Every creation that was sent is answered, without the help of a         *)
(* timeout: neither waiting for a connection nor for another transaction's *)
(* slug, not even one whose process died, goes on for ever.                *)
CreateAnswered ==
    \A r \in CreateRequests : createPc[r] # "idle" ~> createPc[r] \in Answers

=============================================================================
