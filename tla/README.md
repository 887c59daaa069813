# Verification of the Tenant Platform API

TLA+ models of the multi-tenant SaaS API in `src/`, TLC runs that check them on small
instances, and TLAPS proofs of what matters most for instances of every size.

The API is a NestJS program on one Node.js event loop. It keeps its state in PostgreSQL
(raw SQL through `PlsqlService`) and, for rate limiting, in Redis. Almost every operation
is a sequence of awaited statements, each of which is its own transaction: a lookup, a
check in TypeScript, and a write. What can go wrong is therefore what happens between
two statements of one request while other requests run, fail, or lose their answer; what
holds the data together are a few UNIQUE indexes and conditions in the WHERE clauses. One
operation, createTenant, is a real transaction, with a connection it must give back.
That is what the models are about.

## Inventory

Paths are relative to `src/api/src/`.

| Component | State | Operations | Interacts with | What makes it correct |
|---|---|---|---|---|
| Plans (`modules/plans`) | `plans`: soft-deleted rows, `name` UNIQUE over all rows | create, update, delete, reads | subscriptions join it; seeded by migration 004 | names stay unique; a deleted plan never comes back or changes |
| Subscriptions (`modules/subscriptions`) | `subscriptions`: partial UNIQUE index on a tenant's active rows | subscribe, changePlan, cancelSubscription; getPlanLimits and validateUserLimit read | plans (join on live rows), tenants and the rate limit read it | at most one active row; no subscription is lost or canceled without a request that accounts for it |
| User limit (`modules/tenants` addUser) | `user_tenants`, the role `member` | addUser | validateUserLimit, roles | members and plan limit |
| Authentication (`modules/auth`, `modules/users`) | `users`, `refresh_tokens` | register, login, refresh, logout | the users table is written only by register | unique emails; a rotated, revoked or expired token is worthless |
| Rate limiting (`common/guards/rate-limit.guard.ts`) | one Redis counter with a lifetime per tenant | canActivate | getPlanLimits | no window lets in more than the largest limit; only a call that is sent again lengthens one; they end, but for a failure between INCR and EXPIRE |
| Tenants (`modules/tenants` createTenant) | `tenants`, three default roles, the owner's membership | createTenant, a real transaction | roles, the connection pool | all or nothing, unique slugs, answers that are true |
| Roles and permissions (`modules/roles`, `modules/permissions`) | `roles` and `permissions`, soft-deleted, names UNIQUE over all rows; `role_permissions`; `user_tenants.role_id` | create, assign and delete roles; create, delete, grant and revoke permissions; addUser gives the role `member` | the guards read them | a deleted role or permission admits nobody; members have roles of their tenant; roles and members are changed only for their own tenant |
| Audit log (`modules/audit-logs`, the interceptor) | `audit_logs` | log, which the interceptor does not await | the mutations of four controllers (tenant members, roles, permissions, subscriptions) | it tells only of what was done, and loses entries only with the process |
| Guard chain (Auth, Tenant, RateLimit, Roles, Permissions) | none | canActivate | reads the tables above | only members act for a tenant |
| Statements and transactions (`core/plsql`, `infrastructure/database`) | a pool of 20 connections | executeQuery, executeTransaction | everything | a connection is always released, once; what an answer says is committed |
| Bootstrap, configuration, logger, DTOs, pipes, Swagger, health | none | | | not modelled |

Hard behaviour, by kind: interleaving between the statements of two requests (every
service); values used after they were read (the plan limit, the subscription found by a
cancellation, the token found by a refresh); operations of several statements that stop in
the middle (changePlan, refresh, register, INCR and EXPIRE); soft deletes that hide a row
from the queries but not from the indexes; calls to Redis that are sent again; answers lost
after the commit; connections and processes lost inside a transaction; a pool that is
exhausted by requests that wait for each other's rows; a log entry that nobody awaits. `PROJECT.json` lists each with its line under "hazards".

## How the code is modelled

`Requests` holds what all handlers share. A request is a control state: `"idle"` before it is
sent, then the name of the statement it runs next, then its answer. One action is one
statement together with the TypeScript that runs after it until the next `await`; the event
loop runs that part without interruption, and the database executes a statement outside a
transaction atomically. Requests of one component are independent, so the next-state relation
interleaves them freely.

- *Failure.* `Fail...` lets any request end with `"failed"` before its next statement: the
  database refuses, the process dies. `Committed(answer)` lets the last statement of a
  request take effect and the client see an error (`executeQuery` logs and rethrows
  whatever the driver reports). A statement that took effect in the middle followed by an
  error is the statement followed by `Fail...`. `"duplicate"` is a unique violation, which
  the exception filter turns into a 500 like every error that is not an HttpException.
- *Identity.* A request is sent once and the row it inserts has the id of the request: fresh
  ids without a counter. The number of requests is the bound of a run, and the theorems hold
  for any set of requests. `Seats` and `RateLimit` have slots instead, handlers in flight
  that are used again, because there the number in flight is what matters.
- *Inputs.* Ids in a path or body are those of rows that exist or existed; an id of no row is
  answered like a deleted one. A client presents a refresh token it was given, or a string
  that is no token.
- *Data.* Passwords, display names, descriptions, timestamps other than the expiry, and the
  contents of JWTs are left out. `max_users` and `max_requests_per_minute` of a plan are one
  number, `limit`; both are updated by the same statement, and each consumer reads one.
- Users are never deleted by any code, so the branch of `FindById` for a missing user cannot
  be reached; it is kept because the code has it.

### Modules

| Module | Models | State and actions |
|---|---|---|
| `Catalogue` | the `plans` table as others see it (abstract) | `catalogue`: state and limit per plan; `PublishPlan`, `ResizePlan`, `RetirePlan` |
| `Plans` | PlansService on that table | `plan`, and `planPc`, `planCall` per request; `FindPlanById`, `FindPlanByName`, `InsertPlan`, `UpdatePlanRow`, `DeletePlanRow`; implements `Catalogue` |
| `Entitlement` | what subscriptions promise (abstract) | `current`, `past`; `Grant`, `Revoke` |
| `Subscriptions` | SubscriptionsService, on `Catalogue` | `sub`, `subPc`, `subCall`, `subSeen`; `GetPlan`, `FindActive`, `CancelActive`, `CreateSub`, `CancelById`; implements `Entitlement` |
| `Seats` | TenantsService.addUser and validateUserLimit, on `Subscriptions` | `members`, `memberRole`, `addPc`, `addCall`, `addLimit`; `FindMember`, `FindLimit`, `CountMembers`, `FindRole`, `InsertMember`, `DeleteMemberRole` |
| `Platform` | `Plans`, `Subscriptions` and `Seats` on one database | the variables of the three; each of their steps, between any two of the others |
| `Auth` | AuthService, AuthRepository, UsersRepository | `user`, `token`, `now`, `authPc`, `authCall`, `session`; `FindByEmail`, `CreateUser`, `FindToken`, `Revoke`, `RevokeExpired`, `FindById`, `CreateToken`, `LogoutToken`, `Tick` |
| `RateLimit` | RateLimitGuard and the Redis commands it uses | `counter`, `ttl`, `limit`, `ratePc`, `rateTenant`, `rateLimit`, and the histories `admitted`, `mishap`, `lost`, `renewed`; `Send`, `GetPlanLimits`, `Incr`, `Expire`, `ReadTtl`, `LoseReply`, `FailRate`, `ChangeLimit`, `Tick` |
| `Pool` | the connection pool as PlsqlService uses it | `holders`, `waiting`; `Demand`, `Release`, `ReleaseAndDemand`, `GiveUp` |
| `TenantRegistry` | what createTenant promises (abstract) | `rows`, `slugOf`; `Found` |
| `Tenancy` | createTenant on executeTransaction, on `Pool` | `written`, `committed`, `broken`, `createPc`, `createSlug`; `FindBySlug`, `Begin`, `InsertTenant`, `InsertRole`, `InsertMember`, `Commit`, `Rollback`, `ConnectFails`, `StatementFails`, `ConnectionLost`, `ServerEnds`, `ProcessDies`; implements `TenantRegistry` |
| `Rbac` | RolesService, PermissionsService, addUser's role, TenantGuard, and what RolesGuard and PermissionsGuard find | `role`, `perm`, `grants`, `roleOf`, `rbacPc`, `rbacCall`; `TenantGuard`, one action per handler's beginning and one per statement |
| `AuditLog` | AuditLogInterceptor around the handlers of `Rbac`, and the death of the process | `entry`, `deaths`; `Handle`, `WriteEntry`, `ProcessDies` |
| `MC...` | instances for TLC | |
| `...Proofs` | theorems and their proofs | |

`Subscriptions` EXTENDS `Catalogue` and `Seats` EXTENDS `Subscriptions`: each adds its variables
and composes its actions with those below it, so plans are resized and deleted, and
subscriptions changed, in the middle of an `addUser`. `Plans` shows that the real plan
service implements the catalogue those modules rely on, and `Platform` puts it there: it
EXTENDS `Plans` and instantiates `Seats` with the `plans` table, reduced to what the joins of
`subscriptions.sql.ts` read of it, in the place of `catalogue`. `RateLimit` keeps the answer of
getPlanLimits as a variable that may change at any time, which is all that subscriptions
and plans can do to it.
`Tenancy` EXTENDS `Pool`: every statement of it happens on a connection
that it demanded and has to release. `AuditLog` EXTENDS `Rbac`: its `Handle` is a step of a
request joined with what the interceptor does at that step.

*Transactions.* An uncommitted row is in `written`, a row that others see in `committed`; both
count the rows of one creation (the tenant, three roles, the membership), in the order of the
INSERTs. The first row locks the slug in its UNIQUE index: a rival's INSERT waits, connection in
hand, and fails when the holder has committed. A lost connection (`broken`) is
known to the client at once and to the server later (`ServerEnds`), which then aborts, unless
COMMIT was on its way, and holds the rows and the lock until then. node-postgres reports the
loss of a connection that is checked out as an 'error' event, and nobody in `src/` listens to
it on the client; so losing one may end the process as well (`ProcessDies`), as may anything else.

*Calls to Redis.* The client of `redis.module.ts` has no options, so ioredis sends a call again when the
connection broke before its reply. `LoseReply` is that: Redis has carried out the INCR or the EXPIRE,
and the guard is still where it was, to send it once more at any later time or to give up
(`FailRate`). An INCR sent again may count 2 first, and then nobody sends an EXPIRE; an EXPIRE sent
again lengthens the window, or that of the key that came after it. One client sends its calls in
the order in which they were made; the model does not keep that order between guards, since several
processes may share a Redis, so it has more behaviours than one process and what holds of it holds there.

*Roles.* A request goes from `"idle"` through `TenantGuard` to `"handler"`, where the operation and
its parameters are chosen; a client names any row that exists or existed, of any tenant. The
order of the guards is that of the controllers. AuthGuard only verifies a signature, and
RateLimitGuard has its own module; a request that either turns away has not touched these tables
and is one that was not sent. RolesGuard and PermissionsGuard are exported but on no route (the
README calls them optional): they are operators, and the properties say what they would
decide. The model forgets the parameters of a request that was refused or failed, which
nobody acts on (it keeps the state space small). `late` remembers that a row the request needs
was deleted when its handler began: the role or permission it names, or the role `member` of its
tenant when addUser is to give that.

*Audit log.* Every operation of `Rbac` is a POST, PATCH or DELETE of a controller that has the
interceptor. `tap` runs when a handler delivered its result, and starts the INSERT without
awaiting it: `Intercept` sets the entry to `"sent"` in the step of the answer. A rejected INSERT is
an unhandled rejection, which ends a Node process by default: `ProcessDies` covers it, and loses
or keeps the entries that were under way.

Each module also holds the "Faulty variants" of its actions, that is, what plausible bugs
would make of them. Replacing an action by its variant makes TLC report the property that
guards against it; the pairs are listed in `PROJECT.json` under "mutants".

## What TLC checks

Every run is a module, a configuration and the properties it lists; `PROJECT.json` has them
under "runs". State counts are those of `tlc -workers 2`.

| Run | Configuration | Properties | Size | Result |
|---|---|---|---|---|
| `plans` | MCPlans.cfg | types, `UniquePlanNames`, `DeletedMeansGone`, `ImplementsCatalogue` | 3 requests, 1 seeded plan, 2 names: 110 000 states | holds |
| `subscriptions` | MCSubscriptions.cfg | types, `AtMostOneActive`, `NoSilentLapse`, `CanceledByItsOwn`, `CancelTakesEffect`, `ImplementsEntitlement` | 3 requests, 2 tenants, 2 plans, symmetry: 109 000 | holds |
| `subscriptions_notfound` | MCSubscriptionsNotFound.cfg | `NotFoundMeansNone` | 2 requests | violated |
| `seats` | MCSeats.cfg | types, `SeatOvershootBounded` | 2 additions in flight, 4 users, a plan of 1 or 2 seats: 334 000 | holds |
| `seats_limit` | MCSeatsLimit.cfg | `SeatsWithinPlan` | 2 additions in flight | violated |
| `platform` | MCPlatform.cfg | `DeletedPlanIsOutOfUse`, `ServicesCompose`, `PlatformAnswered` | 2 plan requests, 1 subscription request, 1 addition in flight, 1 seeded plan: 235 000 | holds |
| `auth` | MCAuth.cfg | types, `UniqueEmails`, `RotationRevokesParent`, `SpentTokenBuysNothing`, `SessionsKeepTheirOwner` | 3 requests, 2 emails, time 0..2: 255 000 | holds |
| `auth_rotation` | MCAuthRotation.cfg | `TokenReplacedOnce` | 3 requests, 1 email | violated |
| `rate_limit` | MCRateLimit.cfg | types, `WindowCap`, `RenewalsAreResent`, `TendedUnlessMishap`, `WindowEnds` | 2 guards in flight, 1 tenant, limits 1 and 2, window of 2 ticks, 2 lost replies to EXPIRE: 144 000 | holds |
| `tenancy` | MCTenancy.cfg | types, `AnswersAreTrue`, `PoolConserved`, `NobodyIsStuck`, `ImplementsRegistry`, `CreateAnswered` | 3 creations, 2 slugs, 2 connections: 68 000 | holds |
| `rbac` | MCRbac.cfg | `AuditTypeOK` (which includes the types of `Rbac`), `DeletedRoleAdmitsNobody`, `DeletedPermissionAdmitsNobody`, `MembersHaveRolesOfTheirTenant`, `GoneIsRefused`, `OnlyAssignmentsChangeRoles`, `TenantsAreIsolated`, `LogIsTruthful` | 3 requests, 2 tenants, 2 users, 3 seeded roles, 2 permissions one of which is deleted, symmetry: 983 000 | holds |
| `rate_limit_orphan` | MCRateLimitOrphan.cfg | `LimitIsPerMinute` | as `rate_limit` | violated |

### What the properties say

- *Plans.* The lookup of a name and the write are two statements. `UniquePlanNames` says that the
  UNIQUE constraint closes the gap for creations and renamings alike. `DeletedMeansGone` and
  `ImplementsCatalogue` say that an update which found its plan alive cannot touch it once it is
  deleted, because the UPDATE repeats the condition `deleted_at IS NULL`.
- *Subscriptions.* `AtMostOneActive` is the purpose of the partial index. The others are about what
  the index does not decide. `NoSilentLapse`: a tenant loses its only subscription through a request
  of its own that was carried out or stopped half-way, never through a lost race. `CanceledByItsOwn`:
  a cancellation ends the row it found and not the one that replaced it. `CancelTakesEffect`: a
  204 is true, also if the plan vanished or a change was faster. `Entitlement` is the promise
  in one state machine: a tenant is granted a subscription when it has none, loses the one it has,
  and a past one never returns.
- *User limit.* Nothing is locked between the count and the insert, so the limit itself can be
  exceeded (`SeatsWithinPlan` fails). `SeatOvershootBounded` says by how much: members and
  promised seats together stay below the largest limit plus the additions in flight.
- *Platform.* `ServicesCompose`: with the statements of the plan service in the place of the abstract
  catalogue, subscriptions and additions still behave as their own models say. `DeletedPlanIsOutOfUse`
  relates a confirmed deletion to what other services read later: no tenant's limits come
  from a plan whose deletion was answered 204, whatever subscribe or change found it alive
  before and inserted its row after. `PlatformAnswered`: every request to the three is answered; it
  would fail if an insert that meets a taken name were tried again, since a deleted plan
  keeps its name for ever.
- *Authentication.* `RotationRevokesParent`: there is no moment at which the presented token and the
  one issued for it are both usable. `SpentTokenBuysNothing`: a token that was revoked or expired
  when a refresh was sent is worthless, so double use needs requests that overlap.
  `SessionsKeepTheirOwner`: along any chain of refreshes a token belongs to the account it was issued
  for, a success has handed one out, and an email that was refused has an account, also when
  the registration of that account failed half-way, so that a login finds it.
- *Rate limit.* `WindowCap` holds for one life of a key although guards compare with limits read
  earlier and are overtaken, and although calls are sent again. `RenewalsAreResent`: windows are
  fixed but for the replies to EXPIRE that were lost, each of which lengthens one window of its tenant
  at most once, be it that of a later key; no other interleaving does. `TendedUnlessMishap`: a key
  without a lifetime has a guard in flight that is about to give it one, or the one thing happened
  that explains why not: that guard failed, or the key's first INCR lost its reply. `WindowEnds`: the
  key goes away unless after such a mishap nobody is left to give it a lifetime.
- *Tenants.* `ImplementsRegistry`: others see a tenant appear in one step with its roles and its owner,
  under a slug nobody has, and nothing that fails later takes it away. `AnswersAreTrue`: after a 201 the
  tenant is there, after a 409 another whole tenant has the slug; after an error either may be
  the case, as a COMMIT whose acknowledgement was lost may have been carried out. `PoolConserved`: a
  request is in the pool or in the line exactly while it is in flight, on every path through
  `try`, `catch` and `finally`, ROLLBACK that throws included; and nobody waits while a connection is
  free. `NobodyIsStuck`: waiting never closes a circle; whoever has a slug that others wait for can
  go on, and while somebody waits for a connection, somebody else can. `CreateAnswered`: holding a connection while waiting for a slug cannot stop everything,
  because the transaction that has the slug needs nothing but its own connection. The
  mutant that lets a statement inside the transaction take a second connection from the pool
  shows the deadlock this avoids.
- *Roles.* `DeletedRoleAdmitsNobody`: a role may be deleted between the lookup and the assignment, so a
  member can have a deleted role; RolesGuard does not accept it, nor can the name be given to
  a new row, because UNIQUE counts deleted rows. `DeletedPermissionAdmitsNobody`: the same for
  permissions, although grants of a deleted permission stay and can be added.
  `MembersHaveRolesOfTheirTenant` and `TenantsAreIsolated` say that the roles and the members of a tenant
  are written only for a caller of that tenant, whatever ids the request names: no foreign key includes
  the tenant, the lookups do. Grants are not in this: addPermissionToRole and
  removePermissionFromRole do not look at the tenant of the role, so a member of one tenant can change what
  the roles of another are permitted, against the isolation per tenant README.md describes.
  `GoneIsRefused`: a request for a row that was gone when its handler began does not succeed: a deleted
  role is not assigned, a deleted role or permission is not deleted once more, and a tenant whose role
  `member` is gone gets no new member. The two operations on grants are its exception: they look
  nothing up, and answer 200 and 204 for deleted roles and permissions too.
  `OnlyAssignmentsChangeRoles`: a second addUser of one user does not overwrite the role an
  assignment gave in between.
- *Audit log.* `LogIsTruthful`: behind an entry is its effect; of a grant, which leaves no trace, it says
  nothing. The converse, "logs all mutations" (README.md:21), is not kept and no property claims it:
  the entry under way is lost when the process dies (`ProcessDies`); a statement that was carried out
  while its reply was lost makes the handler throw, so `tap` does not run and there is no entry
  (`RbacReply` with `"failed"`); and `POST /tenants`, the plans and the authentication routes have no
  interceptor.

### Bounds, and why they are enough

- Three requests are one more than the two of a race: a third can create what the race is about
  (register before two refreshes, subscribe before a change and a cancellation, a deletion before
  two updates). Each request is sent once, so a run holds every order of every three operations.
- Two tenants let the requests of one meet the rows of the other; with two plans a change may go to
  another plan while one of them is retired; with two names or emails a rename can meet an
  existing name.
- `Seats` and `RateLimit` use their slots again and again: two slots are two handlers in flight
  for any number of requests. Four users are enough to exceed a limit of two by one and to try
  once more; `SubRequests` is one request, which may subscribe, change or cancel, before, during
  or after the additions, and the plan is resized and retired meanwhile.
- `Platform` has two plan requests and one subscription request, for 235 000 states (a second
  subscription request makes more states than a run of minutes can visit): an update
  and a deletion of a plan meet one subscribe, change or cancellation and additions without end.
  What needs more requests of one service is checked in that service's own run, and the theorems
  about the composition hold for any number.
- `MaxTime` and `Lifetime` (Auth), `Window` and `MaxCount` (RateLimit) are the smallest numbers for
  which a token is live, expires and is past its expiry; and for which a counter passes every
  limit and a lifetime has a first, a middle and a last tick. `MaxCount` also bounds the INCRs whose
  reply is lost. `MaxLost` is two: an EXPIRE may be sent three times, or two keys may each have one sent
  twice, and one of them may reach the next key.
- `Tenancy`: two connections for three creations make one wait in line, and two slugs let
  two creations collide and one not. A third connection would never be missed.
- `Rbac`: the seeds have the roles that addUser and assignments need, one of each tenant, and a
  second one to be assigned; the other default roles are left out since nothing names them.
  One permission was deleted before, so that its name is taken; grants are added by requests.
- The proofs need none of these bounds. `MaxTime`, `MaxCount` and `MaxLost` are arbitrary numbers there.
- `CHECK_DEADLOCK` is never switched off: the `...Done` disjuncts let a system whose requests are
  all answered stand still, and any other state without a successor would be reported.

### Fairness

`PlatformSpec` and `RateSpec` assume weak fairness of the next statement of each request that was
sent (`PlanWork(r)` and so on). The event loop justifies it: a settled promise is resumed, and
queries and Redis calls settle, with a result or an error. Nothing is assumed about clients, who
need not send anything, nor about failures, which may always or never happen, nor about
other requests: outside createTenant no request waits for one. `TenancySpec` assumes weak
fairness of the next statement of each creation and of `ServerEnds`: a statement that is not blocked
is carried out, and PostgreSQL notices in the end that a connection is gone (its TCP
keepalive is on by default). It does not assume that connectionTimeoutMillis strikes, so
`CreateAnswered` says that waiting ends without it. Nor does it assume a restart: the container
runs `npm run start:dev`, whose watcher outlives a crash of the program, so that the restart policy of
`docker-compose.yml` need not apply. `AuditSpec` has no fairness and no liveness property:
nothing in the code makes sure that an entry is ever written. In `RateLimit` time
passes (`Tick`), since Redis expires keys by its own clock. `PlatformAnswered` and
`CreateAnswered` would fail if the code had a retry loop or a second connection in a transaction,
as their mutants show. The specifications of the other runs are safety only.

## What is proved

The `...Proofs` modules prove, for every set of requests, tenants, plans, names, users, slots and
limits, what TLC checks on one instance. `PROJECT.json` lists the theorems.

| Module | Theorems | Inductive invariant |
|---|---|---|
| `PlansProofs` | `PlanTyped`, `PlanNamesUnique`, `DeletionIsFinal`, `CatalogueImplemented` | `PlanInv` |
| `SubscriptionsProofs` | `SubTyped`, `OneActive`, `LapseHasACause`, `CancelHitsItsTarget`, `CancelIsFinal`, `EntitlementImplemented` | `SubInv` |
| `SeatsProofs` | `SeatTyped`, `OvershootIsBounded`, `AloneWithinPlan` | `SeatInv`, which contains `SubInv` |
| `PlatformProofs` | `ServicesAreComposed`, `DeletedPlansAreOutOfUse`, `GuaranteesHold`, `EntitlementHolds`, `StatementsRunOut` | `PlanInv` and `SeatInv` |
| `AuthProofs` | `AuthTyped`, `EmailsAreUnique`, `RotationRevokes`, `SpentTokensAreWorthless`, `SessionsAreKept` | `AuthInv`, and `SessionInv` on top of it |
| `RateLimitProofs` | `RateTyped`, `WindowIsCapped`, `KeysAreTended`, `RenewalsAreBounded`, `LengtheningIsPaidFor`, `OrphansStay` | `RateTypeOK`, `AdmittedWereCounted`, `Fates` |
| `TenancyProofs` | `TenancyTyped`, `TenantAnswersTrue`, `ConnectionsConserved`, `NoCircleOfWaiting`, `RegistryImplemented` | `TenancyInv`, that is, `CreateInv`, `PoolInv` and `Placed = InFlight`; `OnlyBeginnersWait` |
| `RbacProofs` | `RbacTyped`, `DeletedRolesAdmitNobody`, `DeletedPermissionsAdmitNobody`, `RolesStayInTheirTenant`, `GoneRowsAreRefused`, `OnlyAssignmentsChange`, `TenantsIsolated`, `AuditTyped`, `LogTellsTheTruth` | `RbacInv`, and `AuditInv`, which contains it |

*Assumptions* are the named ASSUMEs of the modules: Nil is no id or value; seeded plans are live
and have different names; limits are natural numbers (positive where the DTOs demand it) with
a largest one, since the columns are INT; an owner is a user; the sets of slots, users and
creations are finite; the pool has a connection; seeded roles and permissions have different
names, and seeded members roles of their tenant. TLC evaluates them on its instances.

*Arguments.* None of the properties is inductive as it stands.

- `PlanInv` adds to the types that a request is at a step of its own operation (`PlanFits`) and that
  the row of a creation does not exist before its INSERT. Each step then either leaves the table
  alone or is a `TableChange` of one row, and uniqueness, finality and the refinement follow from
  that one description.
- `SubInv` adds what a request carries at each statement (`CallFitsStep`), that a request inserts
  its row only with its last statement, and that the row a cancellation has seen is one of its own
  tenant. Without the last, `CanceledByItsOwn` and `NoSilentLapse` are not preserved:
  a cancellation might end another tenant's subscription.
- `SeatInv` adds that the limit read is that of an existing plan, for which it needs `SubInv`:
  an active row has a plan, and an existing plan a limit. The bound itself has three cases: no
  seat is promised, a seat is promised because the members alone are below the limit, and a promise
  becomes a member. With one slot the bound is the limit itself (`AloneWithinPlan`): exceeding
  it takes two additions that overlap.
- The composition needs no invariant of its own. A step of the platform is a step of `Plans`, of
  `Subscriptions` or of `addUser`; under `PlanInv` a step of `Plans` is one of the catalogue or invisible
  (`CatalogueStep`), so the platform implements `Seats` (`ServicesAreComposed`), and the theorems about
  `Seats` and `Subscriptions` hold for it: the invariants (`GuaranteesHold`) as well as
  the refinement of `Entitlement` (`EntitlementHolds`). `PlatformProofs` has the proved module as a second
  instance and shows definition by definition that both instances are the same.
  `DeletedPlansAreOutOfUse` combines a fact of `Plans` with what the join reads. `StatementsRunOut`
  is the part of `PlatformAnswered` that is in the prover's reach: every step of a request
  leaves it fewer statements.
- `AuthInv` adds that a request has issued no token before its last statement, that a presented
  token exists, and that a refresh whose token was spent when it was sent can only be at a step
  that ends with 401 (`SpentIsTurnedAway`). `SessionInv` follows the account through the statements
  (`SessionOf`): the user a request has found or created is the one it acts for, from the
  lookup to the token, while users are only ever added and tokens keep their owner.
- For the window, `AdmittedWereCounted` keeps the counter ahead of the requests let in. `Fates` joins
  `TendedUnlessMishap` and `RenewalsAreResent` and is inductive with the types: the EXPIREs to come
  (`Heirs`) and the lengthenings there were are together no more than the lost replies, and one more
  while the key has no lifetime. Counting 1 adds an EXPIRE, but only to a key that then has no
  lifetime; the EXPIRE that gives it one uses up that one; and any other adds a lengthening and takes
  itself away. That a lengthening has a lost reply to account for it follows
  (`LengtheningIsPaidFor`), and so does that an orphaned key stays one for ever (`OrphansStay`).
- `CreateInv` says how many rows a request has written at each of its steps (`FitsRow`), that a
  connection is lost only by a request that is rolling back or has failed, and that two requests never
  have rows under one slug, committed or not (`OneClaim`): the lock from the first row on
  makes the commit of a tenant the founding of a new one in the registry. `PoolInv` keeps the line free of
  repetitions and of holders; each of the four operations of the pool adds or removes exactly its
  own request.
- `NobodyIsStuck` needs in addition that a creation is without a connection only until its transaction
  begins (`OnlyBeginnersWait`). Who has written a row is past that: it has its connection and a step
  to take, or its connection is lost and the server will notice. When somebody waits for a
  connection, somebody holds one; the holder can go on, unless it waits for a slug, and
  then the one that has the slug can.
- `RbacInv` adds `CallsFit`: what a request carries fits its statement (the ids it looked up are rows,
  of its tenant where the code saw to that, its caller is a member, its own row is not there yet, and
  a request that was late is still at its lookup or is one on grants), and `RowsFit`: names are
  unique among all rows, deleted ones too (so no live role `member` joins a deleted one), and members
  have roles of their tenant. Every step lets the tables
  only grow in a certain sense (`TablesGrow`: rows keep their names, deleted ones stay deleted,
  members stay members), which is why what one request has found stays true for it while
  others run. The guards' properties follow from unique names alone. `AuditInv` adds that an entry
  belongs to a request that was answered and that its effect is there.

*Only model-checked.* Liveness (`PlatformAnswered`, `WindowEnds`, `CreateAnswered`) is beyond the prover;
so are the properties that the four runs with a violation refute. That `CanMove` in `NobodyIsStuck` implies that
a step is possible is ENABLED, which the prover does not handle; `CreateAnswered` and the absence of
deadlock show it on the instance. Every safety property that a passing run checks has a proof.

## Where the code and its documents differ

Four runs show a difference between what the code does and what a document, a route's
description or a message of the repository says. TLC's trace of each is short.

1. `seats_limit`: README.md says adding a user validates the plan's user limit. Two overlapping
   additions both count before either inserts and exceed it. `SeatOvershootBounded` is what holds.
2. `auth_rotation`: `/auth/refresh` is documented as a rotation. Two overlapping refreshes of one
   token both issue a new one, for the revocation does not look at how many rows it changed.
   `SpentTokenBuysNothing` is what holds.
3. `rate_limit_orphan`: the limit is per minute. A guard that stops between INCR and EXPIRE, or
   whose INCR the client library sends again, leaves a counter that never goes away and in the
   end turns every request of the tenant down. `WindowEnds` is what holds.
4. `subscriptions_notfound`: the 404 of a cancellation is documented as "No active subscription".
   It is also the answer to a tenant whose active subscription is to a deleted plan, because the
   lookup joins live plans only. Such a tenant cannot cancel, and subscribing fails at
   the unique index; only a change of plan gets it out.

## Not modelled, and why

- The permissions of a deleted role. The query for a user's permissions does not look at the role's
  row, so they stay with the members of the role. The code does this on purpose or not; no document says
  otherwise, and the model has it as it is (`UserPermissions`).
- The tenant of a role in addPermissionToRole and removePermissionFromRole: the code does not check it,
  so `TenantsAreIsolated` speaks of roles and memberships only.
- The part of the guard chain without state: AuthGuard verifies a signature. That a caller whose
  role changes during a request is served to its end follows from the order of the code.
- The `retryAfter` of a 429, which is only reported.
- The await of `bcrypt.compare` in login: it is one with the lookup before it. It reads the row that the
  lookup returned and nothing else.
- That the comparison `expires_at < now` of refresh is right at the very instant of the expiry:
  `SpentTokenBuysNothing` takes the code's own comparison for what expired means.
- The contents of passwords: whether `bcrypt.compare` accepts is left open, so a login that finds its
  account may go either way.
- The audit entries of subscriptions: the same interceptor around a service that `Subscriptions`
  models. One composition shows what the interceptor does.
- Reads that change nothing (lists, getters, the log itself), DTO validation, pipes, JWT signing,
  password hashing, Swagger, the logger, configuration and health: no state to reason about. An
  input the DTOs pass and a column rejects is the outcome "failed".

## Plan

Done: every component with state is modelled, every safety property that a passing run checks
is proved, and the services around plans are composed, with their theorems. What could follow:

1. `Auth` and `AuditLog` in a composition like `Platform`: they share no table with the others, so
   the interest is in the guards that read what the others write.
2. The composition of `Tenancy` and `Rbac`: the seeds of `Rbac` are what `Tenancy` commits.
3. Shorter proofs: the writing steps of `RbacProofs` have much in common.
