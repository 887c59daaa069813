----------------------------- MODULE RateLimit -----------------------------
(***************************************************************************)
(* RateLimitGuard: a counter per tenant in Redis that the first increment  *)
(* gives a lifetime.  Reading the limit, INCR, EXPIRE and TTL are four     *)
(* separate calls, so a guard can fail or be overtaken between any two,    *)
(* and a call whose reply is lost is sent again.  A slot is a guard in     *)
(* flight and is used again for the next request.                          *)
(***************************************************************************)
EXTENDS Requests, Integers, FiniteSets

CONSTANTS Tenants, Slots,
          Limits,    \* values of max_requests_per_minute
          Window,    \* the 60 seconds of EXPIRE, in ticks of the clock
          MaxCount,  \* bound: no request is sent, and no reply to INCR lost,
                     \* once a counter has this value
          MaxLost    \* bound: replies to EXPIRE that are lost, for each tenant

ASSUME RateAssumption ==
    /\ Nil \notin Tenants
    /\ Limits \subseteq Nat \ {0}                       \* @Min(1) in the plan DTOs
    /\ \E l \in Limits : \A m \in Limits : m <= l  \* an INT column
    /\ Window \in Nat \ {0}
    /\ MaxCount \in Nat /\ MaxLost \in Nat
    /\ IsFiniteSet(Slots)

VARIABLES limit,     \* what getPlanLimits answers for each tenant, Nil for null
          counter,   \* the key of each tenant; 0 is a key that does not exist
          ttl,       \* its remaining lifetime; NoExpiry is Redis's -1
          ratePc, rateTenant, rateLimit,  \* control state and locals of a slot
          admitted,  \* history: requests the present key counted and allows
          mishap,    \* history: the guard that was to give the present key a
                     \* lifetime failed, or the reply to its first INCR was lost
          lost,      \* history: EXPIREs carried out whose reply was lost
          renewed    \* history: EXPIREs that met a lifetime and lengthened it

redisVars == <<counter, ttl>>
slotVars == <<ratePc, rateTenant, rateLimit>>
historyVars == <<admitted, mishap, lost, renewed>>
rateVars == <<limit, redisVars, slotVars, historyVars>>

NoExpiry == -1

RateSteps == {"getPlanLimits", "incr", "expire", "ttl"}

(* What the code dereferences is there: a guard in flight has a tenant,    *)
(* and a request is counted only against a limit that was found.           *)
RateTypeOK ==
    /\ limit \in [Tenants -> Limits \cup {Nil}]
    /\ counter \in [Tenants -> Nat]
    /\ ttl \in [Tenants -> Nat \cup {NoExpiry}]
    /\ ratePc \in [Slots -> {"idle"} \cup RateSteps \cup Answers]
    /\ rateTenant \in [Slots -> Tenants \cup {Nil}]
    /\ rateLimit \in [Slots -> Limits \cup {Nil}]
    /\ admitted \in [Tenants -> Nat]
    /\ mishap \in [Tenants -> BOOLEAN]
    /\ lost \in [Tenants -> Nat]
    /\ renewed \in [Tenants -> Nat]
    /\ \A s \in Slots :
          /\ ratePc[s] \in RateSteps => rateTenant[s] # Nil
          /\ ratePc[s] \in {"incr", "expire", "ttl"} => rateLimit[s] # Nil

RateInit ==
    /\ limit \in [Tenants -> Limits \cup {Nil}]
    /\ counter = [t \in Tenants |-> 0]
    /\ ttl = [t \in Tenants |-> NoExpiry]
    /\ ratePc = [s \in Slots |-> "idle"]
    /\ rateTenant = [s \in Slots |-> Nil]
    /\ rateLimit = [s \in Slots |-> Nil]
    /\ admitted = [t \in Tenants |-> 0]
    /\ mishap = [t \in Tenants |-> FALSE]
    /\ lost = [t \in Tenants |-> 0]
    /\ renewed = [t \in Tenants |-> 0]

----------------------------------------------------------------------------
RateGoto(s, step) == ratePc' = [ratePc EXCEPT ![s] = step]

Send(s, t) ==
    /\ ratePc[s] \notin RateSteps
    /\ counter[t] < MaxCount
    /\ rateTenant' = [rateTenant EXCEPT ![s] = t]
    /\ RateGoto(s, "getPlanLimits")
    /\ UNCHANGED <<limit, redisVars, rateLimit, historyVars>>

(* Faulty variant: no test for null.                                       *)
GetPlanLimitsUnchecked(s) ==
    /\ ratePc[s] = "getPlanLimits"
    /\ RateGoto(s, "incr")
    /\ rateLimit' = [rateLimit EXCEPT ![s] = limit[rateTenant[s]]]
    /\ UNCHANGED <<limit, redisVars, rateTenant, historyVars>>

(* A tenant without a visible subscription is let in and not counted.      *)
GetPlanLimits(s) ==
    LET limits == limit[rateTenant[s]]
    IN  /\ ratePc[s] = "getPlanLimits"
        /\ RateGoto(s, IF limits = Nil THEN "ok" ELSE "incr")
        /\ rateLimit' = [rateLimit EXCEPT ![s] = limits]
        /\ UNCHANGED <<limit, redisVars, rateTenant, historyVars>>

(* The guard's decision once the key is known to have a lifetime.          *)
Verdict(s, count) == IF count > rateLimit[s] THEN "ttl" ELSE "ok"

(* Faulty variants: comparing with the count before the increment, and     *)
(* renewing the lifetime on every request.                                 *)
IncrLate(s) ==
    LET t == rateTenant[s]
    IN  /\ ratePc[s] = "incr"
        /\ counter' = [counter EXCEPT ![t] = @ + 1]
        /\ RateGoto(s, IF counter[t] = 0 THEN "expire" ELSE Verdict(s, counter[t]))
        /\ admitted' = [admitted EXCEPT ![t] = @ + IF counter[t] <= rateLimit[s] THEN 1 ELSE 0]
        /\ UNCHANGED <<limit, ttl, rateTenant, rateLimit, mishap, lost, renewed>>

IncrAndRenew(s) ==
    /\ ratePc[s] = "incr"
    /\ counter' = [counter EXCEPT ![rateTenant[s]] = @ + 1]
    /\ RateGoto(s, "expire")
    /\ UNCHANGED <<limit, ttl, rateTenant, rateLimit, historyVars>>

Incr(s) ==
    LET t == rateTenant[s]
        current == counter[t] + 1
    IN  /\ ratePc[s] = "incr"
        /\ counter' = [counter EXCEPT ![t] = current]
        /\ RateGoto(s, IF current = 1 THEN "expire" ELSE Verdict(s, current))
        /\ admitted' = [admitted EXCEPT ![t] = @ + IF current <= rateLimit[s] THEN 1 ELSE 0]
        /\ UNCHANGED <<limit, ttl, rateTenant, rateLimit, mishap, lost, renewed>>

(* EXPIRE on the server: a key that is gone is left alone, a lifetime that *)
(* is there already starts again.                                          *)
SetLifetime(t) ==
    /\ ttl' = [ttl EXCEPT ![t] = IF counter[t] > 0 THEN Window ELSE @]
    /\ renewed' = [renewed EXCEPT ![t] = @ + IF ttl[t] # NoExpiry THEN 1 ELSE 0]

(* Faulty variant: an EXPIRE that is never sent.                           *)
ExpireDropped(s) ==
    /\ ratePc[s] = "expire"
    /\ RateGoto(s, Verdict(s, 1))
    /\ UNCHANGED <<limit, redisVars, rateTenant, rateLimit, historyVars>>

(* Only a request that counted 1 comes here.                               *)
Expire(s) ==
    /\ ratePc[s] = "expire"
    /\ SetLifetime(rateTenant[s])
    /\ RateGoto(s, Verdict(s, 1))
    /\ UNCHANGED <<limit, counter, rateTenant, rateLimit, admitted, mishap, lost>>

(* The TTL is only reported, as retryAfter.                                *)
ReadTtl(s) ==
    /\ ratePc[s] = "ttl"
    /\ RateGoto(s, "tooManyRequests")
    /\ UNCHANGED <<limit, redisVars, rateTenant, rateLimit, historyVars>>

(* The connection breaks after Redis has carried out a call and before its *)
(* reply.  ioredis, created without options, connects and sends the call   *)
(* again: the guard is still where it was, and the call is carried out     *)
(* once more, at any later time, or given up (FailRate).                   *)
LoseReply(s) ==
    LET t == rateTenant[s]
    IN  /\ \/ /\ ratePc[s] = "incr"
              /\ counter[t] < MaxCount
              /\ counter' = [counter EXCEPT ![t] = @ + 1]
              /\ mishap' = [mishap EXCEPT ![t] = @ \/ counter[t] = 0]
              /\ UNCHANGED <<ttl, lost, renewed>>
           \/ /\ ratePc[s] = "expire"
              /\ lost[t] < MaxLost
              /\ SetLifetime(t)
              /\ lost' = [lost EXCEPT ![t] = @ + 1]
              /\ UNCHANGED <<counter, mishap>>
        /\ UNCHANGED <<limit, slotVars, admitted>>

(* A call to Postgres or Redis fails without effect, or is given up, and   *)
(* the guard throws.                                                       *)
FailRate(s) ==
    LET t == rateTenant[s]
        needed == ratePc[s] = "expire" /\ counter[t] > 0 /\ ttl[t] = NoExpiry
    IN  /\ ratePc[s] \in RateSteps
        /\ RateGoto(s, "failed")
        /\ mishap' = [mishap EXCEPT ![t] = @ \/ needed]
        /\ UNCHANGED <<limit, redisVars, rateTenant, rateLimit, admitted, lost, renewed>>

(* A subscription or its plan changes.                                     *)
ChangeLimit(t) ==
    /\ \E l \in Limits \cup {Nil} : limit' = [limit EXCEPT ![t] = l]
    /\ UNCHANGED <<redisVars, slotVars, historyVars>>

(* A second passes, and the key of t disappears when its lifetime is over. *)
Tick(t) ==
    /\ ttl[t] # NoExpiry
    /\ \/ /\ ttl[t] > 1
          /\ ttl' = [ttl EXCEPT ![t] = @ - 1]
          /\ UNCHANGED <<counter, admitted, mishap>>
       \/ /\ ttl[t] <= 1
          /\ ttl' = [ttl EXCEPT ![t] = NoExpiry]
          /\ counter' = [counter EXCEPT ![t] = 0]
          /\ admitted' = [admitted EXCEPT ![t] = 0]
          /\ mishap' = [mishap EXCEPT ![t] = FALSE]
    /\ UNCHANGED <<limit, slotVars, lost, renewed>>

RateWork(s) == GetPlanLimits(s) \/ Incr(s) \/ Expire(s) \/ ReadTtl(s)

RateNext ==
    \/ \E s \in Slots : (\E t \in Tenants : Send(s, t)) \/ RateWork(s)
                         \/ LoseReply(s) \/ FailRate(s)
    \/ \E t \in Tenants : ChangeLimit(t) \/ Tick(t)

RateSafety == RateInit /\ [][RateNext]_rateVars

(* Guards are run to their end and time passes.                            *)
RateSpec ==
    /\ RateSafety
    /\ \A s \in Slots : WF_rateVars(RateWork(s))
    /\ \A t \in Tenants : WF_rateVars(Tick(t))

----------------------------------------------------------------------------
LargestLimit == CHOOSE l \in Limits : \A m \in Limits : m <= l

(* During the life of one key no more requests are let in than the largest *)
(* limit a tenant can have, however the guards interleave and although     *)
(* each compares with a limit it read before it counted.                   *)
WindowCap == \A t \in Tenants : admitted[t] <= LargestLimit

(* The guards that are going to send an EXPIRE for the key of t.           *)
Heirs(t) == {s \in Slots : ratePc[s] = "expire" /\ rateTenant[s] = t}

Unbounded(t) == counter[t] > 0 /\ ttl[t] = NoExpiry

(* Windows are fixed, not sliding, but for the EXPIREs that were sent      *)
(* again: each reply to an EXPIRE that was lost lengthens one window of    *)
(* the tenant at most once, be it that of the key it was sent for or of a  *)
(* later one.  What is still on its way is accounted for as well: it is    *)
(* the EXPIRE a key without a lifetime waits for, or that of a lost reply. *)
RenewalsAreResent == \A t \in Tenants :
    /\ renewed[t] <= lost[t]
    /\ Cardinality(Heirs(t)) + renewed[t] <= lost[t] + IF Unbounded(t) THEN 1 ELSE 0

(* A key without a lifetime has a guard in flight that is about to give it *)
(* one, unless a failure at that very place explains why it has not: every *)
(* other interleaving, and every other failure or resent call, leaves no   *)
(* key behind that lives for ever.                                         *)
TendedUnlessMishap == \A t \in Tenants :
    /\ Unbounded(t) => Heirs(t) # {} \/ mishap[t]
    /\ counter[t] = 0 => ttl[t] = NoExpiry /\ ~mishap[t]

(* A key goes away, and the tenant starts counting afresh, unless after a  *)
(* mishap it is an orphan: without a lifetime, and nobody will give it one.*)
Orphan(t) == Unbounded(t) /\ Heirs(t) = {}

WindowEnds == \A t \in Tenants :
    counter[t] > 0 ~> counter[t] = 0 \/ (mishap[t] /\ Orphan(t))

(* README.md and the answer's text, "requests/min", speak of a limit per   *)
(* minute: a key goes away in any case.  It does not when the guard fails  *)
(* between INCR and EXPIRE, or when its INCR is sent again.                *)
LimitIsPerMinute == \A t \in Tenants : counter[t] > 0 ~> counter[t] = 0

=============================================================================
