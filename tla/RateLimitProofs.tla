-------------------------- MODULE RateLimitProofs --------------------------
(***************************************************************************)
(* Proofs about RateLimit for every set of tenants and limits, every       *)
(* number of guards in flight and every length of the window.              *)
(***************************************************************************)
EXTENDS RateLimit, FiniteSetTheorems, TLAPS

LEMMA RateInitTyped == RateInit => RateTypeOK
<1> SUFFICES ASSUME RateInit PROVE RateTypeOK
  OBVIOUS
<1>1. mishap \in [Tenants -> BOOLEAN]
  BY DEF RateInit
<1>2. limit \in [Tenants -> Limits \cup {Nil}]
  BY DEF RateInit
<1>3. QED
  BY <1>1, <1>2 DEF RateInit, RateTypeOK, RateSteps, NoExpiry

(* A flag is set for one tenant and kept for the others.                   *)
LEMMA FlagSet ==
  ASSUME NEW o \in [Tenants -> BOOLEAN], NEW t \in Tenants, NEW b \in BOOLEAN, NEW p,
         p = [o EXCEPT ![t] = b]
  PROVE  /\ p \in [Tenants -> BOOLEAN] /\ (p[t] <=> b)
         /\ \A u \in Tenants \ {t} : p[u] <=> o[u]
OBVIOUS

(* EXPIRE, whether its reply arrives or not, gives the key a lifetime if   *)
(* there is a key, and counts as a renewal if there was a lifetime.        *)
LEMMA LifetimeSet ==
  ASSUME RateTypeOK, NEW t \in Tenants, SetLifetime(t)
  PROVE  /\ ttl' \in [Tenants -> Nat \cup {NoExpiry}] /\ renewed' \in [Tenants -> Nat]
         /\ counter[t] > 0 => ttl'[t] = Window /\ ttl'[t] # NoExpiry
         /\ counter[t] = 0 => ttl'[t] = ttl[t]
         /\ ttl[t] = NoExpiry => renewed'[t] = renewed[t]
         /\ ttl[t] # NoExpiry => renewed'[t] = renewed[t] + 1
         /\ \A u \in Tenants \ {t} : ttl'[u] = ttl[u] /\ renewed'[u] = renewed[u]
BY RateAssumption DEF SetLifetime, RateTypeOK, NoExpiry

LEMMA RateStepTyped ==
  ASSUME RateTypeOK, [RateNext]_rateVars
  PROVE  RateTypeOK'
<1> USE RateAssumption DEF RateTypeOK, RateSteps, Answers, RateGoto, NoExpiry
<1>1. CASE UNCHANGED rateVars
  BY <1>1 DEF rateVars, redisVars, slotVars, historyVars
<1>2. ASSUME NEW s \in Slots, NEW t \in Tenants, Send(s, t)
      PROVE  RateTypeOK'
  BY <1>2 DEF Send, redisVars, historyVars
<1>3. ASSUME NEW s \in Slots, GetPlanLimits(s)
      PROVE  RateTypeOK'
  <2>1. limit[rateTenant[s]] \in Limits \cup {Nil}
    BY <1>3 DEF GetPlanLimits
  <2>2. QED
    BY <1>3, <2>1 DEF GetPlanLimits, redisVars, historyVars
<1>4. ASSUME NEW s \in Slots, Incr(s)
      PROVE  RateTypeOK'
  <2> DEFINE t == rateTenant[s]
             current == counter[t] + 1
             more == IF current <= rateLimit[s] THEN 1 ELSE 0
             step == IF current = 1 THEN "expire" ELSE Verdict(s, current)
  <2>1. t \in Tenants /\ rateLimit[s] # Nil
    BY <1>4 DEF Incr
  <2>2. current \in Nat /\ more \in {0, 1} /\ step \in {"expire", "ttl", "ok"}
    BY <2>1 DEF Verdict
  <2>3. /\ counter' = [counter EXCEPT ![t] = current]
        /\ admitted' = [admitted EXCEPT ![t] = @ + more]
        /\ ratePc' = [ratePc EXCEPT ![s] = step]
        /\ UNCHANGED <<limit, ttl, rateTenant, rateLimit, mishap, lost, renewed>>
    BY <1>4 DEF Incr
  <2> HIDE DEF t, current, more, step
  <2>4. counter' \in [Tenants -> Nat] /\ admitted' \in [Tenants -> Nat]
    BY <2>1, <2>2, <2>3
  <2>5. QED
    BY <2>1, <2>2, <2>3, <2>4 DEF t
<1>5. ASSUME NEW s \in Slots, Expire(s)
      PROVE  RateTypeOK'
  <2>1. rateTenant[s] \in Tenants /\ SetLifetime(rateTenant[s])
    BY <1>5 DEF Expire
  <2>2. ttl' \in [Tenants -> Nat \cup {NoExpiry}] /\ renewed' \in [Tenants -> Nat]
    BY <2>1, LifetimeSet
  <2>3. QED
    BY <1>5, <2>2 DEF Expire, Verdict
<1>6. ASSUME NEW s \in Slots, ReadTtl(s)
      PROVE  RateTypeOK'
  BY <1>6 DEF ReadTtl, redisVars, historyVars
<1>7. ASSUME NEW s \in Slots, LoseReply(s)
      PROVE  RateTypeOK'
  <2>1. rateTenant[s] \in Tenants
    BY <1>7 DEF LoseReply
  <2>2. UNCHANGED <<limit, slotVars, admitted>>
    BY <1>7 DEF LoseReply
  <2>3. CASE ratePc[s] = "incr"
    <3>1. /\ counter' = [counter EXCEPT ![rateTenant[s]] = @ + 1]
          /\ mishap' = [mishap EXCEPT ![rateTenant[s]] = mishap[rateTenant[s]] \/ counter[rateTenant[s]] = 0]
          /\ UNCHANGED <<ttl, lost, renewed>>
      BY <1>7, <2>3 DEF LoseReply
    <3>2. mishap' \in [Tenants -> BOOLEAN]
      BY <2>1, <3>1, FlagSet
    <3>3. counter' \in [Tenants -> Nat]
      BY <2>1, <3>1
    <3>4. QED
      BY <2>2, <3>1, <3>2, <3>3 DEF slotVars
  <2>4. CASE ratePc[s] # "incr"
    <3>1. /\ SetLifetime(rateTenant[s])
          /\ lost' = [lost EXCEPT ![rateTenant[s]] = @ + 1]
          /\ UNCHANGED <<counter, mishap>>
      BY <1>7, <2>4 DEF LoseReply
    <3>2. ttl' \in [Tenants -> Nat \cup {NoExpiry}] /\ renewed' \in [Tenants -> Nat]
      BY <2>1, <3>1, LifetimeSet
    <3>3. lost' \in [Tenants -> Nat]
      BY <2>1, <3>1
    <3>4. QED
      BY <2>2, <3>1, <3>2, <3>3 DEF slotVars
  <2>5. QED
    BY <2>3, <2>4
<1>8. ASSUME NEW s \in Slots, FailRate(s)
      PROVE  RateTypeOK'
  <2> DEFINE t == rateTenant[s]
             broken == mishap[t] \/ (ratePc[s] = "expire" /\ counter[t] > 0 /\ ttl[t] = NoExpiry)
  <2>1. t \in Tenants /\ broken \in BOOLEAN
    BY <1>8 DEF FailRate
  <2>2. /\ mishap' = [mishap EXCEPT ![t] = broken]
        /\ ratePc' = [ratePc EXCEPT ![s] = "failed"]
        /\ UNCHANGED <<limit, redisVars, rateTenant, rateLimit, admitted, lost, renewed>>
    BY <1>8 DEF FailRate
  <2> HIDE DEF t, broken
  <2>3. mishap' \in [Tenants -> BOOLEAN]
    BY <2>1, <2>2, FlagSet
  <2>4. QED
    BY <2>2, <2>3 DEF redisVars
<1>9. ASSUME NEW t \in Tenants, ChangeLimit(t)
      PROVE  RateTypeOK'
  BY <1>9 DEF ChangeLimit, redisVars, slotVars, historyVars
<1>10. ASSUME NEW t \in Tenants, Tick(t)
      PROVE  RateTypeOK'
  <2>1. ttl' \in [Tenants -> Nat \cup {NoExpiry}]
    BY <1>10 DEF Tick
  <2>2. counter' \in [Tenants -> Nat] /\ admitted' \in [Tenants -> Nat]
    BY <1>10 DEF Tick
  <2>3. mishap' \in [Tenants -> BOOLEAN]
    BY <1>10 DEF Tick
  <2>4. QED
    BY <1>10, <2>1, <2>2, <2>3 DEF Tick, slotVars
<1>11. QED
  BY <1>1, <1>2, <1>3, <1>4, <1>5, <1>6, <1>7, <1>8, <1>9, <1>10
     DEF RateNext, RateWork

(* What a guard dereferences is there, and counters and lifetimes are      *)
(* numbers (RateLimitGuard.canActivate).                                   *)
THEOREM RateTyped == RateSafety => []RateTypeOK
<1>1. RateInit => RateTypeOK
  BY RateInitTyped
<1>2. RateTypeOK /\ [RateNext]_rateVars => RateTypeOK'
  BY RateStepTyped
<1>3. QED
  BY <1>1, <1>2, PTL DEF RateSafety

----------------------------------------------------------------------------
(* A request is let in only with a count of its own that is within its     *)
(* limit, so the counter is never behind the number of requests let in.    *)
AdmittedWereCounted == \A t \in Tenants : admitted[t] <= counter[t]

LEMMA LargestLimitIsLargest ==
  LargestLimit \in Limits /\ \A l \in Limits : l <= LargestLimit
BY RateAssumption DEF LargestLimit

LEMMA RateStepCapped ==
  ASSUME RateTypeOK, AdmittedWereCounted, WindowCap, [RateNext]_rateVars
  PROVE  AdmittedWereCounted' /\ WindowCap'
<1> USE DEF AdmittedWereCounted, WindowCap
<1>0. LargestLimit \in Nat /\ \A l \in Limits : l \in Nat /\ l <= LargestLimit
  BY LargestLimitIsLargest, RateAssumption
<1>1. counter \in [Tenants -> Nat] /\ admitted \in [Tenants -> Nat]
  BY DEF RateTypeOK
<1>2. CASE UNCHANGED <<counter, admitted>>
  BY <1>2, <1>0 DEF LargestLimit
<1>3. ASSUME NEW s \in Slots, Incr(s)
      PROVE  AdmittedWereCounted' /\ WindowCap'
  <2> DEFINE t == rateTenant[s]
             current == counter[t] + 1
             more == IF current <= rateLimit[s] THEN 1 ELSE 0
  <2>1. t \in Tenants /\ rateLimit[s] \in Limits
    BY <1>3 DEF RateTypeOK, RateSteps, Incr
  <2>2. counter' = [counter EXCEPT ![t] = current] /\ admitted' = [admitted EXCEPT ![t] = @ + more]
    BY <1>3 DEF Incr
  <2>3. admitted[t] + more <= current
    BY <2>1, <1>1
  <2>4. admitted[t] + more <= LargestLimit
    BY <2>1, <1>0, <1>1
  <2> HIDE DEF t, current, more
  <2>5. QED
    BY <2>1, <2>2, <2>3, <2>4, <1>0, <1>1 DEF LargestLimit
<1>4. ASSUME NEW s \in Slots, LoseReply(s), counter' # counter
      PROVE  AdmittedWereCounted' /\ WindowCap'
  <2>1. /\ counter' = [counter EXCEPT ![rateTenant[s]] = @ + 1]
        /\ UNCHANGED admitted
    BY <1>4 DEF LoseReply
  <2>2. QED
    BY <2>1, <1>0, <1>1 DEF LargestLimit
<1>5. ASSUME NEW t \in Tenants, Tick(t)
      PROVE  AdmittedWereCounted' /\ WindowCap'
  <2>1. CASE UNCHANGED <<counter, admitted>>
    BY <2>1, <1>2
  <2>2. CASE /\ counter' = [counter EXCEPT ![t] = 0]
             /\ admitted' = [admitted EXCEPT ![t] = 0]
    BY <2>2, <1>0, <1>1 DEF LargestLimit
  <2>3. QED
    BY <1>5, <2>1, <2>2 DEF Tick
<1>6. QED
  BY <1>2, <1>3, <1>4, <1>5
     DEF RateNext, RateWork, Send, GetPlanLimits, Expire, ReadTtl, FailRate, LoseReply,
         ChangeLimit, rateVars, redisVars, slotVars, historyVars

(* However many guards run at once, and whatever they interleave with, one *)
(* life of a key lets in no more requests than the largest limit           *)
(* (RateLimitGuard.canActivate, the comparison after INCR).                *)
THEOREM WindowIsCapped == RateSafety => []WindowCap
<1>1. RateInit => AdmittedWereCounted /\ WindowCap
  BY LargestLimitIsLargest, RateAssumption DEF RateInit, AdmittedWereCounted, WindowCap
<1>2. /\ RateTypeOK /\ AdmittedWereCounted /\ WindowCap
      /\ [RateNext]_rateVars
      => AdmittedWereCounted' /\ WindowCap'
  BY RateStepCapped
<1>3. QED
  BY <1>1, <1>2, RateTyped, PTL DEF RateSafety

----------------------------------------------------------------------------
(* The guards about to send an EXPIRE change only with the guard that      *)
(* moves, and only for its tenant.                                         *)
LEMMA HeirsMove ==
  ASSUME RateTypeOK, NEW s \in Slots, NEW pc, RateGoto(s, pc), UNCHANGED rateTenant
  PROVE  \A t \in Tenants :
            Heirs(t)' = IF t # rateTenant[s] THEN Heirs(t)
                        ELSE IF pc = "expire" THEN Heirs(t) \cup {s}
                        ELSE Heirs(t) \ {s}
BY DEF RateTypeOK, RateGoto, Heirs

LEMMA HeirsStay ==
  ASSUME RateTypeOK, NEW s \in Slots, NEW pc, RateGoto(s, pc), UNCHANGED rateTenant,
         ratePc[s] # "expire", pc # "expire"
  PROVE  \A t \in Tenants : Heirs(t)' = Heirs(t)
BY HeirsMove DEF Heirs

LEMMA HeirsCounted ==
  ASSUME NEW t \in Tenants
  PROVE  /\ Cardinality(Heirs(t)) \in Nat
         /\ \A s \in Slots :
               /\ s \notin Heirs(t) =>
                     Cardinality(Heirs(t) \cup {s}) = Cardinality(Heirs(t)) + 1
               /\ s \in Heirs(t) =>
                     /\ Cardinality(Heirs(t)) > 0
                     /\ Cardinality(Heirs(t) \ {s}) = Cardinality(Heirs(t)) - 1
<1>1. IsFiniteSet(Heirs(t))
  <2>1. Heirs(t) \subseteq Slots
    BY DEF Heirs
  <2>2. QED
    BY <2>1, RateAssumption, FS_Subset
<1>2. Cardinality(Heirs(t)) \in Nat
  BY <1>1, FS_CardinalityType
<1>3. ASSUME NEW s \in Slots, s \notin Heirs(t)
      PROVE  Cardinality(Heirs(t) \cup {s}) = Cardinality(Heirs(t)) + 1
  BY <1>1, <1>3, FS_AddElement
<1>4. ASSUME NEW s \in Slots, s \in Heirs(t)
      PROVE  /\ Cardinality(Heirs(t)) > 0
             /\ Cardinality(Heirs(t) \ {s}) = Cardinality(Heirs(t)) - 1
  <2>1. /\ IsFiniteSet(Heirs(t) \ {s})
        /\ Cardinality(Heirs(t) \ {s}) = Cardinality(Heirs(t)) - 1
    BY <1>1, <1>4, FS_RemoveElement
  <2>2. Cardinality(Heirs(t) \ {s}) \in Nat
    BY <2>1, FS_CardinalityType
  <2>3. QED
    BY <1>2, <2>1, <2>2
<1>5. QED
  BY <1>2, <1>3, <1>4

(* Both invariants, of one tenant.                                         *)
Tended(t) ==
    /\ Unbounded(t) => Heirs(t) # {} \/ mishap[t]
    /\ counter[t] = 0 => ttl[t] = NoExpiry /\ ~mishap[t]

Accounted(t) ==
    /\ renewed[t] <= lost[t]
    /\ Cardinality(Heirs(t)) + renewed[t] <= lost[t] + IF Unbounded(t) THEN 1 ELSE 0

Fates == \A t \in Tenants : Tended(t) /\ Accounted(t)

LEMMA FatesAreBoth == Fates <=> TendedUnlessMishap /\ RenewalsAreResent
BY DEF Fates, Tended, Accounted, TendedUnlessMishap, RenewalsAreResent

(* A step that leaves the key of t, its history and its heirs alone, but   *)
(* for the count of a key that is there.                                   *)
LEMMA FateKept ==
  ASSUME NEW t \in Tenants, Tended(t), Accounted(t),
         counter'[t] > 0 <=> counter[t] > 0, counter'[t] = 0 <=> counter[t] = 0,
         ttl'[t] = ttl[t], mishap'[t] <=> mishap[t], Heirs(t)' = Heirs(t),
         lost'[t] = lost[t], renewed'[t] = renewed[t]
  PROVE  (Tended(t) /\ Accounted(t))'
<1>1. Unbounded(t)' <=> Unbounded(t)
  BY DEF Unbounded
<1>2. Tended(t)'
  BY <1>1 DEF Tended
<1>3. Accounted(t)'
  BY <1>1 DEF Accounted
<1>4. QED
  BY <1>2, <1>3

(* A key is created: by a guard that will send its EXPIRE, or by an INCR   *)
(* whose reply is lost.                                                    *)
LEMMA FateBegun ==
  ASSUME RateTypeOK, NEW t \in Tenants, Tended(t), Accounted(t), NEW s \in Slots,
         counter[t] = 0, counter'[t] > 0, ttl'[t] = ttl[t],
         \/ s \notin Heirs(t) /\ Heirs(t)' = Heirs(t) \cup {s}
         \/ mishap'[t] /\ Heirs(t)' = Heirs(t),
         lost'[t] = lost[t], renewed'[t] = renewed[t]
  PROVE  (Tended(t) /\ Accounted(t))'
<1>1. ttl[t] = NoExpiry /\ ~Unbounded(t)
  BY DEF Tended, Unbounded
<1>2. Unbounded(t)'
  BY <1>1 DEF Unbounded
<1>3. Tended(t)'
  BY <1>2 DEF Tended
<1>4. Cardinality(Heirs(t)') <= Cardinality(Heirs(t)) + 1 /\ Cardinality(Heirs(t)') \in Nat
  BY HeirsCounted
<1>5. lost[t] \in Nat /\ renewed[t] \in Nat /\ Cardinality(Heirs(t)) \in Nat
  BY HeirsCounted DEF RateTypeOK
<1>6. Accounted(t)'
  BY <1>1, <1>2, <1>4, <1>5 DEF Accounted
<1>7. QED
  BY <1>3, <1>6

(* An EXPIRE of s is carried out: it is the last of s, or one more reply   *)
(* to an EXPIRE is lost.                                                   *)
LEMMA FateExpired ==
  ASSUME RateTypeOK, NEW t \in Tenants, Tended(t), Accounted(t), NEW s \in Heirs(t),
         SetLifetime(t), counter'[t] = counter[t], mishap'[t] = mishap[t],
         \/ Heirs(t)' = Heirs(t) \ {s} /\ lost'[t] = lost[t]
         \/ Heirs(t)' = Heirs(t) /\ lost'[t] = lost[t] + 1
  PROVE  (Tended(t) /\ Accounted(t))'
<1>1. s \in Slots /\ counter[t] \in Nat /\ lost[t] \in Nat /\ renewed[t] \in Nat
  BY DEF Heirs, RateTypeOK
<1>2. /\ Cardinality(Heirs(t)) \in Nat /\ Cardinality(Heirs(t)) > 0
      /\ Cardinality(Heirs(t) \ {s}) = Cardinality(Heirs(t)) - 1
  BY <1>1, HeirsCounted
<1>3. ~Unbounded(t)' /\ (counter[t] = 0 => ttl'[t] = NoExpiry)
  BY <1>1, LifetimeSet DEF Unbounded, Tended
<1>4. Tended(t)'
  BY <1>3 DEF Tended
<1>5. IF ttl[t] = NoExpiry THEN renewed'[t] = renewed[t]
                           ELSE renewed'[t] = renewed[t] + 1 /\ ~Unbounded(t)
  BY LifetimeSet DEF Unbounded
<1>6. Accounted(t)'
  <2>1. CASE Heirs(t)' = Heirs(t) \ {s} /\ lost'[t] = lost[t]
    BY <1>1, <1>2, <1>3, <1>5, <2>1 DEF Accounted
  <2>2. CASE Heirs(t)' = Heirs(t) /\ lost'[t] = lost[t] + 1
    BY <1>1, <1>2, <1>3, <1>5, <2>2 DEF Accounted
  <2>3. QED
    BY <2>1, <2>2
<1>7. QED
  BY <1>4, <1>6

(* A guard fails before its EXPIRE.                                        *)
LEMMA FateFailed ==
  ASSUME RateTypeOK, NEW t \in Tenants, Tended(t), Accounted(t), NEW s \in Heirs(t),
         counter'[t] = counter[t], ttl'[t] = ttl[t], mishap'[t] <=> mishap[t] \/ Unbounded(t),
         Heirs(t)' = Heirs(t) \ {s}, lost'[t] = lost[t], renewed'[t] = renewed[t]
  PROVE  (Tended(t) /\ Accounted(t))'
<1>1. s \in Slots /\ counter[t] \in Nat /\ lost[t] \in Nat /\ renewed[t] \in Nat
  BY DEF Heirs, RateTypeOK
<1>2. /\ Cardinality(Heirs(t)) \in Nat
      /\ Cardinality(Heirs(t) \ {s}) = Cardinality(Heirs(t)) - 1
  BY <1>1, HeirsCounted
<1>3. Unbounded(t)' <=> Unbounded(t)
  BY DEF Unbounded
<1>4. Unbounded(t) => counter[t] # 0
  BY <1>1 DEF Unbounded
<1>5. Tended(t)'
  BY <1>3, <1>4 DEF Tended
<1>6. Accounted(t)'
  BY <1>1, <1>2, <1>3 DEF Accounted
<1>7. QED
  BY <1>5, <1>6

LEMMA FatesStep ==
  ASSUME RateTypeOK, Fates, [RateNext]_rateVars
  PROVE  Fates'
<1> USE DEF Fates
<1>0. /\ counter \in [Tenants -> Nat] /\ ttl \in [Tenants -> Nat \cup {NoExpiry}]
      /\ mishap \in [Tenants -> BOOLEAN]
      /\ lost \in [Tenants -> Nat] /\ renewed \in [Tenants -> Nat]
      /\ \A s \in Slots : ratePc[s] \in RateSteps => rateTenant[s] \in Tenants
  BY DEF RateTypeOK
<1>1. ASSUME UNCHANGED <<redisVars, mishap, lost, renewed>>,
             \A t \in Tenants : Heirs(t)' = Heirs(t)
      PROVE  Fates'
  BY <1>1, FateKept DEF redisVars
<1>2. ASSUME NEW s \in Slots, NEW t \in Tenants, Send(s, t)
      PROVE  Fates'
  <2>1. ASSUME NEW u \in Tenants PROVE Heirs(u)' = Heirs(u)
    BY <1>2 DEF Send, RateTypeOK, RateGoto, RateSteps, Heirs
  <2>2. QED
    BY <1>1, <1>2, <2>1 DEF Send, historyVars
<1>3. ASSUME NEW s \in Slots, GetPlanLimits(s) \/ ReadTtl(s)
      PROVE  Fates'
  <2>1. PICK pc : RateGoto(s, pc) /\ pc # "expire" /\ ratePc[s] # "expire"
    BY <1>3 DEF GetPlanLimits, ReadTtl
  <2>2. UNCHANGED <<redisVars, rateTenant, mishap, lost, renewed>>
    BY <1>3 DEF GetPlanLimits, ReadTtl, historyVars
  <2>3. QED
    BY <1>1, <2>1, <2>2, HeirsStay
<1>4. ASSUME NEW s \in Slots, Incr(s)
      PROVE  Fates'
  <2>0. PICK t \in Tenants : t = rateTenant[s]
    BY <1>0, <1>4 DEF Incr, RateSteps
  <2> DEFINE current == counter[t] + 1
             step == IF current = 1 THEN "expire" ELSE Verdict(s, current)
  <2>1. /\ ratePc[s] = "incr"
        /\ counter' = [counter EXCEPT ![t] = current]
        /\ RateGoto(s, step)
        /\ UNCHANGED <<ttl, rateTenant, mishap, lost, renewed>>
    BY <1>4, <2>0 DEF Incr
  <2>2. step = "expire" <=> counter[t] = 0
    BY <1>0 DEF Verdict
  <2>3. s \notin Heirs(t)
    BY <2>1 DEF Heirs
  <2>4. \A u \in Tenants : Heirs(u)' = IF u = t /\ counter[t] = 0 THEN Heirs(u) \cup {s}
                                       ELSE Heirs(u)
    BY <2>0, <2>1, <2>2, <2>3, HeirsMove
  <2>5. counter'[t] = counter[t] + 1 /\ \A u \in Tenants \ {t} : counter'[u] = counter[u]
    BY <1>0, <2>1
  <2> HIDE DEF current, step
  <2>6. ASSUME NEW u \in Tenants, u # t PROVE (Tended(u) /\ Accounted(u))'
    BY <2>1, <2>4, <2>5, <2>6, FateKept
  <2>7. (Tended(t) /\ Accounted(t))'
    <3>1. CASE counter[t] = 0
      <4>1. counter'[t] > 0 /\ Heirs(t)' = Heirs(t) \cup {s}
        BY <2>4, <2>5, <3>1
      <4>2. QED
        BY <2>1, <2>3, <3>1, <4>1, FateBegun
    <3>2. CASE counter[t] # 0
      <4>1. counter[t] > 0 /\ counter'[t] > 0 /\ counter'[t] # 0 /\ Heirs(t)' = Heirs(t)
        BY <1>0, <2>4, <2>5, <3>2
      <4>2. QED
        BY <2>1, <3>2, <4>1, FateKept
    <3>3. QED
      BY <3>1, <3>2
  <2>8. QED
    BY <2>6, <2>7
<1>5. ASSUME NEW s \in Slots, Expire(s)
      PROVE  Fates'
  <2>0. PICK t \in Tenants : t = rateTenant[s]
    BY <1>0, <1>5 DEF Expire, RateSteps
  <2>1. /\ s \in Heirs(t) /\ SetLifetime(t)
        /\ RateGoto(s, Verdict(s, 1))
        /\ UNCHANGED <<counter, rateTenant, mishap, lost>>
    BY <1>5, <2>0 DEF Expire, Heirs
  <2>2. Verdict(s, 1) # "expire"
    BY DEF Verdict
  <2>3. \A u \in Tenants : Heirs(u)' = IF u = t THEN Heirs(u) \ {s} ELSE Heirs(u)
    BY <2>0, <2>1, <2>2, HeirsMove
  <2>4. ASSUME NEW u \in Tenants, u # t PROVE (Tended(u) /\ Accounted(u))'
    BY <2>1, <2>3, <2>4, LifetimeSet, FateKept
  <2>5. (Tended(t) /\ Accounted(t))'
    BY <2>1, <2>3, FateExpired
  <2>6. QED
    BY <2>4, <2>5
<1>6. ASSUME NEW s \in Slots, LoseReply(s)
      PROVE  Fates'
  <2>0. PICK t \in Tenants : t = rateTenant[s]
    BY <1>0, <1>6 DEF LoseReply, RateSteps
  <2>1. \A u \in Tenants : Heirs(u)' = Heirs(u)
    BY <1>6 DEF LoseReply, slotVars, Heirs
  <2>2. CASE ratePc[s] = "incr"
    <3>1. /\ counter' = [counter EXCEPT ![t] = @ + 1]
          /\ mishap' = [mishap EXCEPT ![t] = mishap[t] \/ counter[t] = 0]
          /\ UNCHANGED <<ttl, lost, renewed>>
      BY <1>6, <2>0, <2>2 DEF LoseReply
    <3>2. counter'[t] = counter[t] + 1 /\ \A u \in Tenants \ {t} : counter'[u] = counter[u]
      BY <1>0, <3>1
    <3>3. /\ mishap'[t] <=> mishap[t] \/ counter[t] = 0
          /\ \A u \in Tenants \ {t} : mishap'[u] <=> mishap[u]
      BY <1>0, <3>1, FlagSet
    <3>4. ASSUME NEW u \in Tenants, u # t PROVE (Tended(u) /\ Accounted(u))'
      BY <2>1, <3>1, <3>2, <3>3, <3>4, FateKept
    <3>5. (Tended(t) /\ Accounted(t))'
      <4>1. CASE counter[t] = 0
        <5>1. counter'[t] > 0 /\ mishap'[t]
          BY <3>2, <3>3, <4>1
        <5>2. QED
          BY <2>1, <3>1, <4>1, <5>1, FateBegun
      <4>2. CASE counter[t] # 0
        <5>1. counter[t] > 0 /\ counter'[t] > 0 /\ counter'[t] # 0
          BY <1>0, <3>2, <4>2
        <5>2. QED
          BY <2>1, <3>1, <3>3, <4>2, <5>1, FateKept
      <4>3. QED
        BY <4>1, <4>2
    <3>6. QED
      BY <3>4, <3>5
  <2>3. CASE ratePc[s] # "incr"
    <3>1. /\ s \in Heirs(t) /\ SetLifetime(t)
          /\ lost' = [lost EXCEPT ![t] = @ + 1]
          /\ UNCHANGED <<counter, mishap>>
      BY <1>6, <2>0, <2>3 DEF LoseReply, Heirs
    <3>2. lost'[t] = lost[t] + 1 /\ \A u \in Tenants \ {t} : lost'[u] = lost[u]
      BY <1>0, <3>1
    <3>3. ASSUME NEW u \in Tenants, u # t PROVE (Tended(u) /\ Accounted(u))'
      BY <2>1, <3>1, <3>2, <3>3, LifetimeSet, FateKept
    <3>4. (Tended(t) /\ Accounted(t))'
      BY <2>1, <3>1, <3>2, FateExpired
    <3>5. QED
      BY <3>3, <3>4
  <2>4. QED
    BY <2>2, <2>3
<1>7. ASSUME NEW s \in Slots, FailRate(s)
      PROVE  Fates'
  <2>0. PICK t \in Tenants : t = rateTenant[s]
    BY <1>0, <1>7 DEF FailRate
  <2>1. /\ RateGoto(s, "failed")
        /\ mishap' = [mishap EXCEPT ![t] = mishap[t] \/ (ratePc[s] = "expire" /\ Unbounded(t))]
        /\ UNCHANGED <<counter, ttl, rateTenant, lost, renewed>>
    BY <1>7, <2>0 DEF FailRate, redisVars, Unbounded
  <2>2. /\ mishap'[t] <=> mishap[t] \/ (ratePc[s] = "expire" /\ Unbounded(t))
        /\ \A u \in Tenants \ {t} : mishap'[u] <=> mishap[u]
    BY <1>0, <2>1, FlagSet
  <2>3. \A u \in Tenants : Heirs(u)' = IF u = t THEN Heirs(u) \ {s} ELSE Heirs(u)
    BY <2>0, <2>1, HeirsMove
  <2>4. ASSUME NEW u \in Tenants, u # t PROVE (Tended(u) /\ Accounted(u))'
    BY <2>1, <2>2, <2>3, <2>4, FateKept
  <2>5. (Tended(t) /\ Accounted(t))'
    <3>1. CASE ratePc[s] = "expire"
      <4>1. s \in Heirs(t)
        BY <2>0, <3>1 DEF Heirs
      <4>2. QED
        BY <2>1, <2>2, <2>3, <3>1, <4>1, FateFailed
    <3>2. CASE ratePc[s] # "expire"
      <4>1. Heirs(t)' = Heirs(t)
        BY <2>3, <3>2 DEF Heirs
      <4>2. QED
        BY <2>1, <2>2, <3>2, <4>1, FateKept
    <3>3. QED
      BY <3>1, <3>2
  <2>6. QED
    BY <2>4, <2>5
<1>8. ASSUME NEW t \in Tenants, Tick(t)
      PROVE  Fates'
  <2>1. \A u \in Tenants : Heirs(u)' = Heirs(u)
    BY <1>8 DEF Tick, slotVars, Heirs
  <2>2. /\ \A u \in Tenants \ {t} : /\ counter'[u] = counter[u] /\ ttl'[u] = ttl[u]
                                    /\ mishap'[u] = mishap[u]
        /\ UNCHANGED <<lost, renewed>>
    BY <1>0, <1>8 DEF Tick
  <2>3. ASSUME NEW u \in Tenants, u # t PROVE (Tended(u) /\ Accounted(u))'
    BY <2>1, <2>2, <2>3, FateKept
  <2>4. counter[t] > 0 /\ ~Unbounded(t)
    BY <1>0, <1>8 DEF Tick, Tended, Unbounded
  <2>5. ~Unbounded(t)' /\ (counter'[t] = 0 => ttl'[t] = NoExpiry /\ ~mishap'[t])
    BY <1>0, <1>8, <2>4 DEF Tick, Unbounded, NoExpiry
  <2>6. Tended(t)'
    BY <2>5 DEF Tended
  <2>7. Accounted(t)'
    BY <2>1, <2>2, <2>4, <2>5 DEF Accounted
  <2>8. QED
    BY <2>3, <2>6, <2>7
<1>9. CASE UNCHANGED <<redisVars, slotVars, historyVars>>
  <2>1. \A t \in Tenants : Heirs(t)' = Heirs(t)
    BY <1>9 DEF slotVars, Heirs
  <2>2. QED
    BY <1>1, <1>9, <2>1 DEF historyVars
<1>10. QED
  BY <1>2, <1>3, <1>4, <1>5, <1>6, <1>7, <1>8, <1>9
     DEF RateNext, RateWork, ChangeLimit, rateVars

LEMMA FatesInvariant == RateSafety => [](RateTypeOK /\ Fates)
<1>1. RateInit => Fates
  <2> SUFFICES ASSUME RateInit, NEW t \in Tenants PROVE Tended(t) /\ Accounted(t)
    BY DEF Fates
  <2>1. Heirs(t) = {}
    BY DEF RateInit, Heirs
  <2>2. counter[t] = 0 /\ ttl[t] = NoExpiry /\ ~mishap[t] /\ lost[t] = 0 /\ renewed[t] = 0
    BY DEF RateInit
  <2>3. Cardinality(Heirs(t)) = 0
    BY <2>1, FS_EmptySet
  <2>4. QED
    BY <2>1, <2>2, <2>3 DEF Tended, Accounted, Unbounded
<1>2. RateTypeOK /\ Fates /\ [RateNext]_rateVars => Fates'
  BY FatesStep
<1>3. QED
  BY <1>1, <1>2, RateTyped, PTL DEF RateSafety

(* Whatever the order in which guards, failures, resent calls and the      *)
(* clock interleave, a key without a lifetime has somebody who is about to *)
(* give it one, unless its first INCR lost its reply or the guard failed   *)
(* in between (RateLimitGuard.canActivate, `current === 1`).               *)
THEOREM KeysAreTended == RateSafety => []TendedUnlessMishap
<1>1. Fates => TendedUnlessMishap
  BY FatesAreBoth
<1>2. QED
  BY <1>1, FatesInvariant, PTL

(* However often connections break, the windows of a tenant are lengthened *)
(* no more often than replies to EXPIRE were lost (redis.module.ts, a      *)
(* client that sends unanswered calls again).                              *)
THEOREM RenewalsAreBounded == RateSafety => []RenewalsAreResent
<1>1. Fates => RenewalsAreResent
  BY FatesAreBoth
<1>2. QED
  BY <1>1, FatesInvariant, PTL

(* The lifetime of a living key is made longer only on account of a lost   *)
(* reply that has not been used up.                                        *)
PaidFor == \A t \in Tenants :
    ttl[t] # NoExpiry /\ ttl'[t] > ttl[t] => renewed[t] < lost'[t] /\ renewed'[t] = renewed[t] + 1

LEMMA RateStepPaidFor ==
  ASSUME RateTypeOK, Fates, [RateNext]_rateVars
  PROVE  PaidFor
<1> USE DEF PaidFor, NoExpiry
<1>0. /\ ttl \in [Tenants -> Nat \cup {NoExpiry}]
      /\ lost \in [Tenants -> Nat] /\ renewed \in [Tenants -> Nat]
  BY DEF RateTypeOK
<1>1. CASE UNCHANGED ttl
  BY <1>0, <1>1
<1>2. ASSUME NEW s \in Slots, ratePc[s] = "expire", SetLifetime(rateTenant[s]),
             UNCHANGED lost \/ lost' = [lost EXCEPT ![rateTenant[s]] = @ + 1]
      PROVE  PaidFor
  <2>1. PICK t \in Tenants : t = rateTenant[s]
    BY <1>2 DEF RateTypeOK, RateSteps
  <2>2. \A u \in Tenants \ {t} : ttl'[u] = ttl[u]
    BY <1>2, <2>1, LifetimeSet
  <2>3. ASSUME ttl[t] # NoExpiry
        PROVE  renewed[t] < lost'[t] /\ renewed'[t] = renewed[t] + 1
    <3>1. s \in Heirs(t) /\ ~Unbounded(t)
      BY <1>2, <2>1, <2>3 DEF Heirs, Unbounded
    <3>2. Cardinality(Heirs(t)) \in Nat /\ Cardinality(Heirs(t)) > 0
      BY <3>1, HeirsCounted
    <3>3. renewed[t] < lost[t]
      BY <1>0, <3>1, <3>2 DEF Fates, Accounted
    <3>4. lost'[t] \in Nat /\ lost'[t] >= lost[t]
      BY <1>0, <1>2, <2>1
    <3>5. renewed'[t] = renewed[t] + 1
      BY <1>2, <2>1, <2>3, LifetimeSet
    <3>6. QED
      BY <1>0, <3>3, <3>4, <3>5
  <2>4. QED
    BY <1>0, <2>2, <2>3
<1>3. ASSUME NEW t \in Tenants, Tick(t)
      PROVE  PaidFor
  BY <1>0, <1>3 DEF Tick
<1>4. ASSUME NEW s \in Slots, Expire(s)
      PROVE  PaidFor
  BY <1>2, <1>4 DEF Expire
<1>5. ASSUME NEW s \in Slots, LoseReply(s)
      PROVE  PaidFor
  BY <1>1, <1>2, <1>5 DEF LoseReply
<1>6. QED
  BY <1>1, <1>3, <1>4, <1>5
     DEF RateNext, RateWork, Send, GetPlanLimits, Incr, ReadTtl, FailRate, ChangeLimit,
         rateVars, redisVars, slotVars

(* A window is fixed as long as no EXPIRE of the tenant is sent again:     *)
(* only an EXPIRE that a lost reply accounts for lengthens what is left of *)
(* it (RateLimitGuard.canActivate, `current === 1`).                       *)
THEOREM LengtheningIsPaidFor ==
  RateSafety => [][\A t \in Tenants :
                      ttl[t] # NoExpiry /\ ttl'[t] > ttl[t] =>
                          renewed[t] < lost'[t] /\ renewed'[t] = renewed[t] + 1]_rateVars
<1>1. RateTypeOK /\ Fates /\ [RateNext]_rateVars
      => [\A t \in Tenants :
             ttl[t] # NoExpiry /\ ttl'[t] > ttl[t] =>
                 renewed[t] < lost'[t] /\ renewed'[t] = renewed[t] + 1]_rateVars
  BY RateStepPaidFor DEF PaidFor
<1>2. QED
  BY <1>1, FatesInvariant, PTL DEF RateSafety

(* What makes the limit per minute wrong cannot mend itself: an orphan, a  *)
(* key without a lifetime that no guard in flight will give one, stays one *)
(* and its counter never falls, whatever guards come later and whatever    *)
(* calls are sent again.                                                   *)
THEOREM OrphansStay ==
  RateSafety => [][\A t \in Tenants :
                      Orphan(t) => Orphan(t)' /\ counter'[t] >= counter[t]]_rateVars
<1>1. ASSUME RateTypeOK, [RateNext]_rateVars, NEW t \in Tenants, Orphan(t)
      PROVE  Orphan(t)' /\ counter'[t] >= counter[t]
  <2> USE DEF Orphan, Unbounded
  <2>0. /\ counter \in [Tenants -> Nat]
        /\ \A s \in Slots : ratePc[s] \in RateSteps => rateTenant[s] \in Tenants
    BY <1>1 DEF RateTypeOK
  <2>1. counter[t] \in Nat /\ counter[t] > 0 /\ ttl[t] = NoExpiry /\ Heirs(t) = {}
    BY <1>1, <2>0
  <2>2. CASE UNCHANGED <<redisVars, slotVars>>
    BY <2>1, <2>2 DEF redisVars, slotVars, Heirs
  <2>3. ASSUME NEW s \in Slots, NEW u \in Tenants, Send(s, u)
        PROVE  Orphan(t)' /\ counter'[t] >= counter[t]
    <3>1. Heirs(t)' = Heirs(t)
      BY <1>1, <2>3 DEF Send, RateTypeOK, RateGoto, RateSteps, Heirs
    <3>2. QED
      BY <2>1, <2>3, <3>1 DEF Send, redisVars
  <2>4. ASSUME NEW s \in Slots, GetPlanLimits(s) \/ ReadTtl(s) \/ FailRate(s)
        PROVE  Orphan(t)' /\ counter'[t] >= counter[t]
    <3>1. PICK pc : RateGoto(s, pc) /\ pc # "expire"
      BY <2>4 DEF GetPlanLimits, ReadTtl, FailRate
    <3>2. UNCHANGED <<redisVars, rateTenant>>
      BY <2>4 DEF GetPlanLimits, ReadTtl, FailRate
    <3>3. Heirs(t)' = {}
      BY <1>1, <2>1, <3>1, <3>2, HeirsMove
    <3>4. QED
      BY <2>1, <3>2, <3>3 DEF redisVars
  <2>5. ASSUME NEW s \in Slots, Incr(s)
        PROVE  Orphan(t)' /\ counter'[t] >= counter[t]
    <3> DEFINE u == rateTenant[s]
    <3>1. u \in Tenants /\ counter' = [counter EXCEPT ![u] = @ + 1] /\ UNCHANGED <<ttl, rateTenant>>
      BY <2>0, <2>5 DEF Incr, RateSteps
    <3>2. counter'[t] \in Nat /\ counter'[t] >= counter[t]
      BY <2>0, <3>1
    <3>3. PICK pc : RateGoto(s, pc) /\ (u = t => pc # "expire")
      <4>1. CASE u = t
        <5>1. counter[u] + 1 # 1
          BY <2>1, <4>1
        <5>2. RateGoto(s, Verdict(s, counter[u] + 1)) /\ Verdict(s, counter[u] + 1) # "expire"
          BY <2>5, <5>1 DEF Incr, Verdict
        <5>3. QED
          BY <5>2
      <4>2. CASE u # t
        BY <2>5, <4>2 DEF Incr
      <4>3. QED
        BY <4>1, <4>2
    <3>4. Heirs(t)' = {}
      BY <1>1, <2>1, <3>1, <3>3, HeirsMove
    <3>5. QED
      BY <2>1, <3>1, <3>2, <3>4
  <2>6. ASSUME NEW s \in Slots, Expire(s)
        PROVE  Orphan(t)' /\ counter'[t] >= counter[t]
    <3>1. rateTenant[s] \in Tenants /\ rateTenant[s] # t
      BY <2>0, <2>1, <2>6 DEF Expire, RateSteps, Heirs
    <3>2. ttl'[t] = ttl[t]
      BY <1>1, <2>6, <3>1, LifetimeSet DEF Expire
    <3>3. Heirs(t)' = Heirs(t)
      BY <1>1, <2>6, <3>1, HeirsMove DEF Expire
    <3>4. QED
      BY <2>1, <2>6, <3>2, <3>3 DEF Expire
  <2>7. ASSUME NEW s \in Slots, LoseReply(s)
        PROVE  Orphan(t)' /\ counter'[t] >= counter[t]
    <3>1. Heirs(t)' = Heirs(t)
      BY <2>7 DEF LoseReply, slotVars, Heirs
    <3>2. ttl'[t] = ttl[t]
      <4>1. CASE ratePc[s] = "incr"
        BY <2>7, <4>1 DEF LoseReply
      <4>2. CASE ratePc[s] # "incr"
        <5>1. ratePc[s] = "expire" /\ SetLifetime(rateTenant[s])
          BY <2>7, <4>2 DEF LoseReply
        <5>2. rateTenant[s] \in Tenants /\ rateTenant[s] # t
          BY <2>0, <2>1, <5>1 DEF RateSteps, Heirs
        <5>3. QED
          BY <1>1, <5>1, <5>2, LifetimeSet
      <4>3. QED
        BY <4>1, <4>2
    <3>3. counter'[t] \in Nat /\ counter'[t] >= counter[t]
      BY <2>0, <2>7 DEF LoseReply
    <3>4. QED
      BY <2>1, <3>1, <3>2, <3>3
  <2>8. ASSUME NEW u \in Tenants, Tick(u)
        PROVE  Orphan(t)' /\ counter'[t] >= counter[t]
    <3>1. u # t
      BY <2>1, <2>8 DEF Tick
    <3>2. Heirs(t)' = Heirs(t)
      BY <2>8 DEF Tick, slotVars, Heirs
    <3>3. counter'[t] = counter[t] /\ ttl'[t] = ttl[t]
      BY <1>1, <2>8, <3>1 DEF Tick, RateTypeOK
    <3>4. QED
      BY <2>1, <3>2, <3>3
  <2>9. QED
    BY <1>1, <2>2, <2>3, <2>4, <2>5, <2>6, <2>7, <2>8
       DEF RateNext, RateWork, ChangeLimit, rateVars
<1>2. RateTypeOK /\ [RateNext]_rateVars
      => [\A t \in Tenants : Orphan(t) => Orphan(t)' /\ counter'[t] >= counter[t]]_rateVars
  BY <1>1
<1>3. QED
  BY <1>2, RateTyped, PTL DEF RateSafety

=============================================================================
