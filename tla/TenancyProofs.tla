--------------------------- MODULE TenancyProofs ---------------------------
(***************************************************************************)
(* Proofs about Tenancy for every finite set of requests, every set of     *)
(* slugs and every size of the pool.                                       *)
(***************************************************************************)
EXTENDS Tenancy, FiniteSetTheorems, SequenceTheorems, TLAPS

(* The pool: who waits is in the line once and has no connection, and      *)
(* there is a line only while every connection is given away.              *)
Members(s) == {s[i] : i \in 1..Len(s)}
Line == {waiting[i] : i \in DOMAIN waiting}
Placed == holders \cup Line

PoolInv ==
    /\ holders \subseteq CreateRequests
    /\ waiting \in Seq(CreateRequests)
    /\ holders \cap Line = {}
    /\ \A i, j \in 1..Len(waiting) : waiting[i] = waiting[j] => i = j
    /\ Cardinality(holders) <= PoolSize
    /\ waiting # <<>> => Cardinality(holders) = PoolSize

LEMMA Holders ==
  ASSUME PoolInv
  PROVE  IsFiniteSet(holders) /\ Cardinality(holders) \in Nat
BY TenancyAssumption, FS_Subset, FS_CardinalityType DEF PoolInv

LEMMA LineByIndex ==
  ASSUME waiting \in Seq(CreateRequests)
  PROVE  Line = Members(waiting)
BY LenProperties DEF Line, Members

LEMMA DemandPlaces ==
  ASSUME PoolInv, NEW r \in CreateRequests \ Placed, Demand(r)
  PROVE  PoolInv' /\ Placed' = Placed \cup {r}
<1>1. waiting \in Seq(CreateRequests) /\ PoolSize \in Nat \ {0}
  BY PoolAssumption DEF PoolInv
<1>2. Line = {waiting[i] : i \in 1..Len(waiting)}
  BY <1>1, LineByIndex DEF Members
<1>3. CASE Cardinality(holders) < PoolSize
  <2>1. holders' = holders \cup {r} /\ UNCHANGED waiting
    BY <1>1, <1>3, Holders DEF Demand
  <2>2. Cardinality(holders') = Cardinality(holders) + 1
    BY <2>1, Holders, FS_AddElement DEF Placed
  <2>3. waiting = <<>>
    BY <1>1, <1>3, Holders DEF PoolInv
  <2>4. Line' = Line
    BY <2>1 DEF Line
  <2>5. QED
    BY <1>1, <1>3, <2>1, <2>2, <2>3, <2>4, Holders DEF PoolInv, Placed
<1>4. CASE Cardinality(holders) >= PoolSize
  <2>1. waiting' = Append(waiting, r) /\ UNCHANGED holders
    BY <1>1, <1>4, Holders DEF Demand
  <2>2. /\ waiting' \in Seq(CreateRequests) /\ Len(waiting') = Len(waiting) + 1
        /\ \A i \in 1..Len(waiting) : waiting'[i] = waiting[i]
        /\ waiting'[Len(waiting) + 1] = r /\ Len(waiting) \in Nat
    BY <1>1, <2>1, AppendProperties, LenProperties
  <2>3. Line' = {waiting'[i] : i \in 1..Len(waiting')}
    BY <2>2, LenProperties DEF Line
  <2>4. Line' = Line \cup {r}
    <3>1. 1..Len(waiting') = 1..Len(waiting) \cup {Len(waiting) + 1}
      BY <2>2
    <3>2. QED
      BY <1>2, <2>2, <2>3, <3>1
  <2>5. \A i, j \in 1..Len(waiting') : waiting'[i] = waiting'[j] => i = j
    BY <1>2, <2>2 DEF PoolInv, Placed
  <2>6. QED
    BY <1>1, <1>4, <2>1, <2>2, <2>4, <2>5, Holders DEF PoolInv, Placed
<1>5. QED
  BY <1>1, <1>3, <1>4, Holders

(* The oldest demand gets the place of r.                                  *)
LEMMA HandOver ==
  ASSUME PoolInv, NEW r \in holders, waiting # <<>>
  PROVE  LET h == (holders \ {r}) \cup {Head(waiting)}
             w == Tail(waiting)
         IN
         /\ h \subseteq CreateRequests /\ r \notin h /\ Cardinality(h) = PoolSize
         /\ w \in Seq(CreateRequests) /\ Len(w) \in Nat
         /\ \A i, j \in 1..Len(w) : w[i] = w[j] => i = j
         /\ h \cap Members(w) = {}
         /\ h \cup Members(w) = Placed \ {r}
<1> DEFINE h == (holders \ {r}) \cup {Head(waiting)}
           w == Tail(waiting)
<1>1. waiting \in Seq(CreateRequests) /\ Len(waiting) \in Nat \ {0}
  BY EmptySeq DEF PoolInv
<1>2. /\ Head(waiting) = waiting[1] /\ waiting[1] \in CreateRequests
      /\ w \in Seq(CreateRequests) /\ Len(w) = Len(waiting) - 1
      /\ \A i \in 1..Len(w) : w[i] = waiting[i + 1]
  BY <1>1, HeadTailProperties
<1> HIDE DEF w
<1>3. Line = Members(waiting)
  BY <1>1, LineByIndex
<1>4. Members(w) = Line \ {waiting[1]}
  <2>1. ASSUME NEW i \in 1..Len(w) PROVE w[i] \in Line \ {waiting[1]}
    BY <1>1, <1>2, <1>3, <2>1 DEF PoolInv, Members
  <2>2. ASSUME NEW x \in Line \ {waiting[1]} PROVE \E i \in 1..Len(w) : x = w[i]
    <3>1. PICK i \in 1..Len(waiting) : x = waiting[i]
      BY <1>3 DEF Members
    <3>2. i - 1 \in 1..Len(w) /\ w[i - 1] = waiting[i]
      BY <1>1, <1>2, <2>2, <3>1
    <3>3. QED
      BY <3>1, <3>2
  <2>3. QED
    BY <2>1, <2>2 DEF Members
<1>5. waiting[1] \in Line /\ waiting[1] \notin holders
  BY <1>1, <1>3 DEF PoolInv, Members
<1>6. Cardinality(h) = PoolSize
  <2>1. IsFiniteSet(holders \ {r}) /\ Cardinality(holders \ {r}) = Cardinality(holders) - 1
    BY Holders, FS_RemoveElement
  <2>2. Cardinality(h) = Cardinality(holders \ {r}) + 1
    BY <1>2, <1>5, <2>1, FS_AddElement
  <2>3. QED
    BY <2>1, <2>2, Holders DEF PoolInv
<1>7. \A i, j \in 1..Len(w) : w[i] = w[j] => i = j
  BY <1>1, <1>2 DEF PoolInv
<1>8. /\ h \subseteq CreateRequests /\ r \notin h
      /\ h \cap Members(w) = {}
      /\ h \cup Members(w) = Placed \ {r}
  BY <1>2, <1>4, <1>5 DEF PoolInv, Placed
<1>9. QED
  BY <1>1, <1>2, <1>6, <1>7, <1>8 DEF w

LEMMA ReleaseFrees ==
  ASSUME PoolInv, NEW r \in holders, Release(r)
  PROVE  PoolInv' /\ Placed' = Placed \ {r}
<1>1. CASE waiting = <<>>
  <2>1. holders' = holders \ {r} /\ UNCHANGED waiting
    BY <1>1 DEF Release
  <2>2. Cardinality(holders') = Cardinality(holders) - 1
    BY <2>1, Holders, FS_RemoveElement
  <2>3. Line' = Line
    BY <2>1 DEF Line
  <2>4. QED
    BY <1>1, <2>1, <2>2, <2>3, Holders, PoolAssumption DEF PoolInv, Placed
<1>2. CASE waiting # <<>>
  <2>1. holders' = (holders \ {r}) \cup {Head(waiting)} /\ waiting' = Tail(waiting)
    BY <1>2 DEF Release
  <2>2. /\ holders' \subseteq CreateRequests /\ Cardinality(holders') = PoolSize
        /\ waiting' \in Seq(CreateRequests)
        /\ \A i, j \in 1..Len(waiting') : waiting'[i] = waiting'[j] => i = j
        /\ holders' \cap Members(waiting') = {}
        /\ holders' \cup Members(waiting') = Placed \ {r}
    BY <1>2, <2>1, HandOver
  <2>3. Line' = Members(waiting')
    BY <2>2, LenProperties DEF Line, Members
  <2>4. QED
    BY <2>2, <2>3, PoolAssumption DEF PoolInv, Placed
<1>3. QED
  BY <1>1, <1>2

LEMMA NextTurn ==
  ASSUME PoolInv, NEW r \in holders, ReleaseAndDemand(r)
  PROVE  PoolInv' /\ Placed' = Placed
<1>1. CASE waiting = <<>>
  <2>1. UNCHANGED <<holders, waiting>>
    BY <1>1 DEF ReleaseAndDemand, poolVars
  <2>2. QED
    BY <2>1 DEF PoolInv, Placed, Line
<1>2. CASE waiting # <<>>
  <2> DEFINE w == Tail(waiting)
  <2>1. /\ holders' = (holders \ {r}) \cup {Head(waiting)} /\ waiting' = Append(w, r)
        /\ r \in CreateRequests /\ r \in Placed
    BY <1>2 DEF ReleaseAndDemand, PoolInv, Placed
  <2>2. /\ holders' \subseteq CreateRequests /\ r \notin holders'
        /\ Cardinality(holders') = PoolSize
        /\ w \in Seq(CreateRequests) /\ Len(w) \in Nat
        /\ \A i, j \in 1..Len(w) : w[i] = w[j] => i = j
        /\ holders' \cap Members(w) = {}
        /\ holders' \cup Members(w) = Placed \ {r}
    BY <1>2, <2>1, HandOver
  <2> HIDE DEF w
  <2>3. /\ waiting' \in Seq(CreateRequests) /\ Len(waiting') = Len(w) + 1
        /\ \A i \in 1..Len(w) : waiting'[i] = w[i]
        /\ waiting'[Len(w) + 1] = r
    BY <2>1, <2>2, AppendProperties
  <2>4. Line' = Members(w) \cup {r}
    <3>1. Line' = Members(waiting')
      BY <2>3, LenProperties DEF Line, Members
    <3>2. 1..Len(waiting') = 1..Len(w) \cup {Len(w) + 1}
      BY <2>2, <2>3
    <3>3. QED
      BY <2>3, <3>1, <3>2 DEF Members
  <2>5. \A i \in 1..Len(w) : w[i] # r
    BY <2>2 DEF Members
  <2>6. \A i, j \in 1..Len(waiting') : waiting'[i] = waiting'[j] => i = j
    BY <2>2, <2>3, <2>5
  <2>7. QED
    BY <2>1, <2>2, <2>3, <2>4, <2>6, PoolAssumption DEF PoolInv, Placed
<1>3. QED
  BY <1>1, <1>2

LEMMA RemoveAt ==
  ASSUME NEW S, NEW s \in Seq(S), NEW n \in Nat, n = Len(s), NEW k \in 1..n
  PROVE  LET t == SubSeq(s, 1, k - 1) \o SubSeq(s, k + 1, Len(s))
         IN  /\ t \in Seq(S) /\ Len(t) = n - 1
             /\ \A i \in 1..(n - 1) : t[i] = IF i < k THEN s[i] ELSE s[i + 1]
<1> DEFINE a == SubSeq(s, 1, k - 1)
           b == SubSeq(s, k + 1, n)
           t == a \o b
<1>1. \A i \in 1..n : s[i] \in S
  BY ElementOfSeq
<1>2. /\ a \in Seq(S) /\ Len(a) = k - 1
      /\ \A i \in 1..(k - 1) : a[i] = s[i]
  <2>1. \A i \in 1..(k - 1) : s[i] \in S
    BY <1>1
  <2>2. /\ a \in Seq(S) /\ Len(a) = IF 1 <= k - 1 THEN k - 1 - 1 + 1 ELSE 0
        /\ \A i \in 1..(k - 1 - 1 + 1) : a[i] = s[1 + i - 1]
    BY <2>1, SubSeqProperties
  <2> HIDE DEF a
  <2>3. QED
    BY <2>2
<1>3. /\ b \in Seq(S) /\ Len(b) = n - k
      /\ \A i \in 1..(n - k) : b[i] = s[k + i]
  <2>1. \A i \in (k + 1)..n : s[i] \in S
    BY <1>1
  <2>2. /\ b \in Seq(S) /\ Len(b) = IF k + 1 <= n THEN n - (k + 1) + 1 ELSE 0
        /\ \A i \in 1..(n - (k + 1) + 1) : b[i] = s[k + 1 + i - 1]
    BY <2>1, SubSeqProperties
  <2> HIDE DEF b
  <2>3. n - (k + 1) + 1 = n - k /\ \A i \in 1..(n - k) : k + 1 + i - 1 = k + i
    OBVIOUS
  <2>4. QED
    BY <2>2, <2>3
<1> HIDE DEF a, b
<1>4. /\ t \in Seq(S) /\ Len(t) = Len(a) + Len(b)
      /\ \A i \in 1..(Len(a) + Len(b)) : t[i] = IF i <= Len(a) THEN a[i] ELSE b[i - Len(a)]
  BY <1>2, <1>3, ConcatProperties
<1> HIDE DEF t
<1>5. Len(a) + Len(b) = n - 1
  BY <1>2, <1>3
<1>6. ASSUME NEW i \in 1..(n - 1) PROVE t[i] = IF i < k THEN s[i] ELSE s[i + 1]
  <2>1. CASE i < k
    BY <1>2, <1>4, <1>5, <2>1
  <2>2. CASE i >= k
    <3>1. t[i] = b[i - (k - 1)] /\ i - (k - 1) \in 1..(n - k)
      BY <1>2, <1>4, <1>5, <2>2
    <3>2. k + (i - (k - 1)) = i + 1
      OBVIOUS
    <3>3. QED
      BY <1>3, <2>2, <3>1, <3>2
  <2>3. QED
    BY <2>1, <2>2
<1>7. QED
  BY <1>4, <1>5, <1>6 DEF a, b, t

LEMMA GiveUpFrees ==
  ASSUME PoolInv, NEW r \in Placed, GiveUp(r)
  PROVE  PoolInv' /\ Placed' = Placed \ {r}
<1>1. CASE r \in holders /\ Release(r)
  BY <1>1, ReleaseFrees
<1>2. CASE ~(r \in holders /\ Release(r))
  <2>1. PICK n \in Nat : n = Len(waiting)
    BY LenProperties DEF PoolInv
  <2>2. waiting \in Seq(CreateRequests) /\ DOMAIN waiting = 1..n
    BY <2>1, LenProperties DEF PoolInv
  <2>3. PICK k \in 1..n :
           /\ waiting[k] = r
           /\ waiting' = SubSeq(waiting, 1, k - 1) \o SubSeq(waiting, k + 1, Len(waiting))
           /\ UNCHANGED holders
    BY <1>2, <2>2 DEF GiveUp
  <2>4. /\ waiting' \in Seq(CreateRequests) /\ Len(waiting') = n - 1
        /\ \A i \in 1..(n - 1) : waiting'[i] = IF i < k THEN waiting[i] ELSE waiting[i + 1]
    <3>1. \A s \in Seq(CreateRequests), m \in Nat : m = Len(s) => \A j \in 1..m :
             LET t == SubSeq(s, 1, j - 1) \o SubSeq(s, j + 1, Len(s))
             IN  /\ t \in Seq(CreateRequests) /\ Len(t) = m - 1
                 /\ \A i \in 1..(m - 1) : t[i] = IF i < j THEN s[i] ELSE s[i + 1]
      BY RemoveAt
    <3>2. LET t == SubSeq(waiting, 1, k - 1) \o SubSeq(waiting, k + 1, Len(waiting))
          IN  /\ t \in Seq(CreateRequests) /\ Len(t) = n - 1
              /\ \A i \in 1..(n - 1) : t[i] = IF i < k THEN waiting[i] ELSE waiting[i + 1]
      BY <2>1, <2>2, <3>1
    <3>3. QED
      BY <2>3, <3>2
  <2>5. /\ Line = {waiting[i] : i \in 1..n}
        /\ \A i, j \in 1..n : waiting[i] = waiting[j] => i = j
    BY <2>1, <2>2, LineByIndex DEF PoolInv, Members
  <2>6. Line' = {waiting'[i] : i \in 1..(n - 1)}
    BY <2>4, LenProperties DEF Line
  <2>7. Line' = Line \ {r}
    <3>1. ASSUME NEW i \in 1..(n - 1) PROVE waiting'[i] \in Line \ {r}
      <4>1. CASE i < k
        <5>1. i \in 1..n /\ i # k /\ waiting'[i] = waiting[i]
          BY <2>4, <4>1
        <5>2. QED
          BY <2>3, <2>5, <5>1
      <4>2. CASE i >= k
        <5>1. i + 1 \in 1..n /\ i + 1 # k /\ waiting'[i] = waiting[i + 1]
          BY <2>4, <4>2
        <5>2. QED
          BY <2>3, <2>5, <5>1
      <4>3. QED
        BY <4>1, <4>2
    <3>2. ASSUME NEW x \in Line \ {r} PROVE \E i \in 1..(n - 1) : x = waiting'[i]
      <4>1. PICK i \in 1..n : x = waiting[i]
        BY <2>5
      <4>2. CASE i < k
        <5>1. i \in 1..(n - 1) /\ waiting'[i] = waiting[i]
          BY <2>4, <4>2
        <5>2. QED
          BY <4>1, <5>1
      <4>3. CASE i > k
        <5>1. i - 1 \in 1..(n - 1) /\ ~(i - 1 < k) /\ i - 1 + 1 = i
          BY <4>3
        <5>2. waiting'[i - 1] = waiting[i]
          BY <2>4, <5>1
        <5>3. QED
          BY <4>1, <5>1, <5>2
      <4>4. i # k
        BY <2>3, <4>1
      <4>5. QED
        BY <4>2, <4>3, <4>4
    <3>3. QED
      BY <2>6, <3>1, <3>2
  <2>8. \A i, j \in 1..(n - 1) : waiting'[i] = waiting'[j] => i = j
    <3>1. \A i \in 1..(n - 1) : /\ i \in 1..n /\ i + 1 \in 1..n
                                /\ waiting'[i] = waiting[IF i < k THEN i ELSE i + 1]
      BY <2>4
    <3>2. ASSUME NEW i \in 1..(n - 1), NEW j \in 1..(n - 1), waiting'[i] = waiting'[j]
          PROVE  i = j
      <4>1. (IF i < k THEN i ELSE i + 1) = (IF j < k THEN j ELSE j + 1)
        BY <2>5, <3>1, <3>2
      <4>2. QED
        BY <4>1
    <3>3. QED
      BY <3>2
  <2>9. r \in Line /\ r \notin holders /\ waiting # <<>>
    BY <2>1, <2>3, <2>5, EmptySeq DEF PoolInv
  <2>10. QED
    BY <2>3, <2>4, <2>7, <2>8, <2>9, PoolAssumption DEF PoolInv, Placed
<1>3. QED
  BY <1>1, <1>2

----------------------------------------------------------------------------
(* The requests.  How many rows a request has written follows from its     *)
(* step; its connection is lost only when it is rolling back or answered.  *)
FitsRow(w, c, lost, pc, s) ==
    /\ w \in 0..Whole /\ c \in {0, Whole} /\ (w > 0 => c = 0)
    /\ pc \in {"idle"} \cup CreateSteps \cup Answers
    /\ s \in Slugs \cup {Nil}
    /\ pc = "idle" <=> s = Nil
    /\ pc \in {"idle", "findBySlug", "begin", "insertTenant"} => w = 0 /\ c = 0
    /\ pc = "insertRole" => w \in 1..(Whole - 2)
    /\ pc = "insertMember" => w = Whole - 1
    /\ pc = "commit" => w = Whole
    /\ lost => pc \in {"rollback", "failed"}
    /\ pc = "created" => c = Whole
    /\ w > 0 => pc \in {"insertRole", "insertMember", "commit", "rollback"} \/ lost

Claims(r) == written[r] > 0 \/ committed[r] > 0

(* Two requests never have rows under one slug, committed or not.          *)
OneClaim ==
    \A q, r \in CreateRequests :
        Claims(q) /\ Claims(r) /\ createSlug[q] = createSlug[r] => q = r

ConflictHasACause ==
    \A r \in CreateRequests :
        createPc[r] = "conflict" => \E q \in Rivals(r) : committed[q] = Whole

CreateInv ==
    /\ written \in [CreateRequests -> 0..Whole]
    /\ committed \in [CreateRequests -> 0..Whole]
    /\ broken \subseteq CreateRequests
    /\ createPc \in [CreateRequests -> {"idle"} \cup CreateSteps \cup Answers]
    /\ createSlug \in [CreateRequests -> Slugs \cup {Nil}]
    /\ \A r \in CreateRequests :
          FitsRow(written[r], committed[r], r \in broken, createPc[r], createSlug[r])
    /\ OneClaim
    /\ ConflictHasACause

LEMMA WholeIsFive == Whole = 5
BY DEF Whole, TenantRows

LEMMA RequestKeeps ==
  ASSUME CreateInv, NEW r \in CreateRequests, NEW w, NEW c, NEW pc, NEW s,
         written' = [written EXCEPT ![r] = w], committed' = [committed EXCEPT ![r] = c],
         createPc' = [createPc EXCEPT ![r] = pc], createSlug' = [createSlug EXCEPT ![r] = s],
         broken' \subseteq CreateRequests,
         \A q \in CreateRequests \ {r} : q \in broken' <=> q \in broken,
         FitsRow(w, c, r \in broken', pc, s),
         s = createSlug[r] \/ (createPc[r] = "idle" /\ w = 0 /\ c = 0),
         w > 0 \/ c > 0 => Claims(r) \/ \A q \in Rivals(r) : ~Claims(q),
         committed[r] > 0 => c = committed[r],
         pc = "conflict" => SlugTaken(r) \/ createPc[r] = "conflict"
  PROVE  CreateInv'
<1>1. /\ \A q \in CreateRequests :
            /\ written'[q] = IF q = r THEN w ELSE written[q]
            /\ committed'[q] = IF q = r THEN c ELSE committed[q]
            /\ createPc'[q] = IF q = r THEN pc ELSE createPc[q]
            /\ createSlug'[q] = IF q = r THEN s ELSE createSlug[q]
      /\ \A q \in CreateRequests : written[q] \in Nat /\ committed[q] \in {0, Whole}
      /\ w \in Nat /\ c \in Nat
  BY WholeIsFive DEF CreateInv, FitsRow
<1>2. /\ written' \in [CreateRequests -> 0..Whole]
      /\ committed' \in [CreateRequests -> 0..Whole]
      /\ createPc' \in [CreateRequests -> {"idle"} \cup CreateSteps \cup Answers]
      /\ createSlug' \in [CreateRequests -> Slugs \cup {Nil}]
  BY WholeIsFive DEF CreateInv, FitsRow
<1>3. ASSUME NEW q \in CreateRequests
      PROVE  FitsRow(written'[q], committed'[q], q \in broken', createPc'[q], createSlug'[q])
  <2>1. CASE q = r
    BY <1>1, <2>1 DEF FitsRow
  <2>2. CASE q # r
    BY <1>1, <2>2 DEF CreateInv, FitsRow
  <2>3. QED
    BY <2>1, <2>2
<1>4. OneClaim'
  <2>1. ASSUME NEW q \in CreateRequests \ {r}, Claims(q)',
               Claims(r)', createSlug'[q] = createSlug'[r]
        PROVE  FALSE
    <3>1. Claims(q) /\ (w > 0 \/ c > 0) /\ s = createSlug[r] /\ createSlug[q] = createSlug[r]
      BY <1>1, <2>1 DEF Claims
    <3>2. q \in Rivals(r)
      BY <3>1 DEF Rivals
    <3>3. QED
      BY <3>1, <3>2 DEF CreateInv, OneClaim
  <2>2. ASSUME NEW q \in CreateRequests \ {r}, NEW x \in CreateRequests \ {r},
               Claims(q)', Claims(x)', createSlug'[q] = createSlug'[x]
        PROVE  q = x
    BY <1>1, <2>2 DEF CreateInv, OneClaim, Claims
  <2>3. QED
    BY <2>1, <2>2 DEF OneClaim
<1>5. ConflictHasACause'
  <2>1. ASSUME NEW q \in CreateRequests, createPc'[q] = "conflict"
        PROVE  \E x \in CreateRequests \ {q} :
                  createSlug'[x] = createSlug'[q] /\ committed'[x] = Whole
    <3>1. createSlug'[q] = createSlug[q]
      <4>1. CASE q = r
        BY <1>1, <2>1, <4>1 DEF SlugTaken, Rivals, CreateInv, FitsRow, CreateSteps, InTransaction,
                                Answers
      <4>2. CASE q # r
        BY <1>1, <4>2
      <4>3. QED
        BY <4>1, <4>2
    <3>2. \E x \in CreateRequests \ {q} : createSlug[x] = createSlug[q] /\ committed[x] = Whole
      <4>1. CASE createPc[q] = "conflict"
        BY <4>1 DEF CreateInv, ConflictHasACause, Rivals
      <4>2. CASE createPc[q] # "conflict"
        BY <1>1, <2>1, <4>2, WholeIsFive DEF SlugTaken, Rivals
      <4>3. QED
        BY <4>1, <4>2
    <3>3. PICK x \in CreateRequests \ {q} :
             createSlug[x] = createSlug[q] /\ committed[x] = Whole
      BY <3>2
    <3>4. committed'[x] = Whole
      BY <1>1, <3>3, WholeIsFive
    <3>5. createSlug'[x] = createSlug[x]
      BY <1>1, <3>3, WholeIsFive DEF CreateInv, FitsRow
    <3>6. QED
      BY <3>1, <3>3, <3>4, <3>5
  <2>2. QED
    BY <2>1 DEF ConflictHasACause, Rivals
<1>6. QED
  BY <1>2, <1>3, <1>4, <1>5 DEF CreateInv

(* A step that moves its request on and leaves the rows alone.             *)
LEMMA ControlKeeps ==
  ASSUME CreateInv, NEW r \in CreateRequests, NEW pc,
         CreateGoto(r, pc), UNCHANGED <<written, committed, createSlug>>,
         broken' \subseteq CreateRequests,
         \A q \in CreateRequests \ {r} : q \in broken' <=> q \in broken,
         FitsRow(written[r], committed[r], r \in broken', pc, createSlug[r]),
         pc = "conflict" => SlugTaken(r)
  PROVE  CreateInv'
<1> DEFINE w == written[r]  c == committed[r]  s == createSlug[r]
<1>1. /\ written' = [written EXCEPT ![r] = w] /\ committed' = [committed EXCEPT ![r] = c]
      /\ createPc' = [createPc EXCEPT ![r] = pc] /\ createSlug' = [createSlug EXCEPT ![r] = s]
  BY DEF CreateInv, CreateGoto
<1>2. /\ FitsRow(w, c, r \in broken', pc, s) /\ s = createSlug[r]
      /\ (w > 0 \/ c > 0 => Claims(r)) /\ c = committed[r]
  BY DEF Claims
<1> HIDE DEF w, c, s
<1>3. QED
  BY <1>1, <1>2, RequestKeeps

(* A step that writes rows, for a slug that the request holds or nobody.   *)
LEMMA RowsKeep ==
  ASSUME CreateInv, NEW r \in CreateRequests, NEW w, NEW c, NEW pc,
         written' = [written EXCEPT ![r] = w], committed' = [committed EXCEPT ![r] = c],
         createPc' = [createPc EXCEPT ![r] = pc], UNCHANGED <<broken, createSlug>>,
         FitsRow(w, c, r \in broken, pc, createSlug[r]),
         w > 0 \/ c > 0 => Claims(r) \/ \A q \in Rivals(r) : ~Claims(q),
         committed[r] > 0 => c = committed[r],
         pc # "conflict"
  PROVE  CreateInv'
<1> DEFINE s == createSlug[r]
<1>1. createSlug' = [createSlug EXCEPT ![r] = s] /\ s = createSlug[r]
  BY DEF CreateInv
<1>2. FitsRow(w, c, r \in broken', pc, s)
  OBVIOUS
<1>3. broken' \subseteq CreateRequests /\ \A q \in CreateRequests : q \in broken' <=> q \in broken
  BY DEF CreateInv
<1> HIDE DEF s
<1>4. QED
  BY <1>1, <1>2, <1>3, RequestKeeps

LEMMA ReadingSteps ==
  ASSUME CreateInv, NEW r \in CreateRequests,
         \/ FindBySlug(r) \/ Begin(r) \/ ConnectFails(r) \/ StatementFails(r)
         \/ ConnectionLost(r)
  PROVE  CreateInv'
<1>1. /\ FitsRow(written[r], committed[r], r \in broken, createPc[r], createSlug[r])
      /\ broken \subseteq CreateRequests
  BY DEF CreateInv
<1>2. CASE FindBySlug(r)
  BY <1>1, <1>2, ControlKeeps
  DEF FindBySlug, CreateReply, At, FitsRow, CreateSteps, InTransaction, Answers
<1>3. CASE Begin(r)
  BY <1>1, <1>3, ControlKeeps DEF Begin, At, FitsRow, CreateSteps, InTransaction, Answers
<1>4. CASE ConnectFails(r)
  BY <1>1, <1>4, ControlKeeps DEF ConnectFails, FitsRow, CreateSteps, InTransaction, Answers
<1>5. CASE StatementFails(r)
  <2>1. CreateGoto(r, "rollback") /\ UNCHANGED <<written, committed, broken, createSlug>>
    BY <1>5 DEF StatementFails
  <2>2. FitsRow(written[r], committed[r], r \in broken, "rollback", createSlug[r])
    BY <1>1, <1>5 DEF StatementFails, FitsRow, CreateSteps, InTransaction, Answers
  <2>3. QED
    BY <1>1, <2>1, <2>2, ControlKeeps
<1>6. CASE ConnectionLost(r)
  <2>1. CreateGoto(r, "rollback") /\ broken' = broken \cup {r}
        /\ UNCHANGED <<written, committed, createSlug>>
    BY <1>6 DEF ConnectionLost
  <2>2. FitsRow(written[r], committed[r], TRUE, "rollback", createSlug[r])
    BY <1>1, <1>6 DEF ConnectionLost, FitsRow, CreateSteps, InTransaction, Answers
  <2>3. FitsRow(written[r], committed[r], r \in broken', "rollback", createSlug[r])
    BY <2>1, <2>2 DEF FitsRow
  <2>4. QED
    BY <1>1, <2>1, <2>3, ControlKeeps
<1>7. QED
  BY <1>2, <1>3, <1>4, <1>5, <1>6

LEMMA WritingSteps ==
  ASSUME CreateInv, NEW r \in CreateRequests,
         \/ CreateTenant(r) \/ InsertTenant(r) \/ InsertRole(r) \/ InsertMember(r)
         \/ Commit(r) \/ Rollback(r) \/ ServerEnds(r)
  PROVE  CreateInv'
<1> DEFINE w == written[r]  c == committed[r]
<1>1. /\ FitsRow(w, c, r \in broken, createPc[r], createSlug[r])
      /\ broken \subseteq CreateRequests /\ w \in Nat /\ c \in {0, Whole}
      /\ \A q \in CreateRequests : written[q] \in Nat /\ committed[q] \in Nat
      /\ createPc[r] \in {"idle"} \cup CreateSteps \cup Answers
  BY WholeIsFive DEF CreateInv, FitsRow
<1>2. CASE CreateTenant(r)
  <2>1. PICK s \in Slugs : createSlug' = [createSlug EXCEPT ![r] = s]
    BY <1>2 DEF CreateTenant
  <2>2. /\ createPc' = [createPc EXCEPT ![r] = "findBySlug"] /\ createPc[r] = "idle"
        /\ UNCHANGED <<written, committed, broken>> /\ w = 0 /\ c = 0 /\ r \notin broken
    BY <1>1, <1>2 DEF CreateTenant, CreateGoto, FitsRow, Answers
  <2>3. written' = [written EXCEPT ![r] = 0] /\ committed' = [committed EXCEPT ![r] = 0]
    BY <2>2 DEF CreateInv
  <2>4. FitsRow(0, 0, r \in broken', "findBySlug", s)
    BY <2>2, WholeIsFive, TenancyAssumption DEF FitsRow, CreateSteps
  <2>5. /\ broken' \subseteq CreateRequests
        /\ \A q \in CreateRequests : q \in broken' <=> q \in broken
        /\ ~(0 > 0) /\ ~(committed[r] > 0)
    BY <1>1, <2>2
  <2>6. QED
    BY <2>1, <2>2, <2>3, <2>4, <2>5, RequestKeeps
<1>3. CASE InsertTenant(r)
  <2>1. CASE WriteRow(r, "insertRole") /\ ~SlugTaken(r) /\ ~SlugLocked(r)
    <3>1. /\ written' = [written EXCEPT ![r] = 1] /\ committed' = [committed EXCEPT ![r] = 0]
          /\ createPc' = [createPc EXCEPT ![r] = "insertRole"]
          /\ UNCHANGED <<broken, createSlug>> /\ w = 0 /\ c = 0
      BY <1>1, <1>3, <2>1 DEF InsertTenant, At, WriteRow, CreateGoto, FitsRow, CreateInv
    <3>2. FitsRow(1, 0, r \in broken, "insertRole", createSlug[r])
      BY <1>1, <1>3, WholeIsFive
      DEF InsertTenant, At, FitsRow, CreateSteps, InTransaction, Answers
    <3>3. \A q \in Rivals(r) : ~Claims(q)
      BY <2>1 DEF SlugTaken, SlugLocked, Claims
    <3>4. QED
      BY <3>1, <3>2, <3>3, RowsKeep
  <2>2. CASE CreateGoto(r, "rollback") /\ UNCHANGED <<written, committed, broken, createSlug>>
    <3>1. FitsRow(written[r], committed[r], r \in broken, "rollback", createSlug[r])
      BY <1>1, <1>3 DEF InsertTenant, At, FitsRow, CreateSteps, InTransaction, Answers
    <3>2. QED
      BY <1>1, <2>2, <3>1, ControlKeeps
  <2>3. QED
    BY <1>3, <2>1, <2>2 DEF InsertTenant
<1>4. CASE InsertRole(r)
  <2> DEFINE next == IF w + 1 < Whole - 1 THEN "insertRole" ELSE "insertMember"
             v == w + 1
  <2>1. /\ written' = [written EXCEPT ![r] = v] /\ committed' = [committed EXCEPT ![r] = c]
        /\ createPc' = [createPc EXCEPT ![r] = next]
        /\ UNCHANGED <<broken, createSlug>> /\ createPc[r] = "insertRole" /\ Claims(r)
    BY <1>1, <1>4 DEF InsertRole, At, WriteRow, CreateGoto, FitsRow, CreateInv, Claims
  <2>2. FitsRow(v, c, r \in broken, next, createSlug[r]) /\ next # "conflict"
    BY <1>1, <2>1, WholeIsFive DEF FitsRow, CreateSteps, InTransaction, Answers
  <2> HIDE DEF next, v
  <2>3. QED
    BY <2>1, <2>2, RowsKeep
<1>5. CASE InsertMember(r)
  <2> DEFINE v == w + 1
  <2>1. /\ written' = [written EXCEPT ![r] = v] /\ committed' = [committed EXCEPT ![r] = c]
        /\ createPc' = [createPc EXCEPT ![r] = "commit"]
        /\ UNCHANGED <<broken, createSlug>> /\ createPc[r] = "insertMember" /\ Claims(r)
    BY <1>1, <1>5, WholeIsFive
    DEF InsertMember, At, WriteRow, CreateGoto, FitsRow, CreateInv, Claims
  <2>2. FitsRow(v, c, r \in broken, "commit", createSlug[r])
    BY <1>1, <2>1, WholeIsFive DEF FitsRow, CreateSteps, InTransaction, Answers
  <2> HIDE DEF v
  <2>3. QED
    BY <2>1, <2>2, RowsKeep
<1>6. CASE Commit(r)
  <2>1. createPc[r] = "commit" /\ w = Whole /\ c = 0 /\ Claims(r)
    BY <1>1, <1>6, WholeIsFive DEF Commit, At, FitsRow, Claims
  <2>2. /\ written' = [written EXCEPT ![r] = 0] /\ committed' = [committed EXCEPT ![r] = Whole]
        /\ createPc' = [createPc EXCEPT ![r] = "created"]
        /\ UNCHANGED <<broken, createSlug>>
    BY <1>6, <2>1 DEF Commit, CommitRows, CreateReply, CreateGoto
  <2>3. FitsRow(0, Whole, r \in broken, "created", createSlug[r])
    BY <1>1, <2>1, WholeIsFive DEF FitsRow, CreateSteps, InTransaction, Answers
  <2>4. ~(committed[r] > 0)
    BY <2>1
  <2>5. QED
    BY <2>1, <2>2, <2>3, <2>4, RowsKeep
<1>7. CASE Rollback(r)
  <2> DEFINE v == IF r \in broken THEN w ELSE 0
  <2>1. /\ written' = [written EXCEPT ![r] = v] /\ committed' = [committed EXCEPT ![r] = c]
        /\ createPc' = [createPc EXCEPT ![r] = "failed"]
        /\ UNCHANGED <<broken, createSlug>> /\ createPc[r] = "rollback"
    BY <1>1, <1>7 DEF Rollback, At, CreateReply, CreateGoto, CreateInv
  <2>2. /\ FitsRow(v, c, r \in broken, "failed", createSlug[r])
        /\ v > 0 \/ c > 0 => Claims(r)
    BY <1>1, <2>1, WholeIsFive DEF FitsRow, CreateSteps, InTransaction, Answers, Claims
  <2> HIDE DEF v
  <2>3. QED
    BY <2>1, <2>2, RowsKeep
<1>8. CASE ServerEnds(r)
  <2> DEFINE pc == createPc[r]
  <2>1. /\ createPc' = [createPc EXCEPT ![r] = pc] /\ UNCHANGED <<broken, createSlug>>
        /\ r \in broken /\ w > 0 /\ pc \in {"rollback", "failed"} /\ Claims(r) /\ c = 0
    BY <1>1, <1>8, WholeIsFive DEF ServerEnds, FitsRow, Claims, CreateInv
  <2>2. \E d \in {0, Whole} : /\ written' = [written EXCEPT ![r] = 0]
                              /\ committed' = [committed EXCEPT ![r] = d]
    BY <1>1, <1>8, <2>1 DEF ServerEnds, CommitRows, CreateInv
  <2>3. \A d \in {0, Whole} : FitsRow(0, d, r \in broken, pc, createSlug[r])
    BY <1>1, <2>1, WholeIsFive DEF FitsRow, CreateSteps, InTransaction, Answers
  <2>4. PICK d \in {0, Whole} : /\ written' = [written EXCEPT ![r] = 0]
                                /\ committed' = [committed EXCEPT ![r] = d]
    BY <2>2
  <2>5. FitsRow(0, d, r \in broken, pc, createSlug[r]) /\ ~(committed[r] > 0) /\ pc # "conflict"
    BY <2>1, <2>3
  <2> HIDE DEF pc
  <2>6. QED
    BY <2>1, <2>4, <2>5, RowsKeep
<1>9. QED
  BY <1>2, <1>3, <1>4, <1>5, <1>6, <1>7, <1>8

LEMMA DeathKeepsRows ==
  ASSUME CreateInv, ProcessDies
  PROVE  CreateInv'
<1> DEFINE inFlight == {r \in CreateRequests : createPc[r] \in CreateSteps}
<1>1. /\ createPc' = [r \in CreateRequests |-> IF r \in inFlight THEN "failed" ELSE createPc[r]]
      /\ broken' = broken \cup {r \in inFlight : written[r] > 0}
      /\ UNCHANGED <<written, committed, createSlug>>
  BY DEF ProcessDies
<1>2. ASSUME NEW r \in CreateRequests
      PROVE  FitsRow(written[r], committed[r], r \in broken', createPc'[r], createSlug[r])
  <2>1. FitsRow(written[r], committed[r], r \in broken, createPc[r], createSlug[r])
    BY DEF CreateInv
  <2>2. CASE r \in inFlight
    <3>1. createPc'[r] = "failed"
      BY <1>1, <2>2
    <3>2. written[r] \in Nat /\ (written[r] > 0 => r \in broken')
      BY <1>1, <2>1, <2>2, WholeIsFive DEF FitsRow
    <3>3. createPc[r] # "idle"
      BY <2>2 DEF CreateSteps, InTransaction
    <3>4. QED
      BY <2>1, <3>1, <3>2, <3>3 DEF FitsRow, CreateSteps, InTransaction, Answers
  <2>3. CASE r \notin inFlight
    <3>1. createPc'[r] = createPc[r] /\ (r \in broken' <=> r \in broken)
      BY <1>1, <2>3
    <3>2. QED
      BY <2>1, <3>1 DEF FitsRow
  <2>4. QED
    BY <2>2, <2>3
<1>3. broken' \subseteq CreateRequests
  BY <1>1 DEF CreateInv
<1>4. createPc' \in [CreateRequests -> {"idle"} \cup CreateSteps \cup Answers]
  BY <1>1 DEF CreateInv, Answers
<1>5. OneClaim'
  BY <1>1 DEF CreateInv, OneClaim, Claims
<1>6. ConflictHasACause'
  BY <1>1 DEF CreateInv, ConflictHasACause, Rivals
<1>7. QED
  BY <1>1, <1>2, <1>3, <1>4, <1>5, <1>6 DEF CreateInv

----------------------------------------------------------------------------
(* Requests and pool together.                                             *)
InFlight == {r \in CreateRequests : createPc[r] \in CreateSteps}
TenancyInv == CreateInv /\ PoolInv /\ Placed = InFlight

LEMMA GotoInFlight ==
  ASSUME CreateInv, NEW r \in CreateRequests, NEW pc, CreateGoto(r, pc)
  PROVE  /\ pc \in CreateSteps => InFlight' = InFlight \cup {r}
         /\ pc \notin CreateSteps => InFlight' = InFlight \ {r}
<1>1. \A q \in CreateRequests : createPc'[q] = IF q = r THEN pc ELSE createPc[q]
  BY DEF CreateInv, CreateGoto
<1>2. QED
  BY <1>1 DEF InFlight

LEMMA InitTenancy == TenancyInit => TenancyInv
<1> SUFFICES ASSUME TenancyInit PROVE TenancyInv
  OBVIOUS
<1>1. /\ \A r \in CreateRequests : /\ written[r] = 0 /\ committed[r] = 0
                                   /\ createPc[r] = "idle" /\ createSlug[r] = Nil
      /\ broken = {} /\ holders = {} /\ waiting = <<>>
  BY DEF TenancyInit, PoolInit
<1>2. CreateInv
  <2>1. FitsRow(0, 0, FALSE, "idle", Nil)
    BY WholeIsFive DEF FitsRow, CreateSteps, InTransaction, Answers
  <2>2. \A r \in CreateRequests :
           FitsRow(written[r], committed[r], r \in broken, createPc[r], createSlug[r])
    BY <1>1, <2>1 DEF FitsRow
  <2>3. /\ written \in [CreateRequests -> 0..Whole]
        /\ committed \in [CreateRequests -> 0..Whole]
        /\ createPc \in [CreateRequests -> {"idle"} \cup CreateSteps \cup Answers]
        /\ createSlug \in [CreateRequests -> Slugs \cup {Nil}]
    BY WholeIsFive DEF TenancyInit
  <2>4. OneClaim /\ ConflictHasACause
    BY <1>1 DEF OneClaim, Claims, ConflictHasACause
  <2>5. QED
    BY <1>1, <2>2, <2>3, <2>4 DEF CreateInv
<1>3. PoolInv /\ Placed = {}
  <2>1. Line = {} /\ waiting \in Seq(CreateRequests) /\ Len(waiting) = 0
    BY <1>1, EmptySeq DEF Line
  <2>2. Cardinality(holders) = 0
    BY <1>1, FS_EmptySet
  <2>3. QED
    BY <1>1, <2>1, <2>2, PoolAssumption DEF PoolInv, Placed
<1>4. InFlight = {}
  BY <1>1 DEF InFlight, CreateSteps, InTransaction
<1>5. QED
  BY <1>2, <1>3, <1>4 DEF TenancyInv

LEMMA TenancyStep ==
  ASSUME TenancyInv, [TenancyNext \/ TenancyDone]_tenancyVars
  PROVE  TenancyInv'
<1>0. CreateInv /\ PoolInv /\ Placed = InFlight
  BY DEF TenancyInv
<1>1. ASSUME NEW r \in CreateRequests, NEW pc \in CreateSteps, CreateGoto(r, pc),
             r \in InFlight, UNCHANGED poolVars
      PROVE  PoolInv' /\ Placed' = InFlight'
  <2>1. InFlight' = InFlight
    BY <1>0, <1>1, GotoInFlight
  <2>2. PoolInv' /\ Placed' = Placed
    BY <1>0, <1>1 DEF PoolInv, Placed, Line, poolVars
  <2>3. QED
    BY <1>0, <2>1, <2>2
<1>2. ASSUME NEW r \in CreateRequests, NEW answer \in Answers, CreateReply(r, answer),
             r \in holders
      PROVE  PoolInv' /\ Placed' = InFlight'
  <2>1. answer \notin CreateSteps
    BY DEF Answers, CreateSteps, InTransaction
  <2>2. InFlight' = InFlight \ {r}
    BY <1>0, <1>2, <2>1, GotoInFlight DEF CreateReply
  <2>3. QED
    BY <1>0, <1>2, <2>2, ReleaseFrees DEF CreateReply
<1>3. ASSUME NEW r \in CreateRequests, CreateTenant(r) PROVE TenancyInv'
  <2>1. CreateGoto(r, "findBySlug") /\ Demand(r) /\ r \notin InFlight
    BY <1>3 DEF CreateTenant, InFlight, CreateSteps, InTransaction
  <2>2. InFlight' = InFlight \cup {r}
    BY <1>0, <2>1, GotoInFlight DEF CreateSteps
  <2>3. PoolInv' /\ Placed' = Placed \cup {r}
    BY <1>0, <2>1, DemandPlaces
  <2>4. CreateInv'
    BY <1>0, <1>3, WritingSteps
  <2>5. QED
    BY <1>0, <2>2, <2>3, <2>4 DEF TenancyInv
<1>4. ASSUME NEW r \in CreateRequests, FindBySlug(r) PROVE TenancyInv'
  <2>1. CreateInv' /\ r \in holders /\ r \in InFlight
    BY <1>0, <1>4, ReadingSteps DEF FindBySlug, At, InFlight, CreateSteps
  <2>2. CASE CreateReply(r, "conflict")
    BY <1>2, <2>1, <2>2 DEF Answers, TenancyInv
  <2>3. CASE CreateGoto(r, "begin") /\ ReleaseAndDemand(r)
    <3>1. InFlight' = InFlight
      BY <1>0, <2>1, <2>3, GotoInFlight DEF CreateSteps, InTransaction
    <3>2. PoolInv' /\ Placed' = Placed
      BY <1>0, <2>1, <2>3, NextTurn
    <3>3. QED
      BY <1>0, <2>1, <3>1, <3>2 DEF TenancyInv
  <2>4. QED
    BY <1>4, <2>2, <2>3 DEF FindBySlug
<1>5. ASSUME NEW r \in CreateRequests,
             \/ Begin(r) \/ InsertTenant(r) \/ InsertRole(r) \/ InsertMember(r)
             \/ StatementFails(r) \/ ConnectionLost(r)
      PROVE  TenancyInv'
  <2>1. CreateInv' /\ r \in InFlight /\ UNCHANGED poolVars
    BY <1>0, <1>5, ReadingSteps, WritingSteps
    DEF Begin, InsertTenant, InsertRole, InsertMember, StatementFails, ConnectionLost, WriteRow,
        At, InFlight, CreateSteps, InTransaction
  <2>2. \E pc \in {"insertTenant", "insertRole", "insertMember", "commit", "rollback"} :
           CreateGoto(r, pc)
    BY <1>5
    DEF Begin, InsertTenant, InsertRole, InsertMember, StatementFails, ConnectionLost, WriteRow
  <2>3. QED
    BY <1>1, <2>1, <2>2 DEF CreateSteps, InTransaction, TenancyInv
<1>6. ASSUME NEW r \in CreateRequests, Commit(r) \/ Rollback(r) PROVE TenancyInv'
  <2>1. /\ CreateInv' /\ r \in holders
        /\ CreateReply(r, "created") \/ CreateReply(r, "failed")
    BY <1>0, <1>6, WritingSteps DEF Commit, Rollback, At
  <2>2. QED
    BY <1>2, <2>1 DEF Answers, TenancyInv
<1>7. ASSUME NEW r \in CreateRequests, ConnectFails(r) PROVE TenancyInv'
  <2>1. CreateInv' /\ CreateGoto(r, "failed") /\ GiveUp(r) /\ r \in InFlight
    BY <1>0, <1>7, ReadingSteps DEF ConnectFails, InFlight, CreateSteps, InTransaction
  <2>2. InFlight' = InFlight \ {r}
    BY <1>0, <2>1, GotoInFlight DEF CreateSteps, InTransaction
  <2>3. PoolInv' /\ Placed' = Placed \ {r}
    BY <1>0, <2>1, GiveUpFrees
  <2>4. QED
    BY <1>0, <2>1, <2>2, <2>3 DEF TenancyInv
<1>8. ASSUME NEW r \in CreateRequests, ServerEnds(r) PROVE TenancyInv'
  <2>1. CreateInv' /\ UNCHANGED <<createPc, poolVars>>
    BY <1>0, <1>8, WritingSteps DEF ServerEnds
  <2>2. QED
    BY <1>0, <2>1 DEF TenancyInv, PoolInv, Placed, Line, poolVars, InFlight
<1>9. ASSUME ProcessDies PROVE TenancyInv'
  <2>1. CreateInv' /\ holders' = {} /\ waiting' = <<>>
    BY <1>0, <1>9, DeathKeepsRows DEF ProcessDies
  <2>2. InFlight' = {}
    BY <1>9 DEF ProcessDies, InFlight, CreateSteps, InTransaction
  <2>3. PoolInv' /\ Placed' = {}
    <3>1. Line' = {} /\ waiting' \in Seq(CreateRequests) /\ Len(waiting') = 0
      BY <2>1, EmptySeq DEF Line
    <3>2. Cardinality(holders') = 0
      BY <2>1, FS_EmptySet
    <3>3. QED
      BY <2>1, <3>1, <3>2, PoolAssumption DEF PoolInv, Placed
  <2>4. QED
    BY <2>1, <2>2, <2>3 DEF TenancyInv
<1>10. ASSUME UNCHANGED tenancyVars PROVE TenancyInv'
  <2>1. CreateInv'
    BY <1>0, <1>10
    DEF CreateInv, OneClaim, Claims, ConflictHasACause, Rivals, tenancyVars, createVars
  <2>2. QED
    BY <1>0, <1>10, <2>1
    DEF TenancyInv, PoolInv, Placed, Line, InFlight, tenancyVars, createVars, poolVars
<1>11. QED
  BY <1>3, <1>4, <1>5, <1>6, <1>7, <1>8, <1>9, <1>10 DEF TenancyNext, CreateWork, TenancyDone

LEMMA TenancyInvariant == TenancySafety => []TenancyInv
<1>1. TenancyInit => TenancyInv
  BY InitTenancy
<1>2. TenancyInv /\ [TenancyNext \/ TenancyDone]_tenancyVars => TenancyInv'
  BY TenancyStep
<1>3. QED
  BY <1>1, <1>2, PTL DEF TenancySafety

----------------------------------------------------------------------------
(* Only a transaction that is open, or whose end the server has not        *)
(* noticed, has uncommitted rows.                                          *)
THEOREM TenancyTyped == TenancySafety => []TenancyTypeOK
<1>1. TenancyInv => TenancyTypeOK
  BY DEF TenancyInv, CreateInv, PoolInv, TenancyTypeOK, FitsRow, InTransaction
<1>2. QED
  BY <1>1, TenancyInvariant, PTL

(* createTenant answers 201 only when the whole tenant is committed, and   *)
(* 409 only when a whole tenant has the slug.                              *)
THEOREM TenantAnswersTrue == TenancySafety => []AnswersAreTrue
<1>1. TenancyInv => AnswersAreTrue
  BY DEF TenancyInv, CreateInv, AnswersAreTrue, FitsRow, ConflictHasACause
<1>2. QED
  BY <1>1, TenancyInvariant, PTL

(* executeTransaction and executeQuery give every connection back, once,   *)
(* on whatever path a request ends.                                        *)
THEOREM ConnectionsConserved == TenancySafety => []PoolConserved
<1>1. ASSUME TenancyInv PROVE PoolConserved
  <2>1. waiting \in Seq(CreateRequests) /\ Len(waiting) \in Nat /\ DOMAIN waiting = 1..Len(waiting)
        /\ \A k \in 1..Len(waiting) : waiting[k] \in CreateRequests
    BY <1>1, LenProperties, ElementOfSeq DEF TenancyInv, PoolInv
  <2>2. Cardinality(Line) = Len(waiting)
    <3> DEFINE f == [k \in 1..Len(waiting) |-> waiting[k]]
    <3>1. f \in Bijection(1..Len(waiting), Line)
      <4>1. f \in [1..Len(waiting) -> Line]
        BY <2>1 DEF Line
      <4>2. \A a, b \in 1..Len(waiting) : f[a] = f[b] => a = b
        BY <1>1 DEF TenancyInv, PoolInv
      <4>3. \A x \in Line : \E a \in 1..Len(waiting) : f[a] = x
        BY <2>1 DEF Line
      <4> HIDE DEF f
      <4>4. QED
        BY <4>1, <4>2, <4>3 DEF Bijection, Injection, Surjection, IsInjective
    <3>2. QED
      BY <2>1, <3>1, FS_CountingElements DEF ExistsBijection
  <2>3. QED
    BY <1>1, <2>2 DEF TenancyInv, PoolInv, PoolConserved, Placed, InFlight, Line
<1>2. TenancyInv => PoolConserved
  BY <1>1
<1>3. QED
  BY <1>2, TenancyInvariant, PTL

(* Who waits for a connection has nothing else: it has not begun its       *)
(* transaction.                                                            *)
OnlyBeginnersWait ==
    \A r \in CreateRequests :
        createPc[r] \in CreateSteps \ {"findBySlug", "begin"} => r \in holders

LEMMA OthersKeepConnections ==
  ASSUME NEW r \in CreateRequests,
         Demand(r) \/ Release(r) \/ ReleaseAndDemand(r) \/ GiveUp(r)
  PROVE  holders \ {r} \subseteq holders'
BY DEF Demand, Release, ReleaseAndDemand, GiveUp, poolVars

LEMMA BeginnersStep ==
  ASSUME TenancyInv, OnlyBeginnersWait, [TenancyNext \/ TenancyDone]_tenancyVars
  PROVE  OnlyBeginnersWait'
<1>0. createPc \in [CreateRequests -> {"idle"} \cup CreateSteps \cup Answers]
  BY DEF TenancyInv, CreateInv
<1>1. ASSUME NEW r \in CreateRequests, NEW pc, CreateGoto(r, pc),
             Demand(r) \/ Release(r) \/ ReleaseAndDemand(r) \/ GiveUp(r),
             pc \notin CreateSteps \ {"findBySlug", "begin"}
      PROVE  OnlyBeginnersWait'
  BY <1>0, <1>1, OthersKeepConnections DEF OnlyBeginnersWait, CreateGoto
<1>2. ASSUME NEW r \in CreateRequests, NEW pc, CreateGoto(r, pc), r \in holders, UNCHANGED holders
      PROVE  OnlyBeginnersWait'
  BY <1>0, <1>2 DEF OnlyBeginnersWait, CreateGoto
<1>3. ASSUME NEW r \in CreateRequests, CreateTenant(r) PROVE OnlyBeginnersWait'
  BY <1>3, <1>1 DEF CreateTenant
<1>4. ASSUME NEW r \in CreateRequests, FindBySlug(r) PROVE OnlyBeginnersWait'
  BY <1>4, <1>1 DEF FindBySlug, CreateReply, CreateSteps, InTransaction
<1>5. ASSUME NEW r \in CreateRequests,
             \/ Begin(r) \/ InsertTenant(r) \/ InsertRole(r) \/ InsertMember(r)
             \/ StatementFails(r) \/ ConnectionLost(r)
      PROVE  OnlyBeginnersWait'
  <2>1. r \in holders /\ UNCHANGED holders /\ \E pc : CreateGoto(r, pc)
    BY <1>5
    DEF Begin, InsertTenant, InsertRole, InsertMember, StatementFails, ConnectionLost, WriteRow,
        At, poolVars
  <2>2. QED
    BY <1>2, <2>1
<1>6. ASSUME NEW r \in CreateRequests, Commit(r) \/ Rollback(r) PROVE OnlyBeginnersWait'
  BY <1>6, <1>1 DEF Commit, Rollback, CreateReply, CreateSteps, InTransaction
<1>7. ASSUME NEW r \in CreateRequests, ConnectFails(r) PROVE OnlyBeginnersWait'
  BY <1>7, <1>1 DEF ConnectFails, CreateSteps, InTransaction
<1>8. CASE UNCHANGED <<createPc, holders>>
  BY <1>8 DEF OnlyBeginnersWait
<1>9. ASSUME ProcessDies PROVE OnlyBeginnersWait'
  BY <1>9 DEF ProcessDies, OnlyBeginnersWait, CreateSteps, InTransaction
<1>10. QED
  BY <1>3, <1>4, <1>5, <1>6, <1>7, <1>8, <1>9
     DEF TenancyNext, CreateWork, TenancyDone, ServerEnds, tenancyVars, createVars, poolVars

(* Requests that wait for a slug and requests that wait for a connection   *)
(* never wait for each other: insertTenant is the first row that           *)
(* executeTransaction writes, on a connection it already has.              *)
THEOREM NoCircleOfWaiting == TenancySafety => []NobodyIsStuck
<1>1. ASSUME TenancyInv, OnlyBeginnersWait, NEW q \in CreateRequests, written[q] > 0
      PROVE  CanMove(q)
  <2>1. CASE q \in broken
    BY <1>1, <2>1 DEF CanMove
  <2>2. CASE q \notin broken
    <3>1. createPc[q] \in {"insertRole", "insertMember", "commit", "rollback"}
      BY <1>1, <2>2 DEF TenancyInv, CreateInv, FitsRow
    <3>2. q \in holders
      BY <1>1, <3>1 DEF OnlyBeginnersWait, CreateSteps, InTransaction
    <3>3. QED
      BY <3>1, <3>2 DEF CanMove, CreateSteps, InTransaction
  <2>3. QED
    BY <2>1, <2>2
<1>2. ASSUME TenancyInv, OnlyBeginnersWait, waiting # <<>>
      PROVE  \E r \in CreateRequests : CanMove(r)
  <2>1. PICK r \in CreateRequests : r \in holders
    BY <1>2, PoolAssumption, FS_EmptySet DEF TenancyInv, PoolInv
  <2>2. CASE createPc[r] = "insertTenant" /\ SlugLocked(r)
    BY <1>1, <1>2, <2>2 DEF SlugLocked, Rivals
  <2>3. CASE ~(createPc[r] = "insertTenant" /\ SlugLocked(r))
    BY <1>2, <2>1, <2>3 DEF CanMove, TenancyInv, Placed, InFlight
  <2>4. QED
    BY <2>2, <2>3
<1>3. TenancyInv /\ OnlyBeginnersWait => NobodyIsStuck
  BY <1>1, <1>2 DEF NobodyIsStuck, Rivals
<1>4. TenancyInit => OnlyBeginnersWait
  BY DEF TenancyInit, OnlyBeginnersWait, CreateSteps, InTransaction
<1>5. /\ TenancyInv /\ OnlyBeginnersWait /\ [TenancyNext \/ TenancyDone]_tenancyVars
      => OnlyBeginnersWait'
  BY BeginnersStep
<1>6. QED
  BY <1>3, <1>4, <1>5, TenancyInvariant, PTL DEF TenancySafety

(* What others see of createTenant's transactions is the registry: only    *)
(* COMMIT shows rows, and the UNIQUE index on the slug, which sees         *)
(* uncommitted rows too, lets no second tenant of a slug get that far.     *)
RegistryView == <<committed, [r \in CreateRequests |-> IF committed[r] > 0 THEN createSlug[r] ELSE Nil]>>

LEMMA CommitFounds ==
  ASSUME CreateInv, NEW r \in CreateRequests, written[r] = Whole, CommitRows(r),
         UNCHANGED createSlug, createPc[r] # "idle"
  PROVE  Registry!Next
<1> DEFINE slugOf == [q \in CreateRequests |-> IF committed[q] > 0 THEN createSlug[q] ELSE Nil]
           s == createSlug[r]
<1>1. /\ committed[r] = 0 /\ s \in Slugs /\ Claims(r)
      /\ \A q \in CreateRequests : committed[q] \in Nat
  BY WholeIsFive DEF CreateInv, FitsRow, Claims
<1>2. committed' = [committed EXCEPT ![r] = Whole]
  BY DEF CommitRows
<1>3. \A q \in CreateRequests : slugOf[q] # s
  BY <1>1, TenancyAssumption DEF CreateInv, OneClaim, Claims
<1>4. slugOf' = [slugOf EXCEPT ![r] = s]
  <2>1. \A q \in CreateRequests : committed'[q] = IF q = r THEN Whole ELSE committed[q]
    BY <1>2 DEF CreateInv
  <2>2. \A q \in CreateRequests :
           (IF committed'[q] > 0 THEN createSlug'[q] ELSE Nil) = IF q = r THEN s ELSE slugOf[q]
    BY <2>1, WholeIsFive
  <2>3. QED
    BY <2>2
<1> HIDE DEF slugOf, s
<1>5. QED
  BY <1>1, <1>2, <1>3, <1>4 DEF Registry!Next, Registry!Found, slugOf

THEOREM RegistryImplemented == TenancySafety => ImplementsRegistry
<1>1. TenancyInit => Registry!Init
  <2>1. SUFFICES ASSUME TenancyInit
                 PROVE  Registry!Init
    OBVIOUS
  <2>2. \A r \in CreateRequests : committed[r] = 0
    BY <2>1 DEF TenancyInit
  <2>3. [r \in CreateRequests |-> IF committed[r] > 0 THEN createSlug[r] ELSE Nil]
           = [r \in CreateRequests |-> Nil]
    BY <2>2
  <2>4. QED
    BY <2>1, <2>3 DEF TenancyInit, Registry!Init
<1>2. ASSUME TenancyInv, [TenancyNext \/ TenancyDone]_tenancyVars
      PROVE  Registry!Next \/ UNCHANGED RegistryView
  <2>0. CreateInv
    BY <1>2 DEF TenancyInv
  <2>1. ASSUME UNCHANGED <<committed, createSlug>> PROVE UNCHANGED RegistryView
    BY <2>1 DEF RegistryView
  <2>2. ASSUME NEW r \in CreateRequests, CreateTenant(r) PROVE UNCHANGED RegistryView
    <3>1. PICK s \in Slugs : createSlug' = [createSlug EXCEPT ![r] = s]
      BY <2>2 DEF CreateTenant
    <3>2. committed[r] = 0 /\ committed' = committed
      BY <2>0, <2>2 DEF CreateTenant, CreateInv, FitsRow
    <3>3. \A q \in CreateRequests : q # r => createSlug'[q] = createSlug[q]
      BY <2>0, <3>1 DEF CreateInv
    <3>4. \A q \in CreateRequests : (IF committed'[q] > 0 THEN createSlug'[q] ELSE Nil)
                                     = IF committed[q] > 0 THEN createSlug[q] ELSE Nil
      BY <3>2, <3>3
    <3>5. QED
      BY <3>2, <3>4 DEF RegistryView
  <2>3. ASSUME NEW r \in CreateRequests, Commit(r) PROVE Registry!Next
    <3>1. /\ createPc[r] = "commit" /\ createPc[r] # "idle" /\ CommitRows(r)
          /\ UNCHANGED createSlug
      BY <2>3 DEF Commit, At
    <3>2. written[r] = Whole
      BY <2>0, <3>1 DEF CreateInv, FitsRow
    <3>3. QED
      BY <2>0, <3>1, <3>2, CommitFounds
  <2>4. ASSUME NEW r \in CreateRequests, ServerEnds(r)
        PROVE  Registry!Next \/ UNCHANGED RegistryView
    <3>1. UNCHANGED createSlug /\ createPc[r] # "idle"
      BY <2>0, <2>4 DEF ServerEnds, CreateInv, FitsRow
    <3>2. CASE UNCHANGED committed
      BY <2>1, <3>1, <3>2
    <3>3. CASE written[r] = Whole /\ CommitRows(r)
      BY <2>0, <3>1, <3>3, CommitFounds
    <3>4. QED
      BY <2>4, <3>2, <3>3 DEF ServerEnds
  <2>5. ASSUME NEW r \in CreateRequests,
               \/ FindBySlug(r) \/ Begin(r) \/ InsertTenant(r) \/ InsertRole(r)
               \/ InsertMember(r) \/ Rollback(r) \/ ConnectFails(r) \/ StatementFails(r)
               \/ ConnectionLost(r)
        PROVE  UNCHANGED <<committed, createSlug>>
    BY <2>5 DEF FindBySlug, Begin, InsertTenant, InsertRole, InsertMember, Rollback, ConnectFails,
                StatementFails, ConnectionLost, WriteRow
  <2>6. ASSUME ProcessDies \/ UNCHANGED tenancyVars PROVE UNCHANGED <<committed, createSlug>>
    BY <2>6 DEF ProcessDies, tenancyVars, createVars
  <2>7. QED
    BY <1>2, <2>1, <2>2, <2>3, <2>4, <2>5, <2>6 DEF TenancyNext, CreateWork, TenancyDone
<1>3. TenancyInv /\ [TenancyNext \/ TenancyDone]_tenancyVars => [Registry!Next]_RegistryView
  BY <1>2
<1>4. [Registry!Next]_RegistryView <=>
         [Registry!Next]_<<committed, [r \in CreateRequests |-> IF committed[r] > 0 THEN createSlug[r] ELSE Nil]>>
  BY DEF RegistryView
<1>5. QED
  BY <1>1, <1>3, <1>4, TenancyInvariant, PTL DEF TenancySafety, ImplementsRegistry, Registry!Spec

=============================================================================
