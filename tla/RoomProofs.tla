----------------------------- MODULE RoomProofs -----------------------------
(***************************************************************************)
(* Proofs about RoomControl.tla, for any size of the buffer, any age limits,  *)
(* readings and schedules.                                                    *)
(*                                                                         *)
(* isTemperatureValid looks at the newest sample and the mean at all of them;  *)
(* that the two agree on whether a room has a temperature rests on the order   *)
(* of age in the buffer, which TypeOK holds.                                   *)
(*                                                                         *)
(* The verdict compares a truncated quotient; it is that of the exact mean     *)
(* where the sum of the samples is not negative and fits the long division by  *)
(* halves.  The sum is bounded by induction over subsets of the samples, each  *)
(* of which is a library fold; the setting in force is found by induction over *)
(* the settings.                                                               *)
(***************************************************************************)
EXTENDS RoomControl, FiniteSetTheorems, WellFoundedInduction, TLAPS

Sample == [temp : Int16, age : 0 .. ValidFor + 1]

InOrder(s) == \A i, j \in DOMAIN s : i < j => s[i].age >= s[j].age

LEMMA Limits ==
  /\ BufferSize \in Nat /\ BufferSize >= 1
  /\ FreshFor \in Nat /\ ValidFor \in Nat /\ FreshFor <= ValidFor
BY RoomAssumption

\* CircularBuffer::push keeps the capacity and the order.
LEMMA PushInOrder ==
  ASSUME TypeOK, NEW temp \in Int16
  PROVE  LET pushed == Push([temp |-> temp, age |-> 0])
         IN  pushed \in Seq(Sample) /\ Len(pushed) <= BufferSize /\ InOrder(pushed)
<1> DEFINE sample == [temp |-> temp, age |-> 0]
           rest == IF Len(samples) = BufferSize THEN Tail(samples) ELSE samples
           pushed == Append(rest, sample)
<1>1. sample \in Sample /\ sample.age = 0
  BY Limits DEF Sample
<1>2. samples \in Seq(Sample) /\ Len(samples) <= BufferSize /\ InOrder(samples)
  BY DEF TypeOK, Sample, InOrder
<1>3. rest \in Seq(Sample) /\ Len(rest) < BufferSize /\ InOrder(rest)
  <2>1. CASE Len(samples) = BufferSize
    <3>1. samples # <<>>
      BY <2>1, <1>2, Limits
    <3>2. /\ Tail(samples) \in Seq(Sample)
          /\ Len(Tail(samples)) = Len(samples) - 1
          /\ \A i \in 1 .. Len(samples) - 1 : Tail(samples)[i] = samples[i + 1]
      BY <3>1, <1>2
    <3>3. InOrder(Tail(samples))
      BY <3>2, <1>2 DEF InOrder
    <3>4. QED
      BY <2>1, <3>2, <3>3, Limits
  <2>2. CASE Len(samples) # BufferSize
    BY <2>2, <1>2, Limits
  <2>3. QED
    BY <2>1, <2>2
<1> HIDE DEF sample, rest
<1>4. pushed \in Seq(Sample) /\ Len(pushed) = Len(rest) + 1
  BY <1>1, <1>3
<1>5. InOrder(pushed)
  <2> SUFFICES ASSUME NEW i \in DOMAIN pushed, NEW j \in DOMAIN pushed, i < j
               PROVE  pushed[i].age >= pushed[j].age
    BY DEF InOrder
  <2>1. i \in DOMAIN rest /\ pushed[i] = rest[i] /\ rest[i] \in Sample
    BY <1>3, <1>4
  <2>2. CASE j \in DOMAIN rest
    BY <2>1, <2>2, <1>3 DEF InOrder
  <2>3. CASE j = Len(rest) + 1
    BY <2>1, <2>3, <1>1, <1>3 DEF Sample
  <2>4. QED
    BY <2>2, <2>3, <1>3, <1>4
<1>6. QED
  BY <1>3, <1>4, <1>5, Limits DEF Push, rest, sample

-----------------------------------------------------------------------------
(* The type invariant *)

LEMMA InitTypeOK == Init => TypeOK
<1> SUFFICES ASSUME Init PROVE TypeOK
  OBVIOUS
<1>1. shouldStart \in BOOLEAN /\ shouldHeat \in BOOLEAN /\ judged \in BOOLEAN
  BY Zenon DEF Init
<1>2. override \in [temp : Int16, left : Nat]
  BY DEF Init, Int16
<1>3. QED
  BY <1>1, <1>2, Limits DEF Init, TypeOK

LEMMA StoreTypeOK ==
  ASSUME TypeOK, NEW temp \in Int16, StoreTemperature(temp)
  PROVE  TypeOK'
<1>1. /\ samples' = Push([temp |-> temp, age |-> 0])
      /\ UNCHANGED <<override, shouldStart, shouldHeat, judged, status>>
  BY DEF StoreTemperature, stats, returned
<1>2. samples' \in Seq(Sample) /\ Len(samples') <= BufferSize /\ InOrder(samples')
  BY <1>1, PushInOrder
<1>3. QED
  BY <1>1, <1>2 DEF TypeOK, Sample, InOrder

LEMMA OverrideTypeOK ==
  ASSUME TypeOK, NEW temp \in Int16, NEW length \in Nat,
         CreateTemporaryOverride(temp, length)
  PROVE  TypeOK'
BY DEF CreateTemporaryOverride, TypeOK, stats, returned

LEMMA JudgeTypeOK ==
  ASSUME TypeOK, NEW time, NEW day, Judge(time, day)
  PROVE  TypeOK'
<1>1. samples' = samples /\ override' = override /\ judged' = TRUE
  BY DEF Judge
<1>2. /\ shouldStart' \in BOOLEAN /\ shouldHeat' \in BOOLEAN
      /\ status' \in {"NONE", "MISSING", "START", "CONTINUE", "OK"}
  <2>1. CASE MissingTemperature /\ UNCHANGED <<shouldStart, shouldHeat>>
    BY <2>1 DEF MissingTemperature, TypeOK
  <2>2. CASE JudgeMean(time, day)
    <3>1. /\ status' = Verdict(Mean, TemperatureSet(time, day))
          /\ shouldStart' = (Mean < TemperatureSet(time, day) - MarginDown)
          /\ shouldHeat' = (Mean < TemperatureSet(time, day) + MarginUp)
      BY <2>2 DEF JudgeMean
    <3>2. shouldStart' \in BOOLEAN /\ shouldHeat' \in BOOLEAN
      BY <3>1
    <3>3. status' \in {"START", "CONTINUE", "OK"}
      BY <3>1 DEF Verdict
    <3>4. QED
      BY <3>2, <3>3
  <2>3. QED
    BY <2>1, <2>2 DEF Judge, stats
<1>3. judged' \in BOOLEAN
  BY <1>1, Zenon
<1>4. QED
  BY <1>1, <1>2, <1>3 DEF TypeOK

LEMMA TickTypeOK ==
  ASSUME TypeOK, Tick
  PROVE  TypeOK'
<1> DEFINE Older(sample) ==
      [sample EXCEPT !.age = IF @ > ValidFor THEN @ ELSE @ + 1]
<1>1. /\ samples' = [i \in DOMAIN samples |-> Older(samples[i])]
      /\ override' = [override EXCEPT !.left = IF @ > 0 THEN @ - 1 ELSE 0]
      /\ judged' = FALSE
      /\ UNCHANGED <<shouldStart, shouldHeat, status>>
  BY DEF Tick, stats, returned
<1>2. samples \in Seq(Sample) /\ DOMAIN samples = 1 .. Len(samples)
  BY DEF TypeOK, Sample
<1>3. \A sample \in Sample :
        /\ Older(sample) \in Sample
        /\ Older(sample).age = IF sample.age > ValidFor THEN sample.age
                                                        ELSE sample.age + 1
  BY Limits DEF Sample
<1> HIDE DEF Older
<1>4. samples' \in Seq(Sample) /\ Len(samples') = Len(samples)
  BY <1>1, <1>2, <1>3
<1>5. InOrder(samples')
  <2> SUFFICES ASSUME NEW i \in DOMAIN samples, NEW j \in DOMAIN samples, i < j
               PROVE  samples'[i].age >= samples'[j].age
    BY <1>2, <1>4 DEF InOrder
  <2>1. /\ samples[i] \in Sample /\ samples[j] \in Sample
        /\ samples[i].age >= samples[j].age
    BY <1>2 DEF TypeOK
  <2>2. samples'[i] = Older(samples[i]) /\ samples'[j] = Older(samples[j])
    BY <1>1
  <2>3. samples[i].age \in Int /\ samples[j].age \in Int
    BY <2>1, Limits DEF Sample
  <2>4. /\ samples'[i].age = IF samples[i].age > ValidFor THEN samples[i].age
                                                         ELSE samples[i].age + 1
        /\ samples'[j].age = IF samples[j].age > ValidFor THEN samples[j].age
                                                         ELSE samples[j].age + 1
    BY <2>1, <2>2, <1>3
  <2>5. QED
    BY <2>1, <2>3, <2>4, Limits
<1>6. override' \in [temp : Int16, left : Nat]
  <2>1. override \in [temp : Int16, left : Nat]
    BY DEF TypeOK
  <2>2. (IF override.left > 0 THEN override.left - 1 ELSE 0) \in Nat
    BY <2>1
  <2>3. QED
    BY <1>1, <2>1, <2>2
<1>7. judged' \in BOOLEAN
  BY <1>1, Zenon
<1>8. QED
  BY <1>1, <1>4, <1>5, <1>6, <1>7 DEF TypeOK, Sample, InOrder

LEMMA NextTypeOK ==
  ASSUME TypeOK, [Next]_roomVars
  PROVE  TypeOK'
<1>1. CASE \E temp \in Readings : StoreTemperature(temp)
  BY <1>1, StoreTypeOK, RoomAssumption
<1>2. CASE \E temp \in OverrideTemps, length \in OverrideLengths :
             CreateTemporaryOverride(temp, length)
  BY <1>2, OverrideTypeOK, RoomAssumption
<1>3. CASE JudgeNow
  BY <1>3, JudgeTypeOK DEF JudgeNow
<1>4. CASE Tick
  BY <1>4, TickTypeOK
<1>5. CASE UNCHANGED roomVars
  BY <1>5 DEF roomVars, stats, returned, TypeOK
<1>6. QED
  BY <1>1, <1>2, <1>3, <1>4, <1>5 DEF Next

-----------------------------------------------------------------------------
(* The theorems *)

\* The buffer keeps its capacity and its order, the fields their types.
THEOREM RoomTypeCorrect == Spec => []TypeOK
<1>1. Init => TypeOK
  BY InitTypeOK
<1>2. TypeOK /\ [Next]_roomVars => TypeOK'
  BY NextTypeOK
<1>3. QED
  BY <1>1, <1>2, PTL DEF Spec

\* Of a buffer in order, when its newest sample is too old all are.
LEMMA StaleWithNewest ==
  ASSUME TypeOK, ~TemperatureValid
  PROVE  Recent = {}
<1> SUFFICES ASSUME NEW i \in Recent PROVE FALSE
  OBVIOUS
<1>1. i \in DOMAIN samples /\ samples[i].age <= FreshFor
  BY DEF Recent
<1>2. samples \in Seq(Sample) /\ DOMAIN samples = 1 .. Len(samples)
  BY DEF TypeOK, Sample
<1>3. /\ samples # <<>> /\ Len(samples) \in DOMAIN samples
      /\ samples[i] \in Sample /\ samples[Len(samples)] \in Sample
  BY <1>1, <1>2
<1>4. samples[Len(samples)].age > ValidFor
  BY <1>3, Limits DEF TemperatureValid, Last, Sample
<1>5. samples[i].age >= samples[Len(samples)].age
  <2>1. i \in 1 .. Len(samples) /\ Len(samples) \in Nat
    BY <1>1, <1>2
  <2>2. i = Len(samples) \/ i < Len(samples)
    BY <2>1
  <2>3. samples[Len(samples)].age \in Int
    BY <1>3, Limits DEF Sample
  <2>4. QED
    BY <1>1, <1>3, <2>2, <2>3 DEF TypeOK
<1>6. QED
  BY <1>1, <1>3, <1>4, <1>5, Limits DEF Sample

\* Room::shouldStartBoilerAndHeat: for any age limits and readings, a room is
\* reported missing exactly when it has no recent sample.
THEOREM MissingMeansStale == Spec => MissingExactlyWhenStale
<1>1. TypeOK /\ [Next]_roomVars
      => [JudgeNow => (status' = "MISSING" <=> Recent = {})]_roomVars
  <2> SUFFICES ASSUME TypeOK, JudgeNow
               PROVE  status' = "MISSING" <=> Recent = {}
    OBVIOUS
  <2>1. PICK time \in Times, day \in Days : Judge(time, day)
    BY DEF JudgeNow
  <2>2. CASE ~TemperatureValid
    BY <2>1, <2>2, StaleWithNewest DEF Judge, MissingTemperature
  <2>3. CASE TemperatureValid
    <3>1. Fresh = Recent
      BY DEF Fresh, Recent, Counts
    <3>2. CASE Fresh = {}
      BY <2>1, <2>3, <3>1, <3>2 DEF Judge, MissingTemperature
    <3>3. CASE Fresh # {}
      <4>1. JudgeMean(time, day)
        BY <2>1, <2>3, <3>3 DEF Judge
      <4>2. status' = Verdict(Mean, TemperatureSet(time, day))
        BY <4>1 DEF JudgeMean
      <4>3. status' # "MISSING"
        BY <4>2 DEF Verdict
      <4>4. QED
        BY <3>1, <3>3, <4>3
    <3>4. QED
      BY <3>2, <3>3
  <2>4. QED
    BY <2>2, <2>3
<1>2. QED
  BY <1>1, RoomTypeCorrect, PTL DEF Spec, MissingExactlyWhenStale

-----------------------------------------------------------------------------
(* The sum of the samples *)

\* The two forms of induction used below, without an operator: a set of numbers
\* has a least one; and one that has 0, and with each number the next one, has
\* them all.
LEMMA LeastNatural ==
  ASSUME NEW T, T \subseteq Nat, T # {}
  PROVE  \E m \in T : \A k \in T : m <= k
<1>1. PICK m \in T : \A k \in T : <<k, m>> \notin OpToRel(<, Nat)
  BY NatLessThanWellFounded, WFMin
<1>2. \A k \in T : ~(k < m)
  BY <1>1 DEF OpToRel
<1>3. QED
  BY <1>2

LEMMA UpTo ==
  ASSUME NEW n \in Nat, NEW T, 0 \in T, \A k \in 1 .. n : k - 1 \in T => k \in T
  PROVE  0 .. n \subseteq T
<1> DEFINE Missing == {k \in 0 .. n : k \notin T}
<1>1. SUFFICES ASSUME Missing # {} PROVE FALSE
  OBVIOUS
<1>2. PICK m \in Missing : \A k \in Missing : m <= k
  <2>1. Missing \subseteq Nat
    OBVIOUS
  <2> HIDE DEF Missing
  <2>2. QED
    BY <1>1, <2>1, LeastNatural
<1>3. m \in 1 .. n /\ m - 1 \in 0 .. n /\ ~(m <= m - 1)
  BY <1>2
<1>4. QED
  BY <1>2, <1>3

Chosen(s) == CHOOSE i \in s : TRUE

\* The sum over a set of samples, given those over its subsets.
SumFrom(f, s) ==
  IF s = {} THEN 0 ELSE samples[Chosen(s)].temp + f[s \ {Chosen(s)}]

AreSums(S, f) == f = [s \in SUBSET S |-> SumFrom(f, s)]

LEMMA SumChosen ==
  RecentSum = (CHOOSE f : AreSums(Recent, f))[Recent]
BY Zenon DEF RecentSum, MapThenSumSet, MapThenFoldSet, AreSums, SumFrom, Chosen

LEMMA PartOfInterval ==
  ASSUME NEW n \in Nat, NEW S \in SUBSET (1 .. n)
  PROVE  IsFiniteSet(S) /\ Cardinality(S) <= n
<1>1. 1 \in Int /\ n \in Int
  OBVIOUS
<1>2. /\ IsFiniteSet(1 .. n)
      /\ Cardinality(1 .. n) = IF 1 > n THEN 0 ELSE n - 1 + 1
  BY <1>1, FS_Interval, Zenon
<1>3. IsFiniteSet(S) /\ Cardinality(S) <= Cardinality(1 .. n)
  BY <1>2, FS_Subset, Zenon
<1>4. QED
  BY <1>2, <1>3

LEMMA Smaller ==
  ASSUME NEW S, IsFiniteSet(S), NEW s \in SUBSET S, s # {}
  PROVE  /\ Chosen(s) \in s /\ s \ {Chosen(s)} \in SUBSET S
         /\ Cardinality(s) \in Nat /\ Cardinality(s) > 0
         /\ Cardinality(s \ {Chosen(s)}) = Cardinality(s) - 1
<1>1. Chosen(s) \in s
  BY DEF Chosen
<1>2. IsFiniteSet(s) /\ Cardinality(s) \in Nat
  BY FS_Subset, FS_CardinalityType
<1>3. Cardinality(s) # 0
  BY <1>2, FS_EmptySet
<1>4. Cardinality(s \ {Chosen(s)}) = Cardinality(s) - 1
  BY <1>1, <1>2, FS_RemoveElement
<1>5. QED
  BY <1>1, <1>2, <1>3, <1>4

LEMMA SumsExist ==
  ASSUME NEW S, IsFiniteSet(S)
  PROVE  \E f : AreSums(S, f)
<1> DEFINE Up(k) == {s \in SUBSET S : Cardinality(s) <= k}
           SumsTo(k, f) == f = [s \in Up(k) |-> SumFrom(f, s)]
           n == Cardinality(S)
           There == {k \in 0 .. n : \E f : SumsTo(k, f)}
<1>1. n \in Nat
  BY FS_CardinalityType
<1>2. \A s \in SUBSET S : Cardinality(s) \in Nat /\ Cardinality(s) <= n
  BY FS_Subset, FS_CardinalityType
<1>3. 0 \in There
  <2> DEFINE f == [s \in Up(0) |-> 0]
  <2>1. \A s \in Up(0) : s = {}
    BY <1>2, FS_EmptySet, FS_Subset
  <2>2. \A s \in Up(0) : SumFrom(f, s) = 0
    BY <2>1 DEF SumFrom
  <2> HIDE DEF Up
  <2>3. SumsTo(0, f)
    BY <2>2
  <2>4. 0 \in 0 .. n
    BY <1>1
  <2> HIDE DEF SumsTo, n, f
  <2>5. QED
    BY <2>3, <2>4
<1>4. ASSUME NEW k \in 1 .. n, k - 1 \in There
      PROVE  k \in There
  <2>1. PICK f : SumsTo(k - 1, f)
    <3> HIDE DEF SumsTo
    <3>1. QED
      BY <1>4
  <2> DEFINE more == [s \in Up(k) |-> IF s \in Up(k - 1) THEN f[s]
                                                         ELSE SumFrom(f, s)]
  <2>2. Up(k - 1) \subseteq Up(k)
    BY <1>1, <1>2
  <2>3. \A s \in Up(k) : s # {} => s \ {Chosen(s)} \in Up(k - 1)
    BY <1>1, Smaller
  <2> HIDE DEF Up
  <2>4. \A s \in Up(k) : SumFrom(more, s) = SumFrom(f, s)
    BY <2>2, <2>3 DEF SumFrom
  <2>5. \A s \in Up(k) : more[s] = SumFrom(more, s)
    BY <2>1, <2>2, <2>4
  <2>6. SumsTo(k, more)
    BY <2>5
  <2>7. k \in 0 .. n
    BY <1>1
  <2> HIDE DEF SumsTo, n, more
  <2>8. QED
    BY <2>6, <2>7
<1>5. n \in There
  <2> HIDE DEF There, n
  <2>1. 0 .. n \subseteq There
    BY <1>1, <1>3, <1>4, UpTo
  <2>2. QED
    BY <1>1, <2>1
<1>6. PICK f : SumsTo(n, f)
  <2> HIDE DEF SumsTo, n
  <2>1. QED
    BY <1>5
<1>7. Up(n) = SUBSET S
  BY <1>2
<1>8. AreSums(S, f)
  BY <1>6, <1>7, Zenon DEF AreSums
<1>9. QED
  BY <1>8

\* The sum over the recent samples: neither negative nor more than the number of
\* samples times the warmest.
LEMMA SumBounded ==
  ASSUME IsFiniteSet(Recent), NEW warmest \in Nat,
         \A i \in Recent : samples[i].temp \in 0 .. warmest
  PROVE  RecentSum \in Nat /\ RecentSum <= warmest * Cardinality(Recent)
<1> DEFINE S == Recent
           f == CHOOSE f : AreSums(Recent, f)
           n == Cardinality(Recent)
           T == {k \in 0 .. n : \A s \in SUBSET Recent :
                   Cardinality(s) = k => f[s] \in Nat /\ f[s] <= warmest * k}
<1>1. n \in Nat
  BY FS_CardinalityType
<1>2. AreSums(Recent, f)
  BY SumsExist
<1>3. RecentSum = f[Recent]
  BY SumChosen, Zenon
<1> HIDE DEF f
<1>4. \A s \in SUBSET Recent : f[s] = SumFrom(f, s)
  BY <1>2 DEF AreSums
<1>5. 0 \in T
  <2>1. \A s \in SUBSET Recent : Cardinality(s) = 0 => s = {}
    BY FS_EmptySet, FS_Subset
  <2>2. f[{}] = 0
    BY <1>4 DEF SumFrom
  <2>3. QED
    BY <1>1, <2>1, <2>2
<1>6. ASSUME NEW k \in 1 .. n, k - 1 \in T
      PROVE  k \in T
  <2>1. ASSUME NEW s \in SUBSET Recent, Cardinality(s) = k
        PROVE  f[s] \in Nat /\ f[s] <= warmest * k
    <3> DEFINE i == Chosen(s)
               less == s \ {i}
    <3>1. s # {}
      BY <1>1, <2>1, FS_EmptySet
    <3>2. i \in s /\ less \in SUBSET Recent /\ Cardinality(less) = k - 1
      BY <2>1, <3>1, Smaller
    <3>3. f[s] = samples[i].temp + f[less]
      BY <1>4, <3>1 DEF SumFrom
    <3> HIDE DEF i, less
    <3>4. f[less] \in Nat /\ f[less] <= warmest * (k - 1)
      BY <1>6, <3>2
    <3>5. samples[i].temp \in 0 .. warmest
      BY <3>2
    <3>6. warmest * (k - 1) = warmest * k - warmest /\ warmest * k \in Nat
      BY <1>1
    <3>7. QED
      BY <3>3, <3>4, <3>5, <3>6
  <2>2. k \in 0 .. n
    BY <1>1
  <2>3. QED
    BY <2>1, <2>2
<1>7. n \in T
  <2> HIDE DEF T, n
  <2>1. 0 .. n \subseteq T
    BY <1>1, <1>5, <1>6, UpTo
  <2>2. QED
    BY <1>1, <2>1
<1>8. QED
  BY <1>3, <1>7

-----------------------------------------------------------------------------
(* The mean *)

LEMMA Division ==
  ASSUME NEW a \in Nat, NEW n \in Nat, n > 0
  PROVE  /\ a \div n \in Nat
         /\ n * (a \div n) <= a /\ a < n * (a \div n) + n
OBVIOUS

LEMMA Remainder ==
  ASSUME NEW a \in Nat, NEW n \in Nat, a < n
  PROVE  a % n = a
OBVIOUS

LEMMA Monotone ==
  ASSUME NEW n \in Nat, NEW a \in Int, NEW b \in Int, a <= b
  PROVE  n * a <= n * b
<1>1. n * (b - a) \in Nat /\ n * (b - a) = n * b - n * a
  OBVIOUS
<1>2. QED
  BY <1>1

\* The warmest temperature that 16 bits hold.
Warmest == 32767

\* The division of unsigned words is exact where no temperature is negative.
LEMMA QuotientIs ==
  ASSUME NEW n \in Nat, 0 < n, n <= Half, NEW sum \in Nat, sum <= Warmest * n
  PROVE  Quotient(sum, n) = sum \div n
<1> DEFINE u == sum \div Half
           l == sum % Half
           q == sum \div n
<1>1. u \in Nat /\ l \in Nat /\ l < Half /\ sum = u * Half + l
  BY DEF Half
<1> HIDE DEF u, l
<1>2. u < n /\ u < Half
  BY <1>1 DEF Half, Warmest
<1>3. u % Half = u
  BY <1>1, <1>2 DEF Half
<1>4. u % n = u
  BY <1>1, <1>2, Remainder
<1>5. q \in Nat /\ n * q <= sum
  BY Division
<1> HIDE DEF q
<1>6. q <= Warmest
  <2>1. q >= Warmest + 1 => n * (Warmest + 1) <= n * q
    BY <1>5, Monotone DEF Warmest
  <2>2. QED
    BY <1>5, <2>1 DEF Warmest
<1>7. q % Half = q
  BY <1>5, <1>6 DEF Half, Warmest
<1>8. Upper(sum) = u /\ Lower(sum) = l
  BY <1>3, Zenon DEF Upper, Lower, u, l
<1>9. (Upper(sum) % n) * Half + Lower(sum) = sum
  <2>1. Upper(sum) % n = u
    BY <1>4, <1>8, Zenon
  <2>2. u * Half + l = sum
    BY <1>1 DEF Half
  <2>3. QED
    BY <1>8, <2>1, <2>2, Zenon
<1> DEFINE low == (((Upper(sum) % n) * Half + Lower(sum)) \div n) % Half
<1>10. low = q
  BY <1>7, <1>9, Zenon DEF q
<1>11. Quotient(sum, n) = IF low < 32768 THEN low ELSE low - Half
  BY DEF Quotient
<1> HIDE DEF low
<1>12. QED
  BY <1>5, <1>6, <1>10, <1>11 DEF q, Warmest

LEMMA BelowMean ==
  ASSUME NEW n \in Nat, 0 < n, NEW sum \in Nat, NEW k \in Int
  PROVE  sum \div n < k <=> sum < n * k
<1> DEFINE q == sum \div n
<1>1. q \in Nat /\ n * q <= sum /\ sum < n * q + n
  BY Division
<1> HIDE DEF q
<1>2. q < k => n * (q + 1) <= n * k
  BY <1>1, Monotone
<1>3. n * (q + 1) = n * q + n
  BY <1>1
<1>4. k <= q => n * k <= n * q
  BY <1>1, Monotone
<1>5. n * k \in Int /\ n * q \in Int
  BY <1>1
<1>6. QED
  BY <1>1, <1>2, <1>3, <1>4, <1>5 DEF q

-----------------------------------------------------------------------------
(* The temperature that is set *)

LEMMA SixteenBits ==
  /\ \A t \in Int16 : t \in Int
  /\ \A t \in Int16 : t >= 0 => t \in 0 .. Warmest
  /\ Warmest \in Nat
<1> DEFINE lowest == -32768
<1>1. Int16 = lowest .. Warmest
  BY DEF Int16, Warmest
<1>2. lowest \in Int /\ Warmest \in Nat
  BY DEF Warmest
<1> HIDE DEF lowest
<1>3. QED
  BY <1>1, <1>2

LEMMA SettingTemp ==
  ASSUME NEW i \in DOMAIN Settings
  PROVE  Settings[i].temp \in Int
<1>1. Settings[i] \in Setting
  BY RoomAssumption
<1>2. \A setting \in Setting : setting.temp \in Int16
  BY DEF Setting
<1>3. QED
  BY <1>1, <1>2, SixteenBits

\* getCurrentProgram: the setting chosen is one of those that fit.
LEMMA ProgramFits ==
  ASSUME NEW time, NEW day, Fitting(time, day) # {}
  PROVE  CurrentProgram(time, day) \in Fitting(time, day)
<1> DEFINE fitting == Fitting(time, day)
           temp(i) == Settings[i].temp
           warmest == {i \in fitting : \A j \in fitting : temp(j) <= temp(i)}
           n == Len(Settings)
           T == {k \in 0 .. n :
                   \/ \A i \in fitting : i > k
                   \/ \E i \in fitting :
                        \A j \in fitting : j <= k => temp(j) <= temp(i)}
<1>1. n \in Nat /\ fitting \subseteq 1 .. n
  BY RoomAssumption DEF Fitting
<1>2. \A i \in fitting : temp(i) \in Int
  BY SettingTemp DEF Fitting
<1> HIDE DEF fitting, temp
<1>3. 0 \in T
  BY <1>1
<1>4. ASSUME NEW k \in 1 .. n, k - 1 \in T
      PROVE  k \in T
  <2>0. k \in 0 .. n /\ k - 1 \in 0 .. n
    BY <1>1
  <2>1. \A j \in fitting : j <= k => j <= k - 1 \/ j = k
    BY <1>1
  <2>2. CASE k \notin fitting
    <3>1. \A j \in fitting : (j <= k => j <= k - 1) /\ (j > k - 1 => j > k)
      BY <1>1, <2>2
    <3>2. QED
      BY <1>4, <2>0, <3>1
  <2>3. CASE k \in fitting /\ \A i \in fitting : i > k - 1
    <3>1. \A j \in fitting : j <= k => j = k
      BY <1>1, <2>1, <2>3
    <3>2. \A j \in fitting : j <= k => temp(j) <= temp(k)
      BY <1>2, <2>3, <3>1
    <3>3. QED
      BY <2>0, <2>3, <3>2
  <2>4. ASSUME k \in fitting, NEW i \in fitting,
               \A j \in fitting : j <= k - 1 => temp(j) <= temp(i)
        PROVE  k \in T
    <3>1. CASE temp(k) <= temp(i)
      <4>1. \A j \in fitting : j <= k => temp(j) <= temp(i)
        BY <2>1, <2>4, <3>1
      <4>2. QED
        BY <2>0, <4>1
    <3>2. CASE temp(i) <= temp(k)
      <4>1. \A j \in fitting : j <= k => temp(j) <= temp(k)
        BY <1>2, <2>1, <2>4, <3>2
      <4>2. QED
        BY <2>0, <2>4, <4>1
    <3>3. QED
      BY <1>2, <2>4, <3>1, <3>2
  <2>5. QED
    BY <1>4, <2>2, <2>3, <2>4
<1>5. n \in T
  <2> HIDE DEF T, n
  <2>1. 0 .. n \subseteq T
    BY <1>1, <1>3, <1>4, UpTo
  <2>2. QED
    BY <1>1, <2>1
<1>6. warmest # {}
  <2>1. \A i \in fitting : i <= n /\ ~(i > n)
    BY <1>1
  <2>2. fitting # {}
    BY DEF fitting
  <2>3. QED
    BY <1>5, <2>1, <2>2
<1>7. Min(warmest) \in warmest
  <2>1. \A i \in fitting : i \in Nat
    BY <1>1
  <2>2. warmest \subseteq Nat
    BY <2>1
  <2> HIDE DEF warmest
  <2>3. \E m \in warmest : \A k \in warmest : m <= k
    BY <1>6, <2>2, LeastNatural
  <2>4. QED
    BY <2>3, Zenon DEF Min
<1>8. CurrentProgram(time, day) = Min(warmest)
  BY DEF CurrentProgram, fitting, temp
<1>9. QED
  BY <1>7, <1>8 DEF fitting

LEMMA SetIsNumber ==
  ASSUME TypeOK, NEW time, NEW day
  PROVE  TemperatureSet(time, day) \in Int
<1>1. override.temp \in Int /\ Base \in Int
  BY RoomAssumption, SixteenBits DEF TypeOK
<1>2. \A i \in Fitting(time, day) : Settings[i].temp \in Int
  BY SettingTemp DEF Fitting
<1>3. QED
  BY <1>1, <1>2, ProgramFits DEF TemperatureSet

-----------------------------------------------------------------------------
(* The verdict *)

\* Samples are readings.
SamplesRead == \A i \in DOMAIN samples : samples[i].temp \in Readings

LEMMA InitSamplesRead == Init => SamplesRead
BY DEF Init, SamplesRead

LEMMA NextSamplesRead ==
  ASSUME TypeOK, SamplesRead, [Next]_roomVars
  PROVE  SamplesRead'
<1>1. ASSUME NEW temp \in Readings, StoreTemperature(temp)
      PROVE  SamplesRead'
  <2> DEFINE sample == [temp |-> temp, age |-> 0]
             full == Len(samples) = BufferSize
             rest == IF full THEN Tail(samples) ELSE samples
  <2>1. samples' = Append(rest, sample) /\ sample.temp \in Readings
    BY <1>1 DEF StoreTemperature, Push
  <2>2. samples \in Seq(Sample)
    BY DEF TypeOK, Sample
  <2>3. /\ rest \in Seq(Sample)
        /\ \A i \in 1 .. Len(rest) : rest[i].temp \in Readings
    <3>1. CASE Len(samples) = BufferSize
      <4>1. samples # <<>>
        BY <2>2, <3>1, Limits
      <4>2. /\ Tail(samples) \in Seq(Sample)
            /\ Len(Tail(samples)) = Len(samples) - 1
            /\ \A i \in 1 .. Len(samples) - 1 :
                 Tail(samples)[i] = samples[i + 1] /\ i + 1 \in DOMAIN samples
        BY <2>2, <4>1
      <4>3. QED
        BY <3>1, <4>2 DEF SamplesRead
    <3>2. CASE Len(samples) # BufferSize
      BY <2>2, <3>2 DEF SamplesRead
    <3>3. QED
      BY <3>1, <3>2
  <2> HIDE DEF rest, sample
  <2>4. \A i \in DOMAIN samples' :
          (i \in 1 .. Len(rest) /\ samples'[i] = rest[i]) \/ samples'[i] = sample
    BY <2>1, <2>3
  <2>5. QED
    BY <2>1, <2>3, <2>4 DEF SamplesRead
<1>2. CASE Tick
  <2>1. \A i \in DOMAIN samples : samples[i] \in Sample
    <3>1. samples \in Seq(Sample) /\ DOMAIN samples = 1 .. Len(samples)
      BY DEF TypeOK, Sample
    <3>2. QED
      BY <3>1
  <2>2. DOMAIN samples' = DOMAIN samples
    BY <1>2 DEF Tick
  <2>3. \A i \in DOMAIN samples : samples'[i].temp = samples[i].temp
    BY <1>2, <2>1 DEF Tick, Sample
  <2>4. QED
    BY <2>2, <2>3 DEF SamplesRead
<1>3. ASSUME UNCHANGED samples
      PROVE  SamplesRead'
  BY <1>3 DEF SamplesRead
<1>4. QED
  BY <1>1, <1>2, <1>3
     DEF Next, JudgeNow, Judge, CreateTemporaryOverride, roomVars

LEMMA VerdictByMean ==
  ASSUME Readings \subseteq Nat, BufferSize <= Half,
         TypeOK, SamplesRead, NEW time, NEW day, Judge(time, day), Recent # {}
  PROVE  LET set == TemperatureSet(time, day)
             n == Cardinality(Recent)
         IN  /\ status' = "START" <=> RecentSum < n * (set - MarginDown)
             /\ status' = "OK" <=> RecentSum >= n * (set + MarginUp)
<1> DEFINE set == TemperatureSet(time, day)
           n == Cardinality(Recent)
           sum == RecentSum
<1>1. IsFiniteSet(Recent) /\ n \in Nat /\ 0 < n /\ n <= Half
  <2>1. /\ samples \in Seq(Sample) /\ Len(samples) \in Nat
        /\ Len(samples) <= BufferSize
    BY DEF TypeOK, Sample
  <2>2. Recent \in SUBSET (1 .. Len(samples))
    BY <2>1 DEF Recent
  <2>3. IsFiniteSet(Recent) /\ n <= Len(samples)
    BY <2>1, <2>2, PartOfInterval
  <2>4. n \in Nat /\ n # 0
    BY <2>3, FS_CardinalityType, FS_EmptySet
  <2> HIDE DEF n
  <2>5. QED
    BY <2>1, <2>3, <2>4, Limits DEF Half
<1>2. sum \in Nat /\ sum <= Warmest * n
  <2>1. Readings \subseteq Int16
    BY RoomAssumption
  <2>2. \A t \in Readings : t \in 0 .. Warmest
    BY <2>1, SixteenBits
  <2>3. \A i \in Recent : samples[i].temp \in 0 .. Warmest
    BY <2>2, Zenon DEF Recent, SamplesRead
  <2>4. QED
    BY <1>1, <2>3, SixteenBits, SumBounded
<1>3. Mean = sum \div n
  <2>1. Fresh = Recent
    BY DEF Fresh, Recent, Counts
  <2>2. Mean = Quotient(sum, n)
    BY <2>1 DEF Mean, RecentSum
  <2> HIDE DEF sum, n
  <2>3. QED
    BY <1>1, <1>2, <2>2, QuotientIs
<1>4. set \in Int /\ MarginUp \in Int /\ MarginDown \in Int
  BY SetIsNumber, RoomAssumption
<1>5. /\ Mean < set - MarginDown <=> sum < n * (set - MarginDown)
      /\ Mean < set + MarginUp <=> sum < n * (set + MarginUp)
  <2> HIDE DEF sum, n, set
  <2>1. set - MarginDown \in Int /\ set + MarginUp \in Int
    BY <1>4
  <2>2. QED
    BY <1>1, <1>2, <1>3, <2>1, BelowMean
<1>6. status' = Verdict(Mean, set)
  <2>1. Fresh # {}
    BY DEF Fresh, Recent, Counts
  <2>2. TemperatureValid
    BY StaleWithNewest
  <2>3. QED
    BY <2>1, <2>2 DEF Judge, JudgeMean
<1>7. /\ Mean \in Int
      /\ n * (set + MarginUp) \in Int /\ n * (set - MarginDown) \in Int
  <2> HIDE DEF sum, n, set
  <2>1. QED
    BY <1>1, <1>2, <1>3, <1>4, Division
<1>8. /\ status' = "START" <=> sum < n * (set - MarginDown)
      /\ status' = "OK" <=> sum >= n * (set + MarginUp)
  <2> HIDE DEF sum, n, set
  <2>1. set - MarginDown <= set + MarginUp
    BY <1>4, RoomAssumption
  <2>2. QED
    BY <1>2, <1>4, <1>5, <1>6, <1>7, <2>1 DEF Verdict
<1>9. QED
  BY <1>8

\* Room::shouldStartBoilerAndHeat, calculateAverageTemperature: where no sensor
\* reports a temperature below zero (the unsigned division is wrong there), the
\* verdict is that of the exact mean, for any schedule, margins and buffer.
THEOREM VerdictOfMean ==
  ASSUME Readings \subseteq Nat, BufferSize <= Half
  PROVE  Spec => VerdictIsTrue
<1>1. Init => SamplesRead
  BY InitSamplesRead
<1>2. TypeOK /\ SamplesRead /\ [Next]_roomVars => SamplesRead'
  BY NextSamplesRead
<1> DEFINE TrueVerdict ==
      \A time \in Times, day \in Days :
        Judge(time, day) /\ Recent # {} =>
          LET set == TemperatureSet(time, day)
              n == Cardinality(Recent)
          IN  /\ status' = "START" <=> RecentSum < n * (set - MarginDown)
              /\ status' = "OK" <=> RecentSum >= n * (set + MarginUp)
<1>3. TypeOK /\ SamplesRead => TrueVerdict
  BY VerdictByMean
<1>4. QED
  BY <1>1, <1>2, <1>3, RoomTypeCorrect, PTL DEF Spec, VerdictIsTrue
=============================================================================
