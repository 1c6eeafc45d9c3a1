------------------------- MODULE DepreciationProofs --------------------------
(***************************************************************************)
(* The theorems of Depreciation, for any assets, plans and number of       *)
(* exercises, and for every order of the operations.                       *)
(***************************************************************************)
EXTENDS Depreciation, SumFacts, SequenceTheorems

Positive == Nat \ {0}
Labels == RowSet \cup {OtherLabel}
Row == [value : Nat, life : Positive, start : Int, label : Labels]
Schedule == [base : Nat, life : Positive, start : Int]
Period == [id : Positive, row : RowSet, year : Years, amount : Int,
           accumulated : Int, entry : Nat]
DotationEntry == [row : RowSet, year : Years, amount : Int]

-----------------------------------------------------------------------------
(* The days of a plan *)

LEMMA AccruedMonotone ==
  ASSUME NEW s \in Schedule, NEW a \in Int, NEW b \in Int, a <= b
  PROVE  /\ Accrued(s, a) \in Int /\ Accrued(s, b) \in Int
         /\ Accrued(s, a) <= Accrued(s, b)
<1> DEFINE base == s.base
           life == s.life
<1>1. base \in Nat /\ life \in Positive
  BY DEF Schedule
<1>2. Accrued(s, a) = (2 * base * a + life) \div (2 * life)
  BY DEF Accrued
<1>3. Accrued(s, b) = (2 * base * b + life) \div (2 * life)
  BY DEF Accrued
<1> HIDE DEF base, life
<1>4. 2 * base * a + life <= 2 * base * b + life
  <2>1. PICK k \in Nat : b = a + k
    <3>1. b - a \in Nat /\ b = a + (b - a)
      OBVIOUS
    <3> QED  BY <3>1
  <2>2. base * k \in Nat
    BY <1>1
  <2>3. 2 * base * b = 2 * base * a + 2 * (base * k)
    BY <1>1, <2>1
  <2>4. 2 * base * a \in Int /\ life \in Int
    BY <1>1 DEF Positive
  <2> QED  BY <2>2, <2>3, <2>4
<1>5. /\ 2 * base * a + life \in Int /\ 2 * base * b + life \in Int
      /\ 2 * life \in Nat \ {0}
  BY <1>1 DEF Positive
<1>6. /\ (2 * base * a + life) \div (2 * life) \in Int
      /\ (2 * base * b + life) \div (2 * life) \in Int
  <2>1. \A p \in Int, q \in Nat \ {0} : p \div q \in Int
    OBVIOUS
  <2> QED  BY <1>5, <2>1
<1> QED  BY <1>2, <1>3, <1>4, <1>5, <1>6, DivMonotone

\* Nothing is accrued at first, and the base at the end.
LEMMA AccruedEnds ==
  ASSUME NEW s \in Schedule
  PROVE  Accrued(s, 0) = 0 /\ Accrued(s, s.life) = s.base
<1> DEFINE base == s.base
           life == s.life
<1>1. base \in Nat /\ life \in Nat /\ life > 0
  BY DEF Schedule, Positive
<1>2. Accrued(s, 0) = (2 * base * 0 + life) \div (2 * life)
  BY DEF Accrued
<1>3. Accrued(s, s.life) = (2 * base * life + life) \div (2 * life)
  BY DEF Accrued
<1> SUFFICES /\ (2 * base * 0 + life) \div (2 * life) = 0
             /\ (2 * base * life + life) \div (2 * life) = base
  BY <1>2, <1>3
<1> HIDE DEF base, life
<1>4. \A p \in Int, d \in Nat \ {0}, q \in Int :
        d * q <= p /\ p < d * q + d => p \div d = q
  <2> SUFFICES ASSUME NEW p \in Int, NEW d \in Nat \ {0}, NEW q \in Int,
                      d * q <= p, p < d * q + d
               PROVE  p \div d = q
    OBVIOUS
  <2>1. p = d * q + (p - d * q) /\ p - d * q \in 0..(d - 1)
    OBVIOUS
  <2> QED  BY <2>1
<1>5. (2 * life) * 0 <= 2 * base * 0 + life /\ 2 * base * 0 + life < (2 * life) * 0 + 2 * life
  BY <1>1
<1>6. /\ (2 * life) * base <= 2 * base * life + life
      /\ 2 * base * life + life < (2 * life) * base + 2 * life
  <2>1. (2 * life) * base = 2 * base * life /\ 2 * base * life \in Int
    BY <1>1
  <2> QED  BY <1>1, <2>1
<1>7. /\ 2 * life \in Nat \ {0} /\ 2 * base * 0 + life \in Int
      /\ 2 * base * life + life \in Int
  BY <1>1
<1> QED  BY <1>1, <1>4, <1>5, <1>6, <1>7

\* What a plan has accrued by the end of a year.
Units(s, y) == MinOf(MaxOf(YearTo(y) - s.start + 1, 0), s.life)
AccruedBy(s, y) == Accrued(s, Units(s, y))

\* The dotation of a year is what is accrued between its ends.
LEMMA DotationIs ==
  ASSUME DepreciationAssumption, NEW s \in Schedule, NEW y \in Positive
  PROVE  /\ AccruedBy(s, y) \in Int /\ AccruedBy(s, y - 1) \in Int
         /\ AccruedBy(s, y - 1) <= AccruedBy(s, y)
         /\ AccruedBy(s, y) <= s.base
         /\ Covers(s, y) => Dotation(s, y) = AccruedBy(s, y) - AccruedBy(s, y - 1)
         /\ ~ Covers(s, y) => AccruedBy(s, y) = AccruedBy(s, y - 1)
         /\ EndOf(s) <= YearTo(y) => AccruedBy(s, y) = s.base
<1> DEFINE old == YearTo(y - 1)
           new == YearTo(y)
           life == s.life
           start == s.start
<1>1. /\ old \in Nat /\ new \in Nat /\ YearFrom(y) = old + 1 /\ old + 1 <= new
      /\ life \in Nat /\ life > 0 /\ start \in Int
  <2>1. YearUnits \in Nat /\ YearUnits > 0 /\ y - 1 \in Nat /\ y \in Int
    BY DEF DepreciationAssumption, Positive
  <2>2. \A n \in Nat, u \in Nat : n * u \in Nat /\ (n + 1) * u = n * u + u
    OBVIOUS
  <2>3. (y - 1) * YearUnits \in Nat /\ y * YearUnits = (y - 1) * YearUnits + YearUnits
    <3>1. (y - 1) + 1 = y
      BY <2>1
    <3> QED  BY <2>1, <2>2, <3>1
  <2> QED  BY <2>1, <2>3 DEF YearTo, YearFrom, Schedule, Positive
<1>2. /\ Units(s, y) = MinOf(MaxOf(new - start + 1, 0), life)
      /\ Units(s, y - 1) = MinOf(MaxOf(old - start + 1, 0), life)
      /\ From(s, y) = MaxOf(old + 1, start)
      /\ To(s, y) = MinOf(new, start + life - 1)
      /\ Dotation(s, y) = Accrued(s, To(s, y) - start + 1) - Accrued(s, From(s, y) - start)
      /\ EndOf(s) = start + life - 1
  BY <1>1 DEF Units, From, To, EndOf, Dotation
<1> HIDE DEF old, new, start
<1>3. /\ Units(s, y) \in Int /\ Units(s, y - 1) \in Int
      /\ Units(s, y - 1) <= Units(s, y) /\ Units(s, y) <= life
  <2> HIDE DEF life
  <2> QED  BY <1>1, <1>2 DEF MinOf, MaxOf
<1>4. Covers(s, y) => /\ To(s, y) - start + 1 = Units(s, y)
                      /\ From(s, y) - start = Units(s, y - 1)
  <2> HIDE DEF life
  <2> QED  BY <1>1, <1>2 DEF MinOf, MaxOf, Covers
<1>5. ~ Covers(s, y) => Units(s, y) = Units(s, y - 1)
  <2> HIDE DEF life
  <2> QED  BY <1>1, <1>2 DEF MinOf, MaxOf, Covers
<1>6. EndOf(s) <= new => Units(s, y) = life
  <2> HIDE DEF life
  <2> QED  BY <1>1, <1>2 DEF MinOf, MaxOf
<1>7. AccruedBy(s, y) \in Int /\ AccruedBy(s, y - 1) \in Int
      /\ AccruedBy(s, y - 1) <= AccruedBy(s, y)
  BY <1>3, AccruedMonotone DEF AccruedBy
<1>8. AccruedBy(s, y) <= s.base
  BY <1>1, <1>3, AccruedMonotone, AccruedEnds DEF AccruedBy
<1> QED  BY <1>2, <1>4, <1>5, <1>6, <1>7, <1>8, AccruedEnds DEF AccruedBy, new

\* What is accrued before the first exercise: nothing, if the plan starts in it or later.
LEMMA AccruedByNone ==
  ASSUME DepreciationAssumption, NEW s \in Schedule
  PROVE  /\ AccruedBy(s, 0) \in Nat
         /\ YearFrom(1) <= s.start => AccruedBy(s, 0) = 0
<1>1. /\ YearTo(0) = 0 /\ YearFrom(1) = 1
      /\ s.start \in Int /\ s.life \in Nat
  BY DEF YearTo, YearFrom, Schedule, Positive, DepreciationAssumption
<1>2. Units(s, 0) \in Nat /\ (YearFrom(1) <= s.start => Units(s, 0) = 0)
  BY <1>1 DEF Units, MinOf, MaxOf
<1>3. 0 <= Units(s, 0) /\ Units(s, 0) \in Int
  BY <1>2
<1>4. AccruedBy(s, 0) \in Int /\ 0 <= AccruedBy(s, 0)
  BY <1>3, AccruedMonotone, AccruedEnds DEF AccruedBy
<1> QED  BY <1>2, <1>4, AccruedEnds DEF AccruedBy

LEMMA YearsAre ==
  ASSUME DepreciationAssumption
  PROVE  \E n \in Positive : Years = 1..n /\ Max(Years) = n
<1> DEFINE n == Cardinality(Years)
<1>1. n \in Positive /\ Years = 1..n
  BY FS_CardinalityType, FS_EmptySet DEF DepreciationAssumption, Positive
<1> HIDE DEF n
<1>2. n \in Years /\ \A y \in Years : n >= y
  BY <1>1 DEF Positive
<1>3. Max(Years) \in Years /\ \A y \in Years : Max(Years) >= y
  BY <1>2 DEF Max
<1> QED  BY <1>1, <1>2, <1>3 DEF Positive

\* The dotations of years of a plan, and of all its years.
LEMMA PlanTotals ==
  ASSUME DepreciationAssumption, NEW s \in Schedule, NEW of, IsFiniteSet(of),
         \A p \in of : p.year \in Years /\ Covers(s, p.year)
                       /\ p.amount = Dotation(s, p.year),
         \A p, q \in of : p.year = q.year => p = q,
         NEW total, total = SumFunctionOnSet([p \in of |-> p.amount], of)
  PROVE  /\ total \in Int /\ total <= s.base
         /\ (/\ YearFrom(1) <= s.start
             /\ EndOf(s) <= YearTo(Max(Years))
             /\ \A y \in Years : Covers(s, y) => \E p \in of : p.year = y)
            => total = s.base
<1>1. PICK n \in Positive : Years = 1..n /\ Max(Years) = n
  BY YearsAre
<1> DEFINE G == [y \in 0..n |-> AccruedBy(s, y)]
           d == [y \in 1..n |-> G[y] - G[y - 1]]
           f == [p \in of |-> p.amount]
           h == [p \in of |-> p.year]
           T == {h[p] : p \in of}
           rest == SumFunctionOnSet(d, (1..n) \ T)
<1>2. \A y \in 1..n : y \in Positive /\ y - 1 \in 0..n /\ y \in 0..n
  BY DEF Positive
<1>3. \A y \in 1..n : /\ d[y] = AccruedBy(s, y) - AccruedBy(s, y - 1)
                      /\ d[y] \in Nat
                      /\ Covers(s, y) => Dotation(s, y) = d[y]
                      /\ ~ Covers(s, y) => d[y] = 0
  <2> TAKE y \in 1..n
  <2>1. d[y] = AccruedBy(s, y) - AccruedBy(s, y - 1)
    BY <1>2
  <2>2. /\ AccruedBy(s, y) \in Int /\ AccruedBy(s, y - 1) \in Int
        /\ AccruedBy(s, y - 1) <= AccruedBy(s, y)
        /\ Covers(s, y) => Dotation(s, y) = AccruedBy(s, y) - AccruedBy(s, y - 1)
        /\ ~ Covers(s, y) => AccruedBy(s, y) = AccruedBy(s, y - 1)
    BY <1>2, DotationIs
  <2> HIDE DEF d
  <2> QED  BY <2>1, <2>2
<1>4. \A k \in 0..n : G[k] \in Int
  <2> SUFFICES ASSUME NEW k \in 0..n PROVE AccruedBy(s, k) \in Int
    OBVIOUS
  <2>1. CASE k = 0
    BY <2>1, AccruedByNone
  <2>2. CASE k # 0
    <3>1. k \in Positive
      BY <2>2 DEF Positive
    <3> QED  BY <3>1, DotationIs
  <2> QED  BY <2>1, <2>2
<1>5. SumFunctionOnSet(d, 1..n) = G[n] - G[0]
  <2>1. \A k \in 1..n : d[k] = G[k] - G[k - 1]
    OBVIOUS
  <2>2. n \in Nat
    BY DEF Positive
  <2> HIDE DEF d, G
  <2> QED  BY <1>4, <2>1, <2>2, Telescoped
<1>6. G[n] \in Int /\ G[0] \in Nat /\ G[n] <= s.base
      /\ (YearFrom(1) <= s.start => G[0] = 0)
      /\ (EndOf(s) <= YearTo(n) => G[n] = s.base)
  <2>1. n \in 0..n /\ 0 \in 0..n
    BY DEF Positive
  <2> QED  BY <1>4, <2>1, AccruedByNone, DotationIs
<1>7. IsFiniteSet(T) /\ SumFunctionOnSet(f, of) = SumFunctionOnSet(d, T)
  <2>1. \A p \in of : f[p] \in Int /\ f[p] = d[h[p]]
    <3> TAKE p \in of
    <3>1. f[p] = p.amount /\ h[p] = p.year
      OBVIOUS
    <3>2. p.year \in 1..n /\ p.amount = Dotation(s, p.year) /\ Covers(s, p.year)
      BY <1>1
    <3> HIDE DEF f, h, d
    <3> QED  BY <1>3, <3>1, <3>2
  <2>2. \A p, q \in of : h[p] = h[q] => p = q
    OBVIOUS
  <2>3. \A p \in of : h[p] \in T
    OBVIOUS
  <2>4. \A y \in T : \E p \in of : y = h[p]
    OBVIOUS
  <2> HIDE DEF f, h, d, T
  <2>5. Carries(of, f, d, h) /\ Onto(of, h, T)
    BY <2>1, <2>2, <2>3, <2>4 DEF Carries, Onto
  <2> QED  BY <2>5, SumOnto
<1>8. T \in SUBSET (1..n) /\ \A y \in T : \E p \in of : p.year = y
  BY <1>1
<1>9. IsFiniteSet(1..n) /\ \A y \in 1..n : d[y] \in Int
  <2> HIDE DEF d
  <2>1. n \in Int /\ 1 \in Int
    BY DEF Positive
  <2>2. IsFiniteSet(1..n)
    BY <2>1, FS_Interval
  <2> QED  BY <1>3, <2>2
<1>10. total = SumFunctionOnSet(f, of)
  OBVIOUS
<1>11. \A y \in Years : (\E p \in of : p.year = y) => y \in T
  OBVIOUS
<1> HIDE DEF d, G, T, f
<1>12. SumFunctionOnSet(d, 1..n)
         = SumFunctionOnSet(d, T) + SumFunctionOnSet(d, (1..n) \ T)
  <2> DEFINE S == 1..n
  <2>1. T \in SUBSET S /\ IsFiniteSet(S) /\ \A y \in S : d[y] \in Int
    BY <1>8, <1>9
  <2> HIDE DEF S
  <2>2. SumFunctionOnSet(d, S) = SumFunctionOnSet(d, T) + SumFunctionOnSet(d, S \ T)
    BY <2>1, SumSplit
  <2> QED  BY <2>2 DEF S
<1>13. IsFiniteSet((1..n) \ T)
  BY <1>9, FS_Difference
<1>14. rest \in Nat
  <2>1. \A y \in (1..n) \ T : d[y] \in Nat
    BY <1>3
  <2> QED  BY <1>13, <2>1, SumNat
<1>15. SumFunctionOnSet(d, T) \in Int
  BY <1>7, <1>8, <1>9, SumInt
<1>16. total \in Int /\ total <= s.base /\ total + rest = G[n] - G[0]
  <2>1. s.base \in Int
    BY DEF Schedule
  <2> QED  BY <1>5, <1>6, <1>7, <1>10, <1>12, <1>14, <1>15, <2>1
<1>17. ASSUME YearFrom(1) <= s.start, EndOf(s) <= YearTo(Max(Years)),
              \A y \in Years : Covers(s, y) => \E p \in of : p.year = y
       PROVE  total = s.base
  <2>1. \A y \in (1..n) \ T : d[y] = 0
    BY <1>1, <1>3, <1>11, <1>17
  <2>2. rest = 0
    BY <1>13, <2>1, SumZero
  <2>3. G[n] = s.base /\ G[0] = 0
    BY <1>1, <1>6, <1>17
  <2>4. s.base \in Int
    BY DEF Schedule
  <2> HIDE DEF rest
  <2> QED  BY <1>16, <2>2, <2>3, <2>4
<1> QED  BY <1>16, <1>17

-----------------------------------------------------------------------------
(* The invariant *)

TypeOK ==
  /\ property \in [price : Nat, seen : Nat]
  /\ register \in [RowSet -> Row \cup {None}]
  /\ schedule \in [RowSet -> Schedule \cup {None}]
  /\ periods \in SUBSET Period /\ IsFiniteSet(periods)
  /\ dotations \in Seq(DotationEntry)
  /\ DOMAIN reports = Keys

\* A schedule is that of a row depreciated, as it stands.
SchedulesFollow == \A r \in RowSet :
  schedule[r] # None => r \in Targets /\ schedule[r] = PlanOf(r)

\* A period is one of a scheduled plan.
PeriodsFollow == \A p \in periods :
  /\ schedule[p.row] # None
  /\ Covers(schedule[p.row], p.year)
  /\ p.amount = Dotation(schedule[p.row], p.year)

\* One period for each row and year; its id, and its entry once posted, are its own.
Single == \A p, q \in periods :
  \/ p.id = q.id
  \/ p.row = q.row /\ p.year = q.year
  \/ p.entry # 0 /\ p.entry = q.entry
  => p = q

\* Entries and posted periods correspond.
Posting ==
  /\ \A p \in periods : p.entry # 0 =>
       /\ p.entry \in DOMAIN dotations
       /\ dotations[p.entry] = [row |-> p.row, year |-> p.year, amount |-> p.amount]
  /\ \A n \in DOMAIN dotations : \E p \in periods : p.entry = n

\* What a report announced still stands.
Reported == \A key \in Keys : reports[key] # None =>
  \A n \in DOMAIN reports[key].lot : reports[key].entries[n] # 0 =>
    \E p \in periods : /\ p.id = reports[key].lot[n]
                       /\ p.entry = reports[key].entries[n]

AssetInv == /\ TypeOK /\ SchedulesFollow /\ PeriodsFollow
            /\ Single /\ Posting /\ Reported

LEMMA PlanTyped ==
  ASSUME NEW r \in RowSet, register[r] \in Row
  PROVE  PlanOf(r) \in Schedule
  BY DEF PlanOf, Row, Schedule

\* None is no row and no schedule.
LEMMA NoneIsNot ==
  ASSUME DepreciationAssumption
  PROVE  None \notin Row /\ None \notin Schedule
<1>1. Row \subseteq [value : Nat, life : Nat, start : Int, label : RowSet \cup {OtherLabel}]
  BY DEF Row, Positive, Labels
<1>2. Schedule \subseteq [base : Nat, life : Nat, start : Int]
  BY DEF Schedule, Positive
<1> QED  BY <1>1, <1>2 DEF DepreciationAssumption

LEMMA Initially ==
  ASSUME DepreciationAssumption, Init
  PROVE  AssetInv
<1>1. TypeOK
  <2>1. property \in [price : Nat, seen : Nat]
    BY DEF Init, DepreciationAssumption
  <2>2. register \in [RowSet -> Row \cup {None}] /\ schedule \in [RowSet -> Schedule \cup {None}]
    BY DEF Init
  <2>3. periods \in SUBSET Period /\ IsFiniteSet(periods) /\ dotations \in Seq(DotationEntry)
    BY FS_EmptySet DEF Init
  <2>4. DOMAIN reports = Keys
    BY DEF Init
  <2> QED  BY <2>1, <2>2, <2>3, <2>4 DEF TypeOK
<1>2. SchedulesFollow
  BY DEF Init, SchedulesFollow
<1>3. PeriodsFollow /\ Single /\ Posting
  <2>1. periods = {} /\ DOMAIN dotations = {}
    BY DEF Init
  <2> QED  BY <2>1 DEF PeriodsFollow, Single, Posting
<1>4. Reported
  BY DEF Init, Reported
<1> QED  BY <1>1, <1>2, <1>3, <1>4 DEF AssetInv

-----------------------------------------------------------------------------
(* Steps that leave the scheduled rows as they are *)

LEMMA PlansStay ==
  ASSUME AssetInv, UNCHANGED <<schedule, periods, dotations, reports>>,
         property' \in [price : Nat, seen : Nat],
         register' \in [RowSet -> Row \cup {None}],
         \A r \in RowSet : schedule[r] # None =>
            r \in Targets' /\ PlanOf(r)' = PlanOf(r)
  PROVE  AssetInv'
<1>1. TypeOK'
  BY DEF AssetInv, TypeOK
<1>2. SchedulesFollow'
  BY DEF AssetInv, SchedulesFollow
<1>3. PeriodsFollow' /\ Single' /\ Posting' /\ Reported'
  BY DEF AssetInv, PeriodsFollow, Single, Posting, Reported
<1> QED  BY <1>1, <1>2, <1>3 DEF AssetInv

LEMMA RegisterGrows ==
  ASSUME AssetInv, UNCHANGED <<schedule, periods, dotations, reports>>,
         property' \in [price : Nat, seen : Nat],
         register' \in [RowSet -> Row \cup {None}],
         \A r \in RowSet : schedule[r] # None =>
            r \in Targets' /\ register'[r] = register[r]
  PROVE  AssetInv'
<1>1. \A r \in RowSet : schedule[r] # None => r \in Targets' /\ PlanOf(r)' = PlanOf(r)
  BY DEF PlanOf
<1> QED  BY <1>1, PlansStay

LEMMA ScheduledRow ==
  ASSUME AssetInv, NEW r \in RowSet, schedule[r] # None
  PROVE  r \in Targets /\ r \in Registered /\ schedule[r] = PlanOf(r)
         /\ schedule[r] \in Schedule /\ register[r] \in Row
  BY DEF AssetInv, TypeOK, SchedulesFollow, Targets, Registered

LEMMA SameRegister ==
  ASSUME AssetInv, UNCHANGED <<register, schedule, periods, dotations, reports>>,
         property' \in [price : Nat, seen : Nat]
  PROVE  AssetInv'
<1>1. \A r \in RowSet : schedule[r] # None => r \in Targets' /\ register'[r] = register[r]
  BY ScheduledRow DEF Targets, Registered, Decomposed, Components
<1>2. register' \in [RowSet -> Row \cup {None}]
  BY DEF AssetInv, TypeOK
<1> QED  BY <1>1, <1>2, RegisterGrows

LEMMA CreatedTyped ==
  ASSUME DepreciationAssumption, NEW r \in RowSet, NEW plan \in Plans[r]
  PROVE  Created(r, plan) \in Row /\ Created(r, plan) # None
<1>1. plan \in [value : Nat, life : Positive, start : Int]
  BY DEF DepreciationAssumption, Positive
<1>2. Created(r, plan) \in Row
  BY <1>1 DEF Created, Row, Labels
<1> QED  BY <1>2, NoneIsNot

LEMMA StepCreateAsset ==
  ASSUME DepreciationAssumption, AssetInv,
         NEW r \in {Building} \cup ChairSet, NEW plan \in Plans[r], CreateAsset(r, plan)
  PROVE  AssetInv'
<1>1. r \in RowSet /\ r \notin PartSet
  BY DEF RowSet, DepreciationAssumption
<1>2. /\ register[r] = None /\ register \in [RowSet -> Row \cup {None}]
      /\ register' = [register EXCEPT ![r] = Created(r, plan)]
      /\ UNCHANGED <<schedule, periods, dotations, reports, property>>
  BY DEF CreateAsset, OnlyRegister, AssetInv, TypeOK
<1>3. Created(r, plan) \in Row /\ Created(r, plan) # None
  BY <1>1, CreatedTyped
<1>4. register' \in [RowSet -> Row \cup {None}]
  BY <1>2, <1>3
<1>5. \A q \in RowSet : q # r => register'[q] = register[q]
  BY <1>2
<1>6. Components' = Components
  BY <1>1, <1>5 DEF Components, Registered, RowSet
<1>7. \A q \in RowSet : schedule[q] # None => q \in Targets' /\ register'[q] = register[q]
  <2> SUFFICES ASSUME NEW q \in RowSet, schedule[q] # None
               PROVE  q \in Targets' /\ register'[q] = register[q]
    OBVIOUS
  <2>1. q \in Targets /\ register[q] # None /\ q # r
    BY <1>2, ScheduledRow DEF Targets, Registered
  <2>2. register'[q] = register[q] /\ q \in Registered'
    BY <1>5, <2>1 DEF Registered
  <2> QED  BY <1>6, <2>1, <2>2 DEF Targets, Decomposed
<1>8. property' \in [price : Nat, seen : Nat]
  BY <1>2 DEF AssetInv, TypeOK
<1> QED  BY <1>2, <1>4, <1>7, <1>8, RegisterGrows

LEMMA StepCreateComponent ==
  ASSUME DepreciationAssumption, AssetInv,
         NEW c \in PartSet, NEW plan \in Plans[c], CreateComponent(c, plan)
  PROVE  AssetInv'
<1>1. c \in RowSet /\ Building \in RowSet
  BY DEF RowSet
<1>2. /\ register[c] = None /\ register \in [RowSet -> Row \cup {None}]
      /\ schedule[Building] = None
      /\ register' = [register EXCEPT ![c] = Created(c, plan)]
      /\ UNCHANGED <<schedule, periods, dotations, reports, property>>
  BY DEF CreateComponent, OnlyRegister, AssetInv, TypeOK
<1>3. Created(c, plan) \in Row
  BY <1>1, CreatedTyped
<1>4. register' \in [RowSet -> Row \cup {None}]
  BY <1>2, <1>3
<1>5. \A q \in RowSet : schedule[q] # None => q \in Targets' /\ register'[q] = register[q]
  <2> SUFFICES ASSUME NEW q \in RowSet, schedule[q] # None
               PROVE  q \in Targets' /\ register'[q] = register[q]
    OBVIOUS
  <2>1. register[q] # None /\ q # c /\ q # Building
    BY <1>2, ScheduledRow DEF Registered
  <2>2. register'[q] = register[q] /\ q \in Registered'
    BY <1>2, <2>1 DEF Registered
  <2> QED  BY <2>1, <2>2 DEF Targets, Decomposed
<1>6. property' \in [price : Nat, seen : Nat]
  BY <1>2 DEF AssetInv, TypeOK
<1> QED  BY <1>2, <1>4, <1>5, <1>6, RegisterGrows

LEMMA ShareTyped ==
  ASSUME DepreciationAssumption, NEW price \in Nat, NEW n \in DOMAIN Parts
  PROVE  Share(price, n) \in Int
<1> DEFINE floor == [k \in DOMAIN Parts |-> (price * Shares[k]) \div 10000]
<1>1. \A k \in DOMAIN Parts : floor[k] \in Int
  <2> TAKE k \in DOMAIN Parts
  <2>1. Shares[k] \in Nat
    BY DEF DepreciationAssumption
  <2>2. price * Shares[k] \in Int
    BY <2>1
  <2>3. (price * Shares[k]) \div 10000 \in Int
    BY <2>2
  <2> QED  BY <2>3
<1>2. DOMAIN floor = DOMAIN Parts /\ IsFiniteSet(DOMAIN Parts)
  <2>1. Len(Parts) \in Nat /\ DOMAIN Parts = 1..Len(Parts)
    BY LenProperties DEF DepreciationAssumption
  <2> QED  BY <2>1, FS_Interval
<1>3. Share(price, n) = IF n = Len(Parts) THEN floor[n] + price - SumFunction(floor)
                        ELSE floor[n]
  BY DEF Share
<1> HIDE DEF floor
<1>4. SumFunction(floor) \in Int
  BY <1>1, <1>2, SumInt DEF SumFunction
<1> QED  BY <1>1, <1>3, <1>4

LEMMA StepInstallDwelling ==
  ASSUME DepreciationAssumption, AssetInv, NEW plan \in Plans[Building],
         InstallDwelling(plan.start)
  PROVE  AssetInv'
<1> DEFINE share(r) == IF r = Building THEN property.price
              ELSE Share(property.price, CHOOSE n \in DOMAIN Parts : Parts[n] = r)
           kept == {Building} \cup {c \in PartSet : share(c) > 0}
<1>1. /\ Registered = {}
      /\ register' = [r \in RowSet |-> IF r \in kept
           THEN Created(r, [value |-> share(r), life |-> DwellingLife, start |-> plan.start])
           ELSE None]
      /\ UNCHANGED <<schedule, periods, dotations, reports, property>>
  BY Zenon DEF InstallDwelling, OnlyRegister
<1>2. \A r \in kept : share(r) \in Nat
  <2>1. property.price \in Nat
    BY DEF AssetInv, TypeOK
  <2>2. ASSUME NEW c \in PartSet, share(c) > 0, c # Building PROVE share(c) \in Nat
    <3>1. \E n \in DOMAIN Parts : Parts[n] = c
      BY DEF PartSet, Range
    <3>2. (CHOOSE n \in DOMAIN Parts : Parts[n] = c) \in DOMAIN Parts
      BY <3>1
    <3>3. share(c) \in Int
      BY <2>1, <2>2, <3>2, ShareTyped
    <3> HIDE DEF share
    <3> QED  BY <2>2, <3>3
  <2> QED  BY <2>1, <2>2
<1>3. DwellingLife \in Positive /\ plan.start \in Int
  <2>1. plan \in [value : Nat, life : Positive, start : Int]
    BY DEF DepreciationAssumption, RowSet, Positive
  <2> QED  BY <2>1 DEF DepreciationAssumption, Positive
<1> HIDE DEF share
<1>4. ASSUME NEW r \in RowSet, share(r) \in Nat
      PROVE  Created(r, [value |-> share(r), life |-> DwellingLife, start |-> plan.start]) \in Row
  BY <1>3, <1>4 DEF Created, Row, Labels
<1>5. register' \in [RowSet -> Row \cup {None}]
  <2> HIDE DEF kept
  <2> QED  BY <1>1, <1>2, <1>4
<1>6. \A r \in RowSet : schedule[r] = None
  BY <1>1, ScheduledRow
<1>7. property' \in [price : Nat, seen : Nat]
  BY <1>1 DEF AssetInv, TypeOK
<1> QED  BY <1>1, <1>5, <1>6, <1>7, RegisterGrows

-----------------------------------------------------------------------------
(* Calculation *)

LEMMA RowsFinite ==
  ASSUME DepreciationAssumption
  PROVE  IsFiniteSet(RowSet)
<1>1. ASSUME NEW s \in Seq(RowSet) PROVE IsFiniteSet(Range(s))
  <2>1. Len(s) \in Nat /\ DOMAIN s = 1..Len(s)
    BY LenProperties
  <2>2. IsFiniteSet(DOMAIN s)
    BY <2>1, FS_Interval
  <2>3. s \in Surjection(DOMAIN s, Range(s))
    BY <2>1 DEF Surjection, Range
  <2> QED  BY <2>2, <2>3, FS_Surjection
<1>2. IsFiniteSet(PartSet) /\ IsFiniteSet(ChairSet)
  BY <1>1 DEF DepreciationAssumption, PartSet, ChairSet
<1> QED  BY <1>2, FS_Union, FS_Singleton DEF RowSet

\* Rows have places of their own.
LEMMA Places ==
  ASSUME DepreciationAssumption
  PROVE  \E place : /\ \A r \in RowSet : place[r] \in Nat
                    /\ \A r, q \in RowSet : place[r] = place[q] => r = q
                    /\ \A r, q \in RowSet : Before(r, q) <=> place[r] <= place[q]
<1> DEFINE position(s, x) == CHOOSE n \in DOMAIN s : s[n] = x
           at(x) == IF x \in PartSet THEN position(Parts, x)
                    ELSE IF x = Building THEN 0
                    ELSE Len(Parts) + position(Chairs, x)
           place == [x \in RowSet |-> at(x)]
<1>1. /\ Len(Parts) \in Nat /\ DOMAIN Parts = 1..Len(Parts)
      /\ Len(Chairs) \in Nat /\ DOMAIN Chairs = 1..Len(Chairs)
  BY LenProperties DEF DepreciationAssumption
<1>2. ASSUME NEW s, NEW x \in Range(s)
      PROVE  position(s, x) \in DOMAIN s /\ s[position(s, x)] = x
  BY DEF Range
<1>3. \A x \in PartSet : /\ position(Parts, x) \in 1..Len(Parts)
                         /\ Parts[position(Parts, x)] = x
  BY <1>1, <1>2 DEF PartSet
<1>4. \A x \in ChairSet : /\ position(Chairs, x) \in 1..Len(Chairs)
                          /\ Chairs[position(Chairs, x)] = x
  BY <1>1, <1>2 DEF ChairSet
<1>5. \A r, q \in RowSet : Before(r, q) <=> at(r) <= at(q)
  BY Zenon DEF Before
<1> HIDE DEF position
<1>6. \A r \in RowSet : at(r) \in Nat
  <2>1. \A r \in RowSet : r \in PartSet \/ r = Building \/ r \in ChairSet
    BY DEF RowSet
  <2> QED  BY <1>1, <1>3, <1>4, <2>1
<1>7. ASSUME NEW r \in RowSet, NEW q \in RowSet, at(r) = at(q) PROVE r = q
  <2>1. /\ r \in PartSet \/ r = Building \/ r \in ChairSet
        /\ q \in PartSet \/ q = Building \/ q \in ChairSet
        /\ Building \notin PartSet /\ Building \notin ChairSet
        /\ PartSet \cap ChairSet = {}
    BY DEF RowSet, DepreciationAssumption
  <2>2. CASE r \in PartSet /\ q \in PartSet
    BY <1>3, <1>7, <2>2
  <2>3. CASE r \in ChairSet /\ q \in ChairSet
    <3>1. Len(Parts) + position(Chairs, r) = Len(Parts) + position(Chairs, q)
      BY <1>7, <2>1, <2>3
    <3>2. position(Chairs, r) = position(Chairs, q)
      BY <1>1, <1>4, <2>3, <3>1
    <3> QED  BY <1>4, <2>3, <3>2
  <2>4. CASE r = Building /\ q = Building
    BY <2>4
  <2>5. CASE ~ (r \in PartSet <=> q \in PartSet) \/ ~ (r \in ChairSet <=> q \in ChairSet)
    BY <1>1, <1>3, <1>4, <1>7, <2>1, <2>5
  <2> QED  BY <2>1, <2>2, <2>3, <2>4, <2>5
<1>8. \A r \in RowSet : place[r] = at(r)
  OBVIOUS
<1> HIDE DEF at, place
<1> QED  BY <1>5, <1>6, <1>7, <1>8

LEMMA ImageFinite ==
  ASSUME NEW S, IsFiniteSet(S), NEW f, NEW T, \A t : t \in T <=> \E x \in S : t = f[x]
  PROVE  IsFiniteSet(T)
<1> DEFINE g == [x \in S |-> f[x]]
<1>1. g \in Surjection(S, T)
  BY DEF Surjection
<1> HIDE DEF g
<1> QED  BY <1>1, FS_Surjection

LEMMA MaxIs ==
  ASSUME NEW S, IsFiniteSet(S), S # {}, \A x \in S : x \in Nat
  PROVE  Max(S) \in S /\ \A x \in S : x <= Max(S)
<1> DEFINE up(x) == {y \in S : x <= y}
           T == {up(x) : x \in S}
<1>1. T \in SUBSET SUBSET S /\ T # {}
  OBVIOUS
<1>2. PICK U \in T : \A V \in T : V \subseteq U => V = U
  <2> HIDE DEF T
  <2> QED  BY <1>1, MinimalSubset
<1>3. PICK x \in S : U = up(x)
  OBVIOUS
<1>4. \A y \in S : x >= y
  <2> SUFFICES ASSUME NEW y \in S, ~ (y <= x) PROVE FALSE
    OBVIOUS
  <2>1. y \in Nat /\ x \in Nat
    OBVIOUS
  <2>2. \A z \in Nat : y <= z => x <= z
    BY <2>1
  <2>3. x <= x
    BY <2>1
  <2>4. up(y) \subseteq up(x) /\ x \in up(x) /\ x \notin up(y)
    BY <2>2, <2>3
  <2>5. up(y) \in T
    OBVIOUS
  <2> HIDE DEF up, T
  <2> QED  BY <1>2, <1>3, <2>4, <2>5
<1>5. Max(S) \in S /\ \A y \in S : Max(S) >= y
  BY <1>4 DEF Max
<1> QED  BY <1>5

LEMMA LastIdIs ==
  ASSUME TypeOK
  PROVE  LastId \in Nat /\ \A p \in periods : p.id <= LastId
<1> DEFINE S == {0} \cup {p.id : p \in periods}
           f == [p \in periods |-> p.id]
<1>1. \A p \in periods : p.id \in Nat
  BY DEF TypeOK, Period, Positive
<1>2. IsFiniteSet({p.id : p \in periods})
  <2> DEFINE T == {p.id : p \in periods}
  <2>1. \A t : t \in T <=> \E p \in periods : t = f[p]
    OBVIOUS
  <2>2. IsFiniteSet(periods)
    BY DEF TypeOK
  <2> HIDE DEF f, T
  <2>3. IsFiniteSet(T)
    BY <2>1, <2>2, ImageFinite
  <2> QED  BY <2>3 DEF T
<1>3. IsFiniteSet(S)
  BY <1>2, FS_Singleton, FS_Union
<1>4. (\A n \in S : n \in Nat) /\ S # {} /\ \A p \in periods : p.id \in S
  BY <1>1
<1>5. LastId = Max(S)
  BY DEF LastId
<1> HIDE DEF S
<1>6. Max(S) \in S /\ \A x \in S : x <= Max(S)
  BY <1>3, <1>4, MaxIs
<1> QED  BY <1>4, <1>5, <1>6

\* The ids of new periods are new and differ.
LEMMA NewIds ==
  ASSUME DepreciationAssumption, TypeOK, NEW missing \in SUBSET RowSet,
         NEW id, \A r \in missing :
           id[r] = LastId + Cardinality({q \in missing : Before(q, r)})
  PROVE  /\ \A r \in missing : id[r] \in Nat /\ \A p \in periods : p.id < id[r]
         /\ \A r \in missing : id[r] # 0
         /\ \A r, q \in missing : id[r] = id[q] => r = q
<1>1. PICK place : /\ \A r \in RowSet : place[r] \in Nat
                   /\ \A r, q \in RowSet : place[r] = place[q] => r = q
                   /\ \A r, q \in RowSet : Before(r, q) <=> place[r] <= place[q]
  BY Places
<1>2. IsFiniteSet(missing)
  BY RowsFinite, FS_Subset
<1> DEFINE before == [r \in missing |-> {q \in missing : Before(q, r)}]
           rank == [r \in missing |-> Cardinality(before[r])]
<1>3. \A r \in missing : \A q : q \in before[r] <=> q \in missing /\ place[q] <= place[r]
  BY <1>1
<1>4. \A r \in missing : id[r] = LastId + rank[r]
  OBVIOUS
<1>5. /\ \A r \in missing : rank[r] \in 1..Cardinality(missing)
      /\ \A r, q \in missing : rank[r] = rank[q] => r = q
  <2>1. /\ \A r \in missing : place[r] \in Int
        /\ \A r, q \in missing : place[r] = place[q] => r = q
    BY <1>1
  <2>2. \A r \in missing : rank[r] = Cardinality(before[r])
    OBVIOUS
  <2> HIDE DEF before, rank
  <2> QED  BY <1>2, <1>3, <2>1, <2>2, Ranks
<1> HIDE DEF before, rank
<1>6. Cardinality(missing) \in Nat
  BY <1>2, FS_CardinalityType
<1>7. LastId \in Nat /\ \A p \in periods : p.id \in Nat /\ p.id <= LastId
  BY LastIdIs DEF TypeOK, Period, Positive
<1>8. \A r \in missing : rank[r] \in Nat /\ rank[r] > 0
  BY <1>5, <1>6
<1>9. \A r \in missing : id[r] \in Nat /\ id[r] > LastId
  BY <1>4, <1>7, <1>8
<1>10. \A r, q \in missing : id[r] = id[q] => r = q
  BY <1>4, <1>5, <1>7, <1>8
<1> QED  BY <1>7, <1>9, <1>10

LEMMA DotationTyped ==
  ASSUME DepreciationAssumption, NEW s \in Schedule, NEW y \in Years, Covers(s, y)
  PROVE  Dotation(s, y) \in Int /\ Accrued(s, To(s, y) - s.start + 1) \in Int
<1>1. y \in Positive /\ YearUnits \in Nat
  BY YearsAre DEF DepreciationAssumption, Positive
<1>2. Dotation(s, y) \in Int
  BY <1>1, DotationIs
<1>3. To(s, y) - s.start + 1 \in Int
  <2>1. s.start \in Int /\ s.life \in Int
    BY DEF Schedule, Positive
  <2>2. y * YearUnits \in Int
    BY <1>1 DEF Positive
  <2> QED  BY <2>1, <2>2 DEF To, MinOf, YearTo, EndOf
<1>4. \A k \in Int : Accrued(s, k) \in Int
  BY AccruedMonotone
<1> QED  BY <1>2, <1>3, <1>4

LEMMA StepCalculate ==
  ASSUME DepreciationAssumption, AssetInv, NEW y \in Years, CalculateYear(y)
  PROVE  AssetInv'
<1> DEFINE aligned == [r \in RowSet |-> IF r \in Targets /\ schedule[r] = None
                                       THEN PlanOf(r) ELSE schedule[r]]
           missing == {r \in Targets : /\ Covers(aligned[r], y)
                         /\ ~ \E p \in periods : p.row = r /\ p.year = y}
           id == [r \in missing |-> LastId + Cardinality({q \in missing : Before(q, r)})]
           new == [r \in missing |-> NewPeriod(aligned[r], y, r, id[r])]
<1>1. /\ schedule' = aligned
      /\ periods' = periods \cup {new[r] : r \in missing}
      /\ UNCHANGED <<property, register, dotations, reports>>
  BY DEF CalculateYear
<1>2. \A r \in missing : new[r] = NewPeriod(aligned[r], y, r, id[r])
  OBVIOUS
<1>3. missing \in SUBSET RowSet
  BY DEF Targets, Registered
<1>4. /\ \A r \in missing : id[r] \in Nat /\ \A p \in periods : p.id < id[r]
      /\ \A r \in missing : id[r] # 0
      /\ \A r, q \in missing : id[r] = id[q] => r = q
  <2>1. \A r \in missing : id[r] = LastId + Cardinality({q \in missing : Before(q, r)})
    OBVIOUS
  <2> HIDE DEF missing, id
  <2> QED  BY <1>3, <2>1, NewIds DEF AssetInv
<1> HIDE DEF id, new
<1>5. \A r \in Targets : register[r] \in Row /\ PlanOf(r) \in Schedule /\ r \in RowSet
  BY PlanTyped DEF AssetInv, TypeOK, Targets, Registered
<1>6. \A r \in Targets : aligned[r] = PlanOf(r) /\ aligned[r] \in Schedule
                         /\ aligned[r] # None
  BY <1>5, NoneIsNot DEF AssetInv, SchedulesFollow
<1>7. aligned \in [RowSet -> Schedule \cup {None}]
  BY <1>5 DEF AssetInv, TypeOK
<1>8. \A r \in RowSet : schedule[r] # None => aligned[r] = schedule[r]
  OBVIOUS
<1>9. \A r \in RowSet : aligned[r] # None => r \in Targets
  BY DEF AssetInv, SchedulesFollow
<1>10. \A r \in missing : /\ r \in Targets /\ Covers(aligned[r], y)
                          /\ \A p \in periods : ~ (p.row = r /\ p.year = y)
  OBVIOUS
<1> HIDE DEF aligned, missing
<1>11. \A r \in missing :
         /\ new[r] \in Period /\ new[r].row = r /\ new[r].year = y
         /\ new[r].id = id[r] /\ new[r].entry = 0
         /\ new[r].amount = Dotation(aligned[r], y)
  <2> SUFFICES ASSUME NEW r \in missing
               PROVE  /\ new[r] \in Period /\ new[r].row = r /\ new[r].year = y
                      /\ new[r].id = id[r] /\ new[r].entry = 0
                      /\ new[r].amount = Dotation(aligned[r], y)
    OBVIOUS
  <2> DEFINE amount == Dotation(aligned[r], y)
             accumulated == Accrued(aligned[r], To(aligned[r], y) - aligned[r].start + 1)
  <2>1. amount \in Int /\ accumulated \in Int
    BY <1>6, <1>10, DotationTyped
  <2>2. new[r] = [id |-> id[r], row |-> r, year |-> y, amount |-> amount,
                  accumulated |-> accumulated, entry |-> 0]
    BY <1>2 DEF NewPeriod
  <2>3. id[r] \in Positive /\ r \in RowSet
    BY <1>3, <1>4 DEF Positive
  <2> HIDE DEF amount, accumulated
  <2>4. new[r] \in Period
    BY <2>1, <2>2, <2>3 DEF Period
  <2> QED  BY <2>2, <2>4 DEF amount
<1>12. IsFiniteSet({new[r] : r \in missing})
  <2> DEFINE T == {new[r] : r \in missing}
  <2>1. IsFiniteSet(missing)
    BY <1>3, RowsFinite, FS_Subset
  <2>2. \A t : t \in T <=> \E r \in missing : t = new[r]
    OBVIOUS
  <2> HIDE DEF T
  <2>3. IsFiniteSet(T)
    BY <2>1, <2>2, ImageFinite
  <2> QED  BY <2>3 DEF T
<1>13. TypeOK'
  <2>1. IsFiniteSet(periods')
    BY <1>1, <1>12, FS_Union DEF AssetInv, TypeOK
  <2>2. periods' \in SUBSET Period
    BY <1>1, <1>11 DEF AssetInv, TypeOK
  <2> QED  BY <1>1, <1>7, <2>1, <2>2 DEF AssetInv, TypeOK
<1>14. SchedulesFollow'
  <2>1. Targets' = Targets /\ \A r \in RowSet : PlanOf(r)' = PlanOf(r)
    BY <1>1 DEF Targets, Registered, Decomposed, Components, PlanOf
  <2> QED  BY <1>1, <1>6, <1>9, <2>1 DEF SchedulesFollow
<1>15. \A p \in periods' : p \in periods \/ \E r \in missing : p = new[r]
  BY <1>1
<1>16. PeriodsFollow'
  <2> SUFFICES ASSUME NEW p \in periods'
               PROVE  /\ schedule'[p.row] # None
                      /\ Covers(schedule'[p.row], p.year)
                      /\ p.amount = Dotation(schedule'[p.row], p.year)
    BY DEF PeriodsFollow, Covers, From, To, Dotation
  <2>1. CASE p \in periods
    <3>1. p.row \in RowSet
      BY <2>1 DEF AssetInv, TypeOK, Period
    <3> QED  BY <1>1, <1>8, <2>1, <3>1 DEF AssetInv, PeriodsFollow
  <2>2. CASE \E r \in missing : p = new[r]
    BY <1>1, <1>6, <1>10, <1>11, <2>2
  <2> QED  BY <1>15, <2>1, <2>2
<1>17. Single'
  <2> SUFFICES ASSUME NEW p \in periods', NEW q \in periods',
                      \/ p.id = q.id
                      \/ p.row = q.row /\ p.year = q.year
                      \/ p.entry # 0 /\ p.entry = q.entry
               PROVE  p = q
    BY DEF Single
  <2>1. CASE p \in periods /\ q \in periods
    BY <2>1 DEF AssetInv, Single
  <2>2. \A a \in periods, r \in missing :
          /\ a.id # new[r].id /\ ~ (a.row = new[r].row /\ a.year = new[r].year)
          /\ ~ (a.entry # 0 /\ a.entry = new[r].entry) /\ new[r].entry = 0
    <3> TAKE a \in periods, r \in missing
    <3>1. a.id \in Nat /\ id[r] \in Nat /\ a.id < id[r]
      BY <1>4 DEF AssetInv, TypeOK, Period, Positive
    <3>2. a.id # id[r]
      BY <3>1
    <3> QED  BY <1>10, <1>11, <3>2
  <2>3. CASE p \in periods /\ q \notin periods
    BY <1>15, <2>2, <2>3
  <2>4. CASE p \notin periods /\ q \in periods
    BY <1>15, <2>2, <2>4
  <2>5. CASE p \notin periods /\ q \notin periods
    <3>1. PICK r \in missing, t \in missing : p = new[r] /\ q = new[t]
      BY <1>15, <2>5
    <3>2. r = t
      BY <1>4, <1>11, <3>1
    <3> QED  BY <3>1, <3>2
  <2> QED  BY <2>1, <2>3, <2>4, <2>5
<1>18. Posting'
  BY <1>1, <1>11, <1>15 DEF AssetInv, Posting
<1>19. Reported'
  BY <1>1 DEF AssetInv, Reported
<1> QED  BY <1>13, <1>14, <1>16, <1>17, <1>18, <1>19 DEF AssetInv

-----------------------------------------------------------------------------
(* Posting *)

\* Different periods of the register, and a first part of them.
IsLot(lot, accepted) ==
  /\ \E k \in Nat : DOMAIN lot = 1..k
  /\ \A n \in DOMAIN lot : \E p \in periods : p.id = lot[n]
  /\ \A m, n \in DOMAIN lot : lot[m] = lot[n] => m = n
  /\ accepted \subseteq DOMAIN lot
  /\ \A n \in accepted : 1..n \subseteq accepted

LEMMA PeriodOfIs ==
  ASSUME AssetInv, NEW p \in periods
  PROVE  PeriodOf(p.id) = p
<1>1. PeriodOf(p.id) \in periods /\ PeriodOf(p.id).id = p.id
  BY DEF PeriodOf
<1> QED  BY <1>1 DEF AssetInv, Single

\* The accepted periods that have no entry take the next numbers, in turn.
LEMMA EntriesOfLot ==
  ASSUME AssetInv, NEW lot, NEW accepted, IsLot(lot, accepted),
         NEW N, N = {n \in accepted : PeriodOf(lot[n]).entry = 0}
  PROVE  \E c \in Nat :
           /\ \A n \in N : EntryFor(lot, n) \in (Len(dotations) + 1)..(Len(dotations) + c)
           /\ \A m, n \in N : EntryFor(lot, m) = EntryFor(lot, n) => m = n
           /\ \A k \in (Len(dotations) + 1)..(Len(dotations) + c) :
                \E n \in N : EntryFor(lot, n) = k
           /\ \A n \in accepted \ N :
                /\ EntryFor(lot, n) = PeriodOf(lot[n]).entry
                /\ EntryFor(lot, n) \in 1..Len(dotations)
<1> DEFINE L == Len(dotations)
           before == [n \in accepted |-> {m \in 1..n : PeriodOf(lot[m]).entry = 0}]
           rank == [n \in N |-> Cardinality(before[n])]
           f == [n \in N |-> n]
           c == Cardinality(N)
<1>1. PICK k \in Nat : DOMAIN lot = 1..k
  BY DEF IsLot
<1>2. accepted \subseteq 1..k /\ \A n \in accepted : 1..n \subseteq accepted
  BY <1>1 DEF IsLot
<1>3. L \in Nat /\ DOMAIN dotations = 1..L
  BY LenProperties DEF AssetInv, TypeOK
<1>4. N \subseteq accepted /\ \A n \in accepted : n \in N <=> PeriodOf(lot[n]).entry = 0
  OBVIOUS
<1>5. IsFiniteSet(N)
  <2>1. IsFiniteSet(1..k)
    BY FS_Interval
  <2>2. N \in SUBSET (1..k)
    BY <1>2, <1>4
  <2> QED  BY <2>1, <2>2, FS_Subset
<1>6. \A n \in N : \A m : m \in before[n] <=> m \in N /\ m <= n
  <2> SUFFICES ASSUME NEW n \in N, NEW m PROVE m \in before[n] <=> m \in N /\ m <= n
    OBVIOUS
  <2>1. n \in accepted /\ n \in 1..k
    BY <1>2, <1>4
  <2>2. m \in before[n] <=> m \in 1..n /\ PeriodOf(lot[m]).entry = 0
    BY <2>1
  <2>3. m \in 1..n => m \in accepted /\ m <= n
    BY <1>2, <2>1
  <2>4. m \in N => m \in 1..k
    BY <1>2, <1>4
  <2>5. m \in N /\ m <= n => m \in 1..n
    BY <2>1, <2>4
  <2> HIDE DEF before
  <2> QED  BY <1>4, <2>2, <2>3, <2>5
<1>7. \A n \in accepted : EntryFor(lot, n) =
        IF PeriodOf(lot[n]).entry = 0 THEN L + Cardinality(before[n])
        ELSE PeriodOf(lot[n]).entry
  BY Zenon DEF EntryFor
<1>8. \A n \in N : rank[n] = Cardinality(before[n]) /\ f[n] = n
  OBVIOUS
<1>9. /\ \A n \in N : rank[n] \in 1..c
      /\ \A m, n \in N : rank[m] = rank[n] => m = n
      /\ \A j \in 1..c : \E n \in N : rank[n] = j
  <2>1. \A n \in N : f[n] \in Int
    BY <1>2, <1>4, <1>8
  <2>2. \A m, n \in N : f[m] = f[n] => m = n
    BY <1>8
  <2>3. \A n \in N : \A m : m \in before[n] <=> m \in N /\ f[m] <= f[n]
    BY <1>6, <1>8
  <2> HIDE DEF before, rank, f
  <2>4. \A n \in N : rank[n] = Cardinality(before[n])
    BY <1>8
  <2>5. /\ \A n \in N : rank[n] \in 1..Cardinality(N)
        /\ \A m, n \in N : rank[m] = rank[n] => m = n
        /\ \A j \in 1..Cardinality(N) : \E n \in N : rank[n] = j
    <3>1. RankedBy(N, f, before, rank)
      BY <2>1, <2>2, <2>3, <2>4 DEF RankedBy
    <3>2. NumbersFromOne(N, rank)
      BY <1>5, <3>1, RanksNumber
    <3> QED  BY <3>2 DEF NumbersFromOne
  <2> QED  BY <2>5
<1>10. c \in Nat
  BY <1>5, FS_CardinalityType
<1>11. \A n \in N : EntryFor(lot, n) = L + rank[n]
  BY <1>4, <1>7, <1>8
<1> HIDE DEF before, rank, f, c
<1>12. ASSUME NEW n \in accepted \ N
       PROVE  EntryFor(lot, n) = PeriodOf(lot[n]).entry /\ EntryFor(lot, n) \in 1..L
  <2>1. PICK p \in periods : p.id = lot[n]
    BY DEF IsLot
  <2>2. PeriodOf(lot[n]) = p
    BY <2>1, PeriodOfIs
  <2>3. p.entry # 0
    BY <1>4, <2>2
  <2>4. p.entry \in 1..L
    BY <1>3, <2>3 DEF AssetInv, Posting
  <2> QED  BY <1>7, <2>2, <2>3, <2>4
<1>13. \A n \in N : EntryFor(lot, n) \in (L + 1)..(L + c)
  <2> HIDE DEF L
  <2> QED  BY <1>3, <1>9, <1>10, <1>11
<1>14. \A m, n \in N : EntryFor(lot, m) = EntryFor(lot, n) => m = n
  <2> HIDE DEF L
  <2>1. \A n \in N : rank[n] \in Nat
    BY <1>9, <1>10
  <2> QED  BY <1>3, <1>9, <1>11, <2>1
<1>15. \A j \in (L + 1)..(L + c) : \E n \in N : EntryFor(lot, n) = j
  <2> HIDE DEF L
  <2> SUFFICES ASSUME NEW j \in (L + 1)..(L + c) PROVE \E n \in N : EntryFor(lot, n) = j
    OBVIOUS
  <2>1. j - L \in 1..c /\ L + (j - L) = j
    BY <1>3, <1>10
  <2> QED  BY <1>9, <1>11, <2>1
<1> QED  BY <1>10, <1>12, <1>13, <1>14, <1>15

\* What a posting does: e gives the periods their entries.
Posts(e, c) ==
  /\ c \in Nat
  /\ \A p \in periods :
       /\ p.entry # 0 => e[p] = p.entry
       /\ p.entry = 0 => e[p] = 0 \/ e[p] \in (Len(dotations) + 1)..(Len(dotations) + c)
  /\ \A p, q \in periods : p.entry = 0 /\ q.entry = 0 /\ e[p] # 0 /\ e[p] = e[q] => p = q
  /\ \A k \in (Len(dotations) + 1)..(Len(dotations) + c) :
       \E p \in periods : /\ p.entry = 0 /\ e[p] = k
                          /\ dotations'[k] = [row |-> p.row, year |-> p.year,
                                              amount |-> p.amount]
  /\ dotations' = [k \in 1..(Len(dotations) + c) |-> dotations'[k]]
  /\ \A k \in 1..Len(dotations) : dotations'[k] = dotations[k]
  /\ \A x : x \in periods' <=> \E p \in periods : x = [p EXCEPT !.entry = e[p]]

LEMMA PostDoes ==
  ASSUME AssetInv, NEW lot, NEW accepted, IsLot(lot, accepted), Post(lot, accepted)
  PROVE  \E e, c : /\ Posts(e, c)
                   /\ \A n \in accepted : e[PeriodOf(lot[n])] = EntryFor(lot, n)
<1> DEFINE L == Len(dotations)
           N == {n \in accepted : PeriodOf(lot[n]).entry = 0}
           new == {n \in accepted : EntryFor(lot, n) > L}
           entry(k) == CHOOSE n \in new : EntryFor(lot, n) = k
           M == {L} \cup {EntryFor(lot, n) : n \in new}
           of(p) == CHOOSE n \in new : lot[n] = p.id
           e == [p \in periods |-> IF \E n \in new : lot[n] = p.id
                                   THEN EntryFor(lot, of(p)) ELSE p.entry]
           posted(n) == [row |-> PeriodOf(lot[n]).row, year |-> PeriodOf(lot[n]).year,
                         amount |-> PeriodOf(lot[n]).amount]
<1>1. PICK c \in Nat :
        /\ \A n \in N : EntryFor(lot, n) \in (L + 1)..(L + c)
        /\ \A m, n \in N : EntryFor(lot, m) = EntryFor(lot, n) => m = n
        /\ \A k \in (L + 1)..(L + c) : \E n \in N : EntryFor(lot, n) = k
        /\ \A n \in accepted \ N : /\ EntryFor(lot, n) = PeriodOf(lot[n]).entry
                                  /\ EntryFor(lot, n) \in 1..L
  BY EntriesOfLot
<1>2. L \in Nat /\ DOMAIN dotations = 1..L
  BY LenProperties DEF AssetInv, TypeOK
<1>3. /\ dotations' = [k \in 1..Max(M) |->
                         IF k \in DOMAIN dotations THEN dotations[k] ELSE posted(entry(k))]
      /\ periods' = {IF \E n \in new : lot[n] = p.id
                     THEN [p EXCEPT !.entry = EntryFor(lot, of(p))] ELSE p : p \in periods}
  BY Zenon DEF Post
<1>4. new = N
  <2>1. ASSUME NEW n \in accepted PROVE EntryFor(lot, n) > L <=> n \in N
    <3>1. n \in N => EntryFor(lot, n) > L
      <4> HIDE DEF N, L
      <4> QED  BY <1>1, <1>2
    <3>2. n \notin N => ~ (EntryFor(lot, n) > L)
      <4> HIDE DEF N, L
      <4> QED  BY <1>1, <1>2, <2>1
    <3> QED  BY <3>1, <3>2
  <2>2. N \subseteq accepted
    OBVIOUS
  <2> HIDE DEF N
  <2> QED  BY <2>1, <2>2
<1>5. ASSUME NEW n \in accepted
      PROVE  /\ PeriodOf(lot[n]) \in periods /\ PeriodOf(lot[n]).id = lot[n]
             /\ n \in DOMAIN lot
             /\ n \in N <=> PeriodOf(lot[n]).entry = 0
  <2>1. n \in DOMAIN lot
    BY DEF IsLot
  <2>2. PICK p \in periods : p.id = lot[n]
    BY <2>1 DEF IsLot
  <2> QED  BY <2>1, <2>2, PeriodOfIs
<1>6. \A n \in N : n \in accepted
  OBVIOUS
<1>7. Max(M) = L + c
  <2>1. L + c \in M
    <3>1. CASE c = 0
      BY <1>2, <3>1
    <3>2. CASE c # 0
      <4>1. L + c \in (L + 1)..(L + c)
        <5> HIDE DEF L
        <5> QED  BY <1>2, <3>2
      <4>2. PICK n \in N : EntryFor(lot, n) = L + c
        <5> HIDE DEF L, N
        <5> QED  BY <1>1, <4>1
      <4> HIDE DEF N, new
      <4> QED  BY <1>4, <4>2
    <3> QED  BY <3>1, <3>2
  <2>2. \A x \in M : x \in Nat /\ x <= L + c
    <3>1. \A n \in new : EntryFor(lot, n) \in Nat /\ EntryFor(lot, n) <= L + c
      <4> HIDE DEF L, N, new
      <4> QED  BY <1>1, <1>2, <1>4
    <3>2. L \in Nat /\ L <= L + c
      <4> HIDE DEF L
      <4> QED  BY <1>2
    <3> HIDE DEF new, L
    <3> QED  BY <3>1, <3>2
  <2> HIDE DEF M
  <2>3. \A x \in M : L + c >= x
    BY <1>2, <2>2
  <2>4. Max(M) \in M /\ \A x \in M : Max(M) >= x
    BY <2>1, <2>3 DEF Max
  <2> HIDE DEF L
  <2> QED  BY <1>2, <2>1, <2>2, <2>4
<1>8. \A k \in (L + 1)..(L + c) : entry(k) \in N /\ EntryFor(lot, entry(k)) = k
  <2> HIDE DEF new, N, L
  <2> QED  BY <1>1, <1>4
\* the entries of the periods
<1>9. ASSUME NEW n \in N
      PROVE  of(PeriodOf(lot[n])) = n /\ e[PeriodOf(lot[n])] = EntryFor(lot, n)
  <2> DEFINE p == PeriodOf(lot[n])
  <2>1. p \in periods /\ p.id = lot[n] /\ n \in new
    BY <1>4, <1>5, <1>6
  <2>2. \A m \in new : m \in DOMAIN lot
    BY <1>5
  <2> HIDE DEF new, N, p
  <2>3. of(p) \in new /\ lot[of(p)] = p.id
    BY <2>1
  <2>4. of(p) = n
    BY <2>1, <2>2, <2>3 DEF IsLot
  <2>5. e[p] = EntryFor(lot, n)
    BY <2>1, <2>4
  <2> QED  BY <2>4, <2>5 DEF p
<1>10. ASSUME NEW p \in periods
       PROVE  \/ \E n \in N : p = PeriodOf(lot[n]) /\ lot[n] = p.id
              \/ (\A n \in new : lot[n] # p.id) /\ e[p] = p.entry
  <2>1. CASE \E n \in new : lot[n] = p.id
    <3>1. PICK n \in N : lot[n] = p.id
      <4> HIDE DEF new, N
      <4> QED  BY <1>4, <2>1
    <3> HIDE DEF N
    <3> QED  BY <3>1, PeriodOfIs
  <2>2. CASE ~ \E n \in new : lot[n] = p.id
    <3> HIDE DEF new
    <3> QED  BY <2>2
  <2> QED  BY <2>1, <2>2
<1>11. \A n \in N : PeriodOf(lot[n]).entry = 0
  OBVIOUS
<1>12. \A x : x \in periods' <=> \E p \in periods : x = [p EXCEPT !.entry = e[p]]
  <2> DEFINE moved(p) == IF \E n \in new : lot[n] = p.id
                         THEN [p EXCEPT !.entry = EntryFor(lot, of(p))] ELSE p
             after(p) == [p EXCEPT !.entry = e[p]]
  <2>1. \A x : x \in periods' <=> \E p \in periods : x = moved(p)
    BY <1>3
  <2>2. ASSUME NEW p \in periods PROVE moved(p) = after(p)
    <3>1. CASE \E n \in new : lot[n] = p.id
      <4>1. e[p] = EntryFor(lot, of(p))
        <5> HIDE DEF new, of
        <5> QED  BY <3>1
      <4>2. moved(p) = [p EXCEPT !.entry = EntryFor(lot, of(p))]
        <5> HIDE DEF new, of
        <5> QED  BY <3>1
      <4> HIDE DEF new, of, e, moved
      <4> QED  BY <4>1, <4>2
    <3>2. CASE ~ \E n \in new : lot[n] = p.id
      <4>1. e[p] = p.entry
        <5> HIDE DEF new, of
        <5> QED  BY <3>2
      <4>2. p = [p EXCEPT !.entry = p.entry]
        BY DEF AssetInv, TypeOK, Period
      <4>3. moved(p) = p
        <5> HIDE DEF new, of
        <5> QED  BY <3>2
      <4> HIDE DEF new, of, e, moved
      <4> QED  BY <4>1, <4>2, <4>3
    <3> QED  BY <3>1, <3>2
  <2> HIDE DEF moved, after
  <2>3. \A x : x \in periods' <=> \E p \in periods : x = after(p)
    BY <2>1, <2>2
  <2> QED  BY <2>3 DEF after
<1> HIDE DEF new, N, e, of, entry, M
<1>13. \A p \in periods :
         /\ p.entry # 0 => e[p] = p.entry
         /\ p.entry = 0 => e[p] = 0 \/ e[p] \in (L + 1)..(L + c)
  BY <1>1, <1>9, <1>10, <1>11
<1>14. \A p, q \in periods : p.entry = 0 /\ q.entry = 0 /\ e[p] # 0 /\ e[p] = e[q] => p = q
  <2> SUFFICES ASSUME NEW p \in periods, NEW q \in periods,
                      p.entry = 0, q.entry = 0, e[p] # 0, e[p] = e[q]
               PROVE  p = q
    OBVIOUS
  <2>1. PICK m \in N : p = PeriodOf(lot[m])
    BY <1>10
  <2>2. PICK n \in N : q = PeriodOf(lot[n])
    BY <1>10
  <2>3. EntryFor(lot, m) = EntryFor(lot, n)
    BY <1>9, <2>1, <2>2
  <2> QED  BY <1>1, <2>1, <2>2, <2>3
<1>15. dotations' = [k \in 1..(L + c) |->
                      IF k \in 1..L THEN dotations[k] ELSE posted(entry(k))]
  BY <1>2, <1>3, <1>7
<1> HIDE DEF posted, L
<1>16. /\ dotations' = [k \in 1..(L + c) |-> dotations'[k]]
       /\ \A k \in 1..L : dotations'[k] = dotations[k]
       /\ \A k \in (L + 1)..(L + c) : dotations'[k] = posted(entry(k))
  BY <1>2, <1>15
<1>17. \A k \in (L + 1)..(L + c) :
         \E p \in periods : /\ p.entry = 0 /\ e[p] = k
                            /\ dotations'[k] = [row |-> p.row, year |-> p.year,
                                                amount |-> p.amount]
  <2> SUFFICES ASSUME NEW k \in (L + 1)..(L + c)
               PROVE  \E p \in periods :
                        /\ p.entry = 0 /\ e[p] = k
                        /\ dotations'[k] = [row |-> p.row, year |-> p.year,
                                            amount |-> p.amount]
    OBVIOUS
  <2>1. entry(k) \in N /\ EntryFor(lot, entry(k)) = k
    BY <1>8
  <2>2. /\ PeriodOf(lot[entry(k)]) \in periods /\ PeriodOf(lot[entry(k)]).entry = 0
        /\ e[PeriodOf(lot[entry(k)])] = k
    BY <1>5, <1>6, <1>9, <1>11, <2>1
  <2> QED  BY <1>16, <2>2 DEF posted
<1>18. \A n \in accepted : e[PeriodOf(lot[n])] = EntryFor(lot, n)
  <2> SUFFICES ASSUME NEW n \in accepted, n \notin N
               PROVE  e[PeriodOf(lot[n])] = EntryFor(lot, n)
    BY <1>9
  <2> QED  BY <1>1, <1>5, <1>13
<1>19. Posts(e, c)
  BY <1>12, <1>13, <1>14, <1>16, <1>17 DEF Posts, L
<1> QED  BY <1>18, <1>19

LEMMA PostKeeps ==
  ASSUME AssetInv, NEW e, NEW c, Posts(e, c),
         UNCHANGED <<property, register, schedule>>, DOMAIN reports' = Keys
  PROVE  /\ TypeOK' /\ SchedulesFollow' /\ PeriodsFollow' /\ Single' /\ Posting'
         /\ \A p \in periods : e[p] # 0 =>
              \E x \in periods' : x.id = p.id /\ x.entry = e[p]
<1> DEFINE L == Len(dotations)
           after(p) == [p EXCEPT !.entry = e[p]]
<1>1. /\ c \in Nat
      /\ \A p \in periods : /\ p.entry # 0 => e[p] = p.entry
                            /\ p.entry = 0 => e[p] = 0 \/ e[p] \in (L + 1)..(L + c)
      /\ \A p, q \in periods :
           p.entry = 0 /\ q.entry = 0 /\ e[p] # 0 /\ e[p] = e[q] => p = q
      /\ \A k \in (L + 1)..(L + c) :
           \E p \in periods : /\ p.entry = 0 /\ e[p] = k
                              /\ dotations'[k] = [row |-> p.row, year |-> p.year,
                                                  amount |-> p.amount]
      /\ dotations' = [k \in 1..(L + c) |-> dotations'[k]]
      /\ \A k \in 1..L : dotations'[k] = dotations[k]
  BY DEF Posts
<1>2. \A x : x \in periods' <=> \E p \in periods : x = after(p)
  BY Zenon DEF Posts
<1>3. L \in Nat /\ DOMAIN dotations = 1..L /\ dotations \in [1..L -> DotationEntry]
  BY LenProperties DEF AssetInv, TypeOK
<1> HIDE DEF L
<1>4. \A p \in periods : /\ p \in Period
                         /\ p.entry # 0 => /\ p.entry \in 1..L
                              /\ dotations[p.entry] = [row |-> p.row, year |-> p.year,
                                                       amount |-> p.amount]
  BY <1>3 DEF AssetInv, TypeOK, Posting
<1>5. ASSUME NEW p \in periods PROVE e[p] \in Nat
  <2>1. CASE p.entry # 0
    <3>1. e[p] = p.entry /\ p.entry \in 1..L
      BY <1>1, <1>4, <2>1
    <3> QED  BY <1>3, <3>1
  <2>2. CASE p.entry = 0
    <3>1. e[p] = 0 \/ e[p] \in (L + 1)..(L + c)
      BY <1>1, <2>2
    <3> HIDE DEF after
    <3> QED  BY <1>1, <1>3, <3>1
  <2> QED  BY <2>1, <2>2
<1>6. \A p \in periods : /\ after(p) \in Period
                         /\ after(p).id = p.id /\ after(p).row = p.row
                         /\ after(p).year = p.year /\ after(p).amount = p.amount
                         /\ after(p).entry = e[p]
  <2> TAKE p \in periods
  <2>1. p \in Period /\ e[p] \in Nat
    BY <1>4, <1>5
  <2> QED  BY <2>1 DEF Period
<1>7. IsFiniteSet(periods')
  <2> DEFINE f == [p \in periods |-> after(p)]
  <2>1. \A p \in periods : f[p] = after(p)
    OBVIOUS
  <2> HIDE DEF after, f
  <2>2. \A x : x \in periods' <=> \E p \in periods : x = f[p]
    BY <1>2, <2>1
  <2>3. IsFiniteSet(periods)
    BY DEF AssetInv, TypeOK
  <2> QED  BY <2>2, <2>3, ImageFinite
<1> HIDE DEF after
<1>8. \A x \in periods' : \E p \in periods : x = after(p)
  BY <1>2
<1>9. \A p \in periods : after(p) \in periods'
  BY <1>2
<1>10. /\ DOMAIN dotations' = 1..(L + c)
       /\ \A k \in 1..(L + c) : k \in 1..L \/ k \in (L + 1)..(L + c)
       /\ \A k \in 1..L : k \in 1..(L + c)
       /\ \A k \in (L + 1)..(L + c) : k \in 1..(L + c) /\ k \notin 1..L
  <2>1. DOMAIN dotations' = 1..(L + c)
    BY <1>1, Zenon
  <2> QED  BY <1>1, <1>3, <2>1
<1>11. dotations' \in Seq(DotationEntry)
  <2>1. \A k \in 1..(L + c) : dotations'[k] \in DotationEntry
    <3> SUFFICES ASSUME NEW k \in 1..(L + c) PROVE dotations'[k] \in DotationEntry
      OBVIOUS
    <3>1. CASE k \in 1..L
      BY <1>1, <1>3, <3>1
    <3>2. CASE k \in (L + 1)..(L + c)
      <4>1. PICK p \in periods :
              dotations'[k] = [row |-> p.row, year |-> p.year, amount |-> p.amount]
        BY <1>1, <3>2
      <4>2. p.row \in RowSet /\ p.year \in Years /\ p.amount \in Int
        BY <1>4 DEF Period
      <4> QED  BY <4>1, <4>2 DEF DotationEntry
    <3> QED  BY <1>10, <3>1, <3>2
  <2>2. L + c \in Nat
    BY <1>1, <1>3
  <2> DEFINE n == L + c
             s == [k \in 1..n |-> dotations'[k]]
  <2> HIDE DEF n
  <2>3. s \in [1..n -> DotationEntry]
    BY <2>1 DEF n
  <2>4. dotations' = s
    BY <1>1 DEF n
  <2> HIDE DEF s
  <2>5. n \in Nat
    BY <2>2 DEF n
  <2>6. s \in Seq(DotationEntry)
    BY <2>3, <2>5, SeqDef
  <2> QED  BY <2>4, <2>6
<1>12. TypeOK'
  <2>1. periods' \in SUBSET Period
    BY <1>6, <1>8
  <2> QED  BY <1>7, <1>11, <2>1 DEF AssetInv, TypeOK
<1>13. SchedulesFollow'
  BY DEF AssetInv, SchedulesFollow, Targets, Registered, Decomposed, Components, PlanOf
<1>14. PeriodsFollow'
  <2> SUFFICES ASSUME NEW p \in periods
               PROVE  /\ schedule[after(p).row] # None
                      /\ Covers(schedule[after(p).row], after(p).year)
                      /\ after(p).amount = Dotation(schedule[after(p).row], after(p).year)
    BY <1>8 DEF PeriodsFollow
  <2> QED  BY <1>6 DEF AssetInv, PeriodsFollow
<1>15. Single'
  <2> SUFFICES ASSUME NEW p \in periods, NEW q \in periods,
                      \/ p.id = q.id
                      \/ p.row = q.row /\ p.year = q.year
                      \/ e[p] # 0 /\ e[p] = e[q]
               PROVE  p = q
    BY <1>6, <1>8 DEF Single
  <2>1. CASE e[p] # 0 /\ e[p] = e[q]
    <3>1. CASE p.entry # 0 /\ q.entry # 0
      BY <1>1, <2>1, <3>1 DEF AssetInv, Single
    <3>2. CASE p.entry = 0 /\ q.entry = 0
      BY <1>1, <2>1, <3>2
    <3>3. CASE ~ (p.entry = 0 <=> q.entry = 0)
      BY <1>1, <1>4, <1>10, <2>1, <3>3
    <3> QED  BY <3>1, <3>2, <3>3
  <2>2. CASE p.id = q.id
    BY <2>2 DEF AssetInv, Single
  <2>3. CASE p.row = q.row /\ p.year = q.year
    BY <2>3 DEF AssetInv, Single
  <2> QED  BY <2>1, <2>2, <2>3
<1>16. Posting'
  <2>1. ASSUME NEW p \in periods, e[p] # 0
        PROVE  /\ e[p] \in DOMAIN dotations'
               /\ dotations'[e[p]] = [row |-> p.row, year |-> p.year, amount |-> p.amount]
    <3>1. CASE p.entry # 0
      BY <1>1, <1>4, <1>10, <3>1
    <3>2. CASE p.entry = 0
      <4>1. e[p] \in (L + 1)..(L + c)
        BY <1>1, <2>1, <3>2
      <4>2. PICK q \in periods : /\ q.entry = 0 /\ e[q] = e[p]
                                /\ dotations'[e[p]] = [row |-> q.row, year |-> q.year,
                                                       amount |-> q.amount]
        BY <1>1, <4>1
      <4>3. p = q
        BY <1>1, <2>1, <3>2, <4>2
      <4> QED  BY <1>10, <4>1, <4>2, <4>3
    <3> QED  BY <3>1, <3>2
  <2>2. ASSUME NEW n \in DOMAIN dotations' PROVE \E p \in periods : e[p] = n
    <3>1. CASE n \in 1..L
      <4>1. PICK p \in periods : p.entry = n
        BY <1>3, <3>1 DEF AssetInv, Posting
      <4>2. n # 0
        BY <1>3, <3>1
      <4> QED  BY <1>1, <4>1, <4>2
    <3>2. CASE n \in (L + 1)..(L + c)
      BY <1>1, <3>2
    <3> QED  BY <1>10, <3>1, <3>2
  <2>3. ASSUME NEW x \in periods', x.entry # 0
        PROVE  /\ x.entry \in DOMAIN dotations'
               /\ dotations'[x.entry] = [row |-> x.row, year |-> x.year, amount |-> x.amount]
    <3>1. PICK p \in periods : x = after(p)
      BY <1>8
    <3>2. e[p] # 0 /\ x.entry = e[p] /\ x.row = p.row /\ x.year = p.year /\ x.amount = p.amount
      BY <1>6, <2>3, <3>1
    <3> QED  BY <2>1, <3>2
  <2>4. ASSUME NEW n \in DOMAIN dotations' PROVE \E x \in periods' : x.entry = n
    BY <1>6, <1>9, <2>2
  <2> QED  BY <2>3, <2>4 DEF Posting
<1>17. \A p \in periods : e[p] # 0 => \E x \in periods' : x.id = p.id /\ x.entry = e[p]
  BY <1>6, <1>9
<1> QED  BY <1>12, <1>13, <1>14, <1>15, <1>16, <1>17

\* Reports announced keep standing.
LEMMA ReportedKept ==
  ASSUME AssetInv, NEW e, NEW c, Posts(e, c),
         \A p \in periods : e[p] # 0 =>
              \E x \in periods' : x.id = p.id /\ x.entry = e[p],
         NEW report \in Keys, reports[report] # None,
         NEW n \in DOMAIN reports[report].lot, reports[report].entries[n] # 0
  PROVE  \E p \in periods' : /\ p.id = reports[report].lot[n]
                             /\ p.entry = reports[report].entries[n]
<1>1. PICK p \in periods : /\ p.id = reports[report].lot[n]
                          /\ p.entry = reports[report].entries[n]
  BY DEF AssetInv, Reported
<1>2. e[p] = p.entry
  BY <1>1 DEF Posts
<1> QED  BY <1>1, <1>2

LEMMA StepPostPeriod ==
  ASSUME AssetInv, NEW id, PostPeriod(id)
  PROVE  AssetInv'
<1>1. /\ \E p \in periods : p.id = id
      /\ Post(<<id>>, {1}) /\ UNCHANGED reports
  BY DEF PostPeriod
<1>2. IsLot(<<id>>, {1})
  <2>1. DOMAIN <<id>> = 1..1 /\ <<id>>[1] = id /\ 1..1 = {1}
    OBVIOUS
  <2> DEFINE lot == <<id>>
  <2> HIDE DEF lot
  <2>2. DOMAIN lot = 1..1 /\ lot[1] = id
    BY <2>1 DEF lot
  <2>3. IsLot(lot, {1})
    BY <1>1, <2>1, <2>2 DEF IsLot
  <2> QED  BY <2>3 DEF lot
<1>3. PICK e, c : Posts(e, c)
  BY <1>1, <1>2, PostDoes
<1>4. /\ UNCHANGED <<property, register, schedule>>
      /\ DOMAIN reports' = Keys
  BY <1>1 DEF Post, AssetInv, TypeOK
<1>5. /\ TypeOK' /\ SchedulesFollow' /\ PeriodsFollow' /\ Single' /\ Posting'
      /\ \A p \in periods : e[p] # 0 =>
           \E x \in periods' : x.id = p.id /\ x.entry = e[p]
  BY <1>3, <1>4, PostKeeps
<1>6. Reported'
  BY <1>1, <1>3, <1>5, ReportedKept DEF Reported
<1> QED  BY <1>5, <1>6 DEF AssetInv

LEMMA StepPostBatch ==
  ASSUME DepreciationAssumption, AssetInv, NEW key \in Keys, NEW y \in Years,
         NEW lot \in Lots, PostBatch(key, y, lot)
  PROVE  AssetInv'
<1> DEFINE accepted == Accepted(y, lot)
           report == [lot |-> lot, entries |-> [n \in DOMAIN lot |->
                        IF n \in accepted THEN EntryFor(lot, n) ELSE 0]]
<1>1. /\ Post(lot, accepted) /\ reports' = [reports EXCEPT ![key] = report]
  BY Zenon DEF PostBatch
<1>2. PICK k \in 1..MaxLot : /\ lot \in [1..k -> {p.id : p \in periods}]
                            /\ \A a, b \in 1..k : a # b => lot[a] # lot[b]
  BY DEF Lots
<1>3. DOMAIN lot = 1..k /\ k \in Nat /\ \A n \in 1..k : \E p \in periods : p.id = lot[n]
  <2>1. k \in Nat
    BY DEF DepreciationAssumption
  <2>2. \A n \in 1..k : lot[n] \in {p.id : p \in periods}
    BY <1>2
  <2> QED  BY <1>2, <2>1, <2>2
<1>4. accepted \subseteq DOMAIN lot /\ \A n \in accepted : 1..n \subseteq accepted
  <2> DEFINE fine(n) == \E p \in periods : p.id = lot[n] /\ p.year = y /\ Postable(p)
  <2>1. accepted = {n \in 1..k : \A m \in 1..n : fine(m)}
    BY <1>3, Zenon DEF Accepted
  <2> HIDE DEF fine, accepted
  <2>2. \A n \in 1..k : \A m \in 1..n : m \in 1..k /\ \A j \in 1..m : j \in 1..n
    BY <1>3
  <2> QED  BY <1>3, <2>1, <2>2
<1> HIDE DEF accepted
<1>5. IsLot(lot, accepted)
  BY <1>2, <1>3, <1>4 DEF IsLot
<1>6. PICK e, c : /\ Posts(e, c)
                  /\ \A n \in accepted : e[PeriodOf(lot[n])] = EntryFor(lot, n)
  BY <1>1, <1>5, PostDoes
<1>7. /\ UNCHANGED <<property, register, schedule>>
      /\ DOMAIN reports = Keys /\ DOMAIN reports' = Keys
  BY <1>1 DEF Post, AssetInv, TypeOK
<1>8. /\ TypeOK' /\ SchedulesFollow' /\ PeriodsFollow' /\ Single' /\ Posting'
      /\ \A p \in periods : e[p] # 0 =>
           \E x \in periods' : x.id = p.id /\ x.entry = e[p]
  BY <1>6, <1>7, PostKeeps
<1>9. report.lot = lot /\ DOMAIN report.entries = DOMAIN lot
      /\ \A n \in DOMAIN lot : report.entries[n] # 0 =>
           n \in accepted /\ report.entries[n] = EntryFor(lot, n)
  OBVIOUS
<1> HIDE DEF report
<1>10. ASSUME NEW n \in DOMAIN lot, report.entries[n] # 0
       PROVE  \E p \in periods' : p.id = report.lot[n] /\ p.entry = report.entries[n]
  <2>1. PICK p \in periods : p.id = lot[n]
    BY <1>3
  <2>2. PeriodOf(lot[n]) = p
    BY <2>1, PeriodOfIs
  <2>3. n \in accepted /\ e[p] = report.entries[n]
    BY <1>6, <1>9, <1>10, <2>2
  <2> QED  BY <1>8, <1>9, <1>10, <2>1, <2>3
<1>11. Reported'
  <2> SUFFICES ASSUME NEW other \in Keys, reports'[other] # None,
                      NEW n \in DOMAIN reports'[other].lot, reports'[other].entries[n] # 0
               PROVE  \E p \in periods' : /\ p.id = reports'[other].lot[n]
                                          /\ p.entry = reports'[other].entries[n]
    BY DEF Reported
  <2>1. CASE other = key
    BY <1>1, <1>7, <1>9, <1>10, <2>1
  <2>2. CASE other # key
    <3>1. reports'[other] = reports[other]
      BY <1>1, <1>7, <2>2
    <3> QED  BY <1>6, <1>8, <3>1, ReportedKept
  <2> QED  BY <2>1, <2>2
<1> QED  BY <1>8, <1>11 DEF AssetInv

-----------------------------------------------------------------------------
(* Corrections *)

\* A row with a posted period keeps its plan.
LEMMA PostedLocks ==
  ASSUME NEW r, Posted(r) # {}
  PROVE  {"value", "life", "start"} \subseteq Locks(r)
<1> DEFINE A == IF Posted(r) # {} THEN {"value", "life", "start"}
                ELSE IF Decomposed(r) /\ \E c \in Components : Posted(c) # {} THEN {"value"}
                ELSE {}
<1>1. A = {"value", "life", "start"}
  OBVIOUS
<1>2. A \subseteq Locks(r)
  <2> HIDE DEF A
  <2> SUFFICES ASSUME NEW f \in A PROVE f \in Locks(r)
    OBVIOUS
  <2> QED  BY Zenon DEF Locks, A
<1> QED  BY <1>1, <1>2, Zenon

LEMMA StepCorrect ==
  ASSUME DepreciationAssumption, AssetInv, NEW r \in Registered, NEW plan \in Row,
         Correct(r, plan)
  PROVE  AssetInv'
<1> DEFINE changed == {f \in DOMAIN plan : plan[f] # register[r][f]}
           fresh == [base |-> plan.value, life |-> plan.life, start |-> plan.start]
<1>1. /\ changed # {} /\ changed \cap Locks(r) = {}
      /\ register' = [register EXCEPT ![r] = plan]
      /\ IF changed = {"label"}
         THEN UNCHANGED <<schedule, periods, computed, status>>
         ELSE /\ schedule' = IF schedule[r] = None THEN schedule
                             ELSE [schedule EXCEPT ![r] = fresh]
              /\ periods' = periods \ Released(r)
              /\ InvalidateOpen
      /\ UNCHANGED <<property, dotations, books, reports>>
  BY Zenon DEF Correct
<1>2. r \in RowSet /\ register[r] \in Row /\ register[r] # None
  BY DEF Registered, AssetInv, TypeOK
<1>3. DOMAIN plan = {"value", "life", "start", "label"}
  BY DEF Row
<1>4. plan # None
  BY NoneIsNot
<1>5. /\ register \in [RowSet -> Row \cup {None}]
      /\ schedule \in [RowSet -> Schedule \cup {None}]
  BY DEF AssetInv, TypeOK
<1>6. register' \in [RowSet -> Row \cup {None}] /\ register'[r] = plan
      /\ \A q \in RowSet : q # r => register'[q] = register[q]
  BY <1>1, <1>2, <1>5
<1>7. Registered' = Registered /\ Targets' = Targets
  <2>1. \A q \in RowSet : register'[q] # None <=> register[q] # None
    BY <1>2, <1>4, <1>6
  <2>2. Registered' = Registered
    BY <2>1 DEF Registered
  <2> QED  BY <2>2 DEF Targets, Decomposed, Components
<1>8. property' \in [price : Nat, seen : Nat] /\ UNCHANGED <<dotations, reports>>
  BY <1>1 DEF AssetInv, TypeOK
<1>9. CASE changed = {"label"}
  <2>1. plan.value = register[r].value /\ plan.life = register[r].life
        /\ plan.start = register[r].start
    <3>1. \A f \in {"value", "life", "start"} : plan[f] = register[r][f]
      <4>1. \A f \in {"value", "life", "start"} : f \in DOMAIN plan /\ f # "label"
        BY <1>3
      <4> QED  BY <1>9, <4>1
    <3> QED  BY <3>1
  <2>2. \A q \in RowSet : PlanOf(q)' = PlanOf(q)
    BY <1>6, <2>1 DEF PlanOf
  <2>3. UNCHANGED <<schedule, periods, dotations, reports>>
    BY <1>1, <1>8, <1>9, Zenon
  <2> QED  BY <1>6, <1>7, <1>8, <2>2, <2>3, ScheduledRow, PlansStay
<1>10. CASE changed # {"label"}
  <2>1. /\ schedule' = IF schedule[r] = None THEN schedule
                       ELSE [schedule EXCEPT ![r] = fresh]
        /\ periods' = periods \ Released(r)
    BY <1>1, <1>10, Zenon
  <2>2. Posted(r) = {}
    <3> SUFFICES ASSUME Posted(r) # {} PROVE FALSE
      OBVIOUS
    <3>1. {"value", "life", "start"} \subseteq Locks(r)
      BY PostedLocks
    <3>2. changed \subseteq {"value", "life", "start", "label"}
      BY <1>3
    <3> HIDE DEF changed
    <3> QED  BY <1>1, <1>10, <3>1, <3>2
  <2>3. \A p \in periods : p \in periods' <=> p.row # r
    BY <2>1, <2>2 DEF Released, Calculated, Posted
  <2>4. periods' \subseteq periods
    BY <2>1
  <2>5. \A p \in periods : p.entry # 0 => p \in periods'
    BY <2>1 DEF Released, Calculated
  <2>6. fresh \in Schedule /\ fresh # None /\ PlanOf(r)' = fresh
    <3>1. fresh \in Schedule
      BY DEF Row, Schedule
    <3> QED  BY <1>6, <3>1, NoneIsNot DEF PlanOf
  <2> HIDE DEF changed, fresh
  <2>7. /\ schedule' \in [RowSet -> Schedule \cup {None}]
        /\ \A q \in RowSet : q # r => schedule'[q] = schedule[q]
        /\ schedule[r] = None => schedule'[r] = None
        /\ schedule[r] # None => schedule'[r] = fresh
    BY <1>2, <1>5, <2>1, <2>6
  <2>8. TypeOK'
    <3>1. IsFiniteSet(periods') /\ periods' \in SUBSET Period
      BY <2>4, FS_Subset DEF AssetInv, TypeOK
    <3> QED  BY <1>6, <1>8, <2>7, <3>1 DEF AssetInv, TypeOK
  <2>9. SchedulesFollow'
    <3> SUFFICES ASSUME NEW q \in RowSet, schedule'[q] # None
                 PROVE  q \in Targets' /\ schedule'[q] = PlanOf(q)'
      BY DEF SchedulesFollow
    <3>1. CASE q = r
      BY <1>7, <2>6, <2>7, <3>1, ScheduledRow
    <3>2. CASE q # r
      <4>1. schedule[q] # None /\ schedule'[q] = schedule[q] /\ register'[q] = register[q]
        BY <1>6, <2>7, <3>2
      <4> QED  BY <1>7, <4>1, ScheduledRow DEF PlanOf
    <3> QED  BY <3>1, <3>2
  <2>10. PeriodsFollow'
    <3> SUFFICES ASSUME NEW p \in periods'
                 PROVE  /\ schedule'[p.row] # None
                        /\ Covers(schedule'[p.row], p.year)
                        /\ p.amount = Dotation(schedule'[p.row], p.year)
      BY DEF PeriodsFollow
    <3>1. p \in periods /\ p.row # r /\ p.row \in RowSet
      BY <2>3, <2>4 DEF AssetInv, TypeOK, Period
    <3> QED  BY <2>7, <3>1 DEF AssetInv, PeriodsFollow
  <2>11. Single'
    BY <2>4 DEF AssetInv, Single
  <2>12. Posting'
    <3>1. DOMAIN dotations \subseteq Nat \ {0}
      <4>1. DOMAIN dotations = 1..Len(dotations) /\ Len(dotations) \in Nat
        BY LenProperties DEF AssetInv, TypeOK
      <4> QED  BY <4>1
    <3>2. \A n \in DOMAIN dotations : \E p \in periods' : p.entry = n
      BY <2>5, <3>1 DEF AssetInv, Posting
    <3> QED  BY <1>8, <2>4, <3>2 DEF AssetInv, Posting
  <2>13. Reported'
    BY <1>8, <2>5 DEF AssetInv, Reported
  <2> QED  BY <2>8, <2>9, <2>10, <2>11, <2>12, <2>13 DEF AssetInv
<1> QED  BY <1>9, <1>10

-----------------------------------------------------------------------------
(* The theorems *)

LEMMA StepInv ==
  ASSUME DepreciationAssumption, AssetInv, Next
  PROVE  AssetInv'
<1> USE DEF Dwelling, Create, CorrectRow, Rename, Calculate, PostDotations, Book, YearSteps
<1>1. property \in [price : Nat, seen : Nat]
  BY DEF AssetInv, TypeOK
<1>2. ASSUME PreviewDwelling PROVE AssetInv'
  <2>1. property' \in [price : Nat, seen : Nat]
    BY <1>1, <1>2 DEF PreviewDwelling
  <2> QED  BY <1>2, <2>1, SameRegister DEF PreviewDwelling, OnlyRegister
<1>3. ASSUME NEW price \in Prices, CorrectProperty(price) PROVE AssetInv'
  <2>1. price \in Nat
    BY DEF DepreciationAssumption
  <2>2. property' \in [price : Nat, seen : Nat]
    BY <1>1, <1>3, <2>1 DEF CorrectProperty
  <2> QED  BY <1>3, <2>2, SameRegister DEF CorrectProperty
<1>4. ASSUME NEW r \in Registered, NEW plan \in Plans[r],
             Correct(r, [value |-> plan.value, life |-> plan.life,
                         start |-> plan.start, label |-> register[r].label])
      PROVE  AssetInv'
  <2>1. r \in RowSet /\ register[r] \in Row
    BY DEF Registered, AssetInv, TypeOK
  <2>2. plan \in [value : Nat, life : Positive, start : Int]
    BY <2>1 DEF DepreciationAssumption, Positive
  <2>3. [value |-> plan.value, life |-> plan.life,
         start |-> plan.start, label |-> register[r].label] \in Row
    BY <2>1, <2>2 DEF Row
  <2> QED  BY <1>4, <2>3, StepCorrect
<1>5. ASSUME NEW r \in Registered, Correct(r, [register[r] EXCEPT !.label = OtherLabel])
      PROVE  AssetInv'
  <2>1. register[r] \in Row
    BY DEF Registered, AssetInv, TypeOK
  <2>2. [register[r] EXCEPT !.label = OtherLabel] \in Row
    BY <2>1 DEF Row, Labels
  <2> QED  BY <1>5, <2>2, StepCorrect
<1>6. ASSUME Book PROVE AssetInv'
  <2>1. UNCHANGED <<property, register, schedule, periods, dotations, reports>>
    BY <1>6 DEF EnterProperty, ReverseProperty, PostGross, Move
  <2> QED  BY <1>1, <2>1, SameRegister
<1>7. ASSUME YearSteps PROVE AssetInv'
  <2>1. UNCHANGED <<property, register, schedule, periods, dotations, reports>>
    BY <1>7 DEF ComputeFiscal, MarkReady, CloseYear, ReopenYear, SetStatus
  <2> QED  BY <1>1, <2>1, SameRegister
<1>8. ASSUME Dwelling PROVE AssetInv'
  BY <1>2, <1>3, <1>8, StepInstallDwelling
<1>9. ASSUME Create PROVE AssetInv'
  BY <1>9, StepCreateAsset, StepCreateComponent
<1>10. ASSUME Calculate PROVE AssetInv'
  BY <1>10, StepCalculate
<1>11. ASSUME PostDotations PROVE AssetInv'
  BY <1>11, StepPostPeriod, StepPostBatch
<1> QED  BY <1>4, <1>5, <1>6, <1>7, <1>8, <1>9, <1>10, <1>11 DEF Next

LEMMA StutterInv ==
  ASSUME AssetInv, UNCHANGED vars
  PROVE  AssetInv'
<1>1. UNCHANGED <<property, register, schedule, periods, dotations, reports>>
  BY DEF vars
<1>2. property' \in [price : Nat, seen : Nat]
  BY <1>1 DEF AssetInv, TypeOK
<1> QED  BY <1>1, <1>2, SameRegister

LEMMA AssetInvHolds ==
  ASSUME DepreciationAssumption
  PROVE  Spec => []AssetInv
<1>1. Init => AssetInv
  BY Initially
<1>2. AssetInv /\ [Next]_vars => AssetInv'
  BY StepInv, StutterInv
<1> QED  BY <1>1, <1>2, PTL DEF Spec

LEMMA BooksFollow ==
  ASSUME DepreciationAssumption, AssetInv
  PROVE  BooksFollowRegister
<1>1. ASSUME NEW p \in periods PROVE schedule[p.row] = PlanOf(p.row)
  <2>1. p.row \in RowSet /\ schedule[p.row] # None
    BY DEF AssetInv, TypeOK, Period, PeriodsFollow
  <2> QED  BY <2>1, ScheduledRow
<1>2. \A p \in periods : /\ Covers(PlanOf(p.row), p.year)
                         /\ p.amount = Dotation(PlanOf(p.row), p.year)
  BY <1>1 DEF AssetInv, PeriodsFollow
<1>3. \A p \in periods : p.entry # 0 => dotations[p.entry] =
                         [row |-> p.row, year |-> p.year, amount |-> p.amount]
  BY DEF AssetInv, Posting
<1>4. \A r \in RowSet : schedule[r] # None => r \in Targets /\ schedule[r] = PlanOf(r)
  BY ScheduledRow
<1> QED  BY <1>2, <1>3, <1>4 DEF BooksFollowRegister

\* What was calculated or posted is what the register gives for that year, for
\* any assets and plans: no correction, decomposition or posting leaves a
\* schedule, a period or an entry behind.
THEOREM BooksFollowRegisterHolds ==
  ASSUME DepreciationAssumption
  PROVE  Spec => []BooksFollowRegister
<1>1. AssetInv => BooksFollowRegister
  BY BooksFollow
<1> QED  BY <1>1, AssetInvHolds, PTL

LEMMA PostedOnce ==
  ASSUME DepreciationAssumption, AssetInv
  PROVE  DotationOnce
<1>1. ASSUME NEW n \in DOMAIN dotations
      PROVE  \E p \in periods : \A q \in periods : q.entry = n <=> q = p
  <2>1. n # 0
    <3>1. DOMAIN dotations = 1..Len(dotations) /\ Len(dotations) \in Nat
      BY LenProperties DEF AssetInv, TypeOK
    <3> QED  BY <3>1
  <2>2. PICK p \in periods : p.entry = n
    BY DEF AssetInv, Posting
  <2>3. \A q \in periods : q.entry = n => q = p
    BY <2>1, <2>2 DEF AssetInv, Single
  <2> QED  BY <2>2, <2>3
<1> QED  BY <1>1 DEF DotationOnce, AssetInv, Reported

\* A dotation is posted once, for any lots, keys and orders of posting: every
\* entry is that of one period, and what a report announced still stands.
THEOREM DotationOnceHolds ==
  ASSUME DepreciationAssumption
  PROVE  Spec => []DotationOnce
<1>1. AssetInv => DotationOnce
  BY PostedOnce
<1> QED  BY <1>1, AssetInvHolds, PTL

LEMMA PlanDepreciated ==
  ASSUME DepreciationAssumption, AssetInv
  PROVE  WholePlanDepreciated
<1> SUFFICES ASSUME NEW r \in Targets,
                    NEW of, of = {p \in periods : p.row = r},
                    NEW total, total = SumFunctionOnSet([p \in of |-> p.amount], of)
             PROVE  /\ total <= register[r].value
                    /\ (/\ YearFrom(1) <= register[r].start
                        /\ EndOf(PlanOf(r)) <= YearTo(Max(Years))
                        /\ \A y \in Years : Covers(PlanOf(r), y) => \E p \in of : p.year = y)
                       => total = register[r].value
  BY DEF WholePlanDepreciated
<1>1. r \in RowSet /\ register[r] \in Row
  BY DEF Targets, Registered, AssetInv, TypeOK
<1>2. /\ PlanOf(r) \in Schedule /\ PlanOf(r).base = register[r].value
      /\ PlanOf(r).start = register[r].start
  BY <1>1, PlanTyped DEF PlanOf
<1>3. IsFiniteSet(of)
  <2>1. of \in SUBSET periods /\ IsFiniteSet(periods)
    BY DEF AssetInv, TypeOK
  <2> QED  BY <2>1, FS_Subset
<1>4. \A p \in of : p.year \in Years /\ Covers(PlanOf(r), p.year)
                    /\ p.amount = Dotation(PlanOf(r), p.year)
  <2> SUFFICES ASSUME NEW p \in of
               PROVE  p.year \in Years /\ Covers(PlanOf(r), p.year)
                      /\ p.amount = Dotation(PlanOf(r), p.year)
    OBVIOUS
  <2>1. p \in periods /\ p.row = r
    OBVIOUS
  <2>2. p.year \in Years /\ schedule[r] # None
        /\ Covers(schedule[r], p.year) /\ p.amount = Dotation(schedule[r], p.year)
    BY <2>1 DEF AssetInv, TypeOK, Period, PeriodsFollow
  <2>3. schedule[r] = PlanOf(r)
    BY <1>1, <2>2, ScheduledRow
  <2> QED  BY <2>2, <2>3
<1>5. \A p, q \in of : p.year = q.year => p = q
  BY DEF AssetInv, Single
<1> HIDE DEF PlanOf
<1>6. /\ total <= PlanOf(r).base
      /\ (/\ YearFrom(1) <= PlanOf(r).start
          /\ EndOf(PlanOf(r)) <= YearTo(Max(Years))
          /\ \A y \in Years : Covers(PlanOf(r), y) => \E p \in of : p.year = y)
         => total = PlanOf(r).base
  BY <1>2, <1>3, <1>4, <1>5, PlanTotals
<1> QED  BY <1>2, <1>6

\* The periods of a plan never depreciate more than its base, and exactly the
\* base once there is one for each of its years, all of them exercises: for any
\* value, life and start, any length of the exercises and any number of them.
THEOREM WholePlanDepreciatedHolds ==
  ASSUME DepreciationAssumption
  PROVE  Spec => []WholePlanDepreciated
<1>1. AssetInv => WholePlanDepreciated
  BY PlanDepreciated
<1> QED  BY <1>1, AssetInvHolds, PTL

LEMMA ReportsKept ==
  ASSUME AssetInv, Next, NEW key \in Keys, reports[key] # None
  PROVE  reports'[key] = reports[key]
<1>1. ASSUME NEW other \in Keys, NEW y \in Years, NEW lot \in Lots,
             PostBatch(other, y, lot)
      PROVE  reports'[key] = reports[key]
  <2>1. reports[other] = None /\ \E report : reports' = [reports EXCEPT ![other] = report]
    BY <1>1 DEF PostBatch, Stored
  <2> QED  BY <2>1
<1>2. ASSUME NEW id, PostPeriod(id) PROVE reports' = reports
  BY <1>2 DEF PostPeriod
<1>3. ASSUME Dwelling PROVE reports' = reports
  BY <1>3 DEF Dwelling, PreviewDwelling, CorrectProperty, InstallDwelling, OnlyRegister
<1>4. ASSUME Create PROVE reports' = reports
  BY <1>4 DEF Create, CreateAsset, CreateComponent, OnlyRegister
<1>5. ASSUME CorrectRow \/ Rename PROVE reports' = reports
  BY <1>5, Zenon DEF CorrectRow, Rename, Correct
<1>6. ASSUME Calculate PROVE reports' = reports
  BY <1>6, Zenon DEF Calculate, CalculateYear
<1>7. ASSUME Book \/ YearSteps PROVE reports' = reports
  BY <1>7 DEF Book, YearSteps, EnterProperty, ReverseProperty, PostGross, Move,
             ComputeFiscal, MarkReady, CloseYear, ReopenYear, SetStatus
<1> QED  BY <1>1, <1>2, <1>3, <1>4, <1>5, <1>6, <1>7 DEF Next, PostDotations

\* A stored report is never changed or taken back, whatever is sent again.
THEOREM ReportStandsHolds ==
  ASSUME DepreciationAssumption
  PROVE  Spec => ReportStands
<1>1. AssetInv /\ [Next]_vars =>
        [\A key \in Keys : reports[key] # None => reports'[key] = reports[key]]_vars
  BY ReportsKept DEF vars
<1> QED  BY <1>1, AssetInvHolds, PTL DEF ReportStands, Spec
=============================================================================
