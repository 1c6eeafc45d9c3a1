------------------------- MODULE FiscalCyclesProofs --------------------------
(***************************************************************************)
(* From one year to the next: the theorem of Opening and those of          *)
(* FiscalYears, for any number of exercises and years, entries, requests,  *)
(* computations, closings and reopenings.                                  *)
(***************************************************************************)
EXTENDS MCFiscalCycles, SumFacts, SequenceTheorems

-----------------------------------------------------------------------------
(* Opening: an opening is what its user saw, and agrees with the previous   *)
(* year as long as that year is not reopened.                               *)

Statuses == {"OPEN", "READY_TO_CLOSE", "CLOSED"}

TypeOK ==
  /\ yearStatus \in [Exercises -> Statuses]
  /\ reopened \in [Exercises -> Nat]
  /\ net \in [Exercises -> [Accounts -> Int]]
  /\ DOMAIN opening = Exercises
  /\ \A m \in requests : m.token.target \in Exercises \ {1}

\* The year an opening was taken from has been closed ever since, with the same
\* balances, or was reopened.  That is what OpeningStands lacks to be inductive:
\* nothing may be posted into that year before its reopening is counted.
Sourced(y) ==
  LET m == opening[y].request
  IN  /\ y - 1 \in Exercises /\ opening[y].after \in Nat
      /\ opening[y].net = Expected(m.token, m.account)
      /\ \/ /\ yearStatus[y - 1] = "CLOSED"
            /\ reopened[y - 1] = opening[y].after
            /\ opening[y].net = Expected(Preview(y), m.account)
         \/ reopened[y - 1] > opening[y].after

AllSourced == \A y \in Exercises : opening[y] # NoOpening => Sourced(y)

IInv == TypeOK /\ AllSourced

-----------------------------------------------------------------------------
(* Steps *)

\* A preview depends on the balances of the previous year alone.
LEMMA PreviewOfBalances ==
  ASSUME NEW y \in Exercises, net'[y - 1] = net[y - 1]
  PROVE  Preview(y)' = Preview(y)
  BY DEF Preview, LinesOf, ResultOf

\* An opening stays sourced in a step that leaves it alone, if the year it was
\* taken from is reopened or keeps its balances.
LEMMA SourcedStays ==
  ASSUME TypeOK, NEW y \in Exercises, opening'[y] = opening[y], Sourced(y),
         \/ /\ yearStatus'[y - 1] = yearStatus[y - 1]
            /\ reopened'[y - 1] = reopened[y - 1]
            /\ yearStatus[y - 1] = "CLOSED" => net'[y - 1] = net[y - 1]
         \/ reopened'[y - 1] = reopened[y - 1] + 1
         \/ yearStatus[y - 1] # "CLOSED" /\ reopened'[y - 1] = reopened[y - 1]
  PROVE  Sourced(y)'
<1> DEFINE m == opening[y].request
<1>1. y - 1 \in Exercises /\ reopened[y - 1] \in Nat /\ opening[y].after \in Nat
  BY DEF Sourced, TypeOK
<1>2. Expected(m.token, m.account)' = Expected(m.token, m.account)
  BY DEF Expected
<1>3. CASE reopened[y - 1] > opening[y].after
  BY <1>1, <1>2, <1>3 DEF Sourced
<1>4. CASE ~ (reopened[y - 1] > opening[y].after)
  <2>1. /\ yearStatus[y - 1] = "CLOSED"
        /\ reopened[y - 1] = opening[y].after
        /\ opening[y].net = Expected(Preview(y), m.account)
    BY <1>4 DEF Sourced
  <2>2. CASE reopened'[y - 1] = reopened[y - 1] + 1
    BY <1>1, <1>2, <2>1, <2>2 DEF Sourced
  <2>3. CASE /\ yearStatus'[y - 1] = "CLOSED"
             /\ reopened'[y - 1] = reopened[y - 1]
             /\ net'[y - 1] = net[y - 1]
    <3>1. Preview(y)' = Preview(y)
      BY <2>3, PreviewOfBalances
    <3> QED  BY <1>2, <2>1, <2>3, <3>1 DEF Sourced, Expected
  <2> QED  BY <2>1, <2>2, <2>3
<1> QED  BY <1>3, <1>4

LEMMA Initial == OpeningAssumption /\ Init => IInv
  BY DEF OpeningAssumption, Init, IInv, TypeOK, AllSourced, Statuses

\* Posting is the step that could take the ground from an opening: it needs an
\* open year, and the sources are closed.
LEMMA PostStep ==
  ASSUME OpeningAssumption, IInv, NEW y \in Exercises, NEW entry \in Nets,
         Post(y, entry)
  PROVE  IInv'
<1>1. entry \in [Accounts -> Int]
  BY DEF OpeningAssumption
<1>2. TypeOK'
  BY <1>1 DEF IInv, TypeOK, Post
<1>3. ASSUME NEW z \in Exercises, opening'[z] # NoOpening PROVE Sourced(z)'
  <2>1. opening'[z] = opening[z] /\ Sourced(z) /\ z - 1 \in Exercises
    BY <1>3 DEF IInv, AllSourced, Post, Sourced
  <2>2. /\ yearStatus'[z - 1] = yearStatus[z - 1]
        /\ reopened'[z - 1] = reopened[z - 1]
        /\ yearStatus[z - 1] = "CLOSED" => net'[z - 1] = net[z - 1]
    BY <2>1 DEF IInv, TypeOK, Post
  <2> QED  BY <2>1, <2>2, SourcedStays DEF IInv
<1> QED  BY <1>2, <1>3 DEF IInv, AllSourced

\* A change of status: a year leaves CLOSED by a reopening, which counts.
LEMMA StatusStep ==
  ASSUME IInv, NEW y \in Exercises, MarkReady(y) \/ CloseYear(y) \/ ReopenYear(y)
  PROVE  IInv'
<1>1. TypeOK'
  BY DEF IInv, TypeOK, Statuses, MarkReady, CloseYear, ReopenYear, SetStatus
<1>2. ASSUME NEW z \in Exercises, opening'[z] # NoOpening PROVE Sourced(z)'
  <2>1. opening'[z] = opening[z] /\ Sourced(z) /\ z - 1 \in Exercises
    BY <1>2 DEF IInv, AllSourced, MarkReady, CloseYear, ReopenYear, SetStatus, Sourced
  <2>2. net' = net
    BY DEF MarkReady, CloseYear, ReopenYear, SetStatus
  <2>3. CASE z - 1 # y
    <3>1. yearStatus'[z - 1] = yearStatus[z - 1] /\ reopened'[z - 1] = reopened[z - 1]
      BY <2>1, <2>3 DEF IInv, TypeOK, MarkReady, CloseYear, ReopenYear, SetStatus
    <3> QED  BY <2>1, <2>2, <3>1, SourcedStays DEF IInv
  <2>4. CASE z - 1 = y /\ (MarkReady(y) \/ CloseYear(y))
    <3>1. yearStatus[y] # "CLOSED" /\ reopened' = reopened
      BY <2>4 DEF MarkReady, CloseYear, SetStatus
    <3> QED  BY <2>1, <2>4, <3>1, SourcedStays DEF IInv
  <2>5. CASE z - 1 = y /\ ReopenYear(y)
    <3>1. reopened'[y] = reopened[y] + 1
      BY <2>5 DEF IInv, TypeOK, ReopenYear
    <3> QED  BY <2>1, <2>5, <3>1, SourcedStays DEF IInv
  <2> QED  BY <2>3, <2>4, <2>5
<1> QED  BY <1>1, <1>2 DEF IInv, AllSourced

\* A generation writes into an open year; the year it reads is closed, so the
\* openings taken from the year it writes into do not stand any more.
LEMMA GenerateStep ==
  ASSUME OpeningAssumption, IInv, NEW m \in requests, GenerateOpening(m)
  PROVE  IInv'
<1> DEFINE y == m.token.target
<1>1. y \in Exercises /\ y - 1 \in Exercises
  BY DEF OpeningAssumption, IInv, TypeOK
<1>2. net \in [Exercises -> [Accounts -> Int]]
  BY DEF IInv, TypeOK
<1>3. \A a \in BalanceSheet : Expected(Preview(y), m.account)[a] \in Int
  BY <1>1, <1>2 DEF Expected, Preview, LinesOf, ResultOf, Accounts, PnL
<1>4. TypeOK'
  <2>1. net' \in [Exercises -> [Accounts -> Int]]
    BY <1>1, <1>2, <1>3 DEF GenerateOpening
  <2> QED  BY <2>1 DEF IInv, TypeOK, GenerateOpening
<1>5. ASSUME NEW z \in Exercises, opening'[z] # NoOpening PROVE Sourced(z)'
  <2>1. UNCHANGED <<yearStatus, reopened>> /\ yearStatus[y] = "OPEN"
    BY DEF GenerateOpening
  <2>2. \A x \in Exercises : x # y => net'[x] = net[x] /\ opening'[x] = opening[x]
    BY <1>1, <1>2 DEF GenerateOpening, IInv, TypeOK
  <2>3. CASE z = y
    <3>1. y - 1 # y
      BY <1>1, SMT DEF GenerateOpening, SourceReady
    <3>2. Preview(y)' = Preview(y)
      BY <1>1, <2>2, <3>1, PreviewOfBalances
    <3>3. opening'[y] = [net |-> Expected(Preview(y), m.account), request |-> m,
                         after |-> reopened[y - 1]]
      BY <1>1 DEF GenerateOpening, IInv, TypeOK
    <3>4. m.token = Preview(y) /\ yearStatus[y - 1] = "CLOSED"
      BY DEF GenerateOpening, Current, SourceReady
    <3>5. reopened[y - 1] \in Nat
      BY <1>1 DEF IInv, TypeOK
    <3> QED  BY <1>1, <2>1, <2>3, <3>2, <3>3, <3>4, <3>5 DEF Sourced, Expected
  <2>4. CASE z # y
    <3>1. opening'[z] = opening[z] /\ Sourced(z) /\ z - 1 \in Exercises
      BY <1>5, <2>2, <2>4 DEF IInv, AllSourced, Sourced
    <3>2. yearStatus[z - 1] = "CLOSED" => net'[z - 1] = net[z - 1]
      BY <2>1, <2>2, <3>1
    <3> QED  BY <2>1, <3>1, <3>2, SourcedStays DEF IInv
  <2> QED  BY <2>3, <2>4
<1> QED  BY <1>4, <1>5 DEF IInv, AllSourced

\* The other steps change neither the balances nor the years.
LEMMA OtherStep ==
  ASSUME IInv,
         \/ \E y \in Exercises : SwitchDraft(y)
         \/ \E a \in {"101"} : SwitchAccount(a)
         \/ \E y \in Exercises \ {1}, account \in ResultAccounts \cup {"none"} :
              Prepare(y, account)
         \/ UNCHANGED openingVars
  PROVE  IInv'
<1>1. UNCHANGED <<yearStatus, reopened, net, opening>>
  BY DEF SwitchDraft, SwitchAccount, Prepare, openingVars
<1>2. \A m \in requests' : m.token.target \in Exercises \ {1}
  BY DEF IInv, TypeOK, SwitchDraft, SwitchAccount, Prepare, Preview, openingVars
<1>3. TypeOK'
  BY <1>1, <1>2 DEF IInv, TypeOK
<1>4. AllSourced'
  BY <1>1 DEF IInv, AllSourced, Sourced, Expected, Preview, LinesOf, ResultOf
<1> QED  BY <1>3, <1>4 DEF IInv

LEMMA Inductive == OpeningAssumption /\ IInv /\ [Next]_openingVars => IInv'
<1> SUFFICES ASSUME OpeningAssumption, IInv, [Next]_openingVars PROVE IInv'
  OBVIOUS
<1>1. ASSUME NEW y \in Exercises, NEW entry \in Nets, Post(y, entry) PROVE IInv'
  BY <1>1, PostStep
<1>2. ASSUME NEW y \in Exercises, MarkReady(y) \/ CloseYear(y) \/ ReopenYear(y)
      PROVE IInv'
  BY <1>2, StatusStep
<1>3. ASSUME NEW m \in requests, GenerateOpening(m) PROVE IInv'
  BY <1>3, GenerateStep
<1> QED  BY <1>1, <1>2, <1>3, OtherStep DEF Next

-----------------------------------------------------------------------------
(* The theorem *)

\* generate_opening, close_year, reopen_year: an opening posts the balances its
\* user has seen, and differs from those of the previous year only if that year
\* was reopened since.
THEOREM OpeningStandsHolds ==
  ASSUME OpeningAssumption
  PROVE  Spec => []OpeningStands
<1>1. Init => IInv
  BY Initial
<1>2. IInv /\ [Next]_openingVars => IInv'
  BY Inductive
<1>3. IInv => OpeningStands
  BY DEF IInv, AllSourced, Sourced, OpeningStands
<1> QED  BY <1>1, <1>2, <1>3, PTL DEF Spec

-----------------------------------------------------------------------------
(* The fiscal years: what the state holds *)

Years == 1..NumYears
YearStatuses == {"OPEN", "READY_TO_CLOSE", "CLOSED"}
Shares == [Years -> Nat]
Stock == [created : Nat, used : Nat, expired : Nat]

SplitOK(s) == /\ s.unused \in Nat /\ s.taxLoss \in Nat
              /\ s.depreciationUses \in Shares /\ s.lossUses \in Shares
              /\ s.lossExpiries \in Shares

Generation == [status : {"CURRENT", "SUPERSEDED"}, entries : Nat, computation : Nat]

YearsTypeOK ==
  /\ status \in [Years -> YearStatuses]
  /\ ledger \in [Years -> [entries : Nat, margin : Int, depreciation : Int]]
  /\ computed \in Nat
  /\ register \in [Years -> [by : 0..computed, unused : Nat, taxLoss : Nat]]
  /\ snapshots \in [Years -> Seq(Generation)]
  /\ live = [y \in Years |-> live[y]]
  /\ \A y \in Years : Y!HasLive(y) =>
       live[y].id \in 1..computed /\ SplitOK(live[y].split)

\* The row of a year is that of its computation, as long as this one is live.
RegisterOfLive == \A y \in Years : Y!HasLive(y) =>
  register[y] = [by |-> live[y].id, unused |-> live[y].split.unused,
                 taxLoss |-> live[y].split.taxLoss]

YearsInv ==
  /\ YearsTypeOK /\ RegisterOfLive
  /\ Y!ClosedYearKeepsItsProof /\ Y!UnclosedYearDrawsOnClosed /\ Y!OverdrawnOnlyByOlder

-----------------------------------------------------------------------------
(* The operators of the engine *)

LEMMA YearsSums ==
  ASSUME NEW f
  PROVE  /\ \A S : Y!SumFunctionOnSet(f, S) = SumFunctionOnSet(f, S)
         /\ Y!SumFunction(f) = SumFunctionOnSet(f, DOMAIN f)
<1>1. \A S : Y!SumFunctionOnSet(f, S) = SumFunctionOnSet(f, S)
  BY Zenon DEF Y!SumFunctionOnSet, Y!FoldFunctionOnSet, Y!MapThenFoldSet,
     SumFunctionOnSet, FoldFunctionOnSet, MapThenFoldSet
<1>2. Y!SumFunction(f) = Y!SumFunctionOnSet(f, DOMAIN f)
  BY Zenon DEF Y!SumFunction, Y!SumFunctionOnSet, Y!FoldFunction
<1> QED  BY <1>1, <1>2

LEMMA YearsConstants ==
  NumYears \in Nat /\ Horizon \in Nat /\ Y!FYears = Years /\ IsFiniteSet(Years)
<1>1. NumYears \in Nat /\ Horizon \in Nat
  BY YearsAssumption DEF Y!YearsAssumption, Y!EngineAssumption
<1> QED  BY <1>1, FS_Interval DEF Y!FYears, Years

\* What is taken from stocks of which a is available, up to b.
LEMMA YearsConsume ==
  ASSUME NEW a \in Shares, NEW b \in Nat
  PROVE  LET u == Y!Consume(a, b) IN
         /\ u \in Shares
         /\ \A o \in Years : u[o] <= a[o]
         /\ Y!SumFunction(u) \in Nat /\ Y!SumFunction(u) <= b
<1> DEFINE take(o) == Left(NumYears, a, b)[o - 1] - Left(NumYears, a, b)[o]
           u == Y!Consume(a, b)
<1>1. u = [o \in Years |-> take(o)]
  BY Zenon DEF Y!Consume, Y!Smaller, Y!FYears, Years, Left, Leaves, Lesser
<1>2. \A o \in Years : take(o) \in Nat /\ take(o) <= a[o]
  BY YearsConstants, TakenInTurn DEF Shares, Years
<1>3. DOMAIN u = Years /\ \A o \in Years : u[o] = take(o)
  BY <1>1
<1> HIDE DEF u
<1>4. Y!SumFunction(u) = SumFunctionOnSet(u, Years)
  BY <1>3, YearsSums
<1>5. /\ SumFunctionOnSet(a, Years) \in Nat
      /\ SumFunctionOnSet(u, Years) = Lesser(SumFunctionOnSet(a, Years), b)
  BY <1>3, YearsConstants, TakenTogether DEF Shares, Years
<1> HIDE DEF take
<1> QED  BY <1>1, <1>2, <1>3, <1>4, <1>5 DEF Shares, Lesser, u

LEMMA YearsRemaining ==
  ASSUME NEW s \in Stock
  PROVE  /\ Y!Remaining(s) \in Nat
         /\ \A n \in Nat : n > 0 /\ n <= Y!Remaining(s) => n + s.used + s.expired <= s.created
         /\ s.created = 0 => Y!Remaining(s) = 0
  BY DEF Stock, Y!Remaining, Y!Pos

\* A computation takes from each stock no more than what remains of it.
LEMMA YearsApply ==
  ASSUME NEW y \in Years, NEW m \in Int, NEW d \in Int, NEW n \in Int,
         NEW carried \in [Years -> Stock], NEW losses \in [Years -> Stock]
  PROVE  LET s == Y!Apply(y, m, d, n, carried, losses) IN
         /\ SplitOK(s)
         /\ \A o \in Years :
              /\ s.depreciationUses[o] <= Y!Remaining(carried[o])
              /\ s.lossUses[o] + s.lossExpiries[o] <= Y!Remaining(losses[o])
<1> DEFINE s == Y!Apply(y, m, d, n, carried, losses)
           A == Y!AvailableOf(carried)
           V == Y!LossesInside(y, losses)
           X == Y!Expiries(y, losses)
           capacity == Y!Pos(m + n)
           current == Y!Smaller(Y!Pos(d), capacity)
           u == Y!Consume(A, capacity - current)
           deductible == current + Y!SumFunction(u)
           before == m - deductible + n
           v == Y!Consume(V, Y!Pos(before))
           result == before - Y!SumFunction(v)
<1>1. \A o \in Years : Y!Remaining(carried[o]) \in Nat /\ Y!Remaining(losses[o]) \in Nat
  BY YearsRemaining
<1>2. /\ A \in Shares /\ V \in Shares /\ X \in Shares
      /\ \A o \in Years : /\ A[o] = Y!Remaining(carried[o])
                          /\ V[o] + X[o] = Y!Remaining(losses[o])
  BY <1>1, YearsConstants DEF Y!AvailableOf, Y!LossesInside, Y!Expiries, Shares
<1>3. /\ capacity \in Nat /\ current \in Nat /\ capacity - current \in Nat
      /\ Y!Pos(d) - current \in Nat
  BY DEF Y!Pos, Y!Smaller
<1>4. s = [deductible |-> deductible, unused |-> Y!Pos(d) - current,
           depreciationUses |-> u, lossUses |-> v, lossExpiries |-> X,
           fiscalResult |-> result, taxLoss |-> Y!Pos(-result)]
  BY DEF Y!Apply
<1> HIDE DEF s, A, V, X, capacity, current
<1>5. /\ u \in Shares /\ \A o \in Years : u[o] <= A[o]
      /\ Y!SumFunction(u) \in Nat
  BY <1>2, <1>3, YearsConsume
<1> HIDE DEF u
<1>6. before \in Int /\ Y!Pos(before) \in Nat
  BY <1>3, <1>5 DEF Y!Pos
<1> HIDE DEF deductible, before
<1>7. /\ v \in Shares /\ \A o \in Years : v[o] <= V[o]
      /\ Y!SumFunction(v) \in Nat
  BY <1>2, <1>6, YearsConsume
<1> HIDE DEF v
<1>8. Y!Pos(-result) \in Nat
  BY <1>6, <1>7 DEF Y!Pos
<1> HIDE DEF result
<1>9. SplitOK(s)
  BY <1>2, <1>3, <1>4, <1>5, <1>7, <1>8 DEF SplitOK
<1>10. \A o \in Years : v[o] + X[o] <= Y!Remaining(losses[o])
  BY <1>2, <1>7 DEF Shares
<1> QED  BY <1>2, <1>4, <1>5, <1>9, <1>10 DEF s

-----------------------------------------------------------------------------
(* The registers that a computation reads *)

Fields == {"depreciationUses", "lossUses", "lossExpiries"}
\* What the live computation of each year takes from the stock of o.
Taken(field, o) ==
  [z \in Years |-> IF Y!HasLive(z) THEN live[z].split[field][o] ELSE 0]

LEMMA TakenNat ==
  ASSUME YearsTypeOK, NEW field \in Fields, NEW o \in Years, NEW z \in Years
  PROVE  Taken(field, o)[z] \in Nat
<1>1. Y!HasLive(z) => live[z].split[field][o] \in Nat
  BY DEF YearsTypeOK, SplitOK, Shares, Fields
<1> QED  BY <1>1 DEF Taken

LEMMA UsesAre ==
  ASSUME YearsTypeOK, NEW field \in Fields, NEW o \in Years, NEW y \in Years
  PROVE  /\ Y!UsesOf(y, o, field) = SumFunctionOnSet(Taken(field, o), Years \ {y})
         /\ Y!UsesOf(y, o, field) \in Nat
<1>1. Y!UsesOf(y, o, field) = SumFunctionOnSet(Taken(field, o), Years \ {y})
  BY YearsConstants, YearsSums DEF Y!UsesOf, Taken
<1>2. IsFiniteSet(Years \ {y}) /\ \A z \in Years \ {y} : Taken(field, o)[z] \in Nat
  BY YearsConstants, FS_Subset, TakenNat
<1> QED  BY <1>1, <1>2, SumNat

LEMMA StocksAre ==
  ASSUME YearsTypeOK, NEW y \in Years
  PROVE  /\ Y!DepreciationStocks(y) \in [Years -> Stock]
         /\ Y!LossStocks(y) \in [Years -> Stock]
         /\ \A o \in Years :
              LET d == Y!DepreciationStocks(y)[o]
                  l == Y!LossStocks(y)[o]
              IN /\ d.created > 0 \/ l.created > 0 => o < y /\ status[o] = "CLOSED"
                 /\ d.created > 0 =>
                      /\ d.created = register[o].unused
                      /\ d.used = SumFunctionOnSet(Taken("depreciationUses", o), Years \ {y})
                 /\ l.created > 0 =>
                      /\ l.created = register[o].taxLoss
                      /\ l.used = SumFunctionOnSet(Taken("lossUses", o), Years \ {y})
                      /\ l.expired = SumFunctionOnSet(Taken("lossExpiries", o), Years \ {y})
<1>1. ASSUME NEW o \in Years
      PROVE  /\ register[o].unused \in Nat /\ register[o].taxLoss \in Nat
             /\ \A field \in Fields :
                  /\ Y!UsesOf(y, o, field) = SumFunctionOnSet(Taken(field, o), Years \ {y})
                  /\ Y!UsesOf(y, o, field) \in Nat
  BY UsesAre DEF YearsTypeOK
<1>2. Y!NoStock \in Stock /\ Y!NoStock.created = 0
  BY DEF Y!NoStock, Stock
<1>3. ASSUME NEW o \in Years
      PROVE  LET d == Y!DepreciationStocks(y)[o] IN
             /\ d \in Stock
             /\ d.created > 0 =>
                  /\ o < y /\ status[o] = "CLOSED" /\ d.created = register[o].unused
                  /\ d.used = SumFunctionOnSet(Taken("depreciationUses", o), Years \ {y})
  <2>1. CASE o < y /\ status[o] = "CLOSED" /\ register[o].by # 0
    <3>1. Y!DepreciationStocks(y)[o] = [created |-> register[o].unused,
             used |-> Y!UsesOf(y, o, "depreciationUses"), expired |-> 0]
      BY <2>1, YearsConstants DEF Y!DepreciationStocks, Y!StocksFor
    <3> QED  BY <1>1, <2>1, <3>1 DEF Stock, Fields
  <2>2. CASE ~ (o < y /\ status[o] = "CLOSED" /\ register[o].by # 0)
    <3>1. Y!DepreciationStocks(y)[o] = Y!NoStock
      BY <2>2, YearsConstants DEF Y!DepreciationStocks, Y!StocksFor
    <3> QED  BY <1>2, <3>1
  <2> QED  BY <2>1, <2>2
<1>4. ASSUME NEW o \in Years
      PROVE  LET l == Y!LossStocks(y)[o] IN
             /\ l \in Stock
             /\ l.created > 0 =>
                  /\ o < y /\ status[o] = "CLOSED" /\ l.created = register[o].taxLoss
                  /\ l.used = SumFunctionOnSet(Taken("lossUses", o), Years \ {y})
                  /\ l.expired = SumFunctionOnSet(Taken("lossExpiries", o), Years \ {y})
  <2>1. CASE o < y /\ status[o] = "CLOSED" /\ register[o].by # 0
    <3>1. Y!LossStocks(y)[o] = [created |-> register[o].taxLoss,
             used |-> Y!UsesOf(y, o, "lossUses"),
             expired |-> Y!UsesOf(y, o, "lossExpiries")]
      BY <2>1, YearsConstants DEF Y!LossStocks, Y!StocksFor
    <3>2. ASSUME NEW field \in Fields
          PROVE  /\ Y!UsesOf(y, o, field) = SumFunctionOnSet(Taken(field, o), Years \ {y})
                 /\ Y!UsesOf(y, o, field) \in Nat
      BY <1>1
    <3>3. /\ Y!UsesOf(y, o, "lossUses") = SumFunctionOnSet(Taken("lossUses", o), Years \ {y})
          /\ Y!UsesOf(y, o, "lossUses") \in Nat
      BY <3>2 DEF Fields
    <3>4. /\ Y!UsesOf(y, o, "lossExpiries")
                = SumFunctionOnSet(Taken("lossExpiries", o), Years \ {y})
          /\ Y!UsesOf(y, o, "lossExpiries") \in Nat
      BY <3>2 DEF Fields
    <3>5. register[o].taxLoss \in Nat
      BY <1>1
    <3> QED  BY <2>1, <3>1, <3>3, <3>4, <3>5 DEF Stock
  <2>2. CASE ~ (o < y /\ status[o] = "CLOSED" /\ register[o].by # 0)
    <3>1. Y!LossStocks(y)[o] = Y!NoStock
      BY <2>2, YearsConstants DEF Y!LossStocks, Y!StocksFor
    <3> QED  BY <1>2, <3>1
  <2> QED  BY <2>1, <2>2
<1>5. /\ Y!DepreciationStocks(y) = [o \in Years |-> Y!DepreciationStocks(y)[o]]
      /\ Y!LossStocks(y) = [o \in Years |-> Y!LossStocks(y)[o]]
  BY YearsConstants DEF Y!DepreciationStocks, Y!LossStocks, Y!StocksFor
<1>6. /\ Y!DepreciationStocks(y) \in [Years -> Stock]
      /\ Y!LossStocks(y) \in [Years -> Stock]
  BY <1>3, <1>4, <1>5
<1> QED  BY <1>3, <1>4, <1>6

\* What a computation stores, and what it draws on the years before.
Computes(y, new) ==
  /\ status[y] = "OPEN"
  /\ computed' = computed + 1
  /\ live' = [live EXCEPT ![y] = new]
  /\ register' = [register EXCEPT ![y] = [by |-> new.id, unused |-> new.split.unused,
                                          taxLoss |-> new.split.taxLoss]]
  /\ UNCHANGED <<status, ledger, structure, snapshots>>
  /\ new.id = computed + 1 /\ new # Y!None /\ SplitOK(new.split)
  /\ \A o \in Years :
       LET d == new.split.depreciationUses[o]
           l == new.split.lossUses[o] + new.split.lossExpiries[o]
       IN /\ d + l > 0 => o < y /\ status[o] = "CLOSED"
          /\ d > 0 => d + SumFunctionOnSet(Taken("depreciationUses", o), Years \ {y})
                        <= register[o].unused
          /\ l > 0 => l + SumFunctionOnSet(Taken("lossUses", o), Years \ {y})
                        + SumFunctionOnSet(Taken("lossExpiries", o), Years \ {y})
                        <= register[o].taxLoss

LEMMA ComputeStores ==
  ASSUME YearsInv, NEW y \in Years, NEW n \in Int, Y!ComputeFiscal(y, n)
  PROVE  \E new : Computes(y, new)
<1> DEFINE carried == Y!DepreciationStocks(y)
           losses == Y!LossStocks(y)
           inputs == Y!Inputs(y, n)
           s == Y!SplitOf(y, inputs)
           new == [id |-> computed + 1, inputs |-> inputs, split |-> s]
<1>1. s = Y!Apply(y, ledger[y].margin, ledger[y].depreciation, n, carried, losses)
  BY DEF Y!SplitOf, Y!Inputs
<1>2. /\ ledger[y].margin \in Int /\ ledger[y].depreciation \in Int
      /\ carried \in [Years -> Stock] /\ losses \in [Years -> Stock] /\ computed \in Nat
  BY StocksAre DEF YearsInv, YearsTypeOK
<1>3. /\ SplitOK(s)
      /\ \A o \in Years :
           /\ s.depreciationUses[o] <= Y!Remaining(carried[o])
           /\ s.lossUses[o] + s.lossExpiries[o] <= Y!Remaining(losses[o])
  <2> HIDE DEF carried, losses, s
  <2> QED  BY <1>1, <1>2, YearsApply
<1>4. new.id = computed + 1 /\ new.split = s /\ new # Y!None
  BY <1>2 DEF Y!None
<1>5. /\ status[y] = "OPEN" /\ computed' = computed + 1 /\ live' = [live EXCEPT ![y] = new]
      /\ register' = [register EXCEPT ![y] = [by |-> new.id, unused |-> new.split.unused,
                                              taxLoss |-> new.split.taxLoss]]
      /\ UNCHANGED <<status, ledger, structure, snapshots>>
  BY DEF Y!ComputeFiscal
<1> HIDE DEF carried, losses, s, new
<1>6. ASSUME NEW o \in Years
      PROVE LET d == s.depreciationUses[o]
                l == s.lossUses[o] + s.lossExpiries[o]
            IN /\ d + l > 0 => o < y /\ status[o] = "CLOSED"
               /\ d > 0 => d + SumFunctionOnSet(Taken("depreciationUses", o), Years \ {y})
                             <= register[o].unused
               /\ l > 0 => l + SumFunctionOnSet(Taken("lossUses", o), Years \ {y})
                             + SumFunctionOnSet(Taken("lossExpiries", o), Years \ {y})
                             <= register[o].taxLoss
  <2> DEFINE d == s.depreciationUses[o]
             l == s.lossUses[o] + s.lossExpiries[o]
  <2>1. d \in Nat /\ l \in Nat
    BY <1>3 DEF SplitOK, Shares
  <2>2. carried[o] \in Stock /\ losses[o] \in Stock
    BY <1>2
  <2>3. d <= Y!Remaining(carried[o]) /\ l <= Y!Remaining(losses[o])
    BY <1>3
  <2>4. /\ carried[o].created > 0 \/ losses[o].created > 0 => o < y /\ status[o] = "CLOSED"
        /\ carried[o].created > 0 =>
             /\ carried[o].created = register[o].unused
             /\ carried[o].used
                  = SumFunctionOnSet(Taken("depreciationUses", o), Years \ {y})
        /\ losses[o].created > 0 =>
             /\ losses[o].created = register[o].taxLoss
             /\ losses[o].used = SumFunctionOnSet(Taken("lossUses", o), Years \ {y})
             /\ losses[o].expired
                  = SumFunctionOnSet(Taken("lossExpiries", o), Years \ {y})
    BY StocksAre DEF YearsInv, carried, losses
  <2> HIDE DEF d, l
  <2>5. d > 0 => carried[o].created > 0 /\ d + carried[o].used <= carried[o].created
    BY <2>1, <2>2, <2>3, YearsRemaining DEF Stock
  <2>6. l > 0 => losses[o].created > 0
                 /\ l + losses[o].used + losses[o].expired <= losses[o].created
    BY <2>1, <2>2, <2>3, YearsRemaining DEF Stock
  <2>7. /\ d + l > 0 => o < y /\ status[o] = "CLOSED"
        /\ d > 0 => d + SumFunctionOnSet(Taken("depreciationUses", o), Years \ {y})
                      <= register[o].unused
        /\ l > 0 => l + SumFunctionOnSet(Taken("lossUses", o), Years \ {y})
                      + SumFunctionOnSet(Taken("lossExpiries", o), Years \ {y})
                      <= register[o].taxLoss
    BY <2>1, <2>4, <2>5, <2>6
  <2> QED  BY <2>7 DEF d, l
<1>7. Computes(y, new)
  BY <1>3, <1>4, <1>5, <1>6 DEF Computes
<1> QED  BY <1>7

-----------------------------------------------------------------------------
(* Each part of the invariant, kept by the steps *)

NewerOn(field, o) == \E z \in Years :
  Y!HasLive(z) /\ live[z].id > register[o].by /\ live[z].split[field][o] > 0
DrawnOn(field, o) == SumFunctionOnSet(Taken(field, o), Years)
Overdrawn(o) ==
  /\ NewerOn("depreciationUses", o) => DrawnOn("depreciationUses", o) <= register[o].unused
  /\ NewerOn("lossUses", o) \/ NewerOn("lossExpiries", o) =>
       DrawnOn("lossUses", o) + DrawnOn("lossExpiries", o) <= register[o].taxLoss

LEMMA OverdrawnIs ==
  /\ Y!OverdrawnOnlyByOlder <=> \A o \in Years : Overdrawn(o)
  /\ Y!OverdrawnOnlyByOlder' <=> \A o \in Years : Overdrawn(o)'
<1>1. \A field, o : Y!SumFunction(Taken(field, o)) = DrawnOn(field, o)
  BY YearsSums DEF Taken, DrawnOn
<1>2. \A field, o : Y!SumFunction(Taken(field, o)') = DrawnOn(field, o)'
  BY YearsSums DEF Taken, DrawnOn
<1>3. Y!OverdrawnOnlyByOlder <=> \A o \in Years : Overdrawn(o)
  BY <1>1, YearsConstants DEF Y!OverdrawnOnlyByOlder, Taken, Overdrawn, NewerOn
<1>4. Y!OverdrawnOnlyByOlder' <=> \A o \in Years : Overdrawn(o)'
  BY <1>2, YearsConstants DEF Y!OverdrawnOnlyByOlder, Taken, Overdrawn, NewerOn
<1> QED  BY <1>3, <1>4

\* Computations that go away draw on nothing any more.
LEMMA OverdrawnWithdrawn ==
  ASSUME YearsInv, UNCHANGED register,
         \A z \in Years : live'[z] = live[z] \/ live'[z] = Y!None
  PROVE  Y!OverdrawnOnlyByOlder'
<1> SUFFICES ASSUME NEW o \in Years PROVE Overdrawn(o)'
  BY OverdrawnIs
<1>1. Overdrawn(o)
  BY OverdrawnIs DEF YearsInv
<1>2. ASSUME NEW field \in Fields
      PROVE  /\ NewerOn(field, o)' => NewerOn(field, o)
             /\ DrawnOn(field, o) \in Nat /\ DrawnOn(field, o)' \in Nat
             /\ DrawnOn(field, o)' <= DrawnOn(field, o)
  <2>1. NewerOn(field, o)' => NewerOn(field, o)
    BY DEF NewerOn, Y!HasLive
  <2>2. \A z \in Years : /\ Taken(field, o)'[z] = Taken(field, o)[z] \/ Taken(field, o)'[z] = 0
                         /\ Taken(field, o)[z] \in Nat
    BY TakenNat DEF YearsInv, Taken, Y!HasLive
  <2> DEFINE t == Taken(field, o)
             u == Taken(field, o)'
  <2>3. \A z \in Years : t[z] \in Nat /\ u[z] \in Nat /\ u[z] <= t[z]
    BY <2>2
  <2> HIDE DEF t, u
  <2>4. SumFunctionOnSet(t, Years) \in Nat /\ SumFunctionOnSet(u, Years) \in Nat
    BY <2>3, YearsConstants, SumNat
  <2>5. SumFunctionOnSet(u, Years) <= SumFunctionOnSet(t, Years)
    BY <2>3, YearsConstants, SumMonotone
  <2> QED  BY <2>1, <2>4, <2>5 DEF DrawnOn, t, u
<1>3. register[o].unused \in Nat /\ register[o].taxLoss \in Nat
  BY DEF YearsInv, YearsTypeOK
<1>4. NewerOn("depreciationUses", o)' => DrawnOn("depreciationUses", o)' <= register[o].unused
  <2>1. "depreciationUses" \in Fields
    BY DEF Fields
  <2> QED  BY <1>1, <1>2, <1>3, <2>1 DEF Overdrawn
<1>5. NewerOn("lossUses", o)' \/ NewerOn("lossExpiries", o)' =>
        DrawnOn("lossUses", o)' + DrawnOn("lossExpiries", o)' <= register[o].taxLoss
  <2>1. "lossUses" \in Fields /\ "lossExpiries" \in Fields
    BY DEF Fields
  <2>2. /\ NewerOn("lossUses", o)' \/ NewerOn("lossExpiries", o)' =>
             NewerOn("lossUses", o) \/ NewerOn("lossExpiries", o)
        /\ DrawnOn("lossUses", o)' <= DrawnOn("lossUses", o)
        /\ DrawnOn("lossExpiries", o)' <= DrawnOn("lossExpiries", o)
        /\ DrawnOn("lossUses", o) \in Nat /\ DrawnOn("lossUses", o)' \in Nat
        /\ DrawnOn("lossExpiries", o) \in Nat /\ DrawnOn("lossExpiries", o)' \in Nat
    BY <1>2, <2>1
  <2>3. NewerOn("lossUses", o) \/ NewerOn("lossExpiries", o) =>
          DrawnOn("lossUses", o) + DrawnOn("lossExpiries", o) <= register[o].taxLoss
    BY <1>1 DEF Overdrawn
  <2> HIDE DEF Taken
  <2> QED  BY <1>3, <2>2, <2>3
<1> QED  BY <1>4, <1>5 DEF Overdrawn

\* A computation draws on what was left, or not at all; and none is newer than
\* it, on its own row.
LEMMA OverdrawnComputed ==
  ASSUME YearsInv, NEW y \in Years, NEW new, Computes(y, new)
  PROVE  Y!OverdrawnOnlyByOlder'
<1> SUFFICES ASSUME NEW o \in Years PROVE Overdrawn(o)'
  BY OverdrawnIs
<1>1. /\ live'[y] = new /\ \A z \in Years \ {y} : live'[z] = live[z]
      /\ register'[y].by = computed + 1 /\ \A z \in Years \ {y} : register'[z] = register[z]
  BY DEF Computes, YearsInv, YearsTypeOK
<1>2. CASE o = y
  <2>1. ASSUME NEW z \in Years, Y!HasLive(z)'
        PROVE  live'[z].id \in Int /\ live'[z].id <= computed + 1
    <3>1. computed \in Nat /\ new.id = computed + 1
      BY DEF YearsInv, YearsTypeOK, Computes
    <3>2. CASE z = y
      BY <1>1, <3>1, <3>2
    <3>3. CASE z # y
      <4>1. live'[z] = live[z] /\ Y!HasLive(z)
        BY <1>1, <2>1, <3>3 DEF Y!HasLive
      <4>2. live[z].id \in 1..computed
        BY <4>1 DEF YearsInv, YearsTypeOK
      <4> QED  BY <3>1, <4>1, <4>2
    <3> QED  BY <3>2, <3>3
  <2>3. \A field : ~ NewerOn(field, o)'
    <3>1. computed \in Nat
      BY DEF YearsInv, YearsTypeOK
    <3> QED  BY <1>1, <1>2, <2>1, <3>1 DEF NewerOn
  <2> QED  BY <2>3 DEF Overdrawn
<1>3. CASE o # y
  <2> DEFINE rest(field) == SumFunctionOnSet(Taken(field, o), Years \ {y})
  <2>1. ASSUME NEW field \in Fields
        PROVE  /\ rest(field) \in Nat /\ new.split[field][o] \in Nat
               /\ DrawnOn(field, o)' = new.split[field][o] + rest(field)
               /\ rest(field) <= DrawnOn(field, o) /\ DrawnOn(field, o) \in Nat
               /\ new.split[field][o] = 0 /\ NewerOn(field, o)' => NewerOn(field, o)
    <3>1. new.split[field][o] \in Nat
      BY DEF Computes, SplitOK, Shares, Fields
    <3> DEFINE t == Taken(field, o)
               u == Taken(field, o)'
    <3>2. /\ \A z \in Years : t[z] \in Nat
          /\ u[y] = new.split[field][o] /\ \A z \in Years \ {y} : u[z] = t[z]
      BY <1>1, TakenNat DEF YearsInv, Taken, Y!HasLive, Computes
    <3>3. new.split[field][o] = 0 /\ NewerOn(field, o)' => NewerOn(field, o)
      BY <1>1, <1>3 DEF NewerOn, Y!HasLive
    <3> HIDE DEF t, u
    <3>4. IsFiniteSet(Years \ {y}) /\ IsFiniteSet(Years) /\ \A z \in Years : u[z] \in Int
      BY <3>1, <3>2, YearsConstants, FS_Subset
    <3>5. SumFunctionOnSet(u, Years) = u[y] + SumFunctionOnSet(u, Years \ {y})
      BY <3>4, SumRemove
    <3>6. SumFunctionOnSet(u, Years \ {y}) = SumFunctionOnSet(t, Years \ {y})
      BY <3>2, <3>4, SumSame
    <3>7. SumFunctionOnSet(t, Years) = t[y] + SumFunctionOnSet(t, Years \ {y})
      <4>1. \A z \in Years : t[z] \in Int
        BY <3>2
      <4> QED  BY <3>4, <4>1, SumRemove
    <3>8. SumFunctionOnSet(t, Years \ {y}) \in Nat /\ SumFunctionOnSet(t, Years) \in Nat
      BY <3>2, <3>4, SumNat
    <3>9. /\ SumFunctionOnSet(u, Years) = new.split[field][o] + SumFunctionOnSet(t, Years \ {y})
          /\ SumFunctionOnSet(t, Years \ {y}) <= SumFunctionOnSet(t, Years)
      BY <3>1, <3>2, <3>5, <3>6, <3>7, <3>8
    <3> QED  BY <3>1, <3>3, <3>8, <3>9 DEF DrawnOn, t, u
  <2>2. /\ register'[o] = register[o]
        /\ register[o].unused \in Nat /\ register[o].taxLoss \in Nat /\ Overdrawn(o)
    BY <1>1, <1>3, OverdrawnIs DEF YearsInv, YearsTypeOK
  <2>3. "depreciationUses" \in Fields /\ "lossUses" \in Fields /\ "lossExpiries" \in Fields
    BY DEF Fields
  <2>4. LET d == new.split.depreciationUses[o]
            l == new.split.lossUses[o] + new.split.lossExpiries[o]
        IN /\ d > 0 => d + rest("depreciationUses") <= register[o].unused
           /\ l > 0 => l + rest("lossUses") + rest("lossExpiries") <= register[o].taxLoss
    BY DEF Computes
  <2> HIDE DEF rest
  <2>5. NewerOn("depreciationUses", o)' =>
          DrawnOn("depreciationUses", o)' <= register[o].unused
    <3>1. /\ rest("depreciationUses") \in Nat /\ new.split.depreciationUses[o] \in Nat
          /\ DrawnOn("depreciationUses", o)'
               = new.split.depreciationUses[o] + rest("depreciationUses")
          /\ rest("depreciationUses") <= DrawnOn("depreciationUses", o)
          /\ DrawnOn("depreciationUses", o) \in Nat
          /\ new.split.depreciationUses[o] = 0 /\ NewerOn("depreciationUses", o)' =>
               NewerOn("depreciationUses", o)
      BY <2>1, <2>3
    <3> QED  BY <2>2, <2>4, <3>1 DEF Overdrawn
  <2>6. NewerOn("lossUses", o)' \/ NewerOn("lossExpiries", o)' =>
          DrawnOn("lossUses", o)' + DrawnOn("lossExpiries", o)' <= register[o].taxLoss
    <3>1. /\ rest("lossUses") \in Nat /\ new.split.lossUses[o] \in Nat
          /\ DrawnOn("lossUses", o)' = new.split.lossUses[o] + rest("lossUses")
          /\ rest("lossUses") <= DrawnOn("lossUses", o)
          /\ DrawnOn("lossUses", o) \in Nat
          /\ new.split.lossUses[o] = 0 /\ NewerOn("lossUses", o)' => NewerOn("lossUses", o)
      BY <2>1, <2>3
    <3>2. /\ rest("lossExpiries") \in Nat /\ new.split.lossExpiries[o] \in Nat
          /\ DrawnOn("lossExpiries", o)' = new.split.lossExpiries[o] + rest("lossExpiries")
          /\ rest("lossExpiries") <= DrawnOn("lossExpiries", o)
          /\ DrawnOn("lossExpiries", o) \in Nat
          /\ new.split.lossExpiries[o] = 0 /\ NewerOn("lossExpiries", o)' =>
               NewerOn("lossExpiries", o)
      BY <2>1, <2>3
    <3> QED  BY <2>2, <2>4, <3>1, <3>2 DEF Overdrawn
  <2> QED  BY <2>2, <2>5, <2>6 DEF Overdrawn
<1> QED  BY <1>2, <1>3

\* The proof of a year, in the values it relates: the status, the generations,
\* the ledger, the live computation and the row of the register.
Currents(g) == {n \in DOMAIN g : g[n].status = "CURRENT"}
Proven(st, g, l, c, r) ==
  IF st # "CLOSED" THEN Currents(g) = {} ELSE
  /\ Currents(g) = {Len(g)}
  /\ g[Len(g)].entries = l.entries
  /\ c # Y!None /\ c.id = g[Len(g)].computation
  /\ c.inputs.entries = l.entries
  /\ r = [by |-> c.id, unused |-> c.split.unused, taxLoss |-> c.split.taxLoss]

LEMMA ProvenIs ==
  /\ Y!ClosedYearKeepsItsProof <=> \A y \in Years :
       Proven(status[y], snapshots[y], ledger[y], live[y], register[y])
  /\ Y!ClosedYearKeepsItsProof' <=> \A y \in Years :
       Proven(status'[y], snapshots'[y], ledger'[y], live'[y], register'[y])
<1>1. Y!ClosedYearKeepsItsProof <=> \A y \in Years :
        Proven(status[y], snapshots[y], ledger[y], live[y], register[y])
  BY YearsConstants DEF Y!ClosedYearKeepsItsProof, Proven, Currents, Y!HasLive
<1>2. Y!ClosedYearKeepsItsProof' <=> \A y \in Years :
        Proven(status'[y], snapshots'[y], ledger'[y], live'[y], register'[y])
  BY YearsConstants DEF Y!ClosedYearKeepsItsProof, Proven, Currents, Y!HasLive
<1> QED  BY <1>1, <1>2

LEMMA SupersededIs ==
  ASSUME NEW g \in Seq(Generation)
  PROVE  /\ Y!Superseded(g) \in Seq(Generation) /\ Currents(Y!Superseded(g)) = {}
         /\ Len(Y!Superseded(g)) = Len(g)
<1> DEFINE t == Y!Superseded(g)
<1>1. Len(g) \in Nat /\ DOMAIN g = 1..Len(g) /\ \A n \in 1..Len(g) : g[n] \in Generation
  OBVIOUS
<1>2. t = [n \in 1..Len(g) |-> [g[n] EXCEPT !.status = "SUPERSEDED"]]
  BY <1>1 DEF Y!Superseded
<1>3. \A n \in 1..Len(g) : t[n] \in Generation /\ t[n].status = "SUPERSEDED"
  <2> TAKE n \in 1..Len(g)
  <2>1. g[n] \in Generation /\ t[n] = [g[n] EXCEPT !.status = "SUPERSEDED"]
    BY <1>1, <1>2
  <2> HIDE DEF t
  <2> QED  BY <2>1 DEF Generation
<1>4. t \in [1..Len(g) -> Generation]
  BY <1>2, <1>3
<1>5. t \in Seq(Generation) /\ Len(t) = Len(g) /\ DOMAIN t = 1..Len(g)
  BY <1>1, <1>4, SeqDef
<1> HIDE DEF t
<1> QED  BY <1>3, <1>5 DEF Currents, t

LEMMA ClosingIs ==
  ASSUME YearsInv, NEW y \in Years, Y!CloseYear(y)
  PROVE  /\ Y!Closing(y) \in Seq(Generation)
         /\ Proven("CLOSED", Y!Closing(y), ledger[y], live[y], register[y])
<1> DEFINE g == Y!Superseded(snapshots[y])
           c == [status |-> "CURRENT", entries |-> ledger[y].entries,
                 computation |-> live[y].id]
           k == Append(g, c)
<1>1. g \in Seq(Generation) /\ Currents(g) = {}
  BY SupersededIs DEF YearsInv, YearsTypeOK
<1>2. c \in Generation /\ c.status = "CURRENT"
  BY DEF YearsInv, YearsTypeOK, Generation, Y!CloseYear, Y!FiscalCurrent
<1>3. Y!HasLive(y) /\ live[y].inputs.entries = ledger[y].entries
  BY DEF Y!CloseYear, Y!FiscalCurrent
<1>4. register[y] = [by |-> live[y].id, unused |-> live[y].split.unused,
                     taxLoss |-> live[y].split.taxLoss]
  BY <1>3 DEF YearsInv, RegisterOfLive
<1>5. Y!Closing(y) = k /\ c.entries = ledger[y].entries /\ c.computation = live[y].id
  BY DEF Y!Closing
<1> HIDE DEF g, c
<1>6. /\ k \in Seq(Generation) /\ Len(k) = Len(g) + 1 /\ k[Len(k)] = c
      /\ DOMAIN k = 1..(Len(g) + 1) /\ DOMAIN g = 1..Len(g) /\ Len(g) \in Nat
      /\ \A n \in 1..Len(g) : k[n] = g[n]
  BY <1>1, <1>2, AppendProperties
<1> HIDE DEF k
<1>7. Currents(k) = {Len(k)}
  BY <1>1, <1>2, <1>6 DEF Currents
<1> QED  BY <1>3, <1>4, <1>5, <1>6, <1>7 DEF Proven, Y!HasLive

\* The computations that stay draw on years that stay closed.
LEMMA DrawsKept ==
  ASSUME YearsInv,
         \A y \in Years : Y!HasLive(y)' => live'[y] = live[y],
         \A y, o \in Years : Y!HasLive(y)' /\ status'[y] # "CLOSED" =>
           status[y] # "CLOSED" /\ (o < y /\ status[o] = "CLOSED" => status'[o] = "CLOSED")
  PROVE  Y!UnclosedYearDrawsOnClosed'
<1> SUFFICES ASSUME NEW y \in Years, NEW o \in Years,
                    status'[y] # "CLOSED", Y!HasLive(y)', Y!Uses(y, o)' > 0
             PROVE  o < y /\ status'[o] = "CLOSED"
  BY YearsConstants DEF Y!UnclosedYearDrawsOnClosed
<1>1. live'[y] = live[y] /\ Y!HasLive(y) /\ status[y] # "CLOSED"
  BY DEF Y!HasLive
<1>2. Y!Uses(y, o) > 0
  BY <1>1 DEF Y!Uses
<1>3. o < y /\ status[o] = "CLOSED"
  BY <1>1, <1>2, YearsConstants DEF YearsInv, Y!UnclosedYearDrawsOnClosed
<1> QED  BY <1>3

-----------------------------------------------------------------------------
(* The invariant holds at first and is kept by every action *)

LEMMA YearsInitially ==
  ASSUME Y!Init PROVE YearsInv
<1>1. /\ \A y \in Years : /\ status[y] = "OPEN" /\ snapshots[y] = <<>> /\ ~ Y!HasLive(y)
                          /\ register[y] = Y!NoRegister
      /\ computed = 0
  BY YearsConstants DEF Y!Init, Y!HasLive
<1>2. YearsTypeOK
  BY <1>1, YearsConstants DEF Y!Init, YearsTypeOK, Y!NoRegister, YearStatuses
<1>3. RegisterOfLive /\ Y!UnclosedYearDrawsOnClosed
  BY <1>1, YearsConstants DEF RegisterOfLive, Y!UnclosedYearDrawsOnClosed
<1>4. Y!ClosedYearKeepsItsProof
  BY <1>1, ProvenIs DEF Proven, Currents
<1>5. Y!OverdrawnOnlyByOlder
  BY <1>1, OverdrawnIs DEF Overdrawn, NewerOn
<1> QED  BY <1>2, <1>3, <1>4, <1>5 DEF YearsInv

LEMMA YearPosted ==
  ASSUME YearsInv, NEW y \in Years, NEW book, book.margin \in Int, book.depreciation \in Int,
         Y!PostEntry(y, book)
  PROVE  YearsInv'
<1>1. /\ status[y] = "OPEN"
      /\ ledger' = [ledger EXCEPT ![y] = [entries |-> ledger[y].entries + 1,
                       margin |-> book.margin, depreciation |-> book.depreciation]]
      /\ UNCHANGED <<status, structure, computed, live, register, snapshots>>
  BY DEF Y!PostEntry
<1>2. YearsTypeOK' /\ RegisterOfLive'
  <2>1. ledger' \in [Years -> [entries : Nat, margin : Int, depreciation : Int]]
    <3>1. ledger \in [Years -> [entries : Nat, margin : Int, depreciation : Int]]
      BY DEF YearsInv, YearsTypeOK
    <3>2. [entries |-> ledger[y].entries + 1, margin |-> book.margin,
           depreciation |-> book.depreciation] \in [entries : Nat, margin : Int, depreciation : Int]
      BY <3>1
    <3> QED  BY <1>1, <3>1, <3>2
  <2>2. YearsTypeOK'
    BY <1>1, <2>1 DEF YearsInv, YearsTypeOK, Y!HasLive
  <2>3. RegisterOfLive'
    BY <1>1 DEF YearsInv, RegisterOfLive, Y!HasLive
  <2> QED  BY <2>2, <2>3
<1>3. Y!ClosedYearKeepsItsProof'
  <2>1. \A z \in Years : z # y => ledger'[z] = ledger[z]
    BY <1>1 DEF YearsInv, YearsTypeOK
  <2>2. \A z \in Years : Proven(status[z], snapshots[z], ledger[z], live[z], register[z])
    BY ProvenIs DEF YearsInv
  <2>3. \A z \in Years : Proven(status[z], snapshots[z], ledger'[z], live[z], register[z])
    <3> SUFFICES ASSUME NEW z \in Years
                 PROVE  Proven(status[z], snapshots[z], ledger'[z], live[z], register[z])
      OBVIOUS
    <3>1. CASE z = y
      <4>1. Currents(snapshots[y]) = {} /\ status[y] # "CLOSED"
        BY <1>1, <2>2 DEF Proven
      <4> QED  BY <3>1, <4>1 DEF Proven
    <3>2. CASE z # y
      BY <2>1, <2>2, <3>2
    <3> QED  BY <3>1, <3>2
  <2> QED  BY <1>1, <2>3, ProvenIs
<1>4. Y!UnclosedYearDrawsOnClosed'
  BY <1>1, DrawsKept DEF YearsInv, Y!HasLive
<1>5. Y!OverdrawnOnlyByOlder'
  BY <1>1, OverdrawnWithdrawn
<1> QED  BY <1>2, <1>3, <1>4, <1>5 DEF YearsInv

LEMMA YearComputed ==
  ASSUME YearsInv, NEW y \in Years, NEW n \in Int, Y!ComputeFiscal(y, n)
  PROVE  YearsInv'
<1>1. PICK new : Computes(y, new)
  BY ComputeStores
<1>2. /\ live'[y] = new /\ new # Y!None /\ new.id = computed + 1 /\ SplitOK(new.split)
      /\ register'[y] = [by |-> new.id, unused |-> new.split.unused,
                         taxLoss |-> new.split.taxLoss]
      /\ \A z \in Years \ {y} : live'[z] = live[z] /\ register'[z] = register[z]
      /\ status[y] = "OPEN" /\ computed' = computed + 1 /\ computed \in Nat
      /\ UNCHANGED <<status, ledger, structure, snapshots>>
  BY <1>1 DEF Computes, YearsInv, YearsTypeOK
<1>3. YearsTypeOK'
  <2>1. register' \in [Years -> [by : 0..computed', unused : Nat, taxLoss : Nat]]
    <3>1. register' = [z \in Years |-> register'[z]]
      BY <1>1 DEF Computes, YearsInv, YearsTypeOK
    <3>2. \A z \in Years : register[z] \in [by : 0..computed, unused : Nat, taxLoss : Nat]
      BY DEF YearsInv, YearsTypeOK
    <3>3. ASSUME NEW z \in Years
          PROVE  register'[z] \in [by : 0..computed', unused : Nat, taxLoss : Nat]
      BY <1>2, <3>2 DEF SplitOK
    <3> QED  BY <3>1, <3>3
  <2>2. live' = [z \in Years |-> live'[z]]
    BY <1>1 DEF Computes, YearsInv, YearsTypeOK
  <2>3. ASSUME NEW z \in Years, Y!HasLive(z)'
        PROVE  live'[z].id \in 1..computed' /\ SplitOK(live'[z].split)
    <3>1. CASE z = y
      BY <1>2, <3>1
    <3>2. CASE z # y
      <4>1. live'[z] = live[z] /\ Y!HasLive(z)
        BY <1>2, <2>3, <3>2 DEF Y!HasLive
      <4>2. live[z].id \in 1..computed /\ SplitOK(live[z].split)
        BY <4>1 DEF YearsInv, YearsTypeOK
      <4> QED  BY <1>2, <4>1, <4>2
    <3> QED  BY <3>1, <3>2
  <2>4. computed' \in Nat
    BY <1>2
  <2>5. /\ status' \in [Years -> YearStatuses]
        /\ ledger' \in [Years -> [entries : Nat, margin : Int, depreciation : Int]]
        /\ snapshots' \in [Years -> Seq(Generation)]
    BY <1>2 DEF YearsInv, YearsTypeOK
  <2> QED  BY <2>1, <2>2, <2>3, <2>4, <2>5 DEF YearsTypeOK
<1>4. RegisterOfLive'
  <2> SUFFICES ASSUME NEW z \in Years, Y!HasLive(z)'
               PROVE  register'[z] = [by |-> live'[z].id, unused |-> live'[z].split.unused,
                                      taxLoss |-> live'[z].split.taxLoss]
    BY DEF RegisterOfLive
  <2> QED  BY <1>2 DEF YearsInv, RegisterOfLive, Y!HasLive
<1>5. Y!ClosedYearKeepsItsProof'
  <2> SUFFICES ASSUME NEW z \in Years
               PROVE  Proven(status'[z], snapshots'[z], ledger'[z], live'[z], register'[z])
    BY ProvenIs
  <2>1. Proven(status[z], snapshots[z], ledger[z], live[z], register[z])
    BY ProvenIs DEF YearsInv
  <2> QED  BY <1>2, <2>1 DEF Proven
<1>6. Y!UnclosedYearDrawsOnClosed'
  <2> SUFFICES ASSUME NEW z \in Years, NEW o \in Years,
                      status'[z] # "CLOSED", Y!HasLive(z)', Y!Uses(z, o)' > 0
               PROVE  o < z /\ status'[o] = "CLOSED"
    BY YearsConstants DEF Y!UnclosedYearDrawsOnClosed
  <2>1. CASE z = y
    <3>1. Y!Uses(z, o)' = new.split.depreciationUses[o]
                            + (new.split.lossUses[o] + new.split.lossExpiries[o])
      <4>1. /\ new.split.depreciationUses[o] \in Nat /\ new.split.lossUses[o] \in Nat
            /\ new.split.lossExpiries[o] \in Nat
        BY <1>2 DEF SplitOK, Shares
      <4> QED  BY <1>2, <2>1, <4>1 DEF Y!Uses
    <3> QED  BY <1>1, <1>2, <2>1, <3>1 DEF Computes
  <2>2. CASE z # y
    <3>1. Y!HasLive(z) /\ Y!Uses(z, o) > 0 /\ status[z] # "CLOSED"
      BY <1>2, <2>2 DEF Y!HasLive, Y!Uses
    <3> QED  BY <1>2, <3>1, YearsConstants DEF YearsInv, Y!UnclosedYearDrawsOnClosed
  <2> QED  BY <2>1, <2>2
<1>7. Y!OverdrawnOnlyByOlder'
  BY <1>1, OverdrawnComputed
<1> QED  BY <1>3, <1>4, <1>5, <1>6, <1>7 DEF YearsInv

\* The steps that change a status, and take computations away.
LEMMA YearMoved ==
  ASSUME YearsInv,
         \/ \E y \in Years : Y!MarkReady(y) \/ Y!CloseYear(y) \/ Y!ReopenYear(y)
         \/ Y!CreateStructure \/ Y!CorrectStructure
  PROVE  YearsInv'
<1>1. ASSUME UNCHANGED <<ledger, computed, register>>,
             status' \in [Years -> YearStatuses], snapshots' \in [Years -> Seq(Generation)],
             live' = [z \in Years |-> live'[z]],
             \A z \in Years : /\ live'[z] = live[z] \/ live'[z] = Y!None
                              /\ Proven(status'[z], snapshots'[z], ledger[z], live'[z], register[z]),
             \A y, o \in Years : Y!HasLive(y)' /\ status'[y] # "CLOSED" =>
               status[y] # "CLOSED" /\ (o < y /\ status[o] = "CLOSED" => status'[o] = "CLOSED")
      PROVE  YearsInv'
  <2>1. YearsTypeOK' /\ RegisterOfLive'
    BY <1>1 DEF YearsInv, YearsTypeOK, RegisterOfLive, Y!HasLive
  <2>2. Y!ClosedYearKeepsItsProof'
    BY <1>1, ProvenIs
  <2>3. Y!UnclosedYearDrawsOnClosed'
    BY <1>1, DrawsKept DEF Y!HasLive
  <2>4. Y!OverdrawnOnlyByOlder'
    BY <1>1, OverdrawnWithdrawn
  <2> QED  BY <2>1, <2>2, <2>3, <2>4 DEF YearsInv
<1>2. \A z \in Years : /\ Proven(status[z], snapshots[z], ledger[z], live[z], register[z])
                       /\ snapshots[z] \in Seq(Generation)
  BY ProvenIs DEF YearsInv, YearsTypeOK
<1>3. ASSUME NEW y \in Years, Y!MarkReady(y) PROVE YearsInv'
  <2>1. /\ status[y] # "CLOSED" /\ status' = [status EXCEPT ![y] = "READY_TO_CLOSE"]
        /\ UNCHANGED <<ledger, structure, computed, live, register, snapshots>>
    BY <1>3 DEF Y!MarkReady
  <2>2. status'[y] = "READY_TO_CLOSE" /\ \A z \in Years \ {y} : status'[z] = status[z]
    BY <2>1 DEF YearsInv, YearsTypeOK
  <2>3. \A z \in Years : Proven(status'[z], snapshots'[z], ledger[z], live'[z], register[z])
    <3> TAKE z \in Years
    <3>1. Proven(status[z], snapshots[z], ledger[z], live[z], register[z])
      BY <1>2
    <3>2. snapshots' = snapshots /\ live' = live
      BY <2>1
    <3>3. CASE z = y
      <4>1. Currents(snapshots[y]) = {}
        BY <2>1, <3>1, <3>3 DEF Proven
      <4> QED  BY <2>2, <3>2, <3>3, <4>1 DEF Proven
    <3>4. CASE z # y
      BY <2>2, <3>1, <3>2, <3>4
    <3> QED  BY <3>3, <3>4
  <2>4. status' \in [Years -> YearStatuses]
    BY <2>1 DEF YearsInv, YearsTypeOK, YearStatuses
  <2> QED  BY <1>1, <2>1, <2>2, <2>3, <2>4 DEF YearsInv, YearsTypeOK
<1>4. ASSUME NEW y \in Years, Y!CloseYear(y) PROVE YearsInv'
  <2>1. /\ status[y] = "READY_TO_CLOSE" /\ status' = [status EXCEPT ![y] = "CLOSED"]
        /\ snapshots' = [snapshots EXCEPT ![y] = Y!Closing(y)]
        /\ UNCHANGED <<ledger, structure, computed, live, register>>
    BY <1>4 DEF Y!CloseYear
  <2>2. /\ status'[y] = "CLOSED" /\ \A z \in Years \ {y} : status'[z] = status[z]
        /\ snapshots'[y] = Y!Closing(y) /\ \A z \in Years \ {y} : snapshots'[z] = snapshots[z]
    BY <2>1 DEF YearsInv, YearsTypeOK
  <2>3. \A z \in Years : Proven(status'[z], snapshots'[z], ledger[z], live'[z], register[z])
    BY <1>2, <1>4, <2>1, <2>2, ClosingIs
  <2>4. status' \in [Years -> YearStatuses] /\ snapshots' \in [Years -> Seq(Generation)]
    BY <1>4, <2>1, ClosingIs DEF YearsInv, YearsTypeOK, YearStatuses
  <2> QED  BY <1>1, <2>1, <2>2, <2>3, <2>4 DEF YearsInv, YearsTypeOK
<1>5. ASSUME NEW y \in Years, Y!ReopenYear(y) PROVE YearsInv'
  <2>1. /\ status[y] = "CLOSED" /\ status' = [status EXCEPT ![y] = "OPEN"]
        /\ snapshots' = [snapshots EXCEPT ![y] = Y!Superseded(snapshots[y])]
        /\ live' = [z \in Years |-> IF z = y \/ (z > y /\ status[z] # "CLOSED")
                                     THEN Y!None ELSE live[z]]
        /\ UNCHANGED <<ledger, structure, computed, register>>
    BY <1>5, YearsConstants DEF Y!ReopenYear, Y!Invalidated, Y!ReopenedSnapshots
  <2>2. /\ status'[y] = "OPEN" /\ \A z \in Years \ {y} : status'[z] = status[z]
        /\ snapshots'[y] = Y!Superseded(snapshots[y])
        /\ \A z \in Years \ {y} : snapshots'[z] = snapshots[z]
        /\ \A z \in Years : live'[z] = IF z = y \/ (z > y /\ status[z] # "CLOSED")
                                         THEN Y!None ELSE live[z]
    BY <2>1 DEF YearsInv, YearsTypeOK
  <2>3. /\ Currents(Y!Superseded(snapshots[y])) = {}
        /\ Y!Superseded(snapshots[y]) \in Seq(Generation)
    BY <1>2, SupersededIs
  <2>4. ASSUME NEW z \in Years
        PROVE  Proven(status'[z], snapshots'[z], ledger[z], live'[z], register[z])
    <3>1. CASE z = y
      BY <2>2, <2>3, <3>1 DEF Proven
    <3>2. CASE z # y
      <4>1. status'[z] = status[z] /\ snapshots'[z] = snapshots[z]
        BY <2>2, <3>2
      <4>2. status[z] = "CLOSED" => live'[z] = live[z]
        BY <2>2, <3>2
      <4> QED  BY <1>2, <4>1, <4>2 DEF Proven
    <3> QED  BY <3>1, <3>2
  <2>5. status' \in [Years -> YearStatuses] /\ snapshots' \in [Years -> Seq(Generation)]
    BY <2>1, <2>3 DEF YearsInv, YearsTypeOK, YearStatuses
  <2>6. \A u, o \in Years : Y!HasLive(u)' /\ status'[u] # "CLOSED" =>
          status[u] # "CLOSED" /\ (o < u /\ status[o] = "CLOSED" => status'[o] = "CLOSED")
    BY <2>2 DEF Y!HasLive
  <2>7. live' = [z \in Years |-> live'[z]]
    BY <2>1
  <2> QED  BY <1>1, <2>1, <2>2, <2>4, <2>5, <2>6, <2>7
<1>6. ASSUME Y!CreateStructure PROVE YearsInv'
  BY <1>1, <1>2, <1>6 DEF Y!CreateStructure, YearsInv, YearsTypeOK
<1>7. ASSUME Y!CorrectStructure PROVE YearsInv'
  <2>1. /\ status' = [z \in Years |-> IF status[z] # "CLOSED" THEN "OPEN" ELSE status[z]]
        /\ live' = [z \in Years |-> IF status[z] # "CLOSED" THEN Y!None ELSE live[z]]
        /\ snapshots' = [z \in Years |-> IF status[z] # "CLOSED"
                                          THEN Y!Superseded(snapshots[z]) ELSE snapshots[z]]
        /\ UNCHANGED <<ledger, computed, register>>
    BY <1>7, YearsConstants DEF Y!CorrectStructure
  <2>2. ASSUME NEW z \in Years
        PROVE  /\ Currents(Y!Superseded(snapshots[z])) = {}
               /\ Y!Superseded(snapshots[z]) \in Seq(Generation)
    BY <1>2, SupersededIs
  <2>3. \A z \in Years : Proven(status'[z], snapshots'[z], ledger[z], live'[z], register[z])
    BY <1>2, <2>1, <2>2 DEF Proven
  <2>4. status' \in [Years -> YearStatuses] /\ snapshots' \in [Years -> Seq(Generation)]
    BY <1>2, <2>1, <2>2 DEF YearsInv, YearsTypeOK, YearStatuses
  <2>5. \A u, o \in Years : Y!HasLive(u)' /\ status'[u] # "CLOSED" =>
          status[u] # "CLOSED" /\ (o < u /\ status[o] = "CLOSED" => status'[o] = "CLOSED")
    BY <2>1 DEF Y!HasLive
  <2>6. live' = [z \in Years |-> live'[z]]
    BY <2>1
  <2> QED  BY <1>1, <2>1, <2>3, <2>4, <2>5, <2>6
<1> QED  BY <1>3, <1>4, <1>5, <1>6, <1>7

-----------------------------------------------------------------------------
(* The theorems *)

LEMMA YearsInvHolds == MCSpec => []YearsInv
<1>1. MCInit => YearsInv
  BY YearsInitially DEF MCInit
<1>2. ASSUME YearsInv, [MCNext]_<<openingVars, fiscalVars, scene>> PROVE YearsInv'
  <2>1. \A n \in Additions : n \in Int
    BY YearsAssumption DEF Y!YearsAssumption
  <2>2. \A b \in MCLossBooks \cup MCDepreciationBooks :
          b.margin \in Int /\ b.depreciation \in Int
    BY DEF MCLossBooks, MCDepreciationBooks, Book
  <2>3. CASE Losses
    BY <1>2, <2>2, <2>3, YearsConstants, YearPosted, YearComputed, YearMoved DEF Losses
  <2>4. CASE Depreciation
    BY <1>2, <2>1, <2>2, <2>4, YearsConstants, YearPosted, YearComputed, YearMoved
       DEF Depreciation
  <2>5. CASE UNCHANGED fiscalVars
    <3>1. UNCHANGED <<structure, ledger, computed, register, status, snapshots, live>>
      BY <2>5 DEF fiscalVars
    <3>2. YearsTypeOK' /\ RegisterOfLive'
      BY <1>2, <3>1 DEF YearsInv, YearsTypeOK, RegisterOfLive, Y!HasLive
    <3>3. Y!ClosedYearKeepsItsProof'
      BY <1>2, <3>1 DEF YearsInv, Y!ClosedYearKeepsItsProof, Y!HasLive
    <3>4. Y!UnclosedYearDrawsOnClosed'
      BY <1>2, <3>1 DEF YearsInv, Y!UnclosedYearDrawsOnClosed, Y!HasLive, Y!Uses
    <3>5. Y!OverdrawnOnlyByOlder'
      BY <1>2, <3>1 DEF YearsInv, Y!OverdrawnOnlyByOlder, Y!HasLive, Y!Uses
    <3> QED  BY <3>2, <3>3, <3>4, <3>5 DEF YearsInv
  <2> QED  BY <1>2, <2>3, <2>4, <2>5 DEF MCNext
<1> QED  BY <1>1, <1>2, PTL DEF MCSpec

\* close_year, reopen_year: a closed year keeps the generation, the ledger, the
\* computation and the registers of its closing, whatever happens elsewhere.
THEOREM ClosedYearKeepsItsProofHolds == MCSpec => []ClosedYearKeepsItsProof
<1>1. YearsInv => ClosedYearKeepsItsProof
  BY DEF YearsInv, ClosedYearKeepsItsProof
<1> QED  BY <1>1, YearsInvHolds, PTL

\* reopen_year takes its stock back from every later computation not frozen by
\* a closing.
THEOREM UnclosedYearDrawsOnClosedHolds == MCSpec => []UnclosedYearDrawsOnClosed
<1>1. YearsInv => UnclosedYearDrawsOnClosed
  BY DEF YearsInv, UnclosedYearDrawsOnClosed
<1> QED  BY <1>1, YearsInvHolds, PTL

\* Only computations older than the one that set the amount overdraw a stock.
THEOREM OverdrawnOnlyByOlderHolds == MCSpec => []OverdrawnOnlyByOlder
<1>1. YearsInv => OverdrawnOnlyByOlder
  BY DEF YearsInv, OverdrawnOnlyByOlder
<1> QED  BY <1>1, YearsInvHolds, PTL
=============================================================================
