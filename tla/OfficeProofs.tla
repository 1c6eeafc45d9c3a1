---------------------------- MODULE OfficeProofs ----------------------------
(***************************************************************************)
(* Theorems about the office work of the year, for any number of entries,  *)
(* tenants, exercises, files, corrections and cancellations: the           *)
(* settlements and the loan of Operations, the receipts of Rents, the      *)
(* files of Imports, the schedules of LoanImports.                         *)
(*                                                                         *)
(* What is said of the book, of the operations or of the payments is said  *)
(* of any sequence of them, and that what a handler appends keeps it so.   *)
(***************************************************************************)
EXTENDS MCOffice, SumFacts, SequenceTheorems

-----------------------------------------------------------------------------
(* Operations: a book of entries *)

Kinds == {"OPERATION", "SETTLEMENT", "LOAN_FUNDING", "LOAN_PAYMENT", "ACQUISITION",
          "MANUAL", "REVERSAL"}
OpEntry == [kind : Kinds, date : Nat, amount : Nat, principal : Int,
            due : Rows \cup {0}, parent : Nat, of : Nat, paid : BOOLEAN]

FieldIn(b, field, S) == SumFunctionOnSet([n \in DOMAIN b |-> b[n][field]], S)
Undone(b, n) == \E k \in DOMAIN b : b[k].of = n
Stand(b) == {n \in DOMAIN b : b[n].of = 0 /\ ~ Undone(b, n)}
Settlements(b, n) == {k \in DOMAIN b : b[k].parent = n /\ b[k].kind = "SETTLEMENT"
                                       /\ ~ Undone(b, k)}
PrincipalOf(b) == FieldIn(b, "principal", DOMAIN b)
Sources(b) == {n \in Stand(b) : b[n].kind \in {"LOAN_FUNDING", "ACQUISITION"}
                                /\ b[n].principal # 0}

\* What an entry is, among those before it.
OpFits(b, e) ==
  /\ e.kind = "REVERSAL" <=> e.of # 0
  /\ e.of # 0 => /\ e.of \in DOMAIN b /\ b[e.of].of = 0
                 /\ e.principal = - b[e.of].principal
  /\ e.kind = "SETTLEMENT" <=> e.parent # 0
  /\ e.parent # 0 => e.parent \in DOMAIN b /\ b[e.parent].kind = "OPERATION"
  /\ e.kind \in {"OPERATION", "SETTLEMENT"} => e.principal = 0
  /\ e.kind = "LOAN_FUNDING" => e.principal = e.amount
  /\ e.kind = "LOAN_PAYMENT" => e.principal <= 0
  /\ e.kind = "ACQUISITION" => e.principal >= 0
  /\ e.kind \in {"LOAN_FUNDING", "ACQUISITION"} => e.principal <= InitialPrincipal

OpFormed(b) == \A n \in DOMAIN b : OpFits(b, b[n]) /\ b[n].of < n /\ b[n].parent < n

\* A reversal takes back what it reverses: the account of the loan holds what the
\* entries that stand put there.
StandHolds(b) == PrincipalOf(b) = FieldIn(b, "principal", Stand(b))

WithinOperation(b) == \A n \in DOMAIN b : b[n].kind = "OPERATION" =>
  /\ FieldIn(b, "amount", Settlements(b, n)) <= b[n].amount
  /\ FieldIn(b, "amount", Settlements(b, n)) > 0 => ~ Undone(b, n) /\ ~ b[n].paid

InTurn(b) == \A n, k \in DOMAIN b :
  /\ n \in Stand(b) /\ b[n].principal # 0
  /\ n < k /\ b[k].kind \in O!LoanOperations /\ b[k].date < b[n].date
  => \E r, v \in 1..(k - 1) :
       /\ b[r].kind = "LOAN_PAYMENT" /\ b[v].of = r
       /\ b[r].date = b[k].date \/ (b[k].due # 0 /\ b[r].due = b[k].due)

NotByHand(b) == \A n \in DOMAIN b : b[n].kind = "MANUAL" => b[n].principal = 0
WithinLoan(b) == NotByHand(b) =>
  /\ \A n, k \in Sources(b) : n = k
  /\ Sources(b) # {} => PrincipalOf(b) >= 0
  /\ PrincipalOf(b) < 0 => \E n \in DOMAIN b :
       /\ b[n].kind = "ACQUISITION" /\ Undone(b, n)
       /\ PrincipalOf(b) + b[n].principal >= 0

OpSound(b) == /\ b \in Seq(OpEntry) /\ OpFormed(b) /\ StandHolds(b)
              /\ WithinOperation(b) /\ InTurn(b) /\ WithinLoan(b)

\* When an entry may be appended.
OpAllowed(b, e) ==
  /\ e.of # 0 => /\ ~ Undone(b, e.of)
                 /\ \A k \in DOMAIN b : b[k].parent = e.of => Undone(b, k)
                 /\ b[e.of].kind = "LOAN_FUNDING" => PrincipalOf(b) >= b[e.of].amount
  /\ e.parent # 0 =>
       /\ ~ Undone(b, e.parent) /\ ~ b[e.parent].paid
       /\ FieldIn(b, "amount", Settlements(b, e.parent)) + e.amount <= b[e.parent].amount
  /\ e.kind = "LOAN_FUNDING" =>
       /\ PrincipalOf(b) = 0
       /\ \A n \in Stand(b) : b[n].kind \notin O!LoanOperations
  /\ e.kind = "LOAN_PAYMENT" => PrincipalOf(b) + e.principal >= 0
  /\ e.kind = "ACQUISITION" /\ e.principal # 0 => \A n \in DOMAIN b : b[n].principal = 0
  /\ e.kind \in O!LoanOperations =>
       \/ \A n \in Stand(b) : b[n].principal # 0 => b[n].date <= e.date
       \/ \E r, v \in DOMAIN b :
            /\ b[r].kind = "LOAN_PAYMENT" /\ b[v].of = r
            /\ b[r].date = e.date \/ (e.due # 0 /\ b[r].due = e.due)

-----------------------------------------------------------------------------
(* An entry appended *)

LEMMA OpDomain ==
  ASSUME NEW b \in Seq(OpEntry)
  PROVE  /\ DOMAIN b = 1..Len(b) /\ Len(b) \in Nat /\ IsFiniteSet(DOMAIN b)
         /\ \A n \in DOMAIN b : b[n] \in OpEntry /\ n \in Nat /\ n # 0
<1>1. IsFiniteSet(1..Len(b))
  BY FS_Interval
<1> QED  BY <1>1

LEMMA OpAppended ==
  ASSUME NEW b \in Seq(OpEntry), NEW e \in OpEntry
  PROVE  LET c == Append(b, e)
             N == Len(b) + 1
         IN  /\ c \in Seq(OpEntry)
             /\ DOMAIN b = 1..Len(b) /\ IsFiniteSet(DOMAIN b)
             /\ DOMAIN c = DOMAIN b \cup {N} /\ N \notin DOMAIN b
             /\ c[N] = e
             /\ \A n \in DOMAIN b : c[n] = b[n] /\ b[n] \in OpEntry
<1>1. IsFiniteSet(1..Len(b))
  BY FS_Interval
<1> QED  BY <1>1, AppendProperties

LEMMA FieldTyped ==
  ASSUME NEW e \in OpEntry
  PROVE  e["amount"] \in Int /\ e["principal"] \in Int /\ e.of \in Nat
  BY DEF OpEntry

\* Sums of a field over some entries.
LEMMA FieldInt ==
  ASSUME NEW b \in Seq(OpEntry), NEW field \in {"amount", "principal"},
         NEW S \in SUBSET DOMAIN b
  PROVE  /\ FieldIn(b, field, S) \in Int
         /\ \A n \in S : FieldIn(b, field, S) = b[n][field] + FieldIn(b, field, S \ {n})
         /\ (\A n \in S : b[n][field] >= 0) => FieldIn(b, field, S) >= 0
         /\ (\A n \in S : b[n][field] <= 0) => FieldIn(b, field, S) <= 0
         /\ \A n \in S : b[n][field] \in Int
<1> DEFINE f == [n \in DOMAIN b |-> b[n][field]]
           z == [n \in DOMAIN b |-> 0]
<1>1. IsFiniteSet(S)
  BY OpDomain, FS_Subset
<1>2. \A n \in S : f[n] \in Int /\ f[n] = b[n][field] /\ z[n] = 0
  <2> TAKE n \in S
  <2>1. b[n] \in OpEntry /\ f[n] = b[n][field] /\ z[n] = 0
    BY OpDomain
  <2> HIDE DEF f, z
  <2>2. b[n]["amount"] \in Int /\ b[n]["principal"] \in Int
    BY <2>1, FieldTyped
  <2> QED  BY <2>1, <2>2
<1>3. \A T : FieldIn(b, field, T) = SumFunctionOnSet(f, T)
  BY DEF FieldIn
<1> HIDE DEF f, z
<1>4. SumFunctionOnSet(f, S) \in Int
  BY <1>1, <1>2, SumInt
<1>5. \A n \in S : SumFunctionOnSet(f, S) = f[n] + SumFunctionOnSet(f, S \ {n})
  BY <1>1, <1>2, SumRemove
<1>6. SumFunctionOnSet(z, S) = 0
  BY <1>1, <1>2, SumZero
<1>7. ASSUME \A n \in S : b[n][field] >= 0 PROVE SumFunctionOnSet(f, S) >= 0
  <2>1. \A n \in S : z[n] \in Int /\ f[n] \in Int /\ z[n] <= f[n]
    BY <1>2, <1>7
  <2>2. SumFunctionOnSet(z, S) <= SumFunctionOnSet(f, S)
    BY <1>1, <2>1, SumMonotone
  <2> QED  BY <1>4, <1>6, <2>2
<1>8. ASSUME \A n \in S : b[n][field] <= 0 PROVE SumFunctionOnSet(f, S) <= 0
  <2>1. \A n \in S : z[n] \in Int /\ f[n] \in Int /\ f[n] <= z[n]
    BY <1>2, <1>8
  <2>2. SumFunctionOnSet(f, S) <= SumFunctionOnSet(z, S)
    BY <1>1, <2>1, SumMonotone
  <2> QED  BY <1>4, <1>6, <2>2
<1> QED  BY <1>2, <1>3, <1>4, <1>5, <1>7, <1>8

LEMMA FieldAppended ==
  ASSUME NEW b \in Seq(OpEntry), NEW e \in OpEntry, NEW S \in SUBSET DOMAIN b,
         NEW field \in {"amount", "principal"}
  PROVE  /\ FieldIn(Append(b, e), field, S) = FieldIn(b, field, S)
         /\ FieldIn(Append(b, e), field, S \cup {Len(b) + 1})
              = FieldIn(b, field, S) + e[field]
         /\ e[field] \in Int
<1> DEFINE c == Append(b, e)
           N == Len(b) + 1
           f == [n \in DOMAIN b |-> b[n][field]]
           g == [n \in DOMAIN c |-> c[n][field]]
<1>1. /\ DOMAIN c = DOMAIN b \cup {N} /\ N \notin DOMAIN b /\ c[N] = e
      /\ \A n \in DOMAIN b : c[n] = b[n] /\ b[n] \in OpEntry
      /\ IsFiniteSet(DOMAIN b)
  BY OpAppended
<1>2. IsFiniteSet(S)
  BY <1>1, FS_Subset
<1>3. e[field] \in Int /\ \A n \in DOMAIN b : b[n][field] \in Int
  BY <1>1 DEF OpEntry
<1> HIDE DEF c, N
<1>4. (\A n \in S : f[n] = g[n]) /\ g[N] = e[field]
  BY <1>1
<1>5. \A n \in S \cup {N} : g[n] \in Int
  BY <1>1, <1>3
<1>6. FieldIn(b, field, S) = SumFunctionOnSet(f, S)
  BY DEF FieldIn
<1>7. \A T : FieldIn(c, field, T) = SumFunctionOnSet(g, T)
  BY DEF FieldIn
<1> HIDE DEF f, g
<1>8. SumFunctionOnSet(f, S) = SumFunctionOnSet(g, S)
  BY <1>2, <1>4, SumSame
<1>9. SumFunctionOnSet(g, S \cup {N}) = g[N] + SumFunctionOnSet(g, S)
  BY <1>1, <1>2, <1>5, SumAdd
<1>10. SumFunctionOnSet(g, S) \in Int
  BY <1>2, <1>5, SumInt
<1> QED  BY <1>3, <1>4, <1>6, <1>7, <1>8, <1>9, <1>10 DEF c, N

LEMMA UndoneAppended ==
  ASSUME NEW b \in Seq(OpEntry), NEW e \in OpEntry, OpFormed(b), OpFits(b, e)
  PROVE  LET c == Append(b, e)
             N == Len(b) + 1
         IN  /\ \A n \in DOMAIN b : Undone(c, n) <=> Undone(b, n) \/ n = e.of
             /\ ~ Undone(c, N)
             /\ Stand(c) = (Stand(b) \ {e.of}) \cup (IF e.of = 0 THEN {N} ELSE {})
             /\ \A n : n # 0 => Settlements(c, n) = (Settlements(b, n) \ {e.of})
                          \cup (IF e.parent = n THEN {N} ELSE {})
<1> DEFINE c == Append(b, e)
           N == Len(b) + 1
<1>1. /\ DOMAIN c = DOMAIN b \cup {N} /\ N \notin DOMAIN b /\ c[N] = e
      /\ \A n \in DOMAIN b : c[n] = b[n] /\ b[n] \in OpEntry
      /\ \A n \in DOMAIN b : b[n].of < n /\ n < N
      /\ e.of # 0 => e.of \in DOMAIN b
  BY OpAppended DEF OpFormed, OpFits
<1>2. \A k \in DOMAIN c : c[k].of # N
  <2>1. \A k \in DOMAIN b : b[k].of # N
    <3> TAKE k \in DOMAIN b
    <3>1. b[k].of \in Nat /\ b[k].of < k /\ k < N
      BY <1>1, FieldTyped
    <3>2. k \in Int /\ N \in Int
      BY OpDomain
    <3> HIDE DEF N
    <3> QED  BY <3>1, <3>2
  <2>2. e.of # N
    <3>1. 0 # N
      BY OpDomain
    <3> HIDE DEF N
    <3> QED  BY <1>1, <3>1
  <2> QED  BY <1>1, <2>1, <2>2
<1>3. \A n \in DOMAIN b : Undone(c, n) <=> Undone(b, n) \/ n = e.of
  BY <1>1 DEF Undone
<1>4. ~ Undone(c, N)
  BY <1>2 DEF Undone
<1>5. 0 \notin DOMAIN b
  BY OpDomain
<1> HIDE DEF c, N
<1>6. Stand(c) = (Stand(b) \ {e.of}) \cup (IF e.of = 0 THEN {N} ELSE {})
  BY <1>1, <1>3, <1>4 DEF Stand
<1>7. ASSUME NEW n, n # 0
      PROVE  Settlements(c, n) = (Settlements(b, n) \ {e.of})
                \cup (IF e.parent = n THEN {N} ELSE {})
  <2>1. e.kind = "SETTLEMENT" <=> e.parent # 0
    BY DEF OpFits
  <2> QED  BY <1>1, <1>3, <1>4, <1>7, <2>1 DEF Settlements
<1> QED  BY <1>3, <1>4, <1>6, <1>7 DEF c, N

\* What the account of the loan holds.
LEMMA PrincipalAppended ==
  ASSUME NEW b \in Seq(OpEntry), NEW e \in OpEntry
  PROVE  /\ PrincipalOf(Append(b, e)) = PrincipalOf(b) + e.principal
         /\ PrincipalOf(b) \in Int /\ e.principal \in Int
<1>1. DOMAIN Append(b, e) = DOMAIN b \cup {Len(b) + 1}
  BY OpAppended
<1>2. FieldIn(b, "principal", DOMAIN b) \in Int
  BY FieldInt
<1>3. /\ FieldIn(Append(b, e), "principal", DOMAIN b \cup {Len(b) + 1})
           = FieldIn(b, "principal", DOMAIN b) + e["principal"]
      /\ e["principal"] \in Int
  <2>1. DOMAIN b \in SUBSET DOMAIN b /\ "principal" \in {"amount", "principal"}
    OBVIOUS
  <2> QED  BY <2>1, FieldAppended, Zenon
<1> QED  BY <1>1, <1>2, <1>3 DEF PrincipalOf

LEMMA OpFormedAppended ==
  ASSUME NEW b \in Seq(OpEntry), NEW e \in OpEntry, OpFormed(b), OpFits(b, e)
  PROVE  OpFormed(Append(b, e))
<1> DEFINE c == Append(b, e)
           N == Len(b) + 1
<1>1. /\ DOMAIN c = DOMAIN b \cup {N} /\ DOMAIN b = 1..Len(b) /\ c[N] = e
      /\ \A n \in DOMAIN b : c[n] = b[n] /\ b[n] \in OpEntry
      /\ Len(b) \in Nat
  BY OpAppended
<1> HIDE DEF c
<1>2. ASSUME NEW x \in OpEntry, OpFits(b, x) PROVE OpFits(c, x)
  BY <1>1, <1>2 DEF OpFits
<1>3. ASSUME NEW n \in DOMAIN b
      PROVE  OpFits(c, c[n]) /\ c[n].of < n /\ c[n].parent < n
  BY <1>1, <1>2 DEF OpFormed
<1>4. OpFits(c, c[N]) /\ e.of < N /\ e.parent < N
  <2>1. e.of < N /\ e.parent < N
    BY <1>1 DEF OpFits
  <2> QED  BY <1>1, <1>2, <2>1
<1> QED  BY <1>1, <1>3, <1>4 DEF OpFormed, c

LEMMA StandHoldsAppended ==
  ASSUME NEW b \in Seq(OpEntry), NEW e \in OpEntry, OpFormed(b), OpFits(b, e),
         StandHolds(b), OpAllowed(b, e)
  PROVE  StandHolds(Append(b, e))
<1> DEFINE c == Append(b, e)
           N == Len(b) + 1
           F(x, S) == FieldIn(x, "principal", S)
<1>1. Stand(c) = (Stand(b) \ {e.of}) \cup (IF e.of = 0 THEN {N} ELSE {})
  BY UndoneAppended
<1>2. Stand(b) \in SUBSET DOMAIN b /\ 0 \notin Stand(b)
  BY OpDomain DEF Stand
<1>3. /\ PrincipalOf(c) = PrincipalOf(b) + e.principal
      /\ PrincipalOf(b) \in Int /\ e.principal \in Int
  BY PrincipalAppended
<1>4. PrincipalOf(b) = F(b, Stand(b))
  BY DEF StandHolds
<1>5. CASE e.of = 0
  <2>1. Stand(c) = Stand(b) \cup {N}
    BY <1>1, <1>2, <1>5
  <2>2. F(c, Stand(b) \cup {N}) = F(b, Stand(b)) + e["principal"]
    BY <1>2, FieldAppended
  <2> QED  BY <1>3, <1>4, <2>1, <2>2 DEF StandHolds
<1>6. CASE e.of # 0
  <2> DEFINE o == e.of
  <2>1. o \in Stand(b) /\ e.principal = - b[o].principal
    BY <1>6 DEF OpFits, OpAllowed, Stand
  <2>2. Stand(c) = Stand(b) \ {o}
    BY <1>1, <1>6
  <2> HIDE DEF o
  <2>3. F(b, Stand(b)) = b[o]["principal"] + F(b, Stand(b) \ {o})
    BY <1>2, <2>1, FieldInt
  <2>4. /\ F(c, Stand(b) \ {o}) = F(b, Stand(b) \ {o})
        /\ F(b, Stand(b) \ {o}) \in Int
    <3>1. Stand(b) \ {o} \in SUBSET DOMAIN b
      BY <1>2
    <3>2. F(c, Stand(b) \ {o}) = F(b, Stand(b) \ {o})
      BY <3>1, FieldAppended
    <3>3. F(b, Stand(b) \ {o}) \in Int
      BY <3>1, FieldInt
    <3> QED  BY <3>2, <3>3
  <2>5. b[o]["principal"] \in Int
    BY <1>2, <2>1, FieldInt
  <2>6. PrincipalOf(c) = F(b, Stand(b) \ {o})
    <3> HIDE DEF F
    <3> QED  BY <1>3, <1>4, <2>1, <2>3, <2>4, <2>5
  <2> QED  BY <2>2, <2>4, <2>6 DEF StandHolds
<1> QED  BY <1>5, <1>6

LEMMA AmountSums ==
  ASSUME NEW b \in Seq(OpEntry), NEW S \in SUBSET DOMAIN b, NEW n \in S
  PROVE  /\ FieldIn(b, "amount", S \ {n}) <= FieldIn(b, "amount", S)
<1> DEFINE A(T) == FieldIn(b, "amount", T)
<1>1. A(S) = b[n]["amount"] + A(S \ {n}) /\ A(S) \in Int
  BY FieldInt
<1>2. A(S \ {n}) \in Int
  BY FieldInt
<1>3. b[n] \in OpEntry
  BY OpDomain
<1>4. b[n]["amount"] \in Nat
  BY <1>3 DEF OpEntry
<1> HIDE DEF A
<1>5. A(S \ {n}) <= A(S)
  BY <1>1, <1>2, <1>4
<1> QED  BY <1>5 DEF A

LEMMA WithinOperationAppended ==
  ASSUME NEW b \in Seq(OpEntry), NEW e \in OpEntry, OpFormed(b), OpFits(b, e),
         WithinOperation(b), OpAllowed(b, e)
  PROVE  WithinOperation(Append(b, e))
<1> DEFINE c == Append(b, e)
           N == Len(b) + 1
           A(x, S) == FieldIn(x, "amount", S)
<1>1. /\ DOMAIN c = DOMAIN b \cup {N} /\ N \notin DOMAIN b /\ c[N] = e
      /\ \A n \in DOMAIN b : c[n] = b[n] /\ b[n] \in OpEntry
      /\ 0 \notin DOMAIN b /\ N # 0
      /\ \A n \in DOMAIN b : b[n].parent < n /\ n < N
  BY OpAppended DEF OpFormed
<1>2. /\ \A n \in DOMAIN b : Undone(c, n) <=> Undone(b, n) \/ n = e.of
      /\ ~ Undone(c, N)
      /\ \A n : n # 0 => Settlements(c, n) = (Settlements(b, n) \ {e.of})
                    \cup (IF e.parent = n THEN {N} ELSE {})
  BY UndoneAppended
<1>3. \A n : Settlements(b, n) \in SUBSET DOMAIN b
  BY DEF Settlements
<1>4. \A S \in SUBSET DOMAIN b :
        /\ A(b, S) \in Int /\ A(c, S) = A(b, S)
        /\ A(c, S \cup {N}) = A(b, S) + e.amount
  BY FieldInt, FieldAppended
<1>5. \A S \in SUBSET DOMAIN b : \A n \in S : A(b, S \ {n}) <= A(b, S)
  BY AmountSums
<1>6. A(b, {}) = 0
  BY SumOfNone DEF FieldIn
<1>7. e.of # 0 => e.parent = 0
  BY DEF OpFits
<1>10. A(c, {}) = 0
  <2>1. {} \in SUBSET DOMAIN b
    OBVIOUS
  <2> QED  BY <1>4, <1>6, <2>1
<1>11. e.amount \in Nat
  BY DEF OpEntry
<1> SUFFICES ASSUME NEW n \in DOMAIN c, c[n].kind = "OPERATION"
             PROVE  /\ A(c, Settlements(c, n)) <= c[n].amount
                    /\ A(c, Settlements(c, n)) > 0 => ~ Undone(c, n) /\ ~ c[n].paid
  BY DEF WithinOperation
<1> HIDE DEF A, c, N
<1>8. CASE n = N
  <2>1. Settlements(b, N) = {}
    BY <1>1 DEF Settlements, OpEntry
  <2>2. e.parent # N
    BY <1>1 DEF OpFits
  <2>3. Settlements(c, N) = {}
    BY <1>1, <1>2, <2>1, <2>2
  <2> QED  BY <1>1, <1>8, <1>10, <1>11, <2>3
<1>9. CASE n \in DOMAIN b
  <2> DEFINE S == Settlements(b, n)
  <2>1. /\ S \in SUBSET DOMAIN b /\ c[n] = b[n] /\ n # 0 /\ b[n] \in OpEntry
        /\ Settlements(c, n) = (S \ {e.of}) \cup (IF e.parent = n THEN {N} ELSE {})
    BY <1>1, <1>2, <1>3, <1>9
  <2>2. /\ A(b, S) <= b[n].amount
        /\ A(b, S) > 0 => ~ Undone(b, n) /\ ~ b[n].paid
    BY <1>1, <1>9 DEF WithinOperation, A
  <2>3. \A k \in S : b[k].parent = n /\ ~ Undone(b, k)
    BY DEF Settlements
  <2> HIDE DEF S
  <2>4. CASE e.of = 0 /\ e.parent # n
    <3>1. Settlements(c, n) = S
      BY <1>1, <2>1, <2>4
    <3> QED  BY <1>1, <1>2, <1>4, <1>9, <2>1, <2>2, <2>4, <3>1
  <2>5. CASE e.parent = n
    <3>1. e.of = 0
      BY <1>7, <2>1, <2>5
    <3>2. Settlements(c, n) = S \cup {N}
      BY <1>1, <2>1, <2>5, <3>1
    <3>3. ~ Undone(b, n) /\ ~ b[n].paid /\ A(b, S) + e.amount <= b[n].amount
      BY <2>1, <2>5 DEF OpAllowed, A, S
    <3> QED  BY <1>1, <1>2, <1>4, <1>9, <2>1, <3>1, <3>2, <3>3
  <2>6. CASE e.of # 0
    <3>1. Settlements(c, n) = S \ {e.of}
      BY <1>7, <2>1, <2>6
    <3>2. CASE e.of = n
      <4>1. S = {}
        BY <1>1, <2>1, <2>3, <2>6, <3>2 DEF OpAllowed
      <4>2. Settlements(c, n) = {}
        BY <3>1, <4>1
      <4>3. b[n].amount \in Nat
        BY <2>1 DEF OpEntry
      <4>4. A(c, Settlements(c, n)) = 0
        BY <1>10, <4>2
      <4>5. c[n] = b[n] /\ 0 <= b[n].amount
        BY <2>1, <4>3
      <4> QED  BY <4>4, <4>5
    <3>3. CASE e.of # n
      <4>1. A(b, S \ {e.of}) <= A(b, S)
        <5>1. CASE e.of \in S
          BY <1>5, <2>1, <5>1
        <5>2. CASE e.of \notin S
          <6>1. S \ {e.of} = S
            BY <5>2
          <6>2. A(b, S) \in Int
            BY <1>4, <2>1
          <6>3. A(b, S) <= A(b, S)
            BY <6>2
          <6> QED  BY <6>1, <6>3
        <5> QED  BY <5>1, <5>2
      <4>2. A(b, S) \in Int
        BY <1>4, <2>1
      <4>5. A(c, S \ {e.of}) = A(b, S \ {e.of}) /\ A(b, S \ {e.of}) \in Int
        <5>1. S \ {e.of} \in SUBSET DOMAIN b
          BY <2>1
        <5> QED  BY <1>4, <5>1
      <4>3. b[n].amount \in Int
        BY <2>1 DEF OpEntry
      <4>4. Undone(c, n) <=> Undone(b, n)
        BY <1>2, <1>9, <3>3
      <4> DEFINE x == A(b, S)
                 y == A(b, S \ {e.of})
      <4>6. x \in Int /\ y \in Int /\ y <= x /\ b[n].amount \in Int
        BY <4>1, <4>2, <4>3, <4>5
      <4>7. x <= b[n].amount /\ (x > 0 => ~ Undone(b, n) /\ ~ b[n].paid)
        BY <2>2
      <4>8. A(c, Settlements(c, n)) = y
        BY <3>1, <4>5
      <4> HIDE DEF x, y
      <4>9. y <= b[n].amount /\ (y > 0 => ~ Undone(b, n) /\ ~ b[n].paid)
        BY <4>6, <4>7
      <4> QED  BY <2>1, <4>4, <4>8, <4>9
    <3> QED  BY <3>2, <3>3
  <2> QED  BY <2>4, <2>5, <2>6
<1> QED  BY <1>1, <1>8, <1>9

LEMMA InTurnAppended ==
  ASSUME NEW b \in Seq(OpEntry), NEW e \in OpEntry, OpFormed(b), OpFits(b, e),
         InTurn(b), OpAllowed(b, e)
  PROVE  InTurn(Append(b, e))
<1> DEFINE c == Append(b, e)
           N == Len(b) + 1
<1>1. /\ DOMAIN c = DOMAIN b \cup {N} /\ DOMAIN b = 1..Len(b) /\ c[N] = e
      /\ \A n \in DOMAIN b : c[n] = b[n]
      /\ Len(b) \in Nat
  BY OpAppended
<1>2. Stand(c) = (Stand(b) \ {e.of}) \cup (IF e.of = 0 THEN {N} ELSE {})
  BY UndoneAppended
<1> SUFFICES ASSUME NEW n \in DOMAIN c, NEW k \in DOMAIN c,
                    n \in Stand(c), c[n].principal # 0, n < k,
                    c[k].kind \in O!LoanOperations, c[k].date < c[n].date
             PROVE  \E r, v \in 1..(k - 1) :
                       /\ c[r].kind = "LOAN_PAYMENT" /\ c[v].of = r
                       /\ c[r].date = c[k].date \/ (c[k].due # 0 /\ c[r].due = c[k].due)
  BY DEF InTurn
<1> HIDE DEF c
<1>3. n \in DOMAIN b /\ n \in Stand(b) /\ c[n] = b[n]
  BY <1>1, <1>2
<1>4. CASE k \in DOMAIN b
  <2>1. c[k] = b[k]
    BY <1>1, <1>4
  <2>2. PICK r \in 1..(k - 1), v \in 1..(k - 1) :
          /\ b[r].kind = "LOAN_PAYMENT" /\ b[v].of = r
          /\ b[r].date = b[k].date \/ (b[k].due # 0 /\ b[r].due = b[k].due)
    BY <1>3, <1>4, <2>1 DEF InTurn
  <2>3. c[r] = b[r] /\ c[v] = b[v]
    BY <1>1, <1>4
  <2> QED  BY <2>1, <2>2, <2>3
<1>5. CASE k = N
  <2>1. c[k] = e /\ DOMAIN b = 1..(k - 1)
    BY <1>1, <1>5
  <2>2. ~ (b[n].date <= e.date)
    <3>1. b[n].date \in Nat /\ e.date \in Nat
      BY <1>3, OpDomain DEF OpEntry
    <3> QED  BY <1>3, <2>1, <3>1
  <2>3. \E r, v \in DOMAIN b :
            /\ b[r].kind = "LOAN_PAYMENT" /\ b[v].of = r
            /\ b[r].date = e.date \/ (e.due # 0 /\ b[r].due = e.due)
    BY <1>3, <2>1, <2>2 DEF OpAllowed
  <2> QED  BY <1>1, <2>1, <2>3
<1> QED  BY <1>1, <1>4, <1>5

\* What the account holds when no principal stands on it, or none but a source.
LEMMA StandSigns ==
  ASSUME NEW b \in Seq(OpEntry), StandHolds(b)
  PROVE  /\ (\A n \in Stand(b) : b[n].principal >= 0) => PrincipalOf(b) >= 0
         /\ (\A n \in Stand(b) : b[n].principal <= 0) => PrincipalOf(b) <= 0
         /\ \A n \in Stand(b) : (\A k \in Stand(b) \ {n} : b[k].principal >= 0)
                                   => PrincipalOf(b) >= b[n].principal
         /\ \A n \in Stand(b) : (\A k \in Stand(b) \ {n} : b[k].principal <= 0)
                                   => PrincipalOf(b) <= b[n].principal
<1> DEFINE F(S) == FieldIn(b, "principal", S)
           T == Stand(b)
<1>1. T \in SUBSET DOMAIN b
  BY DEF Stand
<1>2. PrincipalOf(b) = F(T)
  BY DEF StandHolds
<1> HIDE DEF T
<1>3. /\ (\A n \in T : b[n]["principal"] >= 0) => F(T) >= 0
      /\ (\A n \in T : b[n]["principal"] <= 0) => F(T) <= 0
      /\ \A n \in T : F(T) = b[n]["principal"] + F(T \ {n}) /\ b[n]["principal"] \in Int
  <2>1. "principal" \in {"amount", "principal"}
    OBVIOUS
  <2>2. /\ (\A n \in T : b[n]["principal"] >= 0) => F(T) >= 0
        /\ (\A n \in T : b[n]["principal"] <= 0) => F(T) <= 0
    BY <1>1, <2>1, FieldInt
  <2>3. \A n \in T : F(T) = b[n]["principal"] + F(T \ {n})
    BY <1>1, <2>1, FieldInt
  <2>4. \A n \in T : b[n]["principal"] \in Int
    BY <1>1, <2>1, FieldInt
  <2> QED  BY <2>2, <2>3, <2>4
<1>4. ASSUME NEW n \in T
      PROVE  /\ F(T \ {n}) \in Int
             /\ (\A k \in T \ {n} : b[k]["principal"] >= 0) => F(T \ {n}) >= 0
             /\ (\A k \in T \ {n} : b[k]["principal"] <= 0) => F(T \ {n}) <= 0
  <2>1. T \ {n} \in SUBSET DOMAIN b
    BY <1>1
  <2> QED  BY <2>1, FieldInt
<1> HIDE DEF F
<1>5. ASSUME NEW n \in T
      PROVE  /\ (\A k \in T \ {n} : b[k].principal >= 0) => F(T) >= b[n].principal
             /\ (\A k \in T \ {n} : b[k].principal <= 0) => F(T) <= b[n].principal
  <2> DEFINE x == F(T)
             y == F(T \ {n})
             p == b[n]["principal"]
  <2>1. y \in Int /\ p \in Int /\ x = p + y
    BY <1>3, <1>4
  <2>2. /\ (\A k \in T \ {n} : b[k]["principal"] >= 0) => y >= 0
        /\ (\A k \in T \ {n} : b[k]["principal"] <= 0) => y <= 0
    BY <1>4
  <2> HIDE DEF x, y, p
  <2>3. (y >= 0 => x >= p) /\ (y <= 0 => x <= p)
    BY <2>1
  <2> QED  BY <2>2, <2>3 DEF x, p
<1> QED  BY <1>2, <1>3, <1>5 DEF T

LEMMA SourcesAppended ==
  ASSUME NEW b \in Seq(OpEntry), NEW e \in OpEntry, OpFormed(b), OpFits(b, e)
  PROVE  LET c == Append(b, e)
             N == Len(b) + 1
         IN  Sources(c) = (Sources(b) \ {e.of})
               \cup (IF e.kind \in {"LOAN_FUNDING", "ACQUISITION"} /\ e.principal # 0
                     THEN {N} ELSE {})
<1> DEFINE c == Append(b, e)
           N == Len(b) + 1
<1>1. /\ DOMAIN c = DOMAIN b \cup {N} /\ N \notin DOMAIN b /\ c[N] = e
      /\ \A n \in DOMAIN b : c[n] = b[n]
  BY OpAppended
<1>2. Stand(c) = (Stand(b) \ {e.of}) \cup (IF e.of = 0 THEN {N} ELSE {})
  BY UndoneAppended
<1>3. Stand(b) \in SUBSET DOMAIN b
  BY DEF Stand
<1>4. e.kind = "REVERSAL" <=> e.of # 0
  BY DEF OpFits
<1> HIDE DEF c, N
<1>5. Sources(c) = (Sources(b) \ {e.of})
               \cup (IF e.kind \in {"LOAN_FUNDING", "ACQUISITION"} /\ e.principal # 0
                     THEN {N} ELSE {})
  BY <1>1, <1>2, <1>3, <1>4 DEF Sources
<1> QED  BY <1>5 DEF c, N

LEMMA WithinLoanAppended ==
  ASSUME NEW b \in Seq(OpEntry), NEW e \in OpEntry, OpFormed(b), OpFits(b, e),
         StandHolds(b), WithinLoan(b), OpAllowed(b, e)
  PROVE  WithinLoan(Append(b, e))
<1> DEFINE c == Append(b, e)
           N == Len(b) + 1
           P == PrincipalOf(b)
           Q == PrincipalOf(c)
           p == e.principal
<1>1. /\ DOMAIN c = DOMAIN b \cup {N} /\ N \notin DOMAIN b /\ c[N] = e
      /\ \A n \in DOMAIN b : c[n] = b[n] /\ b[n] \in OpEntry
  BY OpAppended
<1>2. \A n \in DOMAIN b : Undone(c, n) <=> Undone(b, n) \/ n = e.of
  BY UndoneAppended
<1>3. Sources(c) = (Sources(b) \ {e.of})
        \cup (IF e.kind \in {"LOAN_FUNDING", "ACQUISITION"} /\ p # 0 THEN {N} ELSE {})
  BY SourcesAppended
<1>4. Q = P + p /\ P \in Int /\ p \in Int
  BY PrincipalAppended
<1> SUFFICES ASSUME NotByHand(c)
             PROVE  /\ \A n, k \in Sources(c) : n = k
                    /\ Sources(c) # {} => Q >= 0
                    /\ Q < 0 => \E n \in DOMAIN c :
                         /\ c[n].kind = "ACQUISITION" /\ Undone(c, n)
                         /\ Q + c[n].principal >= 0
  BY DEF WithinLoan
<1>5. NotByHand(b) /\ (e.kind = "MANUAL" => p = 0)
  BY <1>1 DEF NotByHand
<1>6. /\ \A n, k \in Sources(b) : n = k
      /\ Sources(b) # {} => P >= 0
  BY <1>5 DEF WithinLoan
<1>7. ASSUME P < 0
      PROVE  \E n \in DOMAIN c : /\ c[n].kind = "ACQUISITION" /\ Undone(c, n)
                                  /\ P + c[n].principal >= 0 /\ c[n].principal \in Int
  <2>1. PICK n \in DOMAIN b : /\ b[n].kind = "ACQUISITION" /\ Undone(b, n)
                              /\ P + b[n].principal >= 0
    BY <1>5, <1>7 DEF WithinLoan
  <2> QED  BY <1>1, <1>2, <2>1 DEF OpEntry
<1>8. \A n \in Stand(b) : /\ n \in DOMAIN b /\ b[n].of = 0 /\ b[n] \in OpEntry
                          /\ OpFits(b, b[n]) /\ ~ Undone(b, n)
  BY <1>1 DEF Stand, OpFormed
<1>9. \A n \in Stand(b) :
        /\ b[n].kind \in {"OPERATION", "SETTLEMENT", "MANUAL"} => b[n].principal = 0
        /\ b[n].kind \in {"LOAN_FUNDING", "ACQUISITION"} => b[n].principal >= 0
        /\ b[n].kind = "LOAN_PAYMENT" => b[n].principal <= 0
        /\ b[n].kind \in {"OPERATION", "SETTLEMENT", "MANUAL", "LOAN_FUNDING",
                          "ACQUISITION", "LOAN_PAYMENT"}
        /\ b[n].principal \in Int
  <2> TAKE n \in Stand(b)
  <2>1. b[n].kind \in Kinds /\ b[n].principal \in Int /\ b[n].amount \in Nat
    BY <1>8 DEF OpEntry
  <2>2. b[n].kind = "MANUAL" => b[n].principal = 0
    BY <1>5, <1>8 DEF NotByHand
  <2>3. /\ b[n].kind # "REVERSAL"
        /\ b[n].kind \in {"OPERATION", "SETTLEMENT"} => b[n].principal = 0
        /\ b[n].kind = "LOAN_FUNDING" => b[n].principal = b[n].amount
        /\ b[n].kind = "LOAN_PAYMENT" => b[n].principal <= 0
        /\ b[n].kind = "ACQUISITION" => b[n].principal >= 0
    BY <1>8 DEF OpFits
  <2> QED  BY <2>1, <2>2, <2>3 DEF Kinds
<1>10. Sources(b) \in SUBSET Stand(b)
  BY DEF Sources
<1>11. e.kind \in Kinds
  BY DEF OpEntry
<1>12. e.kind = "REVERSAL" <=> e.of # 0
  BY DEF OpFits
<1>13. 0 \notin DOMAIN b
  BY OpDomain
\* Entries that move nothing.
<1>14. CASE p = 0 /\ e.kind # "REVERSAL"
  <2>1. Sources(c) = Sources(b) /\ Q = P
    BY <1>3, <1>4, <1>8, <1>10, <1>12, <1>13, <1>14
  <2> QED  BY <1>6, <1>7, <2>1
<1>15. CASE e.kind = "LOAN_FUNDING"
  <2>1. P = 0 /\ \A n \in Stand(b) : b[n].kind \notin {"LOAN_FUNDING", "LOAN_PAYMENT"}
    BY <1>15 DEF OpAllowed, O!LoanOperations
  <2>2. \A n \in Stand(b) : b[n].principal >= 0
    BY <1>9, <2>1
  <2>3. Sources(b) = {}
    <3> SUFFICES ASSUME NEW n \in Sources(b) PROVE FALSE
      OBVIOUS
    <3>1. n \in Stand(b) /\ b[n].principal # 0 /\ b[n].principal \in Int
      BY <1>9 DEF Sources
    <3>2. P >= b[n].principal
      BY <2>2, <3>1, StandSigns
    <3>3. b[n].principal > 0
      BY <2>2, <3>1
    <3> QED  BY <2>1, <3>1, <3>2, <3>3
  <2>4. p >= 0
    BY <1>15 DEF OpFits, OpEntry
  <2> QED  BY <1>3, <1>4, <2>1, <2>3, <2>4
<1>16. CASE e.kind = "LOAN_PAYMENT"
  <2>1. P + p >= 0
    BY <1>16 DEF OpAllowed
  <2>2. Sources(c) = Sources(b)
    BY <1>3, <1>8, <1>10, <1>12, <1>13, <1>16
  <2> QED  BY <1>4, <1>6, <2>1, <2>2
<1>17. CASE e.kind = "ACQUISITION" /\ p # 0
  <2>1. \A n \in DOMAIN b : b[n].principal = 0
    BY <1>17 DEF OpAllowed
  <2>2. Sources(b) = {}
    BY <1>8, <2>1 DEF Sources
  <2>3. \A n \in Stand(b) : b[n].principal = 0
    BY <1>8, <2>1
  <2>4. P >= 0
    BY <2>3, StandSigns
  <2>5. p >= 0
    BY <1>17 DEF OpFits
  <2> QED  BY <1>3, <1>4, <2>2, <2>4, <2>5
<1>18. CASE e.kind = "REVERSAL"
  <2> DEFINE o == e.of
             q == b[o].principal
  <2>1. /\ o \in Stand(b) /\ p = - q
        /\ b[o].kind = "LOAN_FUNDING" => P >= b[o].amount
    BY <1>12, <1>18 DEF OpFits, OpAllowed, Stand
  <2>2. q \in Int /\ Q = P - q
    BY <1>4, <1>9, <2>1
  <2>3. Sources(c) = Sources(b) \ {o}
    BY <1>3, <1>18
  <2>4. Undone(c, o) /\ c[o] = b[o] /\ o \in DOMAIN c
    BY <1>1, <1>2, <1>8, <2>1
  <2> HIDE DEF o
  <2>5. CASE b[o].kind \in {"OPERATION", "SETTLEMENT", "MANUAL", "LOAN_PAYMENT"} \/ q = 0
    <3>1. q <= 0
      BY <1>9, <2>1, <2>5
    <3>2. Q >= P
      BY <1>4, <2>2, <3>1
    <3>3. ASSUME Q < 0 PROVE \E n \in DOMAIN c :
                         /\ c[n].kind = "ACQUISITION" /\ Undone(c, n)
                         /\ Q + c[n].principal >= 0
      <4>1. P < 0
        BY <1>4, <2>2, <3>1, <3>3
      <4>2. PICK n \in DOMAIN c : /\ c[n].kind = "ACQUISITION" /\ Undone(c, n)
                                  /\ P + c[n].principal >= 0 /\ c[n].principal \in Int
        BY <1>7, <4>1
      <4>3. Q + c[n].principal >= 0
        <5> DEFINE v == c[n].principal
        <5>1. P + v >= 0 /\ v \in Int
          BY <4>2
        <5>2. P \in Int /\ Q \in Int
          BY <1>4, <2>2
        <5> HIDE DEF v
        <5>3. Q + v >= 0
          BY <3>2, <5>1, <5>2
        <5> QED  BY <5>3 DEF v
      <4> QED  BY <4>2, <4>3
    <3>4. P >= 0 => Q >= 0
      BY <1>4, <2>2, <3>1
    <3> QED  BY <1>6, <2>3, <3>3, <3>4
  <2>6. CASE b[o].kind = "LOAN_FUNDING"
    <3>1. q = b[o].amount
      BY <1>8, <2>1, <2>6 DEF OpFits
    <3>2. Q >= 0
      BY <1>4, <2>1, <2>2, <2>6, <3>1
    <3>3. ~ (Q < 0)
      BY <1>4, <2>2, <3>2
    <3> QED  BY <1>6, <2>3, <3>2, <3>3
  <2>7. CASE b[o].kind = "ACQUISITION" /\ q # 0
    <3>1. o \in Sources(b)
      BY <2>1, <2>7 DEF Sources
    <3>2. Sources(c) = {} /\ P >= 0
      BY <1>6, <2>3, <3>1
    <3>3. Q + q >= 0
      BY <1>4, <2>2, <3>2
    <3> QED  BY <2>4, <2>7, <3>2, <3>3
  <2> QED  BY <1>9, <2>1, <2>5, <2>6, <2>7
<1>19. e.kind \in {"OPERATION", "SETTLEMENT"} => p = 0
  BY DEF OpFits
<1> QED  BY <1>5, <1>11, <1>14, <1>15, <1>16, <1>17, <1>18, <1>19 DEF Kinds

LEMMA OpSoundAppended ==
  ASSUME NEW b, NEW e \in OpEntry, OpSound(b), OpFits(b, e), OpAllowed(b, e)
  PROVE  OpSound(Append(b, e))
  BY OpAppended, OpFormedAppended, StandHoldsAppended, WithinOperationAppended,
     InTurnAppended, WithinLoanAppended DEF OpSound

-----------------------------------------------------------------------------
(* What the operations read, and the entries they append *)

LEMMA OpReadings ==
  /\ \A n : O!Reversed(n) <=> Undone(book, n)
  /\ \A n : O!Settled(n) = FieldIn(book, "amount", Settlements(book, n))
  /\ O!Principal = PrincipalOf(book)
  /\ O!Movements = {n \in Stand(book) : book[n].principal # 0}
  /\ \A kinds : O!Standing(kinds) = {n \in DOMAIN book : book[n].kind \in kinds
                                                         /\ ~ Undone(book, n)}
<1>1. ASSUME NEW f
      PROVE  /\ \A S : O!SumFunctionOnSet(f, S) = SumFunctionOnSet(f, S)
             /\ O!SumFunction(f) = SumFunctionOnSet(f, DOMAIN f)
  <2>1. \A S : O!SumFunctionOnSet(f, S) = SumFunctionOnSet(f, S)
    BY Zenon DEF O!SumFunctionOnSet, O!FoldFunctionOnSet, O!MapThenFoldSet,
       SumFunctionOnSet, FoldFunctionOnSet, MapThenFoldSet
  <2>2. O!SumFunction(f) = O!SumFunctionOnSet(f, DOMAIN f)
    BY Zenon DEF O!SumFunction, O!SumFunctionOnSet, O!FoldFunction
  <2> QED  BY <2>1, <2>2
<1>2. \A n : O!Reversed(n) <=> Undone(book, n)
  BY DEF O!Reversed, Undone
<1>3. \A kinds : O!Standing(kinds) = {n \in DOMAIN book : book[n].kind \in kinds
                                                         /\ ~ Undone(book, n)}
  BY <1>2 DEF O!Standing
<1>4. ASSUME NEW n
      PROVE  O!Settled(n) = FieldIn(book, "amount", Settlements(book, n))
  <2>1. O!Children(n) \cap O!Standing({"SETTLEMENT"}) = Settlements(book, n)
    BY <1>3 DEF O!Children, Settlements
  <2> QED  BY <1>1, <2>1 DEF O!Settled, FieldIn
<1>5. O!Principal = PrincipalOf(book)
  <2> DEFINE f == [n \in DOMAIN book |-> book[n].principal]
  <2>1. O!Principal = SumFunctionOnSet(f, DOMAIN f)
    BY <1>1 DEF O!Principal
  <2>2. DOMAIN f = DOMAIN book
    OBVIOUS
  <2> QED  BY <2>1, <2>2 DEF PrincipalOf, FieldIn
<1>6. O!Movements = {n \in Stand(book) : book[n].principal # 0}
  BY <1>2 DEF O!Movements, Stand
<1> QED  BY <1>2, <1>3, <1>4, <1>5, <1>6

LEMMA OpConstants ==
  /\ Dates \subseteq Nat /\ 0 \notin Rows
  /\ InitialPrincipal \in Nat /\ InitialPrincipal # 0 /\ MaxAmount \in Nat
  /\ \A d \in Dates : d \in Nat
  /\ \A a \in O!Amounts : a \in Nat
  BY OperationsAssumption DEF O!OperationsAssumption, O!Amounts

\* The entry of every operation is one the book takes.
OpTaken(r) == r \in OpEntry /\ OpFits(book, r) /\ OpAllowed(book, r)

LEMMA OpPosted ==
  ASSUME NEW r, OpSound(book), OpTaken(r), O!Posted(r)
  PROVE  OpSound(book')
  BY OpSoundAppended DEF O!Posted, OpTaken

LEMMA BlankIn == O!Blank \in OpEntry
  BY DEF O!Blank, OpEntry, Kinds

LEMMA CreateTaken ==
  ASSUME OpSound(book), NEW d \in Dates, NEW amount \in O!Amounts, NEW paid \in BOOLEAN,
         O!CreateOperation(d, amount, paid)
  PROVE  OpSound(book')
<1> DEFINE r == [O!Blank EXCEPT !.kind = "OPERATION", !.date = d, !.amount = amount,
                                !.paid = paid]
<1>1. /\ r.kind = "OPERATION" /\ r.date = d /\ r.amount = amount
      /\ r.principal = 0 /\ r.due = 0 /\ r.parent = 0
      /\ r.of = 0 /\ r.paid = paid
  BY DEF O!Blank
<1>2. d \in Nat /\ amount \in Nat
  BY OpConstants
<1>5. r \in OpEntry
  BY <1>2, BlankIn DEF OpEntry, Kinds
<1>4. O!Posted(r)
  BY DEF O!CreateOperation
<1> HIDE DEF r
<1>3. OpTaken(r)
  BY <1>1, <1>5 DEF OpTaken, OpFits, OpAllowed, O!LoanOperations
<1> QED  BY <1>3, <1>4, OpPosted

LEMMA SettleTaken ==
  ASSUME OpSound(book), NEW d \in Dates, NEW amount \in O!Amounts,
         NEW n \in DOMAIN book, O!Settle(n, d, amount)
  PROVE  OpSound(book')
<1> DEFINE r == [O!Blank EXCEPT !.kind = "SETTLEMENT", !.date = d, !.amount = amount,
                                !.parent = n]
<1>1. /\ r.kind = "SETTLEMENT" /\ r.date = d /\ r.amount = amount
      /\ r.principal = 0 /\ r.due = 0 /\ r.parent = n
      /\ r.of = 0 /\ r.paid = FALSE
  BY DEF O!Blank
<1>2. d \in Nat /\ amount \in Nat /\ amount > 0
  BY OpConstants DEF O!Amounts
<1>3. book \in Seq(OpEntry)
  BY DEF OpSound
<1>4. n \in Nat /\ n # 0 /\ book[n] \in OpEntry
  BY <1>3, OpDomain
<1>10. r \in OpEntry
  BY <1>2, <1>4, BlankIn DEF OpEntry, Kinds
<1>9. O!Posted(r)
  BY DEF O!Settle
<1> HIDE DEF r
<1>5. OpFits(book, r)
  BY <1>1, <1>4 DEF OpFits, O!Settle
<1> DEFINE s == FieldIn(book, "amount", Settlements(book, n))
<1>6. s \in Int
  BY <1>3, FieldInt DEF Settlements
<1>7. /\ ~ Undone(book, n) /\ ~ book[n].paid
      /\ s + amount <= book[n].amount
  <2>1. amount <= O!Remaining(n)
    BY DEF O!Settle
  <2>2. O!Remaining(n) = IF book[n].paid \/ Undone(book, n) THEN 0 ELSE book[n].amount - s
    BY OpReadings DEF O!Remaining
  <2>3. book[n].amount \in Int
    BY <1>4 DEF OpEntry
  <2> HIDE DEF s
  <2> QED  BY <1>2, <1>6, <2>1, <2>2, <2>3
<1>8. OpAllowed(book, r)
  BY <1>1, <1>7 DEF OpAllowed, O!LoanOperations
<1> QED  BY <1>5, <1>10, <1>8, <1>9, OpPosted DEF OpTaken

\* An operation on a loan comes after its standing movements.
LEMMA InOrderAfter ==
  ASSUME NEW d, O!InOrder(d)
  PROVE  \A n \in Stand(book) : book[n].principal # 0 => book[n].date <= d
  BY OpReadings DEF O!InOrder

LEMMA FundTaken ==
  ASSUME OpSound(book), NEW d \in Dates, O!FundLoan(d)
  PROVE  OpSound(book')
<1> DEFINE r == [O!Blank EXCEPT !.kind = "LOAN_FUNDING", !.date = d,
                          !.amount = InitialPrincipal, !.principal = InitialPrincipal]
<1>1. /\ r.kind = "LOAN_FUNDING" /\ r.date = d /\ r.amount = InitialPrincipal
      /\ r.principal = InitialPrincipal /\ r.due = 0 /\ r.parent = 0
      /\ r.of = 0 /\ r.paid = FALSE
  BY DEF O!Blank
<1>9. d \in Nat /\ InitialPrincipal \in Nat /\ InitialPrincipal \in Int
  BY OpConstants
<1>8. r \in OpEntry
  BY <1>9, BlankIn DEF OpEntry, Kinds
<1>7. O!Posted(r)
  BY DEF O!FundLoan
<1> HIDE DEF r
<1>2. OpFits(book, r)
  BY <1>1, OpConstants DEF OpFits
<1>3. PrincipalOf(book) = 0 /\ O!Standing(O!LoanOperations) = {}
  BY OpReadings DEF O!FundLoan, O!Unfunded
<1>4. \A n \in Stand(book) : book[n].kind \notin O!LoanOperations
  BY <1>3, OpReadings DEF Stand
<1>5. \A n \in Stand(book) : book[n].principal # 0 => book[n].date <= d
  BY InOrderAfter DEF O!FundLoan
<1>6. OpAllowed(book, r)
  BY <1>1, <1>3, <1>4, <1>5 DEF OpAllowed
<1> QED  BY <1>2, <1>8, <1>6, <1>7, OpPosted DEF OpTaken

LEMMA PayTaken ==
  ASSUME OpSound(book), NEW d \in Dates, NEW due \in Rows \cup {0},
         NEW principal \in 0..InitialPrincipal, O!PayLoan(d, due, principal)
  PROVE  OpSound(book')
<1> DEFINE r == [O!Blank EXCEPT !.kind = "LOAN_PAYMENT", !.date = d, !.due = due,
                          !.amount = principal, !.principal = -principal]
<1>1. /\ r.kind = "LOAN_PAYMENT" /\ r.date = d /\ r.amount = principal
      /\ r.principal = -principal /\ r.due = due /\ r.parent = 0
      /\ r.of = 0 /\ r.paid = FALSE
  BY DEF O!Blank
<1>2. principal \in Nat /\ -principal \in Int /\ -principal <= 0
  OBVIOUS
<1>9. r \in OpEntry
  BY <1>2, OpConstants, BlankIn DEF OpEntry, Kinds
<1>8. O!Posted(r)
  BY DEF O!PayLoan
<1> HIDE DEF r
<1>3. OpFits(book, r)
  BY <1>1, <1>2, OpConstants DEF OpFits
<1>4. PrincipalOf(book) + (- principal) >= 0
  <2>1. PrincipalOf(book) \in Int
    BY FieldInt DEF PrincipalOf, OpSound
  <2>2. principal <= PrincipalOf(book)
    BY OpReadings DEF O!PayLoan
  <2> QED  BY <1>2, <2>1, <2>2
<1>5. ASSUME O!ReplacesReversed(d, due)
      PROVE  \E k, v \in DOMAIN book :
               /\ book[k].kind = "LOAN_PAYMENT" /\ book[v].of = k
               /\ book[k].date = d \/ (due # 0 /\ book[k].due = due)
  BY <1>5 DEF O!ReplacesReversed, O!Reversed
<1>6. \/ \A n \in Stand(book) : book[n].principal # 0 => book[n].date <= d
      \/ \E k, v \in DOMAIN book :
               /\ book[k].kind = "LOAN_PAYMENT" /\ book[v].of = k
               /\ book[k].date = d \/ (due # 0 /\ book[k].due = due)
  BY <1>5, InOrderAfter DEF O!PayLoan
<1>7. OpAllowed(book, r)
  BY <1>1, <1>4, <1>6 DEF OpAllowed
<1> QED  BY <1>3, <1>9, <1>7, <1>8, OpPosted DEF OpTaken

LEMMA EnterTaken ==
  ASSUME OpSound(book), NEW d \in Dates, NEW named \in BOOLEAN,
         NEW outstanding \in 0..InitialPrincipal, O!EnterProperty(d, named, outstanding)
  PROVE  OpSound(book')
<1> DEFINE r == [O!Blank EXCEPT !.kind = "ACQUISITION", !.date = d,
                                !.principal = outstanding]
<1>1. /\ r.kind = "ACQUISITION" /\ r.date = d /\ r.amount = 0
      /\ r.principal = outstanding /\ r.due = 0 /\ r.parent = 0
      /\ r.of = 0 /\ r.paid = FALSE
  BY DEF O!Blank
<1>2. outstanding \in Int /\ outstanding >= 0 /\ outstanding <= InitialPrincipal
  BY OpConstants
<1>7. r \in OpEntry
  BY <1>2, OpConstants, BlankIn DEF OpEntry, Kinds
<1>6. O!Posted(r)
  BY DEF O!EnterProperty
<1> HIDE DEF r
<1>3. OpFits(book, r)
  BY <1>1, <1>2, OpConstants DEF OpFits
<1>4. outstanding # 0 => \A n \in DOMAIN book : book[n].principal = 0
  BY DEF O!EnterProperty, O!NeverBooked
<1>5. OpAllowed(book, r)
  BY <1>1, <1>4 DEF OpAllowed, O!LoanOperations
<1> QED  BY <1>3, <1>7, <1>5, <1>6, OpPosted DEF OpTaken

LEMMA ManualTaken ==
  ASSUME OpSound(book), NEW d \in ManualDates, NEW principal \in {-1, 1},
         O!PostManual(d, principal)
  PROVE  OpSound(book')
<1> DEFINE r == [O!Blank EXCEPT !.date = d, !.principal = principal]
<1>1. /\ r.kind = "MANUAL" /\ r.date = d /\ r.amount = 0
      /\ r.principal = principal /\ r.due = 0 /\ r.parent = 0
      /\ r.of = 0 /\ r.paid = FALSE
  BY DEF O!Blank
<1>2. d \in Nat /\ principal \in Int
  BY OperationsAssumption DEF O!OperationsAssumption
<1>5. r \in OpEntry
  BY <1>2, BlankIn DEF OpEntry, Kinds
<1>4. O!Posted(r)
  BY DEF O!PostManual
<1> HIDE DEF r
<1>3. OpTaken(r)
  BY <1>1, <1>5 DEF OpTaken, OpFits, OpAllowed, O!LoanOperations
<1> QED  BY <1>3, <1>4, OpPosted

LEMMA ReversalTaken ==
  ASSUME OpSound(book), NEW n \in DOMAIN book, O!PostReversal(n),
         book[n].kind \in {"MANUAL", "ACQUISITION"} \/ O!Cancellable(n)
  PROVE  OpSound(book')
<1> DEFINE r == O!Mirror(n)
<1>1. /\ r.kind = "REVERSAL" /\ r.date = book[n].date /\ r.amount = 0
      /\ r.principal = - book[n].principal /\ r.due = 0 /\ r.parent = 0
      /\ r.of = n /\ r.paid = FALSE
  BY DEF O!Mirror, O!Blank
<1>2. book \in Seq(OpEntry) /\ OpFormed(book)
  BY DEF OpSound
<1>3. n \in Nat /\ n # 0 /\ book[n] \in OpEntry
  BY <1>2, OpDomain
<1>4. book[n].of = 0 /\ ~ Undone(book, n)
  BY OpReadings DEF O!PostReversal
<1>5. book[n].date \in Nat /\ - book[n].principal \in Int
  BY <1>3 DEF OpEntry
<1>11. r \in OpEntry
  BY <1>3, <1>5, BlankIn DEF OpEntry, Kinds, O!Mirror
<1>10. O!Posted(r)
  BY DEF O!PostReversal
<1> HIDE DEF r
<1>6. OpFits(book, r)
  BY <1>1, <1>3, <1>4 DEF OpFits
<1>7. \A k \in DOMAIN book : book[k].parent = n => Undone(book, k)
  <2>1. CASE O!Cancellable(n)
    BY <2>1, OpReadings DEF O!Cancellable, O!Children
  <2>2. CASE book[n].kind \in {"MANUAL", "ACQUISITION"}
    <3> SUFFICES ASSUME NEW k \in DOMAIN book, book[k].parent = n PROVE FALSE
      OBVIOUS
    <3>1. OpFits(book, book[k])
      BY <1>2 DEF OpFormed
    <3> QED  BY <1>3, <2>2, <3>1 DEF OpFits
  <2> QED  BY <2>1, <2>2
<1>8. book[n].kind = "LOAN_FUNDING" => PrincipalOf(book) >= book[n].amount
  BY OpReadings DEF O!Cancellable
<1>9. OpAllowed(book, r)
  BY <1>1, <1>4, <1>7, <1>8 DEF OpAllowed, O!LoanOperations
<1> QED  BY <1>6, <1>11, <1>9, <1>10, OpPosted DEF OpTaken

-----------------------------------------------------------------------------
(* The invariant *)

OpsInv == scene = "settlements" => OpSound(book)

LEMMA OpsInit == MCInit => OpsInv
<1> SUFFICES ASSUME MCInit PROVE OpSound(book)
  BY DEF OpsInv
<1>1. book = <<>>
  BY DEF MCInit, O!Init
<1>2. DOMAIN book = {} /\ book \in Seq(OpEntry)
  BY <1>1
<1>3. Stand(book) = {} /\ Sources(book) = {}
  BY <1>2 DEF Stand, Sources
<1>4. PrincipalOf(book) = 0 /\ FieldIn(book, "principal", {}) = 0
  BY <1>2, SumOfNone DEF PrincipalOf, FieldIn
<1>5. StandHolds(book)
  BY <1>3, <1>4 DEF StandHolds
<1>6. WithinLoan(book)
  BY <1>3, <1>4 DEF WithinLoan
<1> QED  BY <1>2, <1>5, <1>6 DEF OpSound, OpFormed, WithinOperation, InTurn

LEMMA OpsNext ==
  OpsInv /\ [MCNext]_<<settlementVars, importVars, loanVars, rentVars, scene>> => OpsInv'
<1> SUFFICES ASSUME OpsInv,
                    [MCNext]_<<settlementVars, importVars, loanVars, rentVars, scene>>,
                    scene' = "settlements"
             PROVE  OpSound(book')
  BY DEF OpsInv
<1>1. CASE scene = "settlements" /\ O!Next
  <2>1. OpSound(book)
    BY <1>1 DEF OpsInv
  <2>2. ASSUME NEW d \in Dates, NEW amount \in O!Amounts, NEW paid \in BOOLEAN,
               O!CreateOperation(d, amount, paid)
        PROVE  OpSound(book')
    BY <2>1, <2>2, CreateTaken
  <2>3. ASSUME NEW d \in Dates, NEW n \in DOMAIN book, NEW amount \in O!Amounts,
               O!Settle(n, d, amount)
        PROVE  OpSound(book')
    BY <2>1, <2>3, SettleTaken
  <2>4. ASSUME NEW d \in Dates, O!FundLoan(d) PROVE OpSound(book')
    BY <2>1, <2>4, FundTaken
  <2>5. ASSUME NEW d \in Dates, NEW due \in Rows \cup {0},
               NEW principal \in 0..InitialPrincipal, O!PayLoan(d, due, principal)
        PROVE  OpSound(book')
    BY <2>1, <2>5, PayTaken
  <2>6. ASSUME NEW d \in Dates, NEW named \in BOOLEAN,
               NEW outstanding \in 0..InitialPrincipal,
               O!EnterProperty(d, named, outstanding)
        PROVE  OpSound(book')
    BY <2>1, <2>6, EnterTaken
  <2>7. ASSUME NEW d \in ManualDates, NEW principal \in {-1, 1},
               O!PostManual(d, principal)
        PROVE  OpSound(book')
    BY <2>1, <2>7, ManualTaken
  <2>8. ASSUME NEW n \in DOMAIN book, O!ReverseEntry(n) PROVE OpSound(book')
    BY <2>1, <2>8, ReversalTaken DEF O!ReverseEntry
  <2>9. ASSUME NEW n \in DOMAIN book, O!CancelOperation(n) PROVE OpSound(book')
    BY <2>1, <2>9, ReversalTaken DEF O!CancelOperation
  <2> QED  BY <1>1, <2>2, <2>3, <2>4, <2>5, <2>6, <2>7, <2>8, <2>9 DEF O!Next
<1>2. CASE UNCHANGED settlementVars /\ UNCHANGED scene
  BY <1>2 DEF OpsInv, settlementVars
<1> QED  BY <1>1, <1>2 DEF MCNext

LEMMA OpsAlways == MCSpec => []OpsInv
  BY OpsInit, OpsNext, PTL DEF MCSpec

-----------------------------------------------------------------------------
(* The properties of the operations *)

\* The account of an operation is never settled beyond what the operation put
\* on it, and not at all once it is cancelled: services/operations.py.
THEOREM SettledWithinOperationHolds == MCSpec => []SettledWithinOperation
<1>1. OpsInv => SettledWithinOperation
  BY OpReadings DEF OpsInv, OpSound, WithinOperation, SettledWithinOperation,
     O!SettledWithinOperation
<1> QED  BY <1>1, OpsAlways, PTL

\* The movements of a loan that stand follow the calendar, but for instalments
\* that replace a reversed one: LOAN_CHRONOLOGY of services/operations.py.
THEOREM LoanChronologyHolds == MCSpec => []LoanChronology
<1>1. OpsInv => LoanChronology
  BY OpReadings DEF OpsInv, OpSound, InTurn, LoanChronology, O!LoanChronology, Stand
<1> QED  BY <1>1, OpsAlways, PTL

\* One entry at most puts a loan on the books, and its account stays between
\* zero and the initial principal as long as nobody posts on it by hand.
THEOREM PrincipalWithinLoanHolds == MCSpec => []PrincipalWithinLoan
<1> SUFFICES OpsInv => PrincipalWithinLoan
  BY OpsAlways, PTL
<1>11. \A S : O!Cardinality(S) = Cardinality(S)
  BY Zenon DEF O!Cardinality, Cardinality
<1> SUFFICES ASSUME OpSound(book),
                    \A n \in DOMAIN book : book[n].kind = "MANUAL" => book[n].principal = 0
             PROVE  LET sources == {n \in O!Standing({"LOAN_FUNDING", "ACQUISITION"}) :
                                      book[n].principal # 0}
                    IN /\ Cardinality(sources) <= 1
                       /\ sources # {} => O!Principal \in 0..InitialPrincipal
                       /\ sources = {} => O!Principal <= 0
                       /\ O!Principal < 0 => \E n \in DOMAIN book :
                            /\ book[n].kind = "ACQUISITION"
                            /\ O!Reversed(n)
                            /\ O!Principal + book[n].principal >= 0
  BY <1>11 DEF OpsInv, PrincipalWithinLoan, O!PrincipalWithinLoan
<1> DEFINE P == PrincipalOf(book)
           S == Sources(book)
<1>1. /\ book \in Seq(OpEntry) /\ OpFormed(book) /\ StandHolds(book)
      /\ WithinLoan(book) /\ NotByHand(book)
  BY DEF OpSound, NotByHand
<1>2. \A n \in Stand(book) : /\ n \in DOMAIN book /\ book[n].of = 0
                             /\ book[n] \in OpEntry /\ OpFits(book, book[n])
  BY <1>1, OpDomain DEF Stand, OpFormed
<1>3. \A n \in DOMAIN book : book[n] \in OpEntry /\ OpFits(book, book[n])
  BY <1>1, OpDomain DEF OpFormed
<1>4. {n \in O!Standing({"LOAN_FUNDING", "ACQUISITION"}) : book[n].principal # 0} = S
  <2>1. \A n \in DOMAIN book : book[n].kind \in {"LOAN_FUNDING", "ACQUISITION"}
                                 => book[n].of = 0
    BY <1>3 DEF OpFits
  <2> QED  BY <2>1, OpReadings DEF Sources, Stand
<1>5. P \in Int
  BY <1>1, FieldInt DEF PrincipalOf
<1>6. \A n \in Stand(book) \ S : book[n].principal <= 0
  <2> TAKE n \in Stand(book) \ S
  <2>1. book[n].kind \in Kinds /\ book[n].principal \in Int
    BY <1>2 DEF OpEntry
  <2>2. /\ book[n].kind # "REVERSAL"
        /\ book[n].kind \in {"OPERATION", "SETTLEMENT"} => book[n].principal = 0
        /\ book[n].kind = "LOAN_PAYMENT" => book[n].principal <= 0
    BY <1>2 DEF OpFits
  <2>3. book[n].kind = "MANUAL" => book[n].principal = 0
    BY <1>2
  <2>4. book[n].kind \in {"LOAN_FUNDING", "ACQUISITION"} => book[n].principal = 0
    BY DEF Sources
  <2> QED  BY <2>1, <2>2, <2>3, <2>4 DEF Kinds
<1>7. Cardinality(S) <= 1
  <2>1. CASE S = {}
    BY <2>1, FS_EmptySet
  <2>2. CASE S # {}
    <3>1. PICK n \in S : TRUE
      BY <2>2
    <3>2. S = {n}
      BY <1>1, <3>1 DEF WithinLoan
    <3>3. Cardinality({n}) = 1
      BY FS_Singleton
    <3> QED  BY <3>2, <3>3
  <2> QED  BY <2>1, <2>2
<1>8. ASSUME S # {} PROVE P \in 0..InitialPrincipal
  <2>1. P >= 0
    BY <1>1, <1>8 DEF WithinLoan
  <2>2. PICK n \in S : TRUE
    BY <1>8
  <2>3. \A k \in S : k = n
    BY <1>1, <2>2 DEF WithinLoan
  <2>4. n \in Stand(book) /\ book[n].kind \in {"LOAN_FUNDING", "ACQUISITION"}
    BY <2>2 DEF Sources
  <2>5. \A k \in Stand(book) \ {n} : book[k].principal <= 0
    BY <1>6, <2>3
  <2>6. P <= book[n].principal
    BY <1>1, <2>4, <2>5, StandSigns
  <2>7. book[n].principal <= InitialPrincipal /\ book[n].principal \in Int
    BY <1>2, <2>4 DEF OpFits, OpEntry
  <2> QED  BY <1>5, <2>1, <2>6, <2>7, OpConstants
<1>9. ASSUME S = {} PROVE P <= 0
  <2>1. \A n \in Stand(book) : book[n].principal <= 0
    BY <1>6, <1>9
  <2> QED  BY <1>1, <2>1, StandSigns
<1>10. P < 0 => \E n \in DOMAIN book : /\ book[n].kind = "ACQUISITION" /\ Undone(book, n)
                                       /\ P + book[n].principal >= 0
  BY <1>1 DEF WithinLoan
<1> QED  BY <1>4, <1>7, <1>8, <1>9, <1>10, OpReadings

-----------------------------------------------------------------------------
(* Rents: what a receipt is *)

MonthsOf(y) == Month(FirstDay[y])..Month(LastDay[y])

\* A receipt of a tenant of the register, for a month of its exercise.
Wellformed(o) ==
  /\ o.receipt.tenant \in Tenants /\ o.receipt.year \in Years
  /\ o.receipt.month \in MonthsOf(o.receipt.year)
  /\ o = [receipt |-> o.receipt, reversed |-> o.reversed]

\* Its contents are what the register shows at any time: the exit of the tenant,
\* the only field that is not locked, is no part of them.
AsRegistered(o) ==
  o.receipt = Receipt(o.receipt.tenant, o.receipt.month, o.receipt.year)

RentsInv ==
  /\ tenants \in Seq(Leases)
  /\ \A o \in receipts : Wellformed(o) /\ AsRegistered(o)
  /\ \A o, p \in receipts : SameRequest(o.receipt, p.receipt) => o = p

-----------------------------------------------------------------------------
(* Days and months *)

LEMMA MonthMonotone ==
  ASSUME NEW a \in Int, NEW b \in Int, a <= b, MonthDays \in Nat \ {0}
  PROVE  Month(a) <= Month(b)
<1>1. a - 1 \in Int /\ b - 1 \in Int /\ a - 1 <= b - 1
  OBVIOUS
<1>2. \A c, d \in Int : c <= d => c \div MonthDays <= d \div MonthDays
  BY DivMonotone
<1>3. (a - 1) \div MonthDays <= (b - 1) \div MonthDays
  BY <1>1, <1>2, Zenon
<1> QED BY <1>3 DEF Month

LEMMA MinOfTwo ==
  ASSUME NEW a \in Int, NEW b \in Int
  PROVE  Min({a, b}) \in Int /\ Min({a, b}) <= a /\ Min({a, b}) <= b
<1>1. \E x \in {a, b} : \A y \in {a, b} : x <= y
  OBVIOUS
<1> QED BY <1>1 DEF Min

LEMMA MaxOfTwo ==
  ASSUME NEW a \in Int, NEW b \in Int
  PROVE  Max({a, b}) \in Int /\ a <= Max({a, b}) /\ b <= Max({a, b})
<1>1. \E x \in {a, b} : \A y \in {a, b} : x >= y
  OBVIOUS
<1> QED BY <1>1 DEF Max

\* The months a schedule goes through belong to its exercise.
LEMMA MonthsInYear ==
  ASSUME RentsAssumption, NEW y \in Years, NEW t \in Tenants,
         tenants[t] \in Leases
  PROVE  Months(t, y) \subseteq MonthsOf(y)
<1> DEFINE end == Min({tenants[t].exit, LastDay[y]})
           first == Max({tenants[t].entry, FirstDay[y]})
<1>1. tenants[t].exit \in Int /\ tenants[t].entry \in Int
  BY DEF Leases, RentsAssumption
<1>2. FirstDay[y] \in Int /\ LastDay[y] \in Int /\ MonthDays \in Nat \ {0}
  BY DEF RentsAssumption
<1>3. end \in Int /\ end <= LastDay[y]
  BY <1>1, <1>2, MinOfTwo
<1>4. first \in Int /\ FirstDay[y] <= first
  BY <1>1, <1>2, MaxOfTwo
<1> HIDE DEF end, first
<1>5. Month(end) <= Month(LastDay[y])
  BY <1>2, <1>3, MonthMonotone
<1>6. Month(FirstDay[y]) <= Month(first)
  BY <1>2, <1>4, MonthMonotone
<1>7. /\ Month(end) \in Int /\ Month(first) \in Int
      /\ Month(FirstDay[y]) \in Int /\ Month(LastDay[y]) \in Int
  BY <1>2, <1>3, <1>4 DEF Month
<1>8. Months(t, y) \subseteq Month(first)..Month(end)
  BY DEF Months, first, end
<1> QED BY <1>5, <1>6, <1>7, <1>8 DEF MonthsOf

\* A month names its exercise.
LEMMA YearOfMonth ==
  ASSUME RentsAssumption, NEW y \in Years, NEW z \in Years,
         NEW m \in MonthsOf(y), m \in MonthsOf(z)
  PROVE  y = z
<1>1. /\ Month(FirstDay[y]) \in Int /\ Month(LastDay[y]) \in Int
      /\ Month(FirstDay[z]) \in Int /\ Month(LastDay[z]) \in Int
  BY DEF RentsAssumption, Month
<1> QED BY <1>1 DEF MonthsOf, RentsAssumption

\* What is due is made of the register, the tenant and the month.
LEMMA DueShape ==
  ASSUME RentsAssumption, tenants \in Seq(Leases), NEW y \in Years, NEW r \in Due(y)
  PROVE  /\ r.tenant \in Tenants /\ r.year = y
         /\ r.month \in MonthsOf(y) /\ r = Receipt(r.tenant, r.month, y)
<1>1. PICK t \in Tenants : \E m \in Months(t, y) : r = Receipt(t, m, y)
  BY DEF Due
<1>2. PICK m \in Months(t, y) : r = Receipt(t, m, y)
  BY <1>1
<1>3. tenants[t] \in Leases
  BY DEF Tenants
<1>4. m \in MonthsOf(y)
  BY <1>3, MonthsInYear
<1>5. r.tenant = t /\ r.month = m /\ r.year = y
  BY <1>2 DEF Receipt
<1> QED BY <1>2, <1>4, <1>5

-----------------------------------------------------------------------------
(* Steps *)

LEMMA RentsInitial == Init => RentsInv
<1> SUFFICES ASSUME Init PROVE RentsInv
  OBVIOUS
<1>1. tenants \in Seq(Leases)
  BY DEF Init
<1> QED BY <1>1 DEF Init, RentsInv

\* The register may change as long as it keeps the name, the rent and the entry
\* of the tenants that have receipts.
LEMMA RegisterChanges ==
  ASSUME RentsInv, UNCHANGED receipts, tenants' \in Seq(Leases),
         \A o \in receipts : LET t == o.receipt.tenant IN
           /\ t \in Tenants'
           /\ tenants'[t].name = tenants[t].name
           /\ tenants'[t].rent = tenants[t].rent
           /\ tenants'[t].entry = tenants[t].entry
  PROVE  RentsInv'
<1>1. ASSUME NEW o \in receipts PROVE Wellformed(o)' /\ AsRegistered(o)'
  <2>1. Wellformed(o) /\ AsRegistered(o)
    BY <1>1 DEF RentsInv
  <2>2. Wellformed(o)'
    BY <2>1, <1>1 DEF Wellformed, MonthsOf, Month
  <2>3. OpDate(o.receipt.tenant, o.receipt.month, o.receipt.year)'
          = OpDate(o.receipt.tenant, o.receipt.month, o.receipt.year)
    BY <1>1 DEF OpDate
  <2> QED BY <2>1, <2>2, <2>3, <1>1 DEF AsRegistered, Receipt
<1> QED BY <1>1 DEF RentsInv, SameRequest

LEMMA Adding ==
  ASSUME RentsInv, NEW lease \in Leases, AddTenant(lease)
  PROVE  RentsInv'
<1>1. /\ tenants' = Append(tenants, lease) /\ receipts' = receipts
      /\ tenants \in Seq(Leases)
  BY DEF AddTenant, RentsInv
<1>2. tenants' \in Seq(Leases)
  BY <1>1
<1>3. ASSUME NEW t \in Tenants
      PROVE  t \in Tenants' /\ tenants'[t] = tenants[t]
  BY <1>1, <1>3 DEF Tenants
<1>4. \A o \in receipts : o.receipt.tenant \in Tenants
  BY DEF RentsInv, Wellformed
<1> QED BY <1>1, <1>2, <1>3, <1>4, RegisterChanges

LEMMA Correcting ==
  ASSUME RentsInv, NEW t \in Tenants, NEW lease \in Leases, CorrectTenant(t, lease)
  PROVE  RentsInv'
<1>1. /\ tenants' = [tenants EXCEPT ![t] = lease] /\ receipts' = receipts
      /\ tenants \in Seq(Leases)
  BY DEF CorrectTenant, RentsInv
<1>2. tenants' \in Seq(Leases) /\ Tenants' = Tenants
  BY <1>1 DEF Tenants
<1>3. tenants[t] \in Leases
  BY <1>1 DEF Tenants
<1>4. ASSUME NEW o \in receipts
      PROVE  LET u == o.receipt.tenant IN
             /\ u \in Tenants'
             /\ tenants'[u].name = tenants[u].name
             /\ tenants'[u].rent = tenants[u].rent
             /\ tenants'[u].entry = tenants[u].entry
  <2>1. o.receipt.tenant \in Tenants
    BY <1>4 DEF RentsInv, Wellformed
  <2>2. CASE o.receipt.tenant = t
    <3>0. HasRents(t)
      BY <1>4, <2>2 DEF HasRents
    <3>1. lease = [tenants[t] EXCEPT !.exit = lease.exit]
      BY <3>0 DEF CorrectTenant
    <3>2. /\ lease.name = tenants[t].name /\ lease.rent = tenants[t].rent
          /\ lease.entry = tenants[t].entry
      BY <3>1, <1>3 DEF Leases
    <3> QED BY <3>2, <2>1, <2>2, <1>1, <1>2 DEF Tenants
  <2>3. CASE o.receipt.tenant # t
    BY <2>1, <2>3, <1>1, <1>2 DEF Tenants
  <2> QED BY <2>2, <2>3
<1> QED BY <1>1, <1>2, <1>4, RegisterChanges

\* A step that leaves the register alone.
LEMMA SameRegister ==
  ASSUME UNCHANGED tenants
  PROVE  /\ RentsInv /\ UNCHANGED receipts => RentsInv'
         /\ \A o : /\ Wellformed(o)' <=> Wellformed(o)
                   /\ AsRegistered(o)' <=> AsRegistered(o)
  BY DEF RentsInv, Wellformed, AsRegistered, SameRequest, Receipt, OpDate, MonthsOf,
         Month, Tenants

LEMMA Scheduling ==
  ASSUME RentsAssumption, RentsInv, NEW y \in Years, ScheduleRents(y)
  PROVE  RentsInv'
<1> DEFINE New == {[receipt |-> r, reversed |-> FALSE] :
                     r \in {s \in Due(y) : Replays(s) = {}}}
<1>1. receipts' = receipts \cup New /\ UNCHANGED tenants /\ tenants \in Seq(Leases)
  BY DEF ScheduleRents, RentsInv
<1>2. ASSUME NEW o \in New
      PROVE  /\ Wellformed(o) /\ AsRegistered(o)
             /\ o.receipt \in Due(y) /\ o.reversed = FALSE
             /\ \A p \in receipts : ~ SameRequest(p.receipt, o.receipt)
  <2>1. PICK r \in Due(y) : Replays(r) = {} /\ o = [receipt |-> r, reversed |-> FALSE]
    BY <1>2
  <2>2. /\ r.tenant \in Tenants /\ r.year = y
        /\ r.month \in MonthsOf(y) /\ r = Receipt(r.tenant, r.month, y)
    BY <1>1, <2>1, DueShape
  <2>3. Wellformed(o) /\ AsRegistered(o)
    BY <2>1, <2>2 DEF Wellformed, AsRegistered
  <2> QED BY <2>1, <2>3 DEF Replays
<1>3. ASSUME NEW o \in receipts' PROVE Wellformed(o) /\ AsRegistered(o)
  BY <1>1, <1>2, <1>3 DEF RentsInv
<1>4. ASSUME NEW o \in receipts', NEW p \in receipts', SameRequest(o.receipt, p.receipt)
      PROVE  o = p
  <2>1. CASE o \in receipts /\ p \in receipts
    BY <1>4, <2>1 DEF RentsInv
  <2>2. CASE o \in New /\ p \in New
    <3>1. /\ o.receipt = Receipt(o.receipt.tenant, o.receipt.month, y)
          /\ p.receipt = Receipt(p.receipt.tenant, p.receipt.month, y)
      BY <1>1, <1>2, <2>2, DueShape
    <3>2. o.receipt = p.receipt
      BY <3>1, <1>4 DEF SameRequest
    <3> QED BY <3>2, <1>2, <2>2 DEF Wellformed
  <2>3. CASE o \in receipts /\ p \in New
    BY <1>2, <1>4, <2>3
  <2>4. CASE o \in New /\ p \in receipts
    BY <1>2, <1>4, <2>4 DEF SameRequest
  <2> QED BY <1>1, <2>1, <2>2, <2>3, <2>4
<1> QED BY <1>1, <1>3, <1>4, SameRegister DEF RentsInv, SameRequest

LEMMA Cancelling ==
  ASSUME RentsInv, NEW c \in receipts, CancelReceipt(c)
  PROVE  RentsInv'
<1> DEFINE d == [c EXCEPT !.reversed = TRUE]
<1>1. /\ receipts' = (receipts \ {c}) \cup {d} /\ UNCHANGED tenants
      /\ tenants \in Seq(Leases) /\ Wellformed(c) /\ AsRegistered(c)
  BY DEF CancelReceipt, RentsInv
<1>2. d = [receipt |-> c.receipt, reversed |-> TRUE]
  <2>1. c = [receipt |-> c.receipt, reversed |-> c.reversed]
    BY <1>1, Zenon DEF Wellformed
  <2>2. DOMAIN c = {"receipt", "reversed"}
    BY <2>1
  <2>3. DOMAIN d = {"receipt", "reversed"} /\ d.receipt = c.receipt /\ d.reversed = TRUE
    BY <2>2
  <2>4. d = [x \in {"receipt", "reversed"} |-> d[x]]
    BY <2>3, <2>2
  <2> DEFINE e == [receipt |-> c.receipt, reversed |-> TRUE]
  <2>5. e = [x \in {"receipt", "reversed"} |-> e[x]]
    OBVIOUS
  <2>6. e["receipt"] = d["receipt"] /\ e["reversed"] = d["reversed"]
    BY <2>3
  <2> HIDE DEF d, e
  <2>7. d = e
    BY <2>4, <2>5, <2>6
  <2> QED BY <2>7 DEF e
<1> HIDE DEF d
<1>3. Wellformed(d) /\ AsRegistered(d) /\ d.receipt = c.receipt
  BY <1>1, <1>2 DEF Wellformed, AsRegistered
<1>4. ASSUME NEW o \in receipts' PROVE Wellformed(o) /\ AsRegistered(o)
  BY <1>1, <1>3, <1>4 DEF RentsInv
<1>5. ASSUME NEW o \in receipts', NEW p \in receipts', SameRequest(o.receipt, p.receipt)
      PROVE  o = p
  <2>1. CASE o # d /\ p # d
    BY <1>1, <1>5, <2>1 DEF RentsInv
  <2>2. CASE o = d /\ p # d
    <3>1. p \in receipts /\ p # c /\ SameRequest(c.receipt, p.receipt)
      BY <1>1, <1>3, <1>5, <2>2
    <3> QED BY <3>1 DEF RentsInv
  <2>3. CASE o # d /\ p = d
    <3>1. o \in receipts /\ o # c /\ SameRequest(o.receipt, c.receipt)
      BY <1>1, <1>3, <1>5, <2>3
    <3> QED BY <3>1 DEF RentsInv
  <2> QED BY <2>1, <2>2, <2>3
<1> QED BY <1>1, <1>4, <1>5, SameRegister DEF RentsInv, SameRequest

LEMMA RentsStep ==
  ASSUME RentsAssumption, RentsInv, [Next]_rentVars
  PROVE  RentsInv'
<1>1. ASSUME NEW lease \in Leases, AddTenant(lease) PROVE RentsInv'
  BY <1>1, Adding
<1>2. ASSUME NEW lease \in Leases, NEW t \in Tenants, CorrectTenant(t, lease) PROVE RentsInv'
  BY <1>2, Correcting
<1>3. ASSUME NEW y \in Years, ScheduleRents(y) PROVE RentsInv'
  BY <1>3, Scheduling
<1>4. ASSUME NEW y \in Years, Switch(y) PROVE RentsInv'
  BY <1>4, SameRegister DEF Switch
<1>5. ASSUME NEW o \in receipts, CancelReceipt(o) PROVE RentsInv'
  BY <1>5, Cancelling
<1>6. CASE Tick
  BY <1>6, SameRegister DEF Tick
<1>7. CASE UNCHANGED rentVars
  BY <1>7, SameRegister DEF rentVars
<1> QED BY <1>1, <1>2, <1>3, <1>4, <1>5, <1>6, <1>7 DEF Next

LEMMA RentsImplies ==
  ASSUME RentsAssumption, RentsInv
  PROVE  ReceiptsAsScheduled
<1>1. ASSUME NEW y \in Years, NEW r \in Due(y), NEW o \in receipts,
             SameRequest(o.receipt, r)
      PROVE  o.receipt = r
  <2>1. /\ r.tenant \in Tenants /\ r.year = y
        /\ r.month \in MonthsOf(y) /\ r = Receipt(r.tenant, r.month, y)
    BY DueShape DEF RentsInv
  <2>2. Wellformed(o) /\ AsRegistered(o)
    BY DEF RentsInv
  <2>3. o.receipt.tenant = r.tenant /\ o.receipt.month = r.month
    BY <1>1 DEF SameRequest
  <2>4. o.receipt.year = y
    BY <2>1, <2>2, <2>3, YearOfMonth DEF Wellformed
  <2> QED BY <2>1, <2>2, <2>3, <2>4 DEF AsRegistered
<1> QED BY <1>1 DEF RentsInv, ReceiptsAsScheduled

\* ReceiptsAsScheduled holds in every behaviour (schedule_rents,
\* create_operation, correct_tenant): a tenant is billed once for each month, as
\* the register still shows, and no schedule is refused for a receipt that is
\* there with other contents.
THEOREM ReceiptsAsScheduledHolds ==
  ASSUME RentsAssumption
  PROVE  Spec => []ReceiptsAsScheduled
<1>1. Init => RentsInv
  BY RentsInitial
<1>2. RentsInv /\ [Next]_rentVars => RentsInv'
  BY RentsStep
<1>3. RentsInv => ReceiptsAsScheduled
  BY RentsImplies
<1> QED BY <1>1, <1>2, <1>3, PTL DEF Spec

-----------------------------------------------------------------------------
(* Elements of a sequence at some places *)

PlaceAt(places, k) ==
  CHOOSE i \in places : Cardinality({j \in places : j <= i}) = k

\* The k-th place is one of them, for every k up to their number.
LEMMA PlaceAtIs ==
  ASSUME NEW places, IsFiniteSet(places), \A i \in places : i \in Int,
         NEW k \in 1..Cardinality(places)
  PROVE  PlaceAt(places, k) \in places
<1> DEFINE key == [i \in places |-> i]
           before == [i \in places |-> {j \in places : j <= i}]
           rank == [i \in places |-> Cardinality(before[i])]
<1>1. /\ \A i \in places : key[i] \in Int
      /\ \A i, j \in places : key[i] = key[j] => i = j
      /\ \A i \in places : \A j : j \in before[i] <=> j \in places /\ key[j] <= key[i]
      /\ \A i \in places : rank[i] = Cardinality(before[i])
  OBVIOUS
<1>2. \A i \in places : rank[i] = Cardinality({j \in places : j <= i})
  OBVIOUS
<1> HIDE DEF key, before, rank
<1>3. \E i \in places : rank[i] = k
  BY <1>1, Ranks
<1> QED  BY <1>2, <1>3 DEF PlaceAt

LEMMA ImportCardinality == \A S : I!Cardinality(S) = Cardinality(S)
  BY Zenon DEF I!Cardinality, Cardinality

LEMMA KeptIs ==
  ASSUME NEW s, NEW places
  PROVE  /\ DOMAIN I!Kept(s, places) = 1..Cardinality(places)
         /\ \A k \in 1..Cardinality(places) : I!Kept(s, places)[k] = s[PlaceAt(places, k)]
<1>1. I!Kept(s, places) =
        [k \in 1..Cardinality(places) |->
           s[CHOOSE i \in places : Cardinality({j \in places : j <= i}) = k]]
  BY Zenon DEF I!Kept, I!Cardinality, Cardinality
<1> QED  BY <1>1 DEF PlaceAt

\* A stretch of the sequence.
LEMMA KeptStretch ==
  ASSUME NEW s, NEW a \in Nat, NEW m \in Nat
  PROVE  /\ DOMAIN I!Kept(s, (a + 1)..(a + m)) = 1..m
         /\ \A k \in 1..m : I!Kept(s, (a + 1)..(a + m))[k] = s[a + k]
<1> DEFINE P == (a + 1)..(a + m)
<1>1. IsFiniteSet(P) /\ Cardinality(P) = m
  BY FS_Interval
<1>2. ASSUME NEW k \in 1..m PROVE PlaceAt(P, k) = a + k
  <2>1. ASSUME NEW i \in P PROVE Cardinality({j \in P : j <= i}) = i - a
    <3>1. {j \in P : j <= i} = (a + 1)..i
      OBVIOUS
    <3>2. Cardinality((a + 1)..i) = i - a
      BY FS_Interval
    <3> QED  BY <3>1, <3>2
  <2>2. PlaceAt(P, k) = CHOOSE i \in P : Cardinality({j \in P : j <= i}) = k
    BY DEF PlaceAt
  <2>3. a + k \in P /\ Cardinality({j \in P : j <= a + k}) = k
    BY <2>1
  <2>4. PlaceAt(P, k) \in P /\ Cardinality({j \in P : j <= PlaceAt(P, k)}) = k
    BY <2>2, <2>3, Zenon
  <2>5. PlaceAt(P, k) - a = k
    BY <2>1, <2>4
  <2> HIDE DEF PlaceAt
  <2> QED  BY <2>4, <2>5
<1>3. DOMAIN I!Kept(s, P) = 1..m /\ \A k \in 1..m : I!Kept(s, P)[k] = s[a + k]
  BY <1>1, <1>2, KeptIs
<1> QED  BY <1>3

\* All of it.
LEMMA KeptAll ==
  ASSUME NEW s, NEW m \in Nat
  PROVE  I!Kept(s, 1..m) = [k \in 1..m |-> s[k]]
<1>1. \A a \in Nat : /\ DOMAIN I!Kept(s, (a + 1)..(a + m)) = 1..m
                     /\ \A k \in 1..m : I!Kept(s, (a + 1)..(a + m))[k] = s[a + k]
  BY KeptStretch
<1>2. /\ DOMAIN I!Kept(s, (0 + 1)..(0 + m)) = 1..m
      /\ \A k \in 1..m : I!Kept(s, (0 + 1)..(0 + m))[k] = s[0 + k]
  BY <1>1, Zenon
<1>3. (0 + 1)..(0 + m) = 1..m /\ \A k \in 1..m : 0 + k = k
  OBVIOUS
<1>4. I!Kept(s, 1..m) = [k \in DOMAIN I!Kept(s, 1..m) |-> I!Kept(s, 1..m)[k]]
  BY DEF I!Kept
<1> QED  BY <1>2, <1>3, <1>4

-----------------------------------------------------------------------------
(* Files and what is booked of them *)

ImportKeys == Keys \cup {NoKey}
Imported == [request : I!Pieces \cup {NoRequest}, piece : I!Pieces, year : ImportYears,
             contents : I!Contents, key : ImportKeys, bank : Banks \cup {NoBank},
             number : Numbers \cup {NoNumber}, reversed : BOOLEAN]

LEMMA FileRows ==
  ASSUME NEW f \in Files
  PROVE  /\ f.rows \in Seq(I!Range(f.rows))
         /\ DOMAIN f.rows = 1..Len(f.rows) /\ Len(f.rows) \in Nat
         /\ \A i \in DOMAIN f.rows : /\ f.rows[i].piece \in I!Pieces
                                     /\ f.rows[i].contents \in I!Contents
<1>1. f.rows \in Seq(I!Range(f.rows))
  BY FilesAssumption DEF I!ImportsAssumption
<1>2. DOMAIN f.rows = 1..Len(f.rows) /\ Len(f.rows) \in Nat
  BY <1>1
<1>3. ASSUME NEW i \in DOMAIN f.rows
      PROVE  f.rows[i].piece \in I!Pieces /\ f.rows[i].contents \in I!Contents
  <2>1. f.rows[i] \in I!Range(f.rows)
    BY DEF I!Range
  <2> QED  BY <2>1 DEF I!Pieces, I!Contents
<1> QED  BY <1>1, <1>2, <1>3

\* What a commit keeps of a file: rows of its importable lines.
LEMMA KeptRows ==
  ASSUME NEW f \in Files, NEW y \in ImportYears,
         NEW rows, rows = I!Kept(f.rows, I!Importable(f, y))
  PROVE  /\ Cardinality(I!Importable(f, y)) \in Nat
         /\ DOMAIN rows = 1..Cardinality(I!Importable(f, y))
         /\ \A k \in DOMAIN rows : \E i \in I!Importable(f, y) : rows[k] = f.rows[i]
<1> DEFINE P == I!Importable(f, y)
<1>1. P \subseteq 1..Len(f.rows)
  BY FileRows DEF I!Importable
<1>2. IsFiniteSet(P) /\ \A i \in P : i \in Int
  <2>1. IsFiniteSet(1..Len(f.rows)) /\ Len(f.rows) \in Nat
    BY FileRows, FS_Interval
  <2> QED  BY <1>1, <2>1, FS_Subset
<1>3. Cardinality(P) \in Nat
  BY <1>2, FS_CardinalityType
<1> HIDE DEF P
<1>4. DOMAIN I!Kept(f.rows, P) = 1..Cardinality(P)
      /\ \A k \in 1..Cardinality(P) : I!Kept(f.rows, P)[k] = f.rows[PlaceAt(P, k)]
  BY KeptIs
<1>5. \A k \in 1..Cardinality(P) : PlaceAt(P, k) \in P
  BY <1>2, PlaceAtIs
<1>6. rows = I!Kept(f.rows, P)
  BY DEF P
<1> QED  BY <1>3, <1>4, <1>5, <1>6 DEF P

LEMMA KeptRow ==
  ASSUME NEW f \in Files, NEW y \in ImportYears
  PROVE  \A k \in DOMAIN I!Kept(f.rows, I!Importable(f, y)) :
           \E i \in I!Importable(f, y) : I!Kept(f.rows, I!Importable(f, y))[k] = f.rows[i]
  BY KeptRows

\* An importable line can be read, is of the year and is not booked yet.
LEMMA ImportableIs ==
  ASSUME NEW f, NEW y, NEW i \in I!Importable(f, y)
  PROVE  /\ i \in DOMAIN f.rows /\ f.rows[i].year = y
         /\ I!Found(f.rows[i].piece) = {}
         /\ I!Annotated(f, y, i) = "valid"
<1>1. i \in DOMAIN f.rows /\ I!Annotated(f, y, i) = "valid"
  BY DEF I!Importable
<1>2. CASE ~ I!Legible(f.rows[i]) \/ I!Repeated(f, i) \/ f.rows[i].year # y
  BY <1>1, <1>2 DEF I!Annotated
<1>3. CASE ~ (~ I!Legible(f.rows[i]) \/ I!Repeated(f, i) \/ f.rows[i].year # y)
  <2>1. I!Annotated(f, y, i) =
          IF I!Found(f.rows[i].piece) = {} THEN "valid"
          ELSE IF I!AllSame(f.rows[i], y) THEN "duplicate" ELSE "error"
    BY <1>3 DEF I!Annotated
  <2> QED  BY <1>1, <1>3, <2>1
<1> QED  BY <1>2, <1>3

\* The rows that commit_import keeps pass every check of import_operations_csv,
\* whatever was booked before.
THEOREM PreviewedIsAcceptedHolds == MCSpec => []PreviewedIsAccepted
<1>1. PreviewedIsAccepted
  <2> SUFFICES ASSUME NEW f \in Files, NEW y \in ImportYears,
                      NEW bank \in Banks \cup {NoBank}, NEW only \in BOOLEAN,
                      I!Guarded(f, y, bank, only)
               PROVE  I!Accepts(I!Kept(f.rows, I!Importable(f, y)), y, bank)
    BY DEF PreviewedIsAccepted, I!PreviewedIsAccepted
  <2> DEFINE rows == I!Kept(f.rows, I!Importable(f, y))
  <2>r. rows = I!Kept(f.rows, I!Importable(f, y))
    OBVIOUS
  <2>1. \A k \in DOMAIN rows : \E i \in I!Importable(f, y) : rows[k] = f.rows[i]
    BY KeptRow, Zenon
  <2> HIDE DEF rows
  <2>2. \A k \in DOMAIN rows : \E i \in DOMAIN f.rows :
          rows[k] = f.rows[i] /\ rows[k].year = y /\ I!Found(rows[k].piece) = {}
    BY <2>1, ImportableIs
  <2>3. importYears[y] /\ ~ I!PaidNeedsBank(f.rows, bank)
    BY DEF I!Guarded
  <2>4. ~ I!PaidNeedsBank(rows, bank)
    BY <2>2, <2>3 DEF I!PaidNeedsBank
  <2>5. I!Accepts(rows, y, bank)
    BY <2>2, <2>3, <2>4 DEF I!Accepts
  <2> QED  BY <2>5, <2>r
<1> QED  BY <1>1, PTL

-----------------------------------------------------------------------------
(* The invariant of the imports *)

NumbersKept ==
  /\ \A t \in movements : t.bank \in Banks /\ number[t.bank] = t.number
  /\ \A n \in DOMAIN operations :
       operations[n].bank # NoBank => number[operations[n].bank] = operations[n].number

PlacesOf(s, k) == {n \in DOMAIN s : s[n].key = k}
Under(s, k) == I!Kept(s, PlacesOf(s, k))
\* What a report b says of the operations booked under its key.
Reports(b, booked) ==
  IF b = NoBatch THEN booked = <<>>
  ELSE LET posted == I!Kept(b.file.rows, {i \in DOMAIN b.items : b.items[i] = "posted"})
       IN /\ DOMAIN booked = DOMAIN posted
          /\ \A i \in DOMAIN booked :
               /\ booked[i].piece = posted[i].piece
               /\ booked[i].contents = posted[i].contents
               /\ booked[i].year = b.year
          /\ (\E i \in DOMAIN b.items : b.items[i] = "rejected") => b.validOnly

ImportInv ==
  /\ operations \in Seq(Imported)
  /\ number \in [Banks -> Numbers]
  /\ DOMAIN batches = Keys
  /\ NumbersKept
  /\ \A k \in Keys : Reports(batches[k], Under(operations, k))

\* Operations are only added at the end, or marked.
Extends(s, t) ==
  /\ Len(s) <= Len(t)
  /\ \A n \in DOMAIN s : /\ t[n].piece = s[n].piece /\ t[n].contents = s[n].contents
                         /\ t[n].year = s[n].year /\ t[n].key = s[n].key

LEMMA ImportDomain ==
  ASSUME NEW s \in Seq(Imported)
  PROVE  /\ DOMAIN s = 1..Len(s) /\ Len(s) \in Nat /\ IsFiniteSet(DOMAIN s)
         /\ \A n \in DOMAIN s : s[n] \in Imported /\ n \in Int
<1>1. IsFiniteSet(1..Len(s))
  BY FS_Interval
<1> QED  BY <1>1

\* The report of a key stands as long as nothing more is booked under it.
LEMMA ReportKept ==
  ASSUME NEW s \in Seq(Imported), NEW t \in Seq(Imported), Extends(s, t),
         NEW k, \A n \in DOMAIN t \ DOMAIN s : t[n].key # k,
         NEW b, Reports(b, Under(s, k))
  PROVE  Reports(b, Under(t, k))
<1> DEFINE P == PlacesOf(s, k)
           old == I!Kept(s, P)
           new == I!Kept(t, P)
<1>1. /\ DOMAIN s = 1..Len(s) /\ Len(s) \in Nat /\ IsFiniteSet(DOMAIN s)
      /\ DOMAIN t = 1..Len(t) /\ Len(t) \in Nat
  BY ImportDomain
<1>2. DOMAIN s \subseteq DOMAIN t
  BY <1>1 DEF Extends
<1>3. PlacesOf(t, k) = P
  BY <1>2 DEF Extends, PlacesOf
<1>4. P \subseteq DOMAIN s /\ IsFiniteSet(P) /\ \A i \in P : i \in Int
  BY <1>1, FS_Subset DEF PlacesOf
<1>5. Under(s, k) = old /\ Under(t, k) = new
  BY <1>3 DEF Under
<1> HIDE DEF P
<1>6. /\ DOMAIN old = 1..Cardinality(P) /\ DOMAIN new = 1..Cardinality(P)
      /\ \A j \in 1..Cardinality(P) : old[j] = s[PlaceAt(P, j)] /\ new[j] = t[PlaceAt(P, j)]
  BY KeptIs
<1>7. \A j \in 1..Cardinality(P) : PlaceAt(P, j) \in DOMAIN s
  BY <1>4, PlaceAtIs
<1>8. \A j \in DOMAIN old : /\ new[j].piece = old[j].piece
                            /\ new[j].contents = old[j].contents
                            /\ new[j].year = old[j].year
  BY <1>6, <1>7 DEF Extends
<1>9. old = <<>> => new = <<>>
  <2>1. new = [j \in DOMAIN new |-> new[j]]
    BY DEF I!Kept
  <2>2. old = <<>> => DOMAIN new = {}
    BY <1>6
  <2> HIDE DEF new, old
  <2> QED  BY <2>1, <2>2
<1>10. DOMAIN new = DOMAIN old
  BY <1>6
<1> HIDE DEF old, new
<1> QED  BY <1>5, <1>8, <1>9, <1>10 DEF Reports

LEMMA ReportsKept ==
  ASSUME NEW s \in Seq(Imported), NEW t \in Seq(Imported), Extends(s, t),
         NEW fresh, \A n \in DOMAIN t \ DOMAIN s : t[n].key = fresh,
         \A k \in Keys : Reports(batches[k], Under(s, k))
  PROVE  \A k \in Keys \ {fresh} : Reports(batches[k], Under(t, k))
BY ReportKept

-----------------------------------------------------------------------------
(* The steps *)

Unbooked(rows) == \A i \in DOMAIN rows : I!Found(rows[i].piece) = {}

\* What is booked of some rows, for a bank that those paid have.
LEMMA BookedIs ==
  ASSUME NEW S, NEW rows \in Seq(S), NEW m \in Nat, m = Len(rows),
         \A i \in 1..m : rows[i].piece \in I!Pieces /\ rows[i].contents \in I!Contents,
         NEW y \in ImportYears, NEW bank \in Banks \cup {NoBank},
         ~ I!PaidNeedsBank(rows, bank), NEW key \in ImportKeys,
         number \in [Banks -> Numbers],
         NEW new, new = I!Booked(rows, y, bank, key)
  PROVE  /\ new \in Seq(Imported)
         /\ \A k \in DOMAIN new : /\ new[k].key = key /\ new[k].year = y
                                  /\ new[k].bank # NoBank => new[k].number = number[new[k].bank]
<1> DEFINE P == {i \in DOMAIN rows : I!Found(rows[i].piece) = {}}
           kept == I!Kept(rows, P)
           op(k) == [request |-> kept[k].piece, piece |-> kept[k].piece, year |-> y,
                     contents |-> kept[k].contents, key |-> key,
                     bank   |-> IF kept[k].paid THEN bank ELSE NoBank,
                     number |-> IF kept[k].paid THEN number[bank] ELSE NoNumber,
                     reversed |-> FALSE]
<1>1. new = [k \in DOMAIN kept |-> op(k)]
  BY DEF I!Booked
<1>2. IsFiniteSet(P) /\ P \subseteq 1..m /\ \A i \in P : i \in Int
  <2>1. IsFiniteSet(1..m)
    BY FS_Interval
  <2> QED  BY <2>1, FS_Subset
<1>3. Cardinality(P) \in Nat
  BY <1>2, FS_CardinalityType
<1> HIDE DEF P
<1>5. /\ DOMAIN kept = 1..Cardinality(P)
      /\ \A k \in 1..Cardinality(P) : kept[k] = rows[PlaceAt(P, k)] /\ PlaceAt(P, k) \in 1..m
  BY <1>2, KeptIs, PlaceAtIs
<1>7. \A k \in DOMAIN kept :
        /\ kept[k].piece \in I!Pieces /\ kept[k].contents \in I!Contents
        /\ kept[k].paid => bank # NoBank
  BY <1>5 DEF I!PaidNeedsBank
<1> HIDE DEF kept
<1>8. \A k \in DOMAIN kept :
        /\ op(k) \in Imported
        /\ op(k).key = key /\ op(k).year = y
        /\ op(k).bank # NoBank => op(k).number = number[op(k).bank]
  BY <1>7 DEF Imported
<1> HIDE DEF op
<1>9. new \in Seq(Imported)
  <2>1. new \in [1..Cardinality(P) -> Imported]
    BY <1>1, <1>5, <1>8
  <2> QED  BY <1>3, <2>1
<1>10. \A k \in DOMAIN new : k \in DOMAIN kept /\ new[k] = op(k)
  BY <1>1
<1>13. \A k \in DOMAIN new : /\ new[k].key = key /\ new[k].year = y
                             /\ new[k].bank # NoBank => new[k].number = number[new[k].bank]
  BY <1>8, <1>10
<1> QED  BY <1>9, <1>13

LEMMA BookedAll ==
  ASSUME NEW S, NEW rows \in Seq(S), NEW m \in Nat, m = Len(rows),
         NEW y, NEW bank, NEW key, NEW new, new = I!Booked(rows, y, bank, key),
         Unbooked(rows)
  PROVE  /\ DOMAIN new = 1..m
         /\ \A i \in 1..m : new[i].piece = rows[i].piece
         /\ \A i \in 1..m : new[i].contents = rows[i].contents
<1>1. {i \in DOMAIN rows : I!Found(rows[i].piece) = {}} = 1..m
  <2>1. {i \in DOMAIN rows : I!Found(rows[i].piece) = {}} = DOMAIN rows
    BY Zenon DEF Unbooked
  <2>2. DOMAIN rows = 1..m
    OBVIOUS
  <2> QED  BY <2>1, <2>2
<1>2. I!Kept(rows, 1..m) = rows
  <2>1. I!Kept(rows, 1..m) = [k \in 1..m |-> rows[k]]
    BY KeptAll
  <2>2. rows = [k \in 1..m |-> rows[k]]
    OBVIOUS
  <2> QED  BY <2>1, <2>2
<1>3. new = [k \in DOMAIN rows |->
        [request |-> rows[k].piece, piece |-> rows[k].piece, year |-> y,
         contents |-> rows[k].contents, key |-> key,
         bank   |-> IF rows[k].paid THEN bank ELSE NoBank,
         number |-> IF rows[k].paid THEN number[bank] ELSE NoNumber,
         reversed |-> FALSE]]
  BY <1>1, <1>2 DEF I!Booked
<1> QED  BY <1>3

\* Operations booked at the end.
LEMMA OperationsAdded ==
  ASSUME ImportInv, NEW new \in Seq(Imported), operations' = operations \o new,
         NEW key, \A k \in DOMAIN new :
           /\ new[k].key = key
           /\ new[k].bank # NoBank => new[k].number = number[new[k].bank],
         UNCHANGED <<movements, number>>
  PROVE  /\ operations' \in Seq(Imported)
         /\ Extends(operations, operations')
         /\ \A n \in DOMAIN operations' \ DOMAIN operations : operations'[n].key = key
         /\ Len(operations') = Len(operations) + Len(new)
         /\ \A k \in DOMAIN new : operations'[Len(operations) + k] = new[k]
         /\ NumbersKept'
<1> DEFINE s == operations
           t == operations'
<1>1. s \in Seq(Imported) /\ t = s \o new
  BY DEF ImportInv
<1>2. /\ t \in Seq(Imported) /\ Len(t) = Len(s) + Len(new)
      /\ \A n \in 1..Len(t) : t[n] = IF n <= Len(s) THEN s[n] ELSE new[n - Len(s)]
  BY <1>1, ConcatProperties
<1>3. /\ DOMAIN s = 1..Len(s) /\ DOMAIN t = 1..Len(t) /\ DOMAIN new = 1..Len(new)
      /\ Len(s) \in Nat /\ Len(t) \in Nat /\ Len(new) \in Nat
  BY <1>1, <1>2, ImportDomain
<1>4. \A n \in DOMAIN s : n \in DOMAIN t /\ t[n] = s[n]
  BY <1>2, <1>3
<1>5. \A n \in DOMAIN t \ DOMAIN s : n - Len(s) \in DOMAIN new /\ t[n] = new[n - Len(s)]
  BY <1>2, <1>3
<1>6. \A k \in DOMAIN new : t[Len(s) + k] = new[k]
  <2> TAKE k \in DOMAIN new
  <2>1. Len(s) + k \in 1..Len(t) /\ ~ (Len(s) + k <= Len(s)) /\ (Len(s) + k) - Len(s) = k
    BY <1>2, <1>3
  <2> QED  BY <1>2, <2>1
<1>7. Extends(s, t)
  BY <1>2, <1>3, <1>4 DEF Extends
<1>8. NumbersKept'
  <2>1. NumbersKept
    BY DEF ImportInv
  <2>2. ASSUME NEW n \in DOMAIN t, t[n].bank # NoBank
        PROVE  number[t[n].bank] = t[n].number
    <3>1. CASE n \in DOMAIN s
      BY <1>4, <2>1, <2>2, <3>1 DEF NumbersKept
    <3>2. CASE n \notin DOMAIN s
      BY <1>5, <2>2, <3>2
    <3> QED  BY <3>1, <3>2
  <2> QED  BY <2>1, <2>2 DEF NumbersKept
<1> QED  BY <1>2, <1>5, <1>6, <1>7, <1>8

\* commit_import of operations: its report is the first of its key.
LEMMA CommitKeeps ==
  ASSUME ImportInv, NEW f \in Files, NEW y \in ImportYears, NEW bank \in Banks \cup {NoBank},
         NEW only \in BOOLEAN, NEW key \in Keys, I!CommitOperations(f, y, bank, only, key)
  PROVE  ImportInv'
<1> DEFINE P == I!Importable(f, y)
           m == Cardinality(P)
           rows == I!Kept(f.rows, P)
           new == I!Booked(rows, y, bank, key)
           rep == [file |-> f, year |-> y, bank |-> bank, validOnly |-> only,
                   items |-> I!Items(f, y)]
           s == operations
           t == operations'
<1>1. /\ I!Guarded(f, y, bank, only) /\ I!Accepts(rows, y, bank)
      /\ t = s \o new /\ batches' = [batches EXCEPT ![key] = rep]
      /\ UNCHANGED <<importYears, movements, number>>
      /\ batches[key] = NoBatch
  BY DEF I!CommitOperations, I!Stored
<1>2. /\ m \in Nat /\ DOMAIN rows = 1..m
      /\ \A k \in DOMAIN rows : \E i \in P : rows[k] = f.rows[i]
  BY KeptRows
<1>3. rows \in Seq(I!Range(f.rows)) /\ Len(rows) = m
  <2>1. \A k \in 1..m : rows[k] \in I!Range(f.rows)
    BY <1>2 DEF I!Importable, I!Range
  <2>2. rows = [k \in 1..m |-> rows[k]]
    BY <1>2 DEF I!Kept
  <2> HIDE DEF rows, m
  <2>3. rows \in [1..m -> I!Range(f.rows)]
    BY <2>1, <2>2
  <2> QED  BY <1>2, <2>3
<1>4. \A i \in P : /\ i \in DOMAIN f.rows /\ I!Found(f.rows[i].piece) = {}
                   /\ f.rows[i].piece \in I!Pieces /\ f.rows[i].contents \in I!Contents
  BY ImportableIs, FileRows
<1>5. number \in [Banks -> Numbers] /\ key \in ImportKeys /\ ~ I!PaidNeedsBank(rows, bank)
  BY <1>1 DEF ImportInv, ImportKeys, I!Accepts
<1> HIDE DEF P, m, rows
<1>6. /\ \A i \in 1..m : rows[i].piece \in I!Pieces /\ rows[i].contents \in I!Contents
      /\ Unbooked(rows)
  BY <1>2, <1>4 DEF Unbooked
<1>7. /\ new \in Seq(Imported)
      /\ \A k \in DOMAIN new : /\ new[k].key = key /\ new[k].year = y
                               /\ new[k].bank # NoBank => new[k].number = number[new[k].bank]
      /\ DOMAIN new = 1..m
      /\ \A i \in 1..m : new[i].piece = rows[i].piece /\ new[i].contents = rows[i].contents
  <2> HIDE DEF new
  <2>1. new = I!Booked(rows, y, bank, key)
    BY DEF new
  <2> DEFINE S == I!Range(f.rows)
  <2>2. rows \in Seq(S)
    BY <1>3
  <2> HIDE DEF S
  <2>3. new \in Seq(Imported)
    BY <1>2, <1>3, <1>5, <1>6, <2>1, <2>2, BookedIs
  <2>4. \A k \in DOMAIN new : /\ new[k].key = key /\ new[k].year = y
                              /\ new[k].bank # NoBank => new[k].number = number[new[k].bank]
    BY <1>2, <1>3, <1>5, <1>6, <2>1, <2>2, BookedIs
  <2>5. /\ DOMAIN new = 1..m
        /\ \A i \in 1..m : new[i].piece = rows[i].piece
        /\ \A i \in 1..m : new[i].contents = rows[i].contents
    BY <1>2, <1>3, <1>6, <2>1, <2>2, BookedAll
  <2> QED  BY <2>3, <2>4, <2>5
<1> HIDE DEF new
<1>8. /\ t \in Seq(Imported) /\ Extends(s, t)
      /\ \A n \in DOMAIN t \ DOMAIN s : t[n].key = key
      /\ Len(t) = Len(s) + Len(new)
      /\ \A k \in DOMAIN new : t[Len(s) + k] = new[k]
      /\ NumbersKept'
  BY <1>1, <1>7, OperationsAdded
<1>9. s \in Seq(Imported) /\ \A k \in Keys : Reports(batches[k], Under(s, k))
      /\ DOMAIN batches = Keys
  BY DEF ImportInv
<1>10. \A k \in Keys \ {key} : Reports(batches[k], Under(t, k))
  BY <1>8, <1>9, ReportsKept
<1>11. Under(t, key) = [k \in 1..m |-> new[k]]
  <2>1. PlacesOf(s, key) = {}
    <3>1. I!Kept(s, PlacesOf(s, key)) = <<>>
      BY <1>1, <1>9 DEF Reports, Under
    <3>2. DOMAIN I!Kept(s, PlacesOf(s, key)) = 1..Cardinality(PlacesOf(s, key))
      BY KeptIs
    <3>3. IsFiniteSet(PlacesOf(s, key))
      BY <1>9, ImportDomain, FS_Subset DEF PlacesOf
    <3>4. Cardinality(PlacesOf(s, key)) \in Nat /\ 1..Cardinality(PlacesOf(s, key)) = {}
      BY <3>1, <3>2, <3>3, FS_CardinalityType
    <3>5. Cardinality(PlacesOf(s, key)) = 0
      BY <3>4
    <3> QED  BY <3>3, <3>5, FS_EmptySet
  <2>2. Len(new) = m /\ Len(s) \in Nat /\ DOMAIN s = 1..Len(s) /\ DOMAIN t = 1..(Len(s) + m)
    BY <1>2, <1>7, <1>8, <1>9, ImportDomain
  <2>3. PlacesOf(t, key) = (Len(s) + 1)..(Len(s) + m)
    <3>1. \A n \in DOMAIN s : t[n].key # key
      BY <1>8, <2>1 DEF PlacesOf, Extends
    <3>2. \A n \in DOMAIN t \ DOMAIN s : t[n].key = key
      BY <1>8
    <3>3. DOMAIN t \ DOMAIN s = (Len(s) + 1)..(Len(s) + m)
      BY <1>2, <2>2
    <3> QED  BY <2>2, <3>1, <3>2, <3>3 DEF PlacesOf
  <2>4. Under(t, key) = [k \in 1..m |-> t[Len(s) + k]]
    <3>1. /\ DOMAIN I!Kept(t, (Len(s) + 1)..(Len(s) + m)) = 1..m
          /\ \A k \in 1..m : I!Kept(t, (Len(s) + 1)..(Len(s) + m))[k] = t[Len(s) + k]
      <4>1. Len(s) \in Nat /\ m \in Nat
        BY <1>2, <2>2
      <4> HIDE DEF s, t, m
      <4> QED  BY <4>1, KeptStretch, Zenon
    <3>2. Under(t, key) = [k \in DOMAIN Under(t, key) |-> Under(t, key)[k]]
      BY DEF Under, I!Kept
    <3>3. Under(t, key) = I!Kept(t, (Len(s) + 1)..(Len(s) + m))
      BY <2>3 DEF Under
    <3> HIDE DEF s, t
    <3> QED  BY <3>1, <3>2, <3>3
  <2> QED  BY <1>7, <1>8, <2>4
<1>12. Reports(rep, Under(t, key))
  <2>1. DOMAIN rep.items = DOMAIN f.rows
        /\ \A i \in DOMAIN f.rows : rep.items[i] = I!Item[I!Annotated(f, y, i)]
    BY DEF I!Items
  <2>2. \A i \in DOMAIN f.rows : I!Annotated(f, y, i) \in {"valid", "duplicate", "error"}
    BY Zenon DEF I!Annotated
  <2>3. /\ I!Item["valid"] = "posted" /\ I!Item["duplicate"] = "skipped"
        /\ I!Item["error"] = "rejected"
    BY DEF I!Item
  <2>4. {i \in DOMAIN rep.items : rep.items[i] = "posted"} = P
    BY <2>1, <2>2, <2>3 DEF P, I!Importable
  <2>5. (\E i \in DOMAIN rep.items : rep.items[i] = "rejected") => only
    BY <1>1, <2>1, <2>2, <2>3 DEF I!Guarded, I!Rejected
  <2>6. rep.items \in [DOMAIN f.rows -> {"posted", "skipped", "rejected"}]
    <3>1. rep.items = [i \in DOMAIN f.rows |-> I!Item[I!Annotated(f, y, i)]]
      BY DEF I!Items
    <3> QED  BY <2>2, <2>3, <3>1
  <2>7. rep # NoBatch
    BY <2>6, FilesAssumption DEF I!ImportsAssumption
  <2>8. /\ rep.file = f /\ rep.year = y /\ rep.validOnly = only
    OBVIOUS
  <2>9. I!Kept(rep.file.rows, {i \in DOMAIN rep.items : rep.items[i] = "posted"}) = rows
    BY <2>4, <2>8 DEF rows
  <2> HIDE DEF rep
  <2> HIDE DEF rows
  <2>10. /\ DOMAIN Under(t, key) = DOMAIN rows
         /\ \A i \in DOMAIN rows : /\ Under(t, key)[i].piece = rows[i].piece
                                   /\ Under(t, key)[i].contents = rows[i].contents
                                   /\ Under(t, key)[i].year = y
    BY <1>2, <1>7, <1>11
  <2> QED  BY <2>5, <2>7, <2>8, <2>9, <2>10 DEF Reports
<1> HIDE DEF rep
<1>13. \A k \in Keys : Reports(batches'[k], Under(t, k))
  BY <1>1, <1>9, <1>10, <1>12
<1> QED  BY <1>1, <1>5, <1>8, <1>9, <1>13 DEF ImportInv

\* The steps that book without a report: every report stands.
LEMMA BookingKeeps ==
  ASSUME ImportInv, NEW new \in Seq(Imported), operations' = operations \o new,
         \A k \in DOMAIN new :
           /\ new[k].key = NoKey
           /\ new[k].bank # NoBank => new[k].number = number[new[k].bank],
         UNCHANGED <<batches, movements, number>>
  PROVE  ImportInv'
<1> DEFINE s == operations
           t == operations'
<1>1. /\ t \in Seq(Imported) /\ Extends(s, t) /\ NumbersKept'
      /\ \A n \in DOMAIN t \ DOMAIN s : t[n].key = NoKey
  BY OperationsAdded
<1>2. s \in Seq(Imported) /\ \A k \in Keys : Reports(batches[k], Under(s, k))
  BY DEF ImportInv
<1>3. \A k \in Keys \ {NoKey} : Reports(batches[k], Under(t, k))
  BY <1>1, <1>2, ReportsKept
<1>4. NoKey \notin Keys
  BY FilesAssumption DEF I!ImportsAssumption
<1>5. \A k \in Keys : Reports(batches'[k], Under(t, k))
  BY <1>3, <1>4
<1> QED  BY <1>1, <1>5 DEF ImportInv

LEMMA ImportKeeps ==
  ASSUME ImportInv, NEW f \in Files, NEW y \in ImportYears, NEW bank \in Banks \cup {NoBank},
         I!ImportOperations(f, y, bank)
  PROVE  ImportInv'
<1> DEFINE rows == f.rows
           new == I!Booked(rows, y, bank, NoKey)
           S == I!Range(f.rows)
           m == Len(f.rows)
<1>1. /\ operations' = operations \o new /\ ~ I!PaidNeedsBank(rows, bank)
      /\ UNCHANGED <<batches, movements, number>>
  BY DEF I!ImportOperations, I!Accepts
<1>2. /\ rows \in Seq(S) /\ m \in Nat /\ m = Len(rows)
      /\ \A i \in 1..m : rows[i].piece \in I!Pieces /\ rows[i].contents \in I!Contents
  BY FileRows
<1>3. number \in [Banks -> Numbers] /\ NoKey \in ImportKeys
  BY DEF ImportInv, ImportKeys
<1>4. new = I!Booked(rows, y, bank, NoKey)
  OBVIOUS
<1> HIDE DEF rows, S, m, new
<1>5. /\ new \in Seq(Imported)
      /\ \A k \in DOMAIN new : /\ new[k].key = NoKey /\ new[k].year = y
                               /\ new[k].bank # NoBank => new[k].number = number[new[k].bank]
  BY <1>1, <1>2, <1>3, <1>4, BookedIs
<1> QED  BY <1>1, <1>5, BookingKeeps

LEMMA CreateKeeps ==
  ASSUME ImportInv, NEW p \in I!Pieces, NEW c \in I!Contents, NEW y \in ImportYears,
         NEW bank \in Banks \cup {NoBank}, I!CreateOperation(p, y, c, bank)
  PROVE  ImportInv'
<1> DEFINE op == [request |-> NoRequest, piece |-> p, year |-> y, contents |-> c,
                  key |-> NoKey, bank |-> bank, reversed |-> FALSE,
                  number |-> IF bank = NoBank THEN NoNumber ELSE number[bank]]
<1>1. operations' = Append(operations, op) /\ UNCHANGED <<batches, movements, number>>
  BY DEF I!CreateOperation
<1>2. number \in [Banks -> Numbers] /\ operations \in Seq(Imported)
  BY DEF ImportInv
<1>3. /\ op \in Imported /\ op.key = NoKey
      /\ op.bank # NoBank => op.number = number[op.bank]
  BY <1>2 DEF Imported, ImportKeys
<1> HIDE DEF op
<1>4. <<op>> \in Seq(Imported) /\ \A k \in DOMAIN <<op>> : <<op>>[k] = op
  BY <1>3
<1>5. operations' = operations \o <<op>>
  BY <1>1, <1>2, <1>3, AppendIsConcat
<1> QED  BY <1>1, <1>3, <1>4, <1>5, BookingKeeps

LEMMA CancelKeeps ==
  ASSUME ImportInv, NEW n \in DOMAIN operations, I!CancelOperation(n)
  PROVE  ImportInv'
<1> DEFINE s == operations
           t == operations'
<1>1. t = [s EXCEPT ![n].reversed = TRUE] /\ UNCHANGED <<batches, movements, number>>
  BY DEF I!CancelOperation
<1>2. s \in Seq(Imported) /\ NumbersKept /\ \A k \in Keys : Reports(batches[k], Under(s, k))
  BY DEF ImportInv
<1>3. \A i \in DOMAIN s : s[i] \in Imported
  BY <1>2, ImportDomain
<1>4. DOMAIN t = DOMAIN s /\ \A i \in DOMAIN s :
        t[i] = IF i = n THEN [s[i] EXCEPT !.reversed = TRUE] ELSE s[i]
  BY <1>1, <1>2
<1>5. \A i \in DOMAIN s :
        /\ t[i] \in Imported
        /\ t[i].piece = s[i].piece /\ t[i].contents = s[i].contents
        /\ t[i].year = s[i].year /\ t[i].key = s[i].key
        /\ t[i].bank = s[i].bank /\ t[i].number = s[i].number
  <2> TAKE i \in DOMAIN s
  <2> DEFINE r == s[i]
             u == [r EXCEPT !.reversed = TRUE]
  <2>1. r \in Imported
    BY <1>3
  <2>2. t[i] = u \/ t[i] = r
    BY <1>4
  <2> HIDE DEF r
  <2>3. /\ u \in Imported
        /\ u.piece = r.piece /\ u.contents = r.contents /\ u.year = r.year
        /\ u.key = r.key /\ u.bank = r.bank /\ u.number = r.number
    BY <2>1 DEF Imported
  <2> HIDE DEF u
  <2>4. /\ t[i] \in Imported
        /\ t[i].piece = r.piece /\ t[i].contents = r.contents
        /\ t[i].year = r.year /\ t[i].key = r.key
        /\ t[i].bank = r.bank /\ t[i].number = r.number
    BY <2>1, <2>2, <2>3
  <2> QED  BY <2>4 DEF r
<1>6. t \in Seq(Imported) /\ Len(t) = Len(s)
  <2>1. DOMAIN s = 1..Len(s) /\ Len(s) \in Nat
    BY <1>2, ImportDomain
  <2>2. t = [i \in DOMAIN t |-> t[i]]
    BY <1>1
  <2> HIDE DEF s, t
  <2>3. t \in [1..Len(s) -> Imported]
    BY <1>4, <1>5, <2>1, <2>2
  <2> QED  BY <2>1, <2>3
<1>7. Extends(s, t)
  BY <1>5, <1>6, <1>2, ImportDomain DEF Extends
<1>8. \A i \in DOMAIN t \ DOMAIN s : t[i].key = NoKey
  BY <1>4
<1>9. \A k \in Keys \ {NoKey} : Reports(batches[k], Under(t, k))
  BY <1>2, <1>6, <1>7, <1>8, ReportsKept
<1>10. \A k \in Keys : Reports(batches'[k], Under(t, k))
  BY <1>1, <1>9, FilesAssumption DEF I!ImportsAssumption
<1>11. NumbersKept'
  BY <1>1, <1>2, <1>4, <1>5 DEF NumbersKept
<1> QED  BY <1>1, <1>6, <1>10, <1>11 DEF ImportInv

\* Statements, corrections of a bank, exercises closed and reopened.
LEMMA MovementsKeep ==
  ASSUME ImportInv, NEW rows, NEW b \in Banks,
         movements' = movements \cup I!NewMovements(rows, b),
         UNCHANGED <<operations, batches, number>>
  PROVE  ImportInv'
<1>1. \A t \in I!NewMovements(rows, b) : t.bank = b /\ t.number = number[b]
  BY DEF I!NewMovements
<1>2. NumbersKept'
  BY <1>1 DEF ImportInv, NumbersKept
<1> QED  BY <1>2 DEF ImportInv

LEMMA BankKeeps ==
  ASSUME ImportInv, NEW b \in Banks, NEW n \in Numbers, I!CorrectBank(b, n)
  PROVE  ImportInv'
<1>1. /\ number' = [number EXCEPT ![b] = n] /\ ~ I!HasMovements(b)
      /\ UNCHANGED <<operations, batches, movements>>
  BY DEF I!CorrectBank
<1>2. number \in [Banks -> Numbers] /\ NumbersKept
  BY DEF ImportInv
<1>3. /\ number' \in [Banks -> Numbers]
      /\ \A a \in Banks : a # b => number'[a] = number[a]
  BY <1>1, <1>2
<1>4. /\ \A t \in movements : t.bank # b
      /\ \A k \in DOMAIN operations : operations[k].bank # b
  BY <1>1 DEF I!HasMovements
<1>5. \A k \in DOMAIN operations : operations[k].bank \in Banks \cup {NoBank}
  BY ImportDomain DEF ImportInv, Imported
<1>6. NumbersKept'
  BY <1>1, <1>2, <1>3, <1>4, <1>5 DEF NumbersKept
<1> QED  BY <1>1, <1>3, <1>6 DEF ImportInv

LEMMA ImportStep == ImportInv /\ I!Next => ImportInv'
<1> SUFFICES ASSUME ImportInv, I!Next PROVE ImportInv'
  OBVIOUS
<1>1. ASSUME NEW y \in ImportYears, NEW bank \in Banks \cup {NoBank}, NEW f \in Files,
             NEW only \in BOOLEAN, NEW k \in Keys, I!CommitOperations(f, y, bank, only, k)
      PROVE  ImportInv'
  BY <1>1, CommitKeeps
<1>2. ASSUME NEW y \in ImportYears, NEW bank \in Banks \cup {NoBank}, NEW f \in Files,
             I!ImportOperations(f, y, bank)
      PROVE  ImportInv'
  BY <1>2, ImportKeeps
<1>3. ASSUME NEW y \in ImportYears, NEW bank \in Banks \cup {NoBank},
             NEW p \in I!Pieces, NEW c \in I!Contents, I!CreateOperation(p, y, c, bank)
      PROVE  ImportInv'
  BY <1>3, CreateKeeps
<1>4. ASSUME NEW n \in DOMAIN operations, I!CancelOperation(n) PROVE ImportInv'
  BY <1>4, CancelKeeps
<1>5. ASSUME NEW b \in Banks, NEW rows \in Statements,
             I!CommitBank(rows, b) \/ I!ImportBank(rows, b)
      PROVE  ImportInv'
  BY <1>5, MovementsKeep DEF I!CommitBank, I!ImportBank
<1>6. ASSUME NEW b \in Banks, NEW n \in Numbers, I!CorrectBank(b, n) PROVE ImportInv'
  BY <1>6, BankKeeps
<1>7. ASSUME NEW y \in ImportYears, I!Switch(y) PROVE ImportInv'
  BY <1>7 DEF I!Switch, ImportInv, NumbersKept
<1> QED  BY <1>1, <1>2, <1>3, <1>4, <1>5, <1>6, <1>7 DEF I!Next

LEMMA ImportInitial == I!Init => ImportInv
<1> SUFFICES ASSUME I!Init PROVE ImportInv
  OBVIOUS
<1>1. /\ operations = <<>> /\ movements = {} /\ number \in [Banks -> Numbers]
      /\ batches = [k \in Keys |-> NoBatch]
  BY DEF I!Init
<1>2. operations \in Seq(Imported) /\ DOMAIN operations = {}
  BY <1>1
<1>3. \A k : Under(operations, k) = <<>>
  <2> TAKE k
  <2>1. PlacesOf(operations, k) = {}
    BY <1>2 DEF PlacesOf
  <2>2. Cardinality({}) = 0
    BY FS_EmptySet
  <2>3. DOMAIN I!Kept(operations, {}) = 1..0
    BY <2>2, KeptIs
  <2>4. Under(operations, k) = [j \in DOMAIN Under(operations, k) |-> Under(operations, k)[j]]
    BY DEF Under, I!Kept
  <2> QED  BY <2>1, <2>3, <2>4 DEF Under
<1>4. NumbersKept
  BY <1>1, <1>2 DEF NumbersKept
<1> QED  BY <1>1, <1>2, <1>3, <1>4 DEF ImportInv, Reports

ImportInvScene == scene = "imports" => ImportInv

LEMMA ImportsAlways == MCSpec => []ImportInvScene
<1>1. MCInit => ImportInvScene
  BY ImportInitial DEF MCInit, ImportInvScene
<1>2. ImportInvScene /\ [MCNext]_<<settlementVars, importVars, loanVars, rentVars, scene>>
        => ImportInvScene'
  <2> SUFFICES ASSUME ImportInvScene,
                      [MCNext]_<<settlementVars, importVars, loanVars, rentVars, scene>>,
                      scene' = "imports"
               PROVE  ImportInv'
    BY DEF ImportInvScene
  <2>1. CASE scene = "imports" /\ I!Next
    BY <2>1, ImportStep DEF ImportInvScene
  <2>2. CASE UNCHANGED <<importVars, scene>>
    BY <2>2 DEF ImportInvScene, ImportInv, NumbersKept, importVars
  <2> QED  BY <2>1, <2>2 DEF MCNext, importVars
<1> QED  BY <1>1, <1>2, PTL DEF MCSpec

\* A bank keeps the account 512 of its movements and of its paid operations.
THEOREM BankKeepsItsNumberHolds == MCSpec => []BankKeepsItsNumber
<1>1. ImportInvScene => BankKeepsItsNumber
  BY DEF ImportInvScene, ImportInv, NumbersKept, BankKeepsItsNumber, I!BankKeepsItsNumber
<1> QED  BY <1>1, ImportsAlways, PTL

\* What a key reports is what was booked under it.
THEOREM ReportMatchesBooksHolds == MCSpec => []ReportMatchesBooks
<1>1. ImportInvScene => ReportMatchesBooks
  <2> SUFFICES ASSUME ImportInv, NEW k \in Keys
      PROVE LET booked == I!Kept(operations, {n \in DOMAIN operations : operations[n].key = k})
            IN IF batches[k] = NoBatch THEN booked = <<>>
               ELSE LET b == batches[k]
                        posted == I!Kept(b.file.rows,
                                         {i \in DOMAIN b.items : b.items[i] = "posted"})
                    IN /\ Len(booked) = Len(posted)
                       /\ \A i \in DOMAIN posted :
                            /\ booked[i].piece = posted[i].piece
                            /\ booked[i].contents = posted[i].contents
                            /\ booked[i].year = b.year
                       /\ (\E i \in DOMAIN b.items : b.items[i] = "rejected") => b.validOnly
    BY DEF ImportInvScene, ReportMatchesBooks, I!ReportMatchesBooks
  <2> DEFINE b == batches[k]
             booked == I!Kept(operations, {n \in DOMAIN operations : operations[n].key = k})
             P == {i \in DOMAIN b.items : b.items[i] = "posted"}
             posted == I!Kept(b.file.rows, P)
  <2>1. Reports(b, booked)
    BY DEF ImportInv, Under, PlacesOf
  <2>2. ASSUME b # NoBatch PROVE Len(booked) = Len(posted)
    <3>1. DOMAIN booked = DOMAIN posted
      BY <2>1, <2>2 DEF Reports
    <3> QED  BY <3>1
  <2>3. b # NoBatch =>
          /\ \A i \in DOMAIN posted : /\ booked[i].piece = posted[i].piece
                                      /\ booked[i].contents = posted[i].contents
                                      /\ booked[i].year = b.year
          /\ (\E i \in DOMAIN b.items : b.items[i] = "rejected") => b.validOnly
    <3> HIDE DEF booked, b
    <3> QED  BY <2>1 DEF Reports
  <2>4. b = NoBatch => booked = <<>>
    <3> HIDE DEF booked, b
    <3> QED  BY <2>1 DEF Reports
  <2> QED  BY <2>2, <2>3, <2>4, Zenon
<1> QED  BY <1>1, ImportsAlways, PTL

-----------------------------------------------------------------------------
(* Loan schedules: elements of a sequence in the order of their keys *)

SortedAt(places, key, k) ==
  CHOOSE i \in places : Cardinality({j \in places : key[j] <= key[i]}) = k

LEMMA SortedIs ==
  ASSUME NEW s, NEW places, NEW key
  PROVE  /\ DOMAIN L!Sorted(s, places, key) = 1..Cardinality(places)
         /\ \A k \in 1..Cardinality(places) :
              L!Sorted(s, places, key)[k] = s[SortedAt(places, key, k)]
<1>1. L!Sorted(s, places, key) =
        [k \in 1..Cardinality(places) |->
           s[CHOOSE i \in places : Cardinality({j \in places : key[j] <= key[i]}) = k]]
  BY Zenon DEF L!Sorted, L!Cardinality, Cardinality
<1> QED  BY <1>1 DEF SortedAt

\* Distinct keys put every place at one rank, in increasing order.
LEMMA SortedPlaces ==
  ASSUME NEW places, IsFiniteSet(places), NEW key, \A i \in places : key[i] \in Int,
         \A i, j \in places : key[i] = key[j] => i = j
  PROVE  /\ \A k \in 1..Cardinality(places) : SortedAt(places, key, k) \in places
         /\ \A i \in places : \E k \in 1..Cardinality(places) : i = SortedAt(places, key, k)
         /\ \A j, k \in 1..Cardinality(places) :
              j < k => key[SortedAt(places, key, j)] < key[SortedAt(places, key, k)]
<1> DEFINE N == Cardinality(places)
           before == [i \in places |-> {j \in places : key[j] <= key[i]}]
           rank == [i \in places |-> Cardinality(before[i])]
<1>1. /\ \A i \in places : \A j : j \in before[i] <=> j \in places /\ key[j] <= key[i]
      /\ \A i \in places : rank[i] = Cardinality(before[i])
  OBVIOUS
<1>2. \A i \in places : rank[i] = Cardinality({j \in places : key[j] <= key[i]})
  OBVIOUS
<1>3. N \in Nat
  BY FS_CardinalityType
<1> HIDE DEF before, rank, N
<1>4. /\ \A i \in places : rank[i] \in 1..N
      /\ \A i, j \in places : rank[i] = rank[j] => i = j
      /\ \A k \in 1..N : \E i \in places : rank[i] = k
  BY <1>1, Ranks DEF N
<1>5. \A k \in 1..N : SortedAt(places, key, k) \in places /\ rank[SortedAt(places, key, k)] = k
  BY <1>2, <1>4 DEF SortedAt
<1>6. \A i \in places : i = SortedAt(places, key, rank[i])
  BY <1>4, <1>5
<1>7. ASSUME NEW j \in 1..N, NEW k \in 1..N, j < k
      PROVE  key[SortedAt(places, key, j)] < key[SortedAt(places, key, k)]
  <2> DEFINE p == SortedAt(places, key, j)
             q == SortedAt(places, key, k)
  <2>1. p \in places /\ q \in places /\ rank[p] = j /\ rank[q] = k
    BY <1>5
  <2> HIDE DEF p, q
  <2> SUFFICES ASSUME ~ (key[p] < key[q]) PROVE FALSE
    BY DEF p, q
  <2>2. key[q] <= key[p]
    BY <2>1
  <2>3. \A x \in before[q] : x \in before[p]
    BY <1>1, <2>1, <2>2
  <2>4. before[p] \subseteq places
    BY <1>1, <2>1
  <2>5. IsFiniteSet(before[p])
    BY <2>4, FS_Subset
  <2>6. Cardinality(before[q]) <= Cardinality(before[p])
    BY <2>3, <2>5, FS_Subset
  <2> QED  BY <1>1, <1>7, <2>1, <2>6
<1> QED  BY <1>4, <1>5, <1>6, <1>7 DEF N

\* A sequence in the order of its places.
LEMMA SortedAll ==
  ASSUME NEW s, NEW m \in Nat, NEW key, \A i \in 1..m : key[i] = i
  PROVE  L!Sorted(s, 1..m, key) = [k \in 1..m |-> s[k]]
<1>1. IsFiniteSet(1..m) /\ Cardinality(1..m) = m
  BY FS_Interval
<1>2. ASSUME NEW k \in 1..m PROVE SortedAt(1..m, key, k) = k
  <2>1. ASSUME NEW i \in 1..m PROVE Cardinality({j \in 1..m : key[j] <= key[i]}) = i
    <3>1. {j \in 1..m : key[j] <= key[i]} = 1..i
      OBVIOUS
    <3>2. Cardinality(1..i) = i
      BY FS_Interval
    <3> QED  BY <3>1, <3>2
  <2>2. SortedAt(1..m, key, k) =
          CHOOSE i \in 1..m : Cardinality({j \in 1..m : key[j] <= key[i]}) = k
    BY DEF SortedAt
  <2>3. /\ SortedAt(1..m, key, k) \in 1..m
        /\ Cardinality({j \in 1..m : key[j] <= key[SortedAt(1..m, key, k)]}) = k
    BY <2>1, <2>2, Zenon
  <2> HIDE DEF SortedAt
  <2> QED  BY <2>1, <2>3
<1>3. L!Sorted(s, 1..m, key) = [k \in DOMAIN L!Sorted(s, 1..m, key) |-> L!Sorted(s, 1..m, key)[k]]
  BY DEF L!Sorted
<1>4. /\ DOMAIN L!Sorted(s, 1..m, key) = 1..m
      /\ \A k \in 1..m : L!Sorted(s, 1..m, key)[k] = s[k]
  BY <1>1, <1>2, SortedIs
<1> QED  BY <1>3, <1>4

-----------------------------------------------------------------------------
(* The payments of the loan *)

LoanDues == {ManualDue} \cup UNION {{r.due : r \in L!Range(rows)} : rows \in Schedules}
Payment == [request : LoanDues \X Int \X Nat, due : LoanDues, day : Int,
            principal : Nat, reversed : BOOLEAN]

PriorIn(ps, due, day) == {n \in DOMAIN ps : ps[n].day = day \/ ps[n].due = due}

\* The number in a request is below what the next one of its row will get.
Requested(ps) == \A n \in DOMAIN ps :
  /\ ps[n].request[1] = ps[n].due /\ ps[n].request[2] = ps[n].day
  /\ ps[n].due = ManualDue => ps[n].request[3] < n
  /\ ps[n].due # ManualDue =>
       ps[n].request[3] < Cardinality(PriorIn(ps, ps[n].due, ps[n].day))

PaidOnce(ps) == \A n, k \in DOMAIN ps :
  (/\ n # k /\ ~ ps[n].reversed /\ ~ ps[k].reversed
   /\ ps[n].due # ManualDue /\ ps[k].due # ManualDue)
  => ps[n].due # ps[k].due /\ ps[n].day # ps[k].day

LoanInv == payments \in Seq(Payment) /\ Requested(payments) /\ PaidOnce(payments)

\* Payments an import prepares.
FromRows(ps, new) ==
  /\ new \in Seq(Payment)
  /\ \A k \in DOMAIN new :
       /\ new[k].due # ManualDue /\ ~ new[k].reversed
       /\ new[k].request
            = <<new[k].due, new[k].day, Cardinality(PriorIn(ps, new[k].due, new[k].day))>>
       /\ \A n \in DOMAIN ps : ~ ps[n].reversed =>
            ps[n].due # new[k].due /\ ps[n].day # new[k].day
  /\ \A j, k \in DOMAIN new : j # k => new[j].due # new[k].due /\ new[j].day # new[k].day

LEMMA PaymentDomain ==
  ASSUME NEW s \in Seq(Payment)
  PROVE  /\ DOMAIN s = 1..Len(s) /\ Len(s) \in Nat /\ IsFiniteSet(DOMAIN s)
         /\ \A n \in DOMAIN s : s[n] \in Payment /\ n \in Int
<1>1. IsFiniteSet(1..Len(s))
  BY FS_Interval
<1> QED  BY <1>1

LEMMA PaymentsAppended ==
  ASSUME NEW s \in Seq(Payment), NEW new \in Seq(Payment), NEW t, t = s \o new
  PROVE  /\ t \in Seq(Payment)
         /\ DOMAIN s \subseteq DOMAIN t /\ \A n \in DOMAIN s : t[n] = s[n]
         /\ \A n \in DOMAIN t \ DOMAIN s : n - Len(s) \in DOMAIN new /\ t[n] = new[n - Len(s)]
<1>1. /\ t \in Seq(Payment) /\ Len(t) = Len(s) + Len(new)
      /\ \A n \in 1..Len(t) : t[n] = IF n <= Len(s) THEN s[n] ELSE new[n - Len(s)]
  BY ConcatProperties
<1>2. /\ DOMAIN s = 1..Len(s) /\ DOMAIN t = 1..Len(t) /\ DOMAIN new = 1..Len(new)
      /\ Len(s) \in Nat /\ Len(t) \in Nat /\ Len(new) \in Nat
  BY <1>1, PaymentDomain
<1> QED  BY <1>1, <1>2

\* Among more payments, no fewer of a row or of a day.
LEMMA PriorGrows ==
  ASSUME NEW s \in Seq(Payment), NEW t \in Seq(Payment), DOMAIN s \subseteq DOMAIN t,
         \A n \in DOMAIN s : t[n].due = s[n].due /\ t[n].day = s[n].day,
         NEW due, NEW day
  PROVE  /\ Cardinality(PriorIn(s, due, day)) \in Nat
         /\ Cardinality(PriorIn(s, due, day)) <= Cardinality(PriorIn(t, due, day))
         /\ \A n \in DOMAIN t \ DOMAIN s : t[n].due = due =>
              Cardinality(PriorIn(s, due, day)) < Cardinality(PriorIn(t, due, day))
<1> DEFINE P == PriorIn(s, due, day)
           T == PriorIn(t, due, day)
<1>1. P \subseteq T /\ P \subseteq DOMAIN s /\ T \subseteq DOMAIN t
  BY DEF PriorIn
<1>2. IsFiniteSet(T) /\ IsFiniteSet(P)
  BY <1>1, PaymentDomain, FS_Subset
<1>3. Cardinality(P) \in Nat /\ Cardinality(T) \in Nat /\ Cardinality(P) <= Cardinality(T)
  BY <1>1, <1>2, FS_Subset, FS_CardinalityType
<1>4. ASSUME NEW n \in DOMAIN t \ DOMAIN s, t[n].due = due
      PROVE  Cardinality(P) < Cardinality(T)
  <2>1. n \in T /\ n \notin P
    BY <1>1, <1>4 DEF PriorIn
  <2>2. P # T
    BY <2>1
  <2>3. Cardinality(P) = Cardinality(T) => P = T
    BY <1>1, <1>2, FS_Subset
  <2> QED  BY <1>3, <2>2, <2>3
<1> QED  BY <1>3, <1>4

LEMMA PaymentRequest ==
  ASSUME NEW p \in Payment
  PROVE  /\ p.request = <<p.request[1], p.request[2], p.request[3]>>
         /\ p.request[1] \in LoanDues /\ p.request[2] \in Int /\ p.request[3] \in Nat
BY DEF Payment

LEMMA RowsPosted ==
  ASSUME NEW s \in Seq(Payment), Requested(s), PaidOnce(s),
         NEW new, FromRows(s, new), NEW t, t = s \o new
  PROVE  t \in Seq(Payment) /\ Requested(t) /\ PaidOnce(t)
<1>1. /\ t \in Seq(Payment)
      /\ DOMAIN s \subseteq DOMAIN t /\ \A n \in DOMAIN s : t[n] = s[n]
      /\ \A n \in DOMAIN t \ DOMAIN s : n - Len(s) \in DOMAIN new /\ t[n] = new[n - Len(s)]
  BY PaymentsAppended DEF FromRows
<1>2. \A n \in DOMAIN t \ DOMAIN s : n \in Int /\ Len(s) \in Int
  BY <1>1, PaymentDomain
<1>3. Requested(t)
  <2> SUFFICES ASSUME NEW n \in DOMAIN t
               PROVE  /\ t[n].request[1] = t[n].due /\ t[n].request[2] = t[n].day
                      /\ t[n].due = ManualDue => t[n].request[3] < n
                      /\ t[n].due # ManualDue =>
                           t[n].request[3] < Cardinality(PriorIn(t, t[n].due, t[n].day))
    BY DEF Requested
  <2> DEFINE p == Cardinality(PriorIn(s, t[n].due, t[n].day))
             q == Cardinality(PriorIn(t, t[n].due, t[n].day))
  <2>1. /\ p \in Nat /\ p <= q /\ (n \notin DOMAIN s => p < q)
    BY <1>1, PriorGrows
  <2>2. q \in Nat
    <3>1. IsFiniteSet(PriorIn(t, t[n].due, t[n].day))
      BY <1>1, PaymentDomain, FS_Subset DEF PriorIn
    <3> QED  BY <3>1, FS_CardinalityType
  <2>3. CASE n \in DOMAIN s
    <3>1. t[n] = s[n] /\ s[n].request[3] \in Nat
      BY <1>1, <2>3, PaymentDomain, PaymentRequest
    <3>2. /\ s[n].request[1] = s[n].due /\ s[n].request[2] = s[n].day
          /\ s[n].due = ManualDue => s[n].request[3] < n
          /\ s[n].due # ManualDue => s[n].request[3] < p
      BY <2>3, <3>1 DEF Requested
    <3> HIDE DEF p, q
    <3> QED  BY <2>1, <2>2, <3>1, <3>2 DEF q
  <2>4. CASE n \notin DOMAIN s
    <3>1. /\ t[n].due # ManualDue
          /\ t[n].request = <<t[n].due, t[n].day, p>>
      BY <1>1, <2>4 DEF FromRows
    <3> QED  BY <2>1, <2>4, <3>1
  <2> QED  BY <2>3, <2>4
<1>4. PaidOnce(t)
  <2> SUFFICES ASSUME NEW n \in DOMAIN t, NEW k \in DOMAIN t, n # k,
                      ~ t[n].reversed, ~ t[k].reversed,
                      t[n].due # ManualDue, t[k].due # ManualDue
               PROVE  t[n].due # t[k].due /\ t[n].day # t[k].day
    BY DEF PaidOnce
  <2>1. CASE n \in DOMAIN s /\ k \in DOMAIN s
    BY <1>1, <2>1 DEF PaidOnce
  <2>2. CASE n \in DOMAIN s /\ k \notin DOMAIN s
    BY <1>1, <2>2 DEF FromRows
  <2>3. CASE n \notin DOMAIN s /\ k \in DOMAIN s
    BY <1>1, <2>3 DEF FromRows
  <2>4. CASE n \notin DOMAIN s /\ k \notin DOMAIN s
    <3>1. n - Len(s) # k - Len(s)
      BY <1>2, <2>4
    <3> QED  BY <1>1, <2>4, <3>1 DEF FromRows
  <2> QED  BY <2>1, <2>2, <2>3, <2>4
<1> QED  BY <1>1, <1>3, <1>4

\* None of the requests of an import was used before.
LEMMA RequestsUnused ==
  ASSUME NEW s \in Seq(Payment), Requested(s), NEW new, FromRows(s, new)
  PROVE  /\ \A k \in DOMAIN new : \A n \in DOMAIN s : s[n].request # new[k].request
         /\ \A j, k \in DOMAIN new : j # k => new[j].request # new[k].request
<1>1. ASSUME NEW k \in DOMAIN new, NEW n \in DOMAIN s, s[n].request = new[k].request
      PROVE  FALSE
  <2> DEFINE q == Cardinality(PriorIn(s, new[k].due, new[k].day))
  <2>1. new[k].request = <<new[k].due, new[k].day, q>> /\ new[k].due # ManualDue
    BY DEF FromRows
  <2>2. /\ s[n].request[1] = s[n].due /\ s[n].request[2] = s[n].day
        /\ s[n].due # ManualDue =>
             s[n].request[3] < Cardinality(PriorIn(s, s[n].due, s[n].day))
    BY DEF Requested
  <2>3. s[n].due = new[k].due /\ s[n].day = new[k].day /\ s[n].request[3] = q
    BY <1>1, <2>1, <2>2
  <2>4. q < q
    BY <2>1, <2>2, <2>3
  <2>5. q \in Nat
    BY PriorGrows
  <2> QED  BY <2>4, <2>5
<1>2. ASSUME NEW j \in DOMAIN new, NEW k \in DOMAIN new, j # k
      PROVE  new[j].request # new[k].request
  BY <1>2 DEF FromRows
<1> QED  BY <1>1, <1>2

\* Posting in turn payments that nothing answers yet appends them all.
LEMMA AfterAll ==
  ASSUME NEW s \in Seq(Payment), NEW new \in Seq(Payment),
         \A k \in DOMAIN new : \A n \in DOMAIN s : s[n].request # new[k].request,
         \A j, k \in DOMAIN new : j # k => new[j].request # new[k].request
  PROVE  L!After(s, new) = s \o new
<1> DEFINE posted == {k \in DOMAIN new : ~ L!Served(s \o SubSeq(new, 1, k - 1), new[k])}
<1>1. DOMAIN new = 1..Len(new) /\ Len(new) \in Nat
  BY PaymentDomain
<1>2. ASSUME NEW k \in DOMAIN new PROVE ~ L!Served(s \o SubSeq(new, 1, k - 1), new[k])
  <2> DEFINE before == SubSeq(new, 1, k - 1)
             t == s \o before
  <2>1. /\ before \in Seq(Payment) /\ DOMAIN before = 1..(k - 1)
        /\ \A i \in 1..(k - 1) : before[i] = new[i]
    BY <1>1
  <2> HIDE DEF before
  <2>2. /\ \A n \in DOMAIN s : t[n] = s[n]
        /\ \A n \in DOMAIN t \ DOMAIN s : n - Len(s) \in DOMAIN before /\ t[n] = before[n - Len(s)]
    BY <2>1, PaymentsAppended
  <2> HIDE DEF t
  <2>3. \A n \in DOMAIN t \ DOMAIN s : \E i \in DOMAIN new : i # k /\ t[n] = new[i]
    BY <1>1, <2>1, <2>2
  <2>4. \A n \in DOMAIN t : t[n].request # new[k].request
    BY <2>2, <2>3
  <2>5. ~ L!Served(t, new[k])
    BY <2>4 DEF L!Served
  <2> QED  BY <2>5 DEF t, before
<1>3. posted = 1..Len(new)
  BY <1>1, <1>2
<1>4. L!Sorted(new, 1..Len(new), [k \in 1..Len(new) |-> k]) = [k \in 1..Len(new) |-> new[k]]
  <2> DEFINE key == [k \in 1..Len(new) |-> k]
  <2>1. \A i \in 1..Len(new) : key[i] = i
    OBVIOUS
  <2> HIDE DEF key
  <2>2. L!Sorted(new, 1..Len(new), key) = [k \in 1..Len(new) |-> new[k]]
    BY <1>1, <2>1, SortedAll
  <2> QED  BY <2>2 DEF key
<1>5. new = [k \in 1..Len(new) |-> new[k]]
  BY <1>1
<1>6. L!After(s, new) = s \o L!Sorted(new, posted, [k \in posted |-> k])
  BY DEF L!After
<1> QED  BY <1>3, <1>4, <1>5, <1>6

-----------------------------------------------------------------------------
(* The rows of a schedule, by day *)

LEMMA LoanCardinality == \A S : L!Cardinality(S) = Cardinality(S)
  BY Zenon DEF L!Cardinality, Cardinality

DayPlace(rs, P, k) == SortedAt(P, [i \in P |-> rs[i].day], k)

LEMMA ByDayIs ==
  ASSUME NEW rs, NEW P, IsFiniteSet(P), \A i \in P : rs[i].day \in Int,
         \A i, j \in P : i # j => rs[i].day # rs[j].day,
         NEW kept, kept = L!ByDay(rs, P), NEW N, N = Cardinality(P)
  PROVE  /\ N \in Nat /\ DOMAIN kept = 1..N
         /\ kept = [k \in 1..N |-> kept[k]]
         /\ \A k \in 1..N : DayPlace(rs, P, k) \in P /\ kept[k] = rs[DayPlace(rs, P, k)]
         /\ \A i \in P : \E k \in 1..N : i = DayPlace(rs, P, k)
         /\ \A j, k \in 1..N : DayPlace(rs, P, j) = DayPlace(rs, P, k) => j = k
         /\ \A j, k \in 1..N : j < k => kept[j].day < kept[k].day
<1> DEFINE key == [i \in P |-> rs[i].day]
<1>1. /\ \A i \in P : key[i] = rs[i].day /\ key[i] \in Int
      /\ \A i, j \in P : key[i] = key[j] => i = j
  OBVIOUS
<1>2. /\ kept = L!Sorted(rs, P, key) /\ kept = [k \in DOMAIN kept |-> kept[k]]
      /\ \A k : DayPlace(rs, P, k) = SortedAt(P, key, k)
  BY DEF L!ByDay, L!Sorted, DayPlace
<1>3. N \in Nat
  BY FS_CardinalityType
<1> HIDE DEF key
<1>4. DOMAIN kept = 1..N /\ \A k \in 1..N : kept[k] = rs[DayPlace(rs, P, k)]
  BY <1>2, SortedIs
<1>5. /\ \A k \in 1..N : DayPlace(rs, P, k) \in P
      /\ \A i \in P : \E k \in 1..N : i = DayPlace(rs, P, k)
      /\ \A j, k \in 1..N : j < k => key[DayPlace(rs, P, j)] < key[DayPlace(rs, P, k)]
  BY <1>1, <1>2, SortedPlaces
<1>6. \A j, k \in 1..N : j < k => kept[j].day < kept[k].day
  BY <1>1, <1>4, <1>5
<1>7. \A j, k \in 1..N : DayPlace(rs, P, j) = DayPlace(rs, P, k) => j = k
  <2> SUFFICES ASSUME NEW j \in 1..N, NEW k \in 1..N,
                      DayPlace(rs, P, j) = DayPlace(rs, P, k), j < k \/ k < j
               PROVE  FALSE
    BY <1>3
  <2>1. key[DayPlace(rs, P, j)] = key[DayPlace(rs, P, k)] /\ key[DayPlace(rs, P, j)] \in Int
    BY <1>1, <1>5
  <2> QED  BY <1>5, <2>1
<1> QED  BY <1>2, <1>3, <1>4, <1>5, <1>6, <1>7

\* Rows that can be read, each with a day and a date of the schedule of its own.
Readable(rs, P) ==
  /\ IsFiniteSet(P)
  /\ \A i \in P : /\ rs[i].day \in Int /\ rs[i].principal \in Nat
                  /\ rs[i].due \in LoanDues /\ rs[i].due # ManualDue
  /\ \A i, j \in P : i # j => rs[i].due # rs[j].due /\ rs[i].day # rs[j].day

LEMMA ReadableIs ==
  ASSUME NEW rs, NEW P, Readable(rs, P), NEW kept, kept = L!ByDay(rs, P)
  PROVE  /\ Cardinality(P) \in Nat /\ DOMAIN kept = 1..Cardinality(P)
         /\ \A k \in DOMAIN kept : DayPlace(rs, P, k) \in P /\ kept[k] = rs[DayPlace(rs, P, k)]
         /\ \A i \in P : \E k \in DOMAIN kept : i = DayPlace(rs, P, k)
         /\ \A j, k \in DOMAIN kept : j < k => kept[j].day < kept[k].day
<1> DEFINE N == Cardinality(P)
<1>1. /\ IsFiniteSet(P) /\ \A i \in P : rs[i].day \in Int
      /\ \A i, j \in P : i # j => rs[i].day # rs[j].day
      /\ N = Cardinality(P)
  BY DEF Readable
<1> HIDE DEF N
<1>2. /\ N \in Nat /\ DOMAIN kept = 1..N
      /\ \A k \in 1..N : DayPlace(rs, P, k) \in P /\ kept[k] = rs[DayPlace(rs, P, k)]
      /\ \A i \in P : \E k \in 1..N : i = DayPlace(rs, P, k)
      /\ \A j, k \in 1..N : j < k => kept[j].day < kept[k].day
  BY <1>1, ByDayIs
<1> QED  BY <1>1, <1>2

LEMMA ReadableByDay ==
  ASSUME NEW rs, NEW P, Readable(rs, P), NEW kept, kept = L!ByDay(rs, P)
  PROVE  Readable(kept, DOMAIN kept)
<1> DEFINE N == Cardinality(P)
           at(k) == DayPlace(rs, P, k)
<1>1. /\ N \in Nat /\ DOMAIN kept = 1..N
      /\ \A k \in 1..N : at(k) \in P /\ kept[k] = rs[at(k)]
      /\ \A j, k \in 1..N : at(j) = at(k) => j = k
  BY ByDayIs DEF Readable
<1>2. IsFiniteSet(1..N)
  BY <1>1, FS_Interval
<1> HIDE DEF N, at
<1> QED  BY <1>1, <1>2 DEF Readable

\* The rows an import prepares.
ToPost(rs, y) == {i \in DOMAIN rs : /\ L!InExercise(rs[i], y) /\ rs[i].day <= loanToday
                                    /\ L!Known(rs[i]) = {}}

LEMMA PreparedIs ==
  ASSUME NEW rs, NEW y, Readable(rs, ToPost(rs, y)), payments \in Seq(Payment),
         NEW new, new = L!Prepared(rs, y),
         NEW kept, kept = L!ByDay(rs, ToPost(rs, y))
  PROVE  /\ FromRows(payments, new)
         /\ DOMAIN new = DOMAIN kept
         /\ \A k \in DOMAIN new : /\ new[k].due = kept[k].due /\ new[k].day = kept[k].day
                                  /\ new[k].principal = kept[k].principal
<1> DEFINE P == ToPost(rs, y)
           N == Cardinality(P)
           at(k) == DayPlace(rs, P, k)
           op(k) == [request |-> L!Request(kept[k]), due |-> kept[k].due,
                     day |-> kept[k].day, principal |-> kept[k].principal,
                     reversed |-> FALSE]
<1>1. new = [k \in DOMAIN kept |-> op(k)]
  BY DEF L!Prepared, ToPost
<1>2. /\ N \in Nat /\ DOMAIN kept = 1..N
      /\ \A k \in 1..N : at(k) \in P /\ kept[k] = rs[at(k)]
  BY ByDayIs DEF Readable
<1>3. \A k \in 1..N : L!Known(kept[k]) = {}
  BY <1>2 DEF ToPost
<1>4. Readable(kept, 1..N)
  BY <1>2, ReadableByDay
<1> HIDE DEF P, N, at
<1>5. \A k \in 1..N : L!Request(kept[k])
        = <<kept[k].due, kept[k].day, Cardinality(PriorIn(payments, kept[k].due, kept[k].day))>>
  <2> TAKE k \in 1..N
  <2>1. L!Prior(kept[k]) = PriorIn(payments, kept[k].due, kept[k].day)
    BY DEF L!Prior, PriorIn
  <2> QED  BY <2>1, LoanCardinality DEF L!Request, L!Revision
<1>6. \A k \in 1..N : L!Request(kept[k]) \in LoanDues \X Int \X Nat
  <2> TAKE k \in 1..N
  <2>1. Cardinality(PriorIn(payments, kept[k].due, kept[k].day)) \in Nat
    BY PriorGrows
  <2> QED  BY <1>4, <1>5, <2>1 DEF Readable
<1>7. \A k \in 1..N : \A n \in DOMAIN payments : ~ payments[n].reversed =>
        payments[n].due # kept[k].due /\ payments[n].day # kept[k].day
  <2> SUFFICES ASSUME NEW k \in 1..N, NEW n \in DOMAIN payments, ~ payments[n].reversed,
                      payments[n].due = kept[k].due \/ payments[n].day = kept[k].day
               PROVE  FALSE
    OBVIOUS
  <2>1. n \in L!Known(kept[k])
    BY DEF L!Known, L!Prior, L!Active
  <2> QED  BY <1>3, <2>1
<1> HIDE DEF op
<1>8. \A k \in 1..N :
        /\ op(k) \in Payment
        /\ op(k).due = kept[k].due /\ op(k).day = kept[k].day
        /\ op(k).principal = kept[k].principal /\ op(k).request = L!Request(kept[k])
        /\ ~ op(k).reversed
  <2> TAKE k \in 1..N
  <2>1. /\ L!Request(kept[k]) \in LoanDues \X Int \X Nat
        /\ kept[k].due \in LoanDues /\ kept[k].day \in Int /\ kept[k].principal \in Nat
    BY <1>4, <1>6 DEF Readable
  <2> QED  BY <2>1 DEF op, Payment
<1>9. new \in Seq(Payment)
  <2>1. new \in [1..N -> Payment]
    BY <1>1, <1>2, <1>8
  <2> QED  BY <1>2, <2>1
<1>10. DOMAIN new = 1..N /\ \A k \in 1..N : new[k] = op(k)
  BY <1>1, <1>2
<1>11. \A j, k \in DOMAIN new : j # k => new[j].due # new[k].due /\ new[j].day # new[k].day
  BY <1>4, <1>8, <1>10 DEF Readable
<1>12. \A k \in DOMAIN new :
         /\ new[k].due # ManualDue /\ ~ new[k].reversed
         /\ new[k].request = <<new[k].due, new[k].day,
                               Cardinality(PriorIn(payments, new[k].due, new[k].day))>>
  BY <1>4, <1>5, <1>8, <1>10 DEF Readable
<1>13. \A k \in DOMAIN new : \A n \in DOMAIN payments : ~ payments[n].reversed =>
         payments[n].due # new[k].due /\ payments[n].day # new[k].day
  BY <1>7, <1>8, <1>10
<1> QED  BY <1>2, <1>8, <1>9, <1>10, <1>11, <1>12, <1>13 DEF FromRows

LEMMA ScheduleRows ==
  ASSUME NEW rows \in Schedules
  PROVE  /\ IsFiniteSet(DOMAIN rows)
         /\ \A i \in DOMAIN rows : L!Legible(rows[i]) =>
              /\ rows[i].day \in Int /\ rows[i].principal \in Nat
              /\ rows[i].due \in LoanDues /\ rows[i].due # ManualDue
<1>1. rows \in Seq(L!Range(rows))
  BY SchedulesAssumption DEF L!LoanImportsAssumption
<1>2. IsFiniteSet(1..Len(rows))
  BY <1>1, FS_Interval
<1>3. \A i \in DOMAIN rows : rows[i].due \in LoanDues
  BY DEF LoanDues, L!Range
<1> QED  BY <1>1, <1>2, <1>3, SchedulesAssumption DEF L!LoanImportsAssumption

LEMMA SomeReadable ==
  ASSUME NEW rows \in Schedules, NEW P \in SUBSET DOMAIN rows,
         \A i \in P : L!Legible(rows[i]) /\ ~ L!Repeats(rows, i)
  PROVE  Readable(rows, P)
<1>1. IsFiniteSet(P)
  BY ScheduleRows, FS_Subset
<1>2. \A i, j \in P : i # j => rows[i].due # rows[j].due /\ rows[i].day # rows[j].day
  BY DEF L!Repeats
<1> QED  BY <1>1, <1>2, ScheduleRows DEF Readable

\* The rows a commit keeps of a file, and what it posts of them: all.
LEMMA ValidRows ==
  ASSUME NEW rows \in Schedules, NEW y, NEW kept, kept = L!ByDay(rows, L!Importable(rows, y))
  PROVE  /\ Readable(rows, L!Importable(rows, y)) /\ Readable(kept, DOMAIN kept)
         /\ \A k \in DOMAIN kept : \E i \in L!Importable(rows, y) : kept[k] = rows[i]
         /\ ToPost(kept, y) = DOMAIN kept
<1> DEFINE P == L!Importable(rows, y)
<1>1. \A i \in P : /\ i \in DOMAIN rows /\ L!Legible(rows[i]) /\ ~ L!Repeats(rows, i)
                   /\ L!InExercise(rows[i], y) /\ rows[i].day <= loanToday
                   /\ L!Known(rows[i]) = {}
  BY DEF L!Importable, L!Candidates
<1> HIDE DEF P
<1>2. Readable(rows, P)
  BY <1>1, SomeReadable
<1>3. Readable(kept, DOMAIN kept)
  BY <1>2, ReadableByDay DEF P
<1>4. \A k \in DOMAIN kept : \E i \in P : kept[k] = rows[i]
  BY <1>2, ByDayIs DEF P, Readable
<1> QED  BY <1>1, <1>2, <1>3, <1>4 DEF ToPost, P

-----------------------------------------------------------------------------
(* The steps of the loan *)

LEMMA PostKeeps ==
  ASSUME LoanInv, NEW new, FromRows(payments, new), L!Post(new)
  PROVE  LoanInv'
<1> DEFINE t == payments \o new
<1>1. payments' = t
  <2>1. payments \in Seq(Payment) /\ Requested(payments) /\ new \in Seq(Payment)
    BY DEF LoanInv, FromRows
  <2>2. /\ \A k \in DOMAIN new : \A n \in DOMAIN payments :
             payments[n].request # new[k].request
        /\ \A j, k \in DOMAIN new : j # k => new[j].request # new[k].request
    BY <2>1, RequestsUnused
  <2>3. L!After(payments, new) = t
    BY <2>1, <2>2, AfterAll
  <2> QED  BY <2>3 DEF L!Post
<1>2. t \in Seq(Payment) /\ Requested(t) /\ PaidOnce(t)
  BY RowsPosted DEF LoanInv
<1> QED  BY <1>1, <1>2 DEF LoanInv

LEMMA CommitFileKeeps ==
  ASSUME LoanInv, NEW rows \in Schedules, NEW y, L!CommitFile(rows, y)
  PROVE  LoanInv'
<1> DEFINE kept == L!ByDay(rows, L!Importable(rows, y))
<1>1. L!Post(L!Prepared(kept, y))
  BY DEF L!CommitFile
<1>2. Readable(kept, DOMAIN kept) /\ ToPost(kept, y) = DOMAIN kept
  BY ValidRows
<1> HIDE DEF kept
<1>3. FromRows(payments, L!Prepared(kept, y))
  BY <1>2, PreparedIs DEF LoanInv
<1> QED  BY <1>1, <1>3, PostKeeps

LEMMA ImportFileKeeps ==
  ASSUME LoanInv, NEW rows \in Schedules, NEW y, L!ImportFile(rows, y)
  PROVE  LoanInv'
<1>1. L!Post(L!Prepared(rows, y)) /\ L!Parsed(rows)
  BY DEF L!ImportFile
<1>2. Readable(rows, ToPost(rows, y))
  BY <1>1, SomeReadable DEF L!Parsed, L!Legible, ToPost
<1>3. FromRows(payments, L!Prepared(rows, y))
  BY <1>2, PreparedIs DEF LoanInv
<1> QED  BY <1>1, <1>3, PostKeeps

LEMMA PayLoanKeeps ==
  ASSUME LoanInv, NEW d \in PaymentDays, NEW principal \in 0..LoanPrincipal,
         L!PayLoan(d, principal)
  PROVE  LoanInv'
<1> DEFINE p == [request |-> <<ManualDue, d, Len(payments)>>, due |-> ManualDue,
                 day |-> d, principal |-> principal, reversed |-> FALSE]
           s == payments
           t == s \o <<p>>
<1>1. s \in Seq(Payment) /\ Requested(s) /\ PaidOnce(s)
  BY DEF LoanInv
<1>2. DOMAIN s = 1..Len(s) /\ Len(s) \in Nat
  BY <1>1, PaymentDomain
<1>3. d \in Int /\ principal \in Nat /\ ManualDue \in LoanDues
  BY SchedulesAssumption DEF L!LoanImportsAssumption, LoanDues
<1>4. p \in Payment /\ p.due = ManualDue /\ p.day = d
      /\ p.request = <<ManualDue, d, Len(s)>>
  BY <1>2, <1>3 DEF Payment
<1>5. L!Post(<<p>>)
  BY DEF L!PayLoan
<1> HIDE DEF p
<1>6. <<p>> \in Seq(Payment) /\ DOMAIN <<p>> = {1} /\ <<p>>[1] = p
  BY <1>4
<1>7. \A n \in DOMAIN s : s[n].request # p.request
  <2> SUFFICES ASSUME NEW n \in DOMAIN s, s[n].request = p.request PROVE FALSE
    OBVIOUS
  <2>1. s[n].due = ManualDue /\ s[n].request[3] = Len(s)
    BY <1>1, <1>4 DEF Requested
  <2>2. s[n].request[3] < n
    BY <1>1, <2>1 DEF Requested
  <2> QED  BY <1>2, <2>1, <2>2
<1>8. L!After(s, <<p>>) = t
  BY <1>1, <1>6, <1>7, AfterAll
<1>9. payments' = t
  BY <1>5, <1>8 DEF L!Post
<1>10. /\ t \in Seq(Payment) /\ DOMAIN s \subseteq DOMAIN t
       /\ \A n \in DOMAIN s : t[n] = s[n]
       /\ \A n \in DOMAIN t \ DOMAIN s : n = Len(s) + 1 /\ t[n] = p
  <2>1. /\ t \in Seq(Payment) /\ DOMAIN s \subseteq DOMAIN t
        /\ \A n \in DOMAIN s : t[n] = s[n]
        /\ \A n \in DOMAIN t \ DOMAIN s : n - Len(s) \in DOMAIN <<p>> /\ t[n] = <<p>>[n - Len(s)]
    BY <1>1, <1>6, PaymentsAppended
  <2>2. \A n \in DOMAIN t : n \in Int
    BY <2>1, PaymentDomain
  <2> QED  BY <1>2, <1>6, <2>1, <2>2
<1> HIDE DEF t
<1>11. Requested(t)
  <2> SUFFICES ASSUME NEW n \in DOMAIN t
               PROVE  /\ t[n].request[1] = t[n].due /\ t[n].request[2] = t[n].day
                      /\ t[n].due = ManualDue => t[n].request[3] < n
                      /\ t[n].due # ManualDue =>
                           t[n].request[3] < Cardinality(PriorIn(t, t[n].due, t[n].day))
    BY DEF Requested
  <2>1. CASE n \notin DOMAIN s
    BY <1>2, <1>4, <1>10, <2>1
  <2>2. CASE n \in DOMAIN s
    <3> DEFINE c == Cardinality(PriorIn(s, t[n].due, t[n].day))
               q == Cardinality(PriorIn(t, t[n].due, t[n].day))
    <3>1. c \in Nat /\ c <= q
      BY <1>1, <1>10, PriorGrows
    <3>2. q \in Nat
      BY <1>10, PriorGrows
    <3>3. t[n] = s[n] /\ s[n].request[3] \in Nat
      BY <1>1, <1>10, <2>2, PaymentDomain, PaymentRequest
    <3>4. /\ s[n].request[1] = s[n].due /\ s[n].request[2] = s[n].day
          /\ s[n].due = ManualDue => s[n].request[3] < n
          /\ s[n].due # ManualDue => s[n].request[3] < c
      BY <1>1, <2>2, <3>3 DEF Requested
    <3> HIDE DEF c
    <3> QED  BY <3>1, <3>2, <3>3, <3>4
  <2> QED  BY <2>1, <2>2
<1>12. PaidOnce(t)
  <2> SUFFICES ASSUME NEW n \in DOMAIN t, NEW k \in DOMAIN t, n # k,
                      ~ t[n].reversed, ~ t[k].reversed,
                      t[n].due # ManualDue, t[k].due # ManualDue
               PROVE  t[n].due # t[k].due /\ t[n].day # t[k].day
    BY DEF PaidOnce
  <2>1. \A j \in DOMAIN t : t[j].due # ManualDue => j \in DOMAIN s /\ t[j] = s[j]
    BY <1>4, <1>10
  <2> QED  BY <1>1, <2>1 DEF PaidOnce
<1> QED  BY <1>9, <1>10, <1>11, <1>12 DEF LoanInv

LEMMA CancelPaymentKeeps ==
  ASSUME LoanInv, NEW m \in DOMAIN payments, L!CancelPayment(m)
  PROVE  LoanInv'
<1> DEFINE s == payments
           t == payments'
<1>1. t = [s EXCEPT ![m].reversed = TRUE]
  BY DEF L!CancelPayment
<1>2. s \in Seq(Payment) /\ Requested(s) /\ PaidOnce(s)
  BY DEF LoanInv
<1>3. \A n \in DOMAIN s : s[n] \in Payment
  BY <1>2, PaymentDomain
<1>4. DOMAIN t = DOMAIN s /\ \A n \in DOMAIN s :
        t[n] = IF n = m THEN [s[n] EXCEPT !.reversed = TRUE] ELSE s[n]
  BY <1>1, <1>2
<1>5. \A n \in DOMAIN s :
        /\ t[n] \in Payment
        /\ t[n].request = s[n].request /\ t[n].due = s[n].due /\ t[n].day = s[n].day
        /\ ~ t[n].reversed => ~ s[n].reversed
  <2> TAKE n \in DOMAIN s
  <2> DEFINE r == s[n]
             u == [r EXCEPT !.reversed = TRUE]
  <2>1. r \in Payment
    BY <1>3
  <2>2. t[n] = u \/ t[n] = r
    BY <1>4
  <2> HIDE DEF r
  <2>3. /\ u \in Payment /\ u.reversed
        /\ u.request = r.request /\ u.due = r.due /\ u.day = r.day
    BY <2>1 DEF Payment
  <2> HIDE DEF u
  <2>4. /\ t[n] \in Payment
        /\ t[n].request = r.request /\ t[n].due = r.due /\ t[n].day = r.day
        /\ ~ t[n].reversed => ~ r.reversed
    BY <2>1, <2>2, <2>3
  <2> QED  BY <2>4 DEF r
<1>6. t \in Seq(Payment)
  <2>1. DOMAIN s = 1..Len(s) /\ Len(s) \in Nat
    BY <1>2, PaymentDomain
  <2>2. t = [n \in DOMAIN t |-> t[n]]
    BY <1>1
  <2> HIDE DEF s, t
  <2>3. t \in [1..Len(s) -> Payment]
    BY <1>4, <1>5, <2>1, <2>2
  <2> QED  BY <2>1, <2>3
<1> HIDE DEF s, t
<1>7. \A due, day : PriorIn(t, due, day) = PriorIn(s, due, day)
  BY <1>4, <1>5 DEF PriorIn
<1>8. Requested(t)
  BY <1>2, <1>4, <1>5, <1>7 DEF Requested
<1>9. PaidOnce(t)
  BY <1>2, <1>4, <1>5 DEF PaidOnce
<1> QED  BY <1>6, <1>8, <1>9 DEF LoanInv, t

LEMMA LoanStep == LoanInv /\ L!Next => LoanInv'
<1> SUFFICES ASSUME LoanInv, L!Next PROVE LoanInv'
  OBVIOUS
<1>1. ASSUME NEW rows \in Schedules, NEW y \in L!Exercises,
             L!CommitFile(rows, y) \/ L!ImportFile(rows, y)
      PROVE  LoanInv'
  BY <1>1, CommitFileKeeps, ImportFileKeeps
<1>2. ASSUME NEW d \in PaymentDays, NEW principal \in 0..LoanPrincipal, L!PayLoan(d, principal)
      PROVE  LoanInv'
  BY <1>2, PayLoanKeeps
<1>3. ASSUME NEW n \in DOMAIN payments, L!CancelPayment(n) PROVE LoanInv'
  BY <1>3, CancelPaymentKeeps
<1>4. ASSUME NEW y \in L!Exercises, L!Switch(y) PROVE LoanInv'
  BY <1>4 DEF L!Switch, LoanInv
<1>5. CASE L!Tick
  BY <1>5 DEF L!Tick, LoanInv
<1> QED  BY <1>1, <1>2, <1>3, <1>4, <1>5 DEF L!Next

LoanInvScene == scene = "loans" => LoanInv

LEMMA LoansAlways == MCSpec => []LoanInvScene
<1>1. MCInit => LoanInvScene
  BY DEF MCInit, LoanInvScene, L!Init, LoanInv, Requested, PaidOnce
<1>2. LoanInvScene /\ [MCNext]_<<settlementVars, importVars, loanVars, rentVars, scene>>
        => LoanInvScene'
  <2> SUFFICES ASSUME LoanInvScene,
                      [MCNext]_<<settlementVars, importVars, loanVars, rentVars, scene>>,
                      scene' = "loans"
               PROVE  LoanInv'
    BY DEF LoanInvScene
  <2>1. CASE scene = "loans" /\ L!Next
    BY <2>1, LoanStep DEF LoanInvScene
  <2>2. CASE UNCHANGED <<loanVars, scene>>
    BY <2>2 DEF LoanInvScene, LoanInv, loanVars
  <2> QED  BY <2>1, <2>2 DEF MCNext, loanVars
<1> QED  BY <1>1, <1>2, PTL DEF MCSpec

\* A row of a schedule is paid once, and two rows are never paid on one day.
THEOREM RowPaidOnceHolds == MCSpec => []RowPaidOnce
<1>1. LoanInvScene => RowPaidOnce
  BY DEF LoanInvScene, LoanInv, PaidOnce, RowPaidOnce, L!RowPaidOnce, L!Active
<1> QED  BY <1>1, LoansAlways, PTL

\* No request of an import was used before: every valid row gets a payment of its own.
THEOREM RowsGetTheirPaymentHolds == MCSpec => []RowsGetTheirPayment
<1>1. LoanInvScene => RowsGetTheirPayment
  <2> SUFFICES ASSUME LoanInv, NEW rows \in Schedules, NEW y,
                      NEW new, new = L!Prepared(L!ByDay(rows, L!Importable(rows, y)), y)
               PROVE  L!After(payments, new) = payments \o new
    BY DEF LoanInvScene, RowsGetTheirPayment, L!RowsGetTheirPayment
  <2> DEFINE kept == L!ByDay(rows, L!Importable(rows, y))
  <2>1. Readable(kept, DOMAIN kept) /\ ToPost(kept, y) = DOMAIN kept
    BY ValidRows
  <2>2. new = L!Prepared(kept, y)
    OBVIOUS
  <2> HIDE DEF kept
  <2>3. FromRows(payments, new)
    BY <2>1, <2>2, PreparedIs DEF LoanInv
  <2>4. payments \in Seq(Payment) /\ Requested(payments) /\ new \in Seq(Payment)
    BY <2>3 DEF LoanInv, FromRows
  <2>5. /\ \A k \in DOMAIN new : \A n \in DOMAIN payments : payments[n].request # new[k].request
        /\ \A j, k \in DOMAIN new : j # k => new[j].request # new[k].request
    BY <2>3, <2>4, RequestsUnused
  <2> QED  BY <2>4, <2>5, AfterAll
<1> QED  BY <1>1, LoansAlways, PTL

-----------------------------------------------------------------------------
(* The valid rows of a file are posted *)

LEMMA LoanSum == \A f, S : L!SumFunctionOnSet(f, S) = SumFunctionOnSet(f, S)
  BY Zenon DEF L!SumFunctionOnSet, L!FoldFunctionOnSet, L!MapThenFoldSet,
     SumFunctionOnSet, FoldFunctionOnSet, MapThenFoldSet

\* A finite set of days has a last one.
LEMMA MaximumIs ==
  ASSUME NEW S, IsFiniteSet(S), S # {}, \A x \in S : x \in Int
  PROVE  L!Max(S) \in S /\ \A x \in S : x <= L!Max(S)
<1> DEFINE key == [i \in S |-> i]
           before == [i \in S |-> {j \in S : j <= i}]
           rank == [i \in S |-> Cardinality(before[i])]
           N == Cardinality(S)
<1>1. /\ \A i \in S : key[i] = i
      /\ \A i \in S : \A j : j \in before[i] <=> j \in S /\ key[j] <= key[i]
      /\ \A i \in S : rank[i] = Cardinality(before[i])
  OBVIOUS
<1>2. N \in Nat /\ N # 0
  BY FS_CardinalityType, FS_EmptySet
<1> HIDE DEF key, before, rank, N
<1>3. \A k \in 1..N : \E i \in S : rank[i] = k
  BY <1>1, Ranks DEF N
<1>4. PICK m \in S : rank[m] = N
  BY <1>2, <1>3
<1>5. before[m] \subseteq S
  BY <1>1
<1>6. Cardinality(before[m]) = Cardinality(S)
  BY <1>1, <1>4 DEF N
<1>7. before[m] = S
  BY <1>5, <1>6, FS_Subset
<1>8. \A y \in S : m >= y
  BY <1>1, <1>7
<1>9. L!Max(S) \in S /\ \A y \in S : L!Max(S) >= y
  BY <1>8 DEF L!Max
<1> QED  BY <1>9

Moving(ps) == {n \in DOMAIN ps : ~ ps[n].reversed /\ ps[n].principal > 0}

LEMMA LatestIs ==
  ASSUME NEW ps \in Seq(Payment)
  PROVE  /\ L!Latest(ps) \in Int /\ FundedOn <= L!Latest(ps)
         /\ \A n \in Moving(ps) : ps[n].day <= L!Latest(ps)
         /\ L!Latest(ps) = FundedOn \/ \E n \in Moving(ps) : L!Latest(ps) = ps[n].day
<1> DEFINE D == {ps[n].day : n \in Moving(ps)}
           S == {FundedOn} \cup D
<1>1. L!Latest(ps) = L!Max(S)
  BY DEF L!Latest, Moving
<1>2. FundedOn \in Int
  BY SchedulesAssumption DEF L!LoanImportsAssumption
<1>3. IsFiniteSet(Moving(ps)) /\ \A n \in Moving(ps) : ps[n].day \in Int
  BY PaymentDomain, FS_Subset DEF Moving, Payment
<1>4. IsFiniteSet(D)
  <2> DEFINE day == [n \in Moving(ps) |-> ps[n].day]
  <2>1. day \in Surjection(Moving(ps), D)
    BY DEF Surjection
  <2> QED  BY <1>3, <2>1, FS_Surjection
<1>5. IsFiniteSet(S)
  <2>1. IsFiniteSet(D \cup {FundedOn})
    <3> HIDE DEF D
    <3> QED  BY <1>4, FS_AddElement
  <2>2. S = D \cup {FundedOn}
    OBVIOUS
  <2> QED  BY <2>1, <2>2, Zenon
<1>6. \A x \in S : x \in Int
  BY <1>2, <1>3
<1>7. L!Max(S) \in S /\ \A x \in S : x <= L!Max(S)
  BY <1>5, <1>6, MaximumIs
<1> QED  BY <1>1, <1>2, <1>6, <1>7

LEMMA LatestAppended ==
  ASSUME NEW s \in Seq(Payment), NEW new \in Seq(Payment), NEW d \in Int,
         L!Latest(s) <= d, \A k \in DOMAIN new : new[k].day <= d
  PROVE  L!Latest(s \o new) <= d
<1> DEFINE t == s \o new
<1>1. /\ t \in Seq(Payment) /\ \A n \in DOMAIN s : t[n] = s[n]
      /\ \A n \in DOMAIN t \ DOMAIN s : n - Len(s) \in DOMAIN new /\ t[n] = new[n - Len(s)]
  BY PaymentsAppended
<1> HIDE DEF t
<1>2. \A n \in Moving(t) : t[n].day <= d
  <2> TAKE n \in Moving(t)
  <2>1. CASE n \in DOMAIN s
    <3>1. n \in Moving(s) /\ t[n] = s[n] /\ s[n] \in Payment
      BY <1>1, <2>1, PaymentDomain DEF Moving
    <3>2. s[n].day <= L!Latest(s) /\ s[n].day \in Int /\ L!Latest(s) \in Int
      BY <3>1, LatestIs DEF Payment
    <3> QED  BY <3>1, <3>2
  <2>2. CASE n \notin DOMAIN s
    BY <1>1, <2>2 DEF Moving
  <2> QED  BY <2>1, <2>2
<1>3. FundedOn <= d
  BY LatestIs, SchedulesAssumption DEF L!LoanImportsAssumption
<1>4. L!Latest(t) <= d
  BY <1>1, <1>2, <1>3, LatestIs
<1> QED  BY <1>4 DEF t

Principals(ps) == [n \in DOMAIN ps |-> ps[n].principal]

LEMMA BalanceIs ==
  ASSUME NEW ps \in Seq(Payment)
  PROVE  L!Balance(ps) =
           LoanPrincipal - SumFunctionOnSet(Principals(ps), {n \in DOMAIN ps : ~ ps[n].reversed})
  BY LoanSum DEF L!Balance, Principals

\* What is posted leaves the balance less its principal.
LEMMA BalanceAppended ==
  ASSUME NEW s \in Seq(Payment), NEW new \in Seq(Payment),
         \A k \in DOMAIN new : ~ new[k].reversed
  PROVE  /\ L!Balance(s) \in Int
         /\ SumFunctionOnSet(Principals(new), DOMAIN new) \in Nat
         /\ L!Balance(s \o new) = L!Balance(s) - SumFunctionOnSet(Principals(new), DOMAIN new)
<1> DEFINE t == s \o new
           Old == {n \in DOMAIN s : ~ s[n].reversed}
           h == [k \in DOMAIN new |-> Len(s) + k]
           Added == {h[k] : k \in DOMAIN new}
           f == Principals(t)
           g == Principals(new)
<1>1. /\ t \in Seq(Payment) /\ DOMAIN s \subseteq DOMAIN t
      /\ \A n \in DOMAIN s : t[n] = s[n]
      /\ \A n \in DOMAIN t \ DOMAIN s : n - Len(s) \in DOMAIN new /\ t[n] = new[n - Len(s)]
  BY PaymentsAppended
<1>2. /\ DOMAIN s = 1..Len(s) /\ Len(s) \in Nat /\ IsFiniteSet(DOMAIN s)
      /\ DOMAIN new = 1..Len(new) /\ Len(new) \in Nat /\ IsFiniteSet(DOMAIN new)
      /\ Len(t) = Len(s) + Len(new) /\ DOMAIN t = 1..Len(t)
  BY <1>1, PaymentDomain, ConcatProperties
<1>3. \A k \in DOMAIN new : /\ h[k] = Len(s) + k /\ h[k] \in DOMAIN t /\ h[k] \notin DOMAIN s
                            /\ h[k] - Len(s) = k
  BY <1>2
<1>4. \A k \in DOMAIN new : t[h[k]] = new[k]
  BY <1>1, <1>3
<1>5. \A n \in DOMAIN t \ DOMAIN s : n = h[n - Len(s)]
  BY <1>1, <1>2
<1> HIDE DEF t, h
<1>6. /\ \A n \in DOMAIN t : f[n] = t[n].principal /\ f[n] \in Nat
      /\ \A k \in DOMAIN new : g[k] = new[k].principal /\ g[k] \in Nat
      /\ \A n \in DOMAIN s : Principals(s)[n] = s[n].principal /\ Principals(s)[n] \in Nat
  BY <1>1, PaymentDomain DEF Principals, Payment
<1> HIDE DEF f, g
<1>7. \A k \in DOMAIN new : g[k] \in Int /\ g[k] = f[h[k]]
  <2> TAKE k \in DOMAIN new
  <2>1. f[h[k]] = t[h[k]].principal
    BY <1>3, <1>6
  <2>2. g[k] = new[k].principal /\ g[k] \in Nat
    BY <1>6
  <2> QED  BY <1>4, <2>1, <2>2
<1>8. \A j, k \in DOMAIN new : h[j] = h[k] => j = k
  BY <1>2, <1>3
<1>9. /\ IsFiniteSet(Added)
      /\ SumFunctionOnSet(g, DOMAIN new) = SumFunctionOnSet(f, Added)
  <2> DEFINE K == DOMAIN new
  <2>1. IsFiniteSet(K)
    BY <1>2
  <2>2. \A k \in K : g[k] \in Int /\ g[k] = f[h[k]]
    BY <1>7
  <2>3. \A j, k \in K : h[j] = h[k] => j = k
    BY <1>8
  <2>4. /\ \A k \in K : h[k] \in Added
        /\ \A n \in Added : \E k \in K : n = h[k]
    OBVIOUS
  <2> HIDE DEF K, Added, Old
  <2>5. Carries(K, g, f, h) /\ Onto(K, h, Added)
    BY <2>2, <2>3, <2>4 DEF Carries, Onto
  <2>6. IsFiniteSet(Added) /\ SumFunctionOnSet(g, K) = SumFunctionOnSet(f, Added)
    BY <2>1, <2>5, SumOnto
  <2> QED  BY <2>6 DEF K
<1>10. {n \in DOMAIN t : ~ t[n].reversed} = Old \cup Added
  BY <1>1, <1>3, <1>4, <1>5
<1>11. IsFiniteSet(Old) /\ Old \cap Added = {} /\ \A n \in Old \cup Added : f[n] \in Int
  BY <1>1, <1>2, <1>3, <1>6, FS_Subset
<1>12. SumFunctionOnSet(f, Old \cup Added)
         = SumFunctionOnSet(f, Old) + SumFunctionOnSet(f, Added)
  BY <1>9, <1>11, SumUnion
<1>13. SumFunctionOnSet(f, Old) = SumFunctionOnSet(Principals(s), Old)
  BY <1>1, <1>6, <1>11, SumSame
<1>14. SumFunctionOnSet(Principals(s), Old) \in Int
  BY <1>6, <1>11, SumInt
<1>15. SumFunctionOnSet(g, DOMAIN new) \in Nat
  BY <1>2, <1>6, SumNat
<1>16. /\ L!Balance(s) = LoanPrincipal - SumFunctionOnSet(Principals(s), Old)
       /\ L!Balance(t) = LoanPrincipal - SumFunctionOnSet(f, Old \cup Added)
  BY <1>1, <1>10, BalanceIs DEF f
<1>17. LoanPrincipal \in Int
  BY SchedulesAssumption DEF L!LoanImportsAssumption
<1> HIDE DEF Old, Added
<1>18. /\ L!Balance(s) \in Int
       /\ L!Balance(t) = L!Balance(s) - SumFunctionOnSet(g, DOMAIN new)
  BY <1>9, <1>12, <1>13, <1>14, <1>15, <1>16, <1>17
<1> QED  BY <1>15, <1>18 DEF t, g

\* The rows in their order have no other principal than those they are taken from.
LEMMA ByDaySum ==
  ASSUME NEW rs, NEW P, Readable(rs, P), NEW kept, kept = L!ByDay(rs, P),
         NEW f, \A i \in P : f[i] = rs[i].principal,
         NEW g, \A k \in DOMAIN kept : g[k] = kept[k].principal,
         NEW T \in SUBSET DOMAIN kept
  PROVE  /\ SumFunctionOnSet(g, T) \in Nat /\ SumFunctionOnSet(f, P) \in Nat
         /\ SumFunctionOnSet(g, T) <= SumFunctionOnSet(f, P)
<1> DEFINE N == Cardinality(P)
           h == [k \in T |-> DayPlace(rs, P, k)]
           Q == {h[k] : k \in T}
<1>1. /\ N \in Nat /\ DOMAIN kept = 1..N
      /\ \A k \in 1..N : DayPlace(rs, P, k) \in P /\ kept[k] = rs[DayPlace(rs, P, k)]
      /\ \A j, k \in 1..N : DayPlace(rs, P, j) = DayPlace(rs, P, k) => j = k
  BY ByDayIs DEF Readable
<1>2. IsFiniteSet(T)
  <2>1. IsFiniteSet(1..N)
    BY <1>1, FS_Interval
  <2> QED  BY <1>1, <2>1, FS_Subset
<1> HIDE DEF N
<1>3. \A k \in T : /\ k \in 1..N /\ h[k] = DayPlace(rs, P, k)
                   /\ h[k] \in P /\ kept[k] = rs[h[k]]
  BY <1>1
<1>4. \A j, k \in T : h[j] = h[k] => j = k
  BY <1>1, <1>3
<1> HIDE DEF h
<1>5. IsFiniteSet(P) /\ \A i \in P : f[i] \in Nat /\ f[i] \in Int
  BY DEF Readable
<1>6. \A k \in T : g[k] \in Int /\ g[k] = f[h[k]]
  BY <1>3, <1>5
<1>7. SumFunctionOnSet(g, T) = SumFunctionOnSet(f, Q)
  BY <1>2, <1>4, <1>6, SumReindex
<1>8. Q \in SUBSET P
  BY <1>3
<1> HIDE DEF Q
<1>9. SumFunctionOnSet(f, P) = SumFunctionOnSet(f, Q) + SumFunctionOnSet(f, P \ Q)
  BY <1>5, <1>8, SumSplit
<1>10. IsFiniteSet(Q) /\ IsFiniteSet(P \ Q)
  BY <1>5, <1>8, FS_Subset
<1>11. SumFunctionOnSet(f, Q) \in Nat /\ SumFunctionOnSet(f, P \ Q) \in Nat
  BY <1>5, <1>8, <1>10, SumNat
<1> QED  BY <1>7, <1>9, <1>11

\* The principal of the valid rows of a file stays within the balance.
LEMMA ValidWithin ==
  ASSUME NEW rows \in Schedules, NEW y, L!Importable(rows, y) # {},
         payments \in Seq(Payment)
  PROVE  /\ L!Balance(payments) > 0
         /\ SumFunctionOnSet([j \in DOMAIN rows |-> rows[j].principal], L!Importable(rows, y))
              <= L!Balance(payments)
<1> DEFINE P == L!Importable(rows, y)
           ordered == {i \in L!Candidates(rows, y) : L!Ordered(rows[i])}
           f == [j \in DOMAIN rows |-> rows[j].principal]
           N == Cardinality(P)
           kept == L!ByDay(rows, P)
           last == DayPlace(rows, P, N)
           Q == {j \in ordered : rows[j].day <= rows[last].day}
<1>1. P = {i \in ordered : L!Within(rows, ordered, i)}
  BY DEF L!Importable
<1>2. \A i \in ordered : i \in DOMAIN rows /\ L!Legible(rows[i])
  BY DEF L!Candidates
<1>3. Readable(rows, P)
  BY ValidRows
<1>4. /\ N \in Nat /\ \A k \in 1..N : DayPlace(rows, P, k) \in P
      /\ \A k \in 1..N : kept[k] = rows[DayPlace(rows, P, k)]
      /\ \A i \in P : \E k \in 1..N : i = DayPlace(rows, P, k)
      /\ \A j, k \in 1..N : j < k => kept[j].day < kept[k].day
  <2> HIDE DEF P
  <2>1. /\ N \in Nat /\ DOMAIN kept = 1..N
        /\ \A k \in DOMAIN kept : /\ DayPlace(rows, P, k) \in P
                                  /\ kept[k] = rows[DayPlace(rows, P, k)]
        /\ \A i \in P : \E k \in DOMAIN kept : i = DayPlace(rows, P, k)
        /\ \A j, k \in DOMAIN kept : j < k => kept[j].day < kept[k].day
    BY <1>3, ReadableIs
  <2> QED  BY <2>1
<1>5. N # 0
  BY <1>3, FS_EmptySet DEF Readable
<1>6. N \in 1..N /\ last \in P
  BY <1>4, <1>5
<1>7. L!Within(rows, ordered, last)
  BY <1>1, <1>6
<1>8. L!Balance(payments) > 0 /\ SumFunctionOnSet(f, Q) <= L!Balance(payments)
  BY <1>7, LoanSum DEF L!Within
<1>9. \A i \in P : i \in Q
  <2> TAKE i \in P
  <2>1. PICK k \in 1..N : i = DayPlace(rows, P, k)
    BY <1>4
  <2>2. k < N => rows[i].day < rows[last].day
    BY <1>4, <1>6, <2>1
  <2>3. rows[i].day \in Int /\ rows[last].day \in Int
    BY <1>3, <1>6 DEF Readable
  <2>4. k < N \/ i = last
    BY <1>4, <2>1
  <2>5. rows[i].day <= rows[last].day
    <3> HIDE DEF last
    <3> QED  BY <2>2, <2>3, <2>4
  <2> QED  BY <1>1, <2>5
<1>10. \A j \in Q : j \in DOMAIN rows /\ f[j] \in Nat
  BY <1>2, ScheduleRows
<1> HIDE DEF f, P, Q, ordered, last, N, kept
<1>11. IsFiniteSet(Q) /\ IsFiniteSet(Q \ P)
  BY <1>10, ScheduleRows, FS_Subset
<1>12. SumFunctionOnSet(f, Q) = SumFunctionOnSet(f, P) + SumFunctionOnSet(f, Q \ P)
  <2>1. P \in SUBSET Q
    BY <1>9
  <2>2. \A j \in Q : f[j] \in Int
    BY <1>10
  <2> QED  BY <1>11, <2>1, <2>2, SumSplit
<1>13. SumFunctionOnSet(f, P) \in Nat /\ SumFunctionOnSet(f, Q \ P) \in Nat
  <2>1. IsFiniteSet(P) /\ \A j \in P : f[j] \in Nat
    BY <1>3, <1>9, <1>10 DEF Readable
  <2>2. \A j \in Q \ P : f[j] \in Nat
    BY <1>10
  <2> QED  BY <1>11, <2>1, <2>2, SumNat
<1>14. L!Balance(payments) \in Int
  <2>1. <<>> \in Seq(Payment) /\ \A k \in DOMAIN <<>> : ~ <<>>[k].reversed
    OBVIOUS
  <2> QED  BY <2>1, BalanceAppended
<1>15. SumFunctionOnSet(f, P) <= L!Balance(payments)
  BY <1>8, <1>12, <1>13, <1>14
<1> QED  BY <1>8, <1>15 DEF f, P

\* None of the checks that the import makes on the file as a whole refuses them.
LEMMA ValidAccepted ==
  ASSUME NEW rows \in Schedules, NEW y, loanYears[y], L!Importable(rows, y) # {},
         payments \in Seq(Payment),
         NEW kept, kept = L!ByDay(rows, L!Importable(rows, y))
  PROVE  L!Accepts(kept, y)
<1> DEFINE P == L!Importable(rows, y)
           f == [j \in DOMAIN rows |-> rows[j].principal]
           g == [j \in DOMAIN kept |-> kept[j].principal]
<1>1. /\ Readable(rows, P)
      /\ \A k \in DOMAIN kept : \E i \in P : kept[k] = rows[i]
      /\ ToPost(kept, y) = DOMAIN kept
  BY ValidRows
<1>2. \A i \in P : /\ L!InExercise(rows[i], y) /\ rows[i].day <= loanToday
                   /\ rows[i].day >= LoanStart /\ L!Known(rows[i]) = {}
                   /\ L!Ordered(rows[i])
  BY DEF L!Importable, L!Candidates
<1>3. L!Balance(payments) > 0 /\ SumFunctionOnSet(f, P) <= L!Balance(payments)
  BY ValidWithin
<1> HIDE DEF P
<1>4. \A k \in DOMAIN kept : /\ L!InExercise(kept[k], y) /\ kept[k].day <= loanToday
                             /\ kept[k].day >= LoanStart /\ L!Known(kept[k]) = {}
                             /\ L!Ordered(kept[k])
  BY <1>1, <1>2
<1>5. SumFunctionOnSet(g, DOMAIN kept) <= L!Balance(payments)
  <2>1. \A i \in P : f[i] = rows[i].principal
    BY DEF P, L!Importable, L!Candidates
  <2>2. \A k \in DOMAIN kept : g[k] = kept[k].principal
    OBVIOUS
  <2>3. kept = L!ByDay(rows, P)
    BY DEF P
  <2> HIDE DEF f, g
  <2>4. /\ SumFunctionOnSet(g, DOMAIN kept) \in Nat /\ SumFunctionOnSet(f, P) \in Nat
        /\ SumFunctionOnSet(g, DOMAIN kept) <= SumFunctionOnSet(f, P)
    BY <1>1, <2>1, <2>2, <2>3, ByDaySum
  <2>5. L!Balance(payments) \in Int
    <3>1. <<>> \in Seq(Payment) /\ \A k \in DOMAIN <<>> : ~ <<>>[k].reversed
      OBVIOUS
    <3> QED  BY <3>1, BalanceAppended
  <2> QED  BY <1>3, <2>4, <2>5
<1>6. \A k \in DOMAIN kept : ~ L!Conflicts(kept[k])
  BY <1>4 DEF L!Conflicts
<1>7. {i \in DOMAIN kept : L!InExercise(kept[i], y) /\ kept[i].day <= loanToday} = DOMAIN kept
  BY <1>4
<1>8. {i \in DOMAIN kept : L!Known(kept[i]) = {}} = DOMAIN kept
  BY <1>4
<1>9. L!SumFunctionOnSet(g, DOMAIN kept) <= L!Balance(payments)
  BY <1>5, LoanSum
<1> QED  BY <1>3, <1>4, <1>6, <1>7, <1>8, <1>9 DEF L!Accepts

\* A payment can be posted after others of the same file.
LEMMA PostableAfter ==
  ASSUME NEW s \in Seq(Payment), NEW before \in Seq(Payment), NEW p \in Payment,
         \A k \in DOMAIN before : ~ before[k].reversed /\ before[k].day <= p.day,
         p.day >= LoanStart,
         p.day >= L!Latest(s) \/ L!Replaces(s, p.due, p.day),
         p.principal > 0,
         SumFunctionOnSet(Principals(before), DOMAIN before) + p.principal <= L!Balance(s)
  PROVE  L!Postable(s \o before, p)
<1> DEFINE t == s \o before
           sum == SumFunctionOnSet(Principals(before), DOMAIN before)
<1>1. p.day \in Int /\ p.principal \in Nat
  BY DEF Payment
<1>2. /\ L!Balance(s) \in Int /\ sum \in Nat
      /\ L!Balance(t) = L!Balance(s) - sum
  BY BalanceAppended
<1>3. L!Balance(t) > 0 /\ p.principal <= L!Balance(t)
  <2>1. sum + p.principal <= L!Balance(s)
    OBVIOUS
  <2> HIDE DEF sum, t
  <2> QED  BY <1>1, <1>2, <2>1
<1>4. p.day >= L!Latest(t) \/ L!Replaces(t, p.due, p.day)
  <2>1. CASE p.day >= L!Latest(s)
    <3>1. L!Latest(s) <= p.day /\ L!Latest(t) \in Int
      BY <1>1, <2>1, LatestIs, PaymentsAppended
    <3>2. L!Latest(t) <= p.day
      BY <1>1, <3>1, LatestAppended
    <3> QED  BY <1>1, <3>1, <3>2
  <2>2. CASE L!Replaces(s, p.due, p.day)
    <3>1. DOMAIN s \subseteq DOMAIN t /\ \A n \in DOMAIN s : t[n] = s[n]
      BY PaymentsAppended
    <3> HIDE DEF t
    <3> QED  BY <2>2, <3>1 DEF L!Replaces
  <2> QED  BY <2>1, <2>2
<1> QED  BY <1>3, <1>4 DEF L!Postable

\* Neither do those that loan_post makes on each of them.
LEMMA ValidPosted ==
  ASSUME LoanInv, NEW rows \in Schedules, NEW y, L!Importable(rows, y) # {},
         \A i \in DOMAIN rows : rows[i].principal > 0,
         NEW kept, kept = L!ByDay(rows, L!Importable(rows, y)),
         NEW new, new = L!Prepared(kept, y)
  PROVE  L!AllPostable(payments, new)
<1> DEFINE P == L!Importable(rows, y)
           again == L!ByDay(kept, ToPost(kept, y))
           f == [j \in DOMAIN rows |-> rows[j].principal]
           g == Principals(kept)
           s == payments
<1>1. /\ Readable(rows, P) /\ Readable(kept, DOMAIN kept)
      /\ \A k \in DOMAIN kept : \E i \in P : kept[k] = rows[i]
      /\ ToPost(kept, y) = DOMAIN kept
  BY ValidRows
<1>2. s \in Seq(Payment) /\ Requested(s)
  BY DEF LoanInv
<1>3. /\ FromRows(s, new) /\ DOMAIN new = DOMAIN again
      /\ \A k \in DOMAIN new : /\ new[k].due = again[k].due /\ new[k].day = again[k].day
                               /\ new[k].principal = again[k].principal
  BY <1>1, <1>2, PreparedIs
<1>4. again = L!ByDay(kept, DOMAIN kept)
  BY <1>1
<1>5. /\ \A k \in DOMAIN again : \E i \in DOMAIN kept : again[k] = kept[i]
      /\ \A j, k \in DOMAIN again : j < k => again[j].day < again[k].day
  <2> DEFINE D == DOMAIN kept
  <2>1. Readable(kept, D) /\ again = L!ByDay(kept, D)
    BY <1>1, <1>4
  <2> HIDE DEF again, D
  <2>2. /\ \A k \in DOMAIN again : /\ DayPlace(kept, D, k) \in D
                                   /\ again[k] = kept[DayPlace(kept, D, k)]
        /\ \A j, k \in DOMAIN again : j < k => again[j].day < again[k].day
    BY <2>1, ReadableIs
  <2> QED  BY <2>2 DEF D
<1>6. \A i \in P : i \in DOMAIN rows /\ rows[i].day >= LoanStart /\ L!Ordered(rows[i])
  BY DEF L!Importable, L!Candidates
<1>7. SumFunctionOnSet(f, P) <= L!Balance(s)
  BY <1>2, ValidWithin
<1> HIDE DEF P, again
<1>8. \A k \in DOMAIN new : \E i \in P : again[k] = rows[i]
  BY <1>1, <1>3, <1>5
<1>9. \A k \in DOMAIN new : /\ new[k].day >= LoanStart /\ new[k].principal > 0
                            /\ \/ new[k].day >= L!Latest(s)
                               \/ L!Replaces(s, new[k].due, new[k].day)
  <2> TAKE k \in DOMAIN new
  <2>1. PICK i \in P : again[k] = rows[i]
    BY <1>8
  <2>2. rows[i].day >= LoanStart /\ rows[i].principal > 0 /\ L!Ordered(rows[i])
    BY <1>6
  <2> QED  BY <1>3, <2>1, <2>2 DEF L!Ordered
<1>10. new \in Seq(Payment) /\ \A k \in DOMAIN new : ~ new[k].reversed
  BY <1>3 DEF FromRows
<1>11. DOMAIN new = 1..Len(new) /\ Len(new) \in Nat /\ \A k \in DOMAIN new : new[k] \in Payment
  BY <1>10, PaymentDomain
<1>12. \A T \in SUBSET DOMAIN new : SumFunctionOnSet(Principals(new), T) <= L!Balance(s)
  <2> TAKE T \in SUBSET DOMAIN new
  <2> DEFINE c == Principals(new)
  <2>1. \A k \in DOMAIN again : c[k] = again[k].principal
    BY <1>3 DEF Principals
  <2>2. \A k \in DOMAIN kept : g[k] = kept[k].principal
    BY DEF Principals
  <2>3. \A i \in P : f[i] = rows[i].principal
    BY <1>6
  <2>4. kept = L!ByDay(rows, P)
    BY DEF P
  <2>5. T \in SUBSET DOMAIN again
    BY <1>3
  <2> HIDE DEF f, g, c
  <2>6. /\ SumFunctionOnSet(c, T) \in Nat
        /\ SumFunctionOnSet(c, T) <= SumFunctionOnSet(g, DOMAIN kept)
    BY <1>1, <1>4, <2>1, <2>2, <2>5, ByDaySum
  <2>7. /\ SumFunctionOnSet(g, DOMAIN kept) \in Nat /\ SumFunctionOnSet(f, P) \in Nat
        /\ SumFunctionOnSet(g, DOMAIN kept) <= SumFunctionOnSet(f, P)
    BY <1>1, <2>2, <2>3, <2>4, ByDaySum
  <2>8. L!Balance(s) \in Int
    <3>1. <<>> \in Seq(Payment) /\ \A k \in DOMAIN <<>> : ~ <<>>[k].reversed
      OBVIOUS
    <3> QED  BY <1>2, <3>1, BalanceAppended
  <2>9. SumFunctionOnSet(c, T) <= L!Balance(s)
    BY <1>7, <2>6, <2>7, <2>8
  <2> QED  BY <2>9 DEF c
<1>13. ASSUME NEW k \in DOMAIN new
       PROVE  LET before == L!After(s, SubSeq(new, 1, k - 1))
              IN L!Served(before, new[k]) \/ L!Postable(before, new[k])
  <2> DEFINE b == SubSeq(new, 1, k - 1)
  <2>1. b \in Seq(Payment) /\ DOMAIN b = 1..(k - 1) /\ \A j \in 1..(k - 1) : b[j] = new[j]
    BY <1>10, <1>11
  <2>2. \A j \in 1..(k - 1) : j \in DOMAIN new /\ j # k /\ j < k
    BY <1>11
  <2> HIDE DEF b
  <2>3. /\ \A j \in DOMAIN new : \A n \in DOMAIN s : s[n].request # new[j].request
        /\ \A i, j \in DOMAIN new : i # j => new[i].request # new[j].request
    BY <1>2, <1>3, RequestsUnused
  <2>4. L!After(s, b) = s \o b
    <3>1. /\ \A j \in DOMAIN b : \A n \in DOMAIN s : s[n].request # b[j].request
          /\ \A i, j \in DOMAIN b : i # j => b[i].request # b[j].request
      BY <2>1, <2>2, <2>3
    <3> QED  BY <1>2, <2>1, <3>1, AfterAll
  <2>5. \A j \in DOMAIN b : ~ b[j].reversed /\ b[j].day <= new[k].day
    <3> TAKE j \in DOMAIN b
    <3>1. b[j] = new[j] /\ j \in DOMAIN new /\ j < k
      BY <2>1, <2>2
    <3>2. again[j].day < again[k].day
      BY <1>3, <1>5, <3>1
    <3>3. new[j].day < new[k].day /\ new[j].day \in Int /\ new[k].day \in Int
      BY <1>3, <1>11, <3>1, <3>2 DEF Payment
    <3> QED  BY <1>10, <3>1, <3>3
  <2>6. SumFunctionOnSet(Principals(b), DOMAIN b) + new[k].principal <= L!Balance(s)
    <3> DEFINE c == Principals(new)
               e == Principals(b)
               T == 1..(k - 1)
    <3>1. /\ IsFiniteSet(T) /\ k \notin T /\ T \cup {k} \in SUBSET DOMAIN new
          /\ DOMAIN b = T
      <4>1. k \in Int /\ IsFiniteSet(T)
        BY <1>11, FS_Interval
      <4>2. k \notin T /\ T \cup {k} \in SUBSET DOMAIN new
        BY <1>11, <2>2, <4>1
      <4> QED  BY <2>1, <4>1, <4>2
    <3>2. /\ \A j \in DOMAIN new : c[j] = new[j].principal /\ c[j] \in Nat
          /\ \A j \in T : e[j] = c[j]
      BY <1>11, <2>1, <2>2 DEF Principals, Payment
    <3>3. SumFunctionOnSet(c, T \cup {k}) <= L!Balance(s)
      BY <1>12, <3>1
    <3> HIDE DEF c, e, T
    <3>4. SumFunctionOnSet(c, T \cup {k}) = c[k] + SumFunctionOnSet(c, T)
      BY <3>1, <3>2, SumAdd
    <3>5. SumFunctionOnSet(e, T) = SumFunctionOnSet(c, T)
      BY <3>1, <3>2, SumSame
    <3>6. SumFunctionOnSet(c, T) \in Nat /\ c[k] \in Nat /\ c[k] = new[k].principal
      BY <3>1, <3>2, SumNat
    <3>7. SumFunctionOnSet(e, T) + new[k].principal <= L!Balance(s)
      BY <3>3, <3>4, <3>5, <3>6
    <3> QED  BY <3>1, <3>7 DEF e
  <2>7. L!Postable(s \o b, new[k])
    <3> DEFINE p == new[k]
    <3>1. /\ p \in Payment /\ p.day >= LoanStart /\ p.principal > 0
          /\ p.day >= L!Latest(s) \/ L!Replaces(s, p.due, p.day)
      BY <1>9, <1>11
    <3> HIDE DEF p
    <3>2. /\ \A j \in DOMAIN b : ~ b[j].reversed /\ b[j].day <= p.day
          /\ SumFunctionOnSet(Principals(b), DOMAIN b) + p.principal <= L!Balance(s)
      BY <2>5, <2>6 DEF p
    <3>3. L!Postable(s \o b, p)
      BY <1>2, <2>1, <3>1, <3>2, PostableAfter
    <3> QED  BY <3>3 DEF p
  <2> QED  BY <2>4, <2>7 DEF b
<1> QED  BY <1>13, Zenon DEF L!AllPostable

\* What a preview calls valid, the import and loan_post take.
THEOREM ValidRowsPostHolds == MCSpec => []ValidRowsPost
<1>1. LoanInvScene => ValidRowsPost
  <2> SUFFICES ASSUME LoanInv, NEW rows \in L!Repaying, NEW y,
                      loanYears[y], L!Importable(rows, y) # {},
                      NEW kept, kept = L!ByDay(rows, L!Importable(rows, y))
               PROVE  L!Accepts(kept, y) /\ L!AllPostable(payments, L!Prepared(kept, y))
    BY DEF LoanInvScene, ValidRowsPost, L!ValidRowsPost
  <2>1. rows \in Schedules /\ \A i \in DOMAIN rows : rows[i].principal > 0
    BY DEF L!Repaying
  <2>2. payments \in Seq(Payment)
    BY DEF LoanInv
  <2>3. L!Accepts(kept, y)
    BY <2>1, <2>2, ValidAccepted
  <2>4. L!AllPostable(payments, L!Prepared(kept, y))
    BY <2>1, ValidPosted
  <2> QED  BY <2>3, <2>4
<1> QED  BY <1>1, LoansAlways, PTL
=============================================================================
