--------------------------- MODULE YearEndProofs -----------------------------
(***************************************************************************)
(* Theorems about the closing of the result, for any number of entries,    *)
(* confirmations and requests; about the fiscal engine on any input; and   *)
(* about depreciation, from the invariant of DepreciationProofs.           *)
(*                                                                         *)
(* What is said of the book is said of any sequence b of entries, and that *)
(* an entry appended to it keeps it so: the actions only append.           *)
(***************************************************************************)
EXTENDS MCYearEnd, SumFacts, SequenceTheorems

Sources == {"MANUAL", "REVERSAL"} \cup C!Kinds
Confirmation == [id : Requests \cup {"none"}, kind : C!Kinds \cup {"none"},
                 amount : Int, account : C!ResultAccounts \cup {"none"},
                 create : BOOLEAN]
Nets == [C!Accounts -> Int]
Entry == [source : Sources, net : Nets, of : Nat,
          parameters : Confirmation]

-----------------------------------------------------------------------------
(* A book *)

NetIn(b, S, a) == SumFunctionOnSet([n \in DOMAIN b |-> b[n].net[a]], S)
Balances(b) == [a \in C!Accounts |-> NetIn(b, DOMAIN b, a)]
LiveIn(b, source) == {n \in DOMAIN b :
  b[n].source = source /\ ~ \E k \in DOMAIN b : b[k].of = n}
OperatingIn(b) == {n \in DOMAIN b :
  /\ b[n].source # "CENTRALIZATION"
  /\ b[n].of # 0 => b[b[n].of].source # "CENTRALIZATION"}

\* What an entry leaves in the accounts followed here: the counterpart is cash.
Total(net) == net["615"] + net["706"] + net["120"] + net["129"] + net["101"]

Fits(b, e) ==
  /\ e.source # "REVERSAL" => e.of = 0
  /\ e.source = "MANUAL" => \A a \in C!Accounts \ C!PnL : e.net[a] = 0
  /\ e.source = "CENTRALIZATION" => Total(e.net) = 0 /\ e.net["101"] = 0
  /\ e.source = "APPROPRIATION" => Total(e.net) = 0 /\ \A a \in C!PnL : e.net[a] = 0
  /\ e.source = "REVERSAL" =>
       /\ e.of \in DOMAIN b /\ b[e.of].of = 0
       /\ \A a \in C!Accounts : e.net[a] = - b[e.of].net[a]

\* Every entry fits those before it.
WellFormed(b) == \A n \in DOMAIN b : Fits(b, b[n]) /\ b[n].of < n

\* The operations, and nothing else, move the accounts taken together.
Balanced(b) ==
  NetIn(b, OperatingIn(b), "615") + NetIn(b, OperatingIn(b), "706")
    = Total(Balances(b))

\* The equity account holds what the standing appropriations put there.
Appropriates(b) ==
  Balances(b)["101"] = NetIn(b, LiveIn(b, "APPROPRIATION"), "101")

Sound(b) == b \in Seq(Entry) /\ WellFormed(b) /\ Balanced(b) /\ Appropriates(b)

LEMMA NetsAre ==
  ASSUME NEW x \in Nets
  PROVE  /\ x["615"] \in Int /\ x["706"] \in Int /\ x["120"] \in Int
         /\ x["129"] \in Int /\ x["101"] \in Int
  BY DEF Nets, C!Accounts, C!PnL, C!ResultAccounts

LEMMA TotalAdds ==
  ASSUME NEW x \in Nets, NEW y \in Nets, NEW z,
         \A a \in C!Accounts : z[a] = x[a] + y[a]
  PROVE  Total(x) \in Int /\ Total(y) \in Int /\ Total(z) = Total(x) + Total(y)
<1>1. /\ z["615"] = x["615"] + y["615"] /\ z["706"] = x["706"] + y["706"]
      /\ z["120"] = x["120"] + y["120"] /\ z["129"] = x["129"] + y["129"]
      /\ z["101"] = x["101"] + y["101"]
  BY DEF C!Accounts, C!PnL, C!ResultAccounts
<1>2. \A p, q, r, s, t, u, v, w, m, n \in Int :
        (p + u) + (q + v) + (r + w) + (s + m) + (t + n)
          = (p + q + r + s + t) + (u + v + w + m + n)
  OBVIOUS
<1>3. Total(z) = Total(x) + Total(y)
  BY <1>1, <1>2, NetsAre DEF Total
<1> QED  BY <1>3, NetsAre DEF Total

LEMMA TotalOpposite ==
  ASSUME NEW x \in Nets, NEW z, \A a \in C!Accounts : z[a] = - x[a]
  PROVE  Total(z) = - Total(x)
<1>1. /\ z["615"] = - x["615"] /\ z["706"] = - x["706"] /\ z["120"] = - x["120"]
      /\ z["129"] = - x["129"] /\ z["101"] = - x["101"]
  BY DEF C!Accounts, C!PnL, C!ResultAccounts
<1>2. \A p, q, r, s, t \in Int : (-p) + (-q) + (-r) + (-s) + (-t) = - (p + q + r + s + t)
  OBVIOUS
<1> QED  BY <1>1, <1>2, NetsAre DEF Total

LEMMA BookDomain ==
  ASSUME NEW b \in Seq(Entry)
  PROVE  /\ DOMAIN b = 1..Len(b) /\ Len(b) \in Nat /\ IsFiniteSet(DOMAIN b)
         /\ \A n \in DOMAIN b : b[n] \in Entry
<1>1. IsFiniteSet(1..Len(b))
  BY FS_Interval
<1> QED  BY <1>1

LEMMA Appended ==
  ASSUME NEW b \in Seq(Entry), NEW e \in Entry
  PROVE  LET c == Append(b, e)
             N == Len(b) + 1
         IN  /\ c \in Seq(Entry)
             /\ DOMAIN b = 1..Len(b) /\ IsFiniteSet(DOMAIN b)
             /\ DOMAIN c = DOMAIN b \cup {N} /\ N \notin DOMAIN b
             /\ c[N] = e
             /\ \A n \in DOMAIN b : c[n] = b[n] /\ b[n] \in Entry
<1>1. IsFiniteSet(1..Len(b))
  BY FS_Interval
<1> QED  BY <1>1, AppendProperties

\* Balances are integers; they add up as entries are appended.
LEMMA NetInt ==
  ASSUME NEW b \in Seq(Entry), NEW S \in SUBSET DOMAIN b, NEW a \in C!Accounts
  PROVE  NetIn(b, S, a) \in Int
<1> DEFINE f == [n \in DOMAIN b |-> b[n].net[a]]
<1>1. IsFiniteSet(S)
  <2>1. IsFiniteSet(1..Len(b)) /\ DOMAIN b = 1..Len(b)
    BY FS_Interval
  <2> QED  BY <2>1, FS_Subset
<1>2. \A n \in S : f[n] \in Int
  <2> TAKE n \in S
  <2>1. b[n] \in Entry /\ f[n] = b[n].net[a]
    BY BookDomain
  <2> QED  BY <2>1 DEF Entry, Nets
<1> HIDE DEF f
<1>3. SumFunctionOnSet(f, S) \in Int
  BY <1>1, <1>2, SumInt
<1> QED  BY <1>3 DEF f, NetIn

LEMMA NetAppended ==
  ASSUME NEW b \in Seq(Entry), NEW e \in Entry, NEW S \in SUBSET DOMAIN b,
         NEW a \in C!Accounts
  PROVE  /\ NetIn(Append(b, e), S, a) = NetIn(b, S, a)
         /\ NetIn(Append(b, e), S \cup {Len(b) + 1}, a) = NetIn(b, S, a) + e.net[a]
<1> DEFINE c == Append(b, e)
           N == Len(b) + 1
           f == [n \in DOMAIN b |-> b[n].net[a]]
           g == [n \in DOMAIN c |-> c[n].net[a]]
<1>1. /\ DOMAIN c = DOMAIN b \cup {N} /\ N \notin DOMAIN b /\ c[N] = e
      /\ \A n \in DOMAIN b : c[n] = b[n] /\ b[n] \in Entry
      /\ IsFiniteSet(DOMAIN b)
  BY Appended
<1>2. IsFiniteSet(S)
  BY <1>1, FS_Subset
<1> HIDE DEF c, N
<1>3. (\A n \in S : f[n] = g[n]) /\ g[N] = e.net[a] /\ e.net[a] \in Int
  BY <1>1 DEF Entry, Nets
<1>4. \A n \in S \cup {N} : g[n] \in Int
  BY <1>1 DEF Entry, Nets
<1>5. NetIn(b, S, a) = SumFunctionOnSet(f, S)
  BY DEF NetIn
<1>6. \A T : NetIn(c, T, a) = SumFunctionOnSet(g, T)
  BY DEF NetIn
<1> HIDE DEF f, g
<1>7. SumFunctionOnSet(f, S) = SumFunctionOnSet(g, S)
  BY <1>2, <1>3, SumSame
<1>8. SumFunctionOnSet(g, S \cup {N}) = g[N] + SumFunctionOnSet(g, S)
  BY <1>1, <1>2, <1>4, SumAdd
<1>9. SumFunctionOnSet(g, S) \in Int
  BY <1>2, <1>4, SumInt
<1> QED  BY <1>3, <1>5, <1>6, <1>7, <1>8, <1>9 DEF c, N

LEMMA LiveAppended ==
  ASSUME NEW b \in Seq(Entry), NEW e \in Entry, WellFormed(b), Fits(b, e), NEW s
  PROVE  LiveIn(Append(b, e), s)
           = (LiveIn(b, s) \ {e.of}) \cup (IF e.source = s THEN {Len(b) + 1} ELSE {})
<1> DEFINE c == Append(b, e)
           N == Len(b) + 1
<1>1. /\ DOMAIN c = DOMAIN b \cup {N} /\ N \notin DOMAIN b /\ c[N] = e
      /\ DOMAIN b = 1..Len(b)
      /\ \A n \in DOMAIN b : c[n] = b[n] /\ b[n] \in Entry
  BY Appended
<1>2. \A k \in DOMAIN c : c[k].of # N
  <2>1. \A k \in DOMAIN b : b[k].of # N
    BY <1>1 DEF WellFormed, Entry
  <2>2. e.of # N
    BY <1>1 DEF Fits
  <2> QED  BY <1>1, <2>1, <2>2
<1>3. \A n \in DOMAIN b : (\E k \in DOMAIN c : c[k].of = n)
                            <=> (n = e.of \/ \E k \in DOMAIN b : b[k].of = n)
  BY <1>1
<1> HIDE DEF c, N
<1> QED  BY <1>1, <1>2, <1>3 DEF LiveIn, c, N

\* Whether an entry appended counts among the operations.
Operates(b, e) ==
  /\ e.source # "CENTRALIZATION"
  /\ e.of # 0 => b[e.of].source # "CENTRALIZATION"

LEMMA OperatingAppended ==
  ASSUME NEW b \in Seq(Entry), NEW e \in Entry, WellFormed(b), Fits(b, e)
  PROVE  OperatingIn(Append(b, e))
           = OperatingIn(b) \cup (IF Operates(b, e) THEN {Len(b) + 1} ELSE {})
<1> DEFINE c == Append(b, e)
           N == Len(b) + 1
<1>1. /\ DOMAIN c = DOMAIN b \cup {N} /\ N \notin DOMAIN b /\ c[N] = e
      /\ DOMAIN b = 1..Len(b) /\ Len(b) \in Nat
      /\ \A n \in DOMAIN b : c[n] = b[n] /\ b[n] \in Entry
  BY Appended, BookDomain
<1>2. \A n \in DOMAIN b : b[n].of # 0 => b[n].of \in DOMAIN b
  BY <1>1 DEF WellFormed, Entry
<1>3. e.of # 0 => e.of \in DOMAIN b
  BY DEF Fits
<1>4. \A n \in DOMAIN b : n \in OperatingIn(c) <=> n \in OperatingIn(b)
  BY <1>1, <1>2 DEF OperatingIn
<1>5. N \in OperatingIn(c) <=> Operates(b, e)
  BY <1>1, <1>3 DEF OperatingIn, Operates
<1>6. OperatingIn(c) \subseteq DOMAIN b \cup {N} /\ OperatingIn(b) \subseteq DOMAIN b
  BY <1>1 DEF OperatingIn
<1> HIDE DEF c, N
<1> QED  BY <1>1, <1>4, <1>5, <1>6 DEF c, N

LEMMA WellFormedAppended ==
  ASSUME NEW b \in Seq(Entry), NEW e \in Entry, WellFormed(b), Fits(b, e)
  PROVE  WellFormed(Append(b, e))
<1> DEFINE c == Append(b, e)
           N == Len(b) + 1
<1>1. /\ DOMAIN c = DOMAIN b \cup {N} /\ N \notin DOMAIN b /\ c[N] = e
      /\ DOMAIN b = 1..Len(b) /\ Len(b) \in Nat
      /\ \A n \in DOMAIN b : c[n] = b[n] /\ b[n] \in Entry
  BY Appended, BookDomain
<1>2. e.of < N /\ Fits(c, e)
  BY <1>1 DEF Fits, Entry, Sources, C!Kinds
<1>3. ASSUME NEW n \in DOMAIN b PROVE Fits(c, b[n]) /\ b[n].of < n
  BY <1>1 DEF Fits, WellFormed
<1> HIDE DEF c, N
<1> QED  BY <1>1, <1>2, <1>3 DEF WellFormed, c, N

\* What an entry takes to the accounts followed here, it takes to the result,
\* unless it is a centralization or undoes one: then it takes nothing.
LEMMA FitsTotal ==
  ASSUME NEW b \in Seq(Entry), NEW e \in Entry, WellFormed(b), Fits(b, e)
  PROVE  Total(e.net) = IF Operates(b, e) THEN e.net["615"] + e.net["706"] ELSE 0
<1>1. ASSUME NEW d \in Entry
      PROVE  /\ d.net["615"] \in Int /\ d.net["706"] \in Int /\ d.net["120"] \in Int
             /\ d.net["129"] \in Int /\ d.net["101"] \in Int
             /\ d.source \in Sources
  BY DEF Entry, Nets, C!Accounts, C!PnL, C!ResultAccounts
<1>2. ASSUME NEW d \in Entry, d.source # "REVERSAL", Fits(b, d)
      PROVE  Total(d.net) = IF d.source # "CENTRALIZATION"
                        THEN d.net["615"] + d.net["706"] ELSE 0
  <2>1. CASE d.source = "MANUAL"
    <3>1. d.net["120"] = 0 /\ d.net["129"] = 0 /\ d.net["101"] = 0
      BY <1>2, <2>1 DEF Fits, C!Accounts, C!PnL, C!ResultAccounts
    <3> QED  BY <1>1, <2>1, <3>1 DEF Total
  <2>2. CASE d.source = "APPROPRIATION"
    BY <2>2, <1>2 DEF Fits, C!PnL
  <2>3. CASE d.source = "CENTRALIZATION"
    BY <2>3, <1>2 DEF Fits
  <2> QED  BY <1>1, <1>2, <2>1, <2>2, <2>3 DEF Sources, C!Kinds
<1>3. CASE e.source # "REVERSAL"
  <2>1. e.of = 0
    BY <1>3 DEF Fits
  <2> QED  BY <1>2, <1>3, <2>1 DEF Operates
<1>4. CASE e.source = "REVERSAL"
  <2> DEFINE o == b[e.of]
  <2>1. /\ e.of \in DOMAIN b /\ o.of = 0
        /\ \A a \in C!Accounts : e.net[a] = - o.net[a]
    BY <1>4 DEF Fits
  <2>2. o \in Entry /\ Fits(b, o) /\ e.of # 0
    BY <2>1, BookDomain DEF WellFormed
  <2> HIDE DEF o
  <2>3. o.source # "REVERSAL"
    <3>1. 0 \notin DOMAIN b
      BY BookDomain
    <3> QED  BY <2>1, <2>2, <3>1 DEF Fits
  <2>4. /\ e.net["615"] = - o.net["615"] /\ e.net["706"] = - o.net["706"]
        /\ e.net["120"] = - o.net["120"] /\ e.net["129"] = - o.net["129"]
        /\ e.net["101"] = - o.net["101"]
    BY <2>1 DEF C!Accounts, C!PnL, C!ResultAccounts
  <2>5. o.net["615"] \in Int /\ o.net["706"] \in Int
    BY <1>1, <2>2
  <2>6. Total(e.net) = - Total(o.net)
    BY <2>1, <2>2, TotalOpposite DEF Entry
  <2>7. Operates(b, e) <=> o.source # "CENTRALIZATION"
    BY <1>4, <2>2 DEF Operates, o
  <2>8. Total(o.net) = IF o.source # "CENTRALIZATION" THEN o.net["615"] + o.net["706"] ELSE 0
    BY <1>2, <2>2, <2>3
  <2> QED  BY <2>4, <2>5, <2>6, <2>7, <2>8
<1> QED  BY <1>3, <1>4

LEMMA BalancesAppended ==
  ASSUME NEW b \in Seq(Entry), NEW e \in Entry
  PROVE  /\ Balances(b) \in Nets /\ e.net \in Nets
         /\ \A a \in C!Accounts : Balances(Append(b, e))[a] = Balances(b)[a] + e.net[a]
<1>1. DOMAIN Append(b, e) = DOMAIN b \cup {Len(b) + 1} /\ DOMAIN b \in SUBSET DOMAIN b
  BY Appended
<1>2. \A a \in C!Accounts :
        /\ NetIn(b, DOMAIN b, a) \in Int
        /\ NetIn(Append(b, e), DOMAIN Append(b, e), a) = NetIn(b, DOMAIN b, a) + e.net[a]
  BY <1>1, NetInt, NetAppended
<1> QED  BY <1>2 DEF Balances, Entry, Nets

LEMMA BalancedAppended ==
  ASSUME NEW b \in Seq(Entry), NEW e \in Entry, WellFormed(b), Fits(b, e), Balanced(b)
  PROVE  Balanced(Append(b, e))
<1> DEFINE c == Append(b, e)
           O == OperatingIn(b)
           P == OperatingIn(c)
<1>1. O \in SUBSET DOMAIN b /\ C!PnL \subseteq C!Accounts
  BY DEF OperatingIn, C!Accounts
<1>2. /\ Total(Balances(c)) = Total(Balances(b)) + Total(e.net)
      /\ Total(Balances(b)) \in Int
  <2>1. /\ Balances(b) \in Nets /\ e.net \in Nets
        /\ \A a \in C!Accounts : Balances(c)[a] = Balances(b)[a] + e.net[a]
    BY BalancesAppended
  <2> HIDE DEF c
  <2> QED  BY <2>1, TotalAdds
<1>3. Total(e.net) = IF Operates(b, e) THEN e.net["615"] + e.net["706"] ELSE 0
  BY FitsTotal
<1>4. \A a \in C!PnL : NetIn(b, O, a) \in Int /\ e.net[a] \in Int
  BY <1>1, NetInt DEF Entry, Nets
<1>5. /\ NetIn(b, O, "615") \in Int /\ e.net["615"] \in Int
      /\ NetIn(b, O, "706") \in Int /\ e.net["706"] \in Int
  BY <1>4 DEF C!PnL
<1> HIDE DEF O
<1>6. CASE Operates(b, e)
  <2>1. P = O \cup {Len(b) + 1}
    BY <1>6, OperatingAppended DEF O
  <2>2. \A a \in C!PnL : NetIn(c, P, a) = NetIn(b, O, a) + e.net[a]
    BY <1>1, <2>1, NetAppended
  <2>3. /\ NetIn(c, P, "615") = NetIn(b, O, "615") + e.net["615"]
        /\ NetIn(c, P, "706") = NetIn(b, O, "706") + e.net["706"]
    BY <2>2 DEF C!PnL
  <2> HIDE DEF c, P
  <2> QED  BY <1>2, <1>3, <1>5, <1>6, <2>3 DEF Balanced, c, O, P
<1>7. CASE ~ Operates(b, e)
  <2>1. P = O
    BY <1>7, OperatingAppended DEF O
  <2>2. \A a \in C!PnL : NetIn(c, P, a) = NetIn(b, O, a)
    BY <1>1, <2>1, NetAppended
  <2> HIDE DEF c, P
  <2>3. NetIn(c, P, "615") = NetIn(b, O, "615") /\ NetIn(c, P, "706") = NetIn(b, O, "706")
    BY <2>2 DEF C!PnL
  <2> QED  BY <1>2, <1>3, <1>5, <1>7, <2>3 DEF Balanced, c, O, P
<1> QED  BY <1>6, <1>7

LEMMA AppropriatesAppended ==
  ASSUME NEW b \in Seq(Entry), NEW e \in Entry, WellFormed(b), Fits(b, e),
         Appropriates(b), e.source = "REVERSAL" => \A k \in DOMAIN b : b[k].of # e.of
  PROVE  Appropriates(Append(b, e))
<1> DEFINE c == Append(b, e)
           N == Len(b) + 1
           L == LiveIn(b, "APPROPRIATION")
<1>1. /\ DOMAIN c = DOMAIN b \cup {N} /\ L \in SUBSET DOMAIN b
      /\ DOMAIN b \in SUBSET DOMAIN b /\ "101" \in C!Accounts /\ IsFiniteSet(DOMAIN b)
  BY Appended DEF LiveIn, C!Accounts
<1>2. Balances(b)["101"] \in Int /\ Balances(c)["101"] = Balances(b)["101"] + e.net["101"]
  BY <1>1, BalancesAppended DEF Nets
<1>3. LiveIn(c, "APPROPRIATION")
        = (L \ {e.of}) \cup (IF e.source = "APPROPRIATION" THEN {N} ELSE {})
  BY LiveAppended
<1>4. NetIn(b, L, "101") \in Int /\ e.net["101"] \in Int
  BY <1>1, NetInt DEF Entry, Nets
<1>5. 0 \notin L
  BY BookDomain DEF LiveIn
<1> HIDE DEF c, L, N
<1>6. CASE e.source = "APPROPRIATION"
  <2>1. LiveIn(c, "APPROPRIATION") = L \cup {N}
    BY <1>3, <1>5, <1>6 DEF Fits
  <2> QED  BY <1>1, <1>2, <1>4, <2>1, NetAppended DEF Appropriates, c, L, N
<1>7. CASE e.source \in {"MANUAL", "CENTRALIZATION"}
  <2>1. LiveIn(c, "APPROPRIATION") = L /\ e.net["101"] = 0
    BY <1>3, <1>5, <1>7 DEF Fits, C!Accounts, C!PnL
  <2>2. NetIn(c, L, "101") = NetIn(b, L, "101")
    BY <1>1, NetAppended DEF c
  <2> QED  BY <1>2, <1>4, <2>1, <2>2 DEF Appropriates, c, L
<1>8. CASE e.source = "REVERSAL"
  <2> DEFINE o == b[e.of]
  <2>1. /\ e.of \in DOMAIN b /\ e.net["101"] = - o.net["101"] /\ o \in Entry
        /\ o.of = 0 /\ Fits(b, o)
    BY <1>1, <1>8, BookDomain DEF Fits, WellFormed
  <2>2. LiveIn(c, "APPROPRIATION") = L \ {e.of}
    BY <1>3, <1>8
  <2>3. NetIn(c, L \ {e.of}, "101") = NetIn(b, L \ {e.of}, "101")
    <3>1. L \ {e.of} \in SUBSET DOMAIN b
      BY <1>1
    <3> QED  BY <1>1, <3>1, NetAppended DEF c
  <2>4. CASE e.of \in L
    <3> DEFINE f == [n \in DOMAIN b |-> b[n].net["101"]]
    <3>1. IsFiniteSet(L) /\ f[e.of] = o.net["101"]
      BY <1>1, <2>1, FS_Subset
    <3>2. \A n \in L : f[n] \in Int
      <4> TAKE n \in L
      <4>1. b[n] \in Entry /\ f[n] = b[n].net["101"]
        BY <1>1, BookDomain
      <4> QED  BY <1>1, <4>1 DEF Entry, Nets
    <3>3. NetIn(b, L, "101") = SumFunctionOnSet(f, L)
          /\ NetIn(b, L \ {e.of}, "101") = SumFunctionOnSet(f, L \ {e.of})
      BY DEF NetIn
    <3> HIDE DEF f
    <3>4. SumFunctionOnSet(f, L) = f[e.of] + SumFunctionOnSet(f, L \ {e.of})
      BY <2>4, <3>1, <3>2, SumRemove
    <3>5. NetIn(b, L \ {e.of}, "101") \in Int /\ o.net["101"] \in Int
      <4>1. L \ {e.of} \in SUBSET DOMAIN b
        BY <1>1
      <4> QED  BY <1>1, <2>1, <4>1, NetInt DEF Entry, Nets
    <3>6. Balances(b)["101"] = o.net["101"] + NetIn(b, L \ {e.of}, "101")
      BY <3>1, <3>3, <3>4 DEF Appropriates, L
    <3>7. Balances(c)["101"] = NetIn(b, L \ {e.of}, "101")
      BY <1>2, <2>1, <3>5, <3>6
    <3> QED  BY <2>2, <2>3, <3>7 DEF Appropriates, c
  <2>5. CASE e.of \notin L
    <3>1. o.source # "APPROPRIATION" /\ L \ {e.of} = L
      BY <1>8, <2>1, <2>5 DEF L, LiveIn
    <3>2. o.source # "REVERSAL"
      BY <2>1, BookDomain DEF Fits
    <3>3. o.source \in {"MANUAL", "CENTRALIZATION"}
      BY <2>1, <3>1, <3>2 DEF Entry, Nets, Sources, C!Kinds
    <3>4. o.net["101"] = 0
      BY <2>1, <3>3 DEF Fits, C!Accounts, C!PnL
    <3>5. Balances(c)["101"] = NetIn(b, L, "101")
      BY <1>2, <2>1, <3>4 DEF Appropriates, L
    <3> QED  BY <2>2, <2>3, <3>1, <3>5 DEF Appropriates, c
  <2> QED  BY <2>4, <2>5
<1> QED  BY <1>6, <1>7, <1>8 DEF Entry, Nets, Sources, C!Kinds

\* What an action may append.
LEMMA SoundAppended ==
  ASSUME NEW b, NEW e \in Entry, Sound(b), Fits(b, e),
         e.source = "REVERSAL" => \A k \in DOMAIN b : b[k].of # e.of
  PROVE  Sound(Append(b, e))
  BY Appended, WellFormedAppended, BalancedAppended, AppropriatesAppended DEF Sound

-----------------------------------------------------------------------------
(* The invariant of the closing of the result *)

ResultInv ==
  /\ Sound(resultBook)
  /\ C!ConfirmationPostedOnce /\ C!PostedAsConfirmed
  /\ sent \subseteq Confirmation
  /\ \A m \in sent : m.kind = "APPROPRIATION" => m.account \in C!ResultAccounts
  /\ drafts \in Nat
  /\ resultStatus # "OPEN" => drafts = 0 /\ ~ C!HasClassBalance

\* An instance has the operators of the library under its own name.
LEMMA SumOfInstance ==
  ASSUME NEW f, NEW S
  PROVE  C!SumFunctionOnSet(f, S) = SumFunctionOnSet(f, S)
  BY Zenon DEF C!SumFunctionOnSet, C!FoldFunctionOnSet, C!MapThenFoldSet,
     SumFunctionOnSet, FoldFunctionOnSet, MapThenFoldSet

\* The readings of the module are those of the book.
LEMMA Readings ==
  ASSUME Sound(resultBook)
  PROVE  /\ \A a \in C!Accounts : C!Net(a) = Balances(resultBook)[a] /\ C!Net(a) \in Int
         /\ C!RawResult = -(C!Net("615") + C!Net("706"))
         /\ \A s : C!Live(s) = LiveIn(resultBook, s)
         /\ C!Operating = OperatingIn(resultBook)
<1>1. \A a \in C!Accounts : C!Net(a) = Balances(resultBook)[a] /\ C!Net(a) \in Int
  <2>1. \A a : C!Net(a) = NetIn(resultBook, DOMAIN resultBook, a)
    BY SumOfInstance DEF C!Net, C!NetOver, NetIn
  <2> QED  BY <2>1, NetInt DEF Sound, Balances
<1>2. C!RawResult = -(C!Net("615") + C!Net("706"))
  BY DEF C!RawResult, C!ResultOver, C!Net
<1>3. \A s : C!Live(s) = LiveIn(resultBook, s)
  BY DEF C!Live, C!Reversals, LiveIn
<1>4. C!Operating = OperatingIn(resultBook)
  BY DEF C!Operating, OperatingIn
<1> QED  BY <1>1, <1>2, <1>3, <1>4

LEMMA NetsOf ==
  ASSUME Sound(resultBook)
  PROVE  /\ C!Net("615") \in Int /\ C!Net("706") \in Int /\ C!Net("120") \in Int
         /\ C!Net("129") \in Int /\ C!Net("101") \in Int /\ C!RawResult \in Int
  BY Readings DEF C!Accounts, C!PnL, C!ResultAccounts

\* An entry as the confirmation that posts it announced it.
Confirms(e) ==
  LET m == e.parameters IN
  /\ e.source \in C!Kinds =>
       \A n \in DOMAIN resultBook :
         ~ (resultBook[n].source = e.source /\ resultBook[n].parameters.id = m.id)
  /\ e.source = "CENTRALIZATION" /\ m.account # "none" => - e.net[m.account] = m.amount
  /\ e.source = "APPROPRIATION" => C!Abs(e.net[m.account]) = m.amount

\* What a step may append to the book.
Appends(e) ==
  /\ resultStatus = "OPEN" /\ resultBook' = Append(resultBook, e)
  /\ e \in Entry /\ Fits(resultBook, e) /\ Confirms(e)
  /\ e.source = "REVERSAL" => \A k \in DOMAIN resultBook : resultBook[k].of # e.of

LEMMA ValidateAppends ==
  ASSUME ResultInv, NEW net \in Operations, C!ValidateDraft(net)
  PROVE  \E e : Appends(e)
<1> DEFINE e == [source |-> "MANUAL", net |-> net, of |-> 0,
                 parameters |-> C!NoParameters]
<1>1. net \in Nets /\ \A a \in C!Accounts \ C!PnL : net[a] = 0
  BY ClosingAssumption DEF C!ClosingAssumption, Nets
<1>2. e \in Entry
  BY <1>1 DEF Entry, Sources, Confirmation, C!NoParameters
<1>3. Fits(resultBook, e) /\ Confirms(e)
  BY <1>1 DEF Fits, Confirms, C!Kinds
<1>4. resultStatus = "OPEN" /\ resultBook' = Append(resultBook, e)
  BY DEF C!ValidateDraft, C!Posted
<1> QED  BY <1>2, <1>3, <1>4 DEF Appends

LEMMA ReverseAppends ==
  ASSUME ResultInv, NEW n \in DOMAIN resultBook, C!Reverse(n)
  PROVE  \E e : Appends(e)
<1> DEFINE e == [source |-> "REVERSAL", of |-> n, parameters |-> C!NoParameters,
                 net |-> [a \in C!Accounts |-> - resultBook[n].net[a]]]
<1>1. resultBook[n] \in Entry /\ n \in Nat
  BY BookDomain DEF ResultInv, Sound
<1>2. e \in Entry
  BY <1>1 DEF Entry, Nets, Sources, Confirmation, C!NoParameters
<1>3. Fits(resultBook, e) /\ Confirms(e)
  BY <1>1 DEF Fits, Confirms, C!Kinds, C!Reverse
<1>4. resultStatus = "OPEN" /\ resultBook' = Append(resultBook, e)
  BY DEF C!Reverse, C!Posted
<1>5. \A k \in DOMAIN resultBook : resultBook[k].of # n
  BY DEF C!Reverse, C!Reversals
<1> QED  BY <1>2, <1>3, <1>4, <1>5 DEF Appends

LEMMA CentralizationAppends ==
  ASSUME ResultInv, NEW m \in sent, C!PostCentralization(m)
  PROVE  \E e : Appends(e)
<1> DEFINE net == C!Closing(m.account)
           e == [source |-> "CENTRALIZATION", net |-> net, of |-> 0, parameters |-> m]
<1>1. /\ m \in Confirmation /\ m.kind = "CENTRALIZATION" /\ C!ByRequest(m) = {}
      /\ m.amount = C!RawResult /\ m.account = C!ResultAccount(C!RawResult)
  BY DEF ResultInv, C!PostCentralization, C!SameAmount, C!CheckResultAccount
<1>2. /\ C!Net("615") \in Int /\ C!Net("706") \in Int /\ C!RawResult \in Int
      /\ C!RawResult = -(C!Net("615") + C!Net("706"))
  BY NetsOf, Readings DEF ResultInv
<1>3. /\ net["615"] = - C!Net("615") /\ net["706"] = - C!Net("706") /\ net["101"] = 0
      /\ net["120"] = (IF m.account = "120" THEN - C!RawResult ELSE 0)
      /\ net["129"] = (IF m.account = "129" THEN - C!RawResult ELSE 0)
      /\ DOMAIN net = C!Accounts
  BY <1>1 DEF C!Closing, C!Accounts, C!PnL, C!ResultAccounts, C!ResultAccount
<1> HIDE DEF net
<1>4. net \in Nets
  <2>1. /\ net["615"] \in Int /\ net["706"] \in Int /\ net["120"] \in Int
        /\ net["129"] \in Int /\ net["101"] \in Int
    BY <1>2, <1>3
  <2>2. net = [a \in C!Accounts |-> net[a]]
    BY <1>3 DEF net, C!Closing
  <2> QED  BY <2>1, <2>2 DEF Nets, C!Accounts, C!PnL, C!ResultAccounts
<1>5. m.account \in {"120", "129"} \/ C!RawResult = 0
  BY <1>1, <1>2 DEF C!ResultAccount
<1>6. Total(net) = 0
  BY <1>2, <1>3, <1>5 DEF Total
<1>7. e \in Entry
  BY <1>1, <1>4 DEF Entry, Sources, C!Kinds
<1>8. Fits(resultBook, e)
  BY <1>3, <1>6 DEF Fits
<1>9. Confirms(e)
  <2>1. m.account # "none" => - net[m.account] = m.amount
    BY <1>1, <1>2, <1>3 DEF C!ResultAccount
  <2>2. \A n \in DOMAIN resultBook :
          ~ (resultBook[n].source = "CENTRALIZATION" /\ resultBook[n].parameters.id = m.id)
    BY <1>1 DEF C!ByRequest
  <2> QED  BY <2>1, <2>2 DEF Confirms
<1>10. resultStatus = "OPEN" /\ resultBook' = Append(resultBook, e)
  BY DEF C!PostCentralization, C!Posted, net
<1> QED  BY <1>7, <1>8, <1>9, <1>10 DEF Appends

LEMMA AppropriationAppends ==
  ASSUME ResultInv, NEW m \in sent, C!PostAppropriation(m)
  PROVE  \E e : Appends(e)
<1> DEFINE net == C!Appropriated(m.account)
           e == [source |-> "APPROPRIATION", net |-> net, of |-> 0, parameters |-> m]
<1>1. /\ m \in Confirmation /\ m.kind = "APPROPRIATION" /\ C!ByRequest(m) = {}
      /\ m.amount = C!Abs(C!Net(m.account)) /\ m.account \in {"120", "129"}
  BY DEF ResultInv, C!PostAppropriation, C!SameAmount, C!ResultAccounts
<1>2. C!Net(m.account) \in Int
  BY <1>1, NetsOf DEF ResultInv
<1>3. /\ net["615"] = 0 /\ net["706"] = 0 /\ net["101"] = C!Net(m.account)
      /\ net["120"] = (IF m.account = "120" THEN - C!Net(m.account) ELSE 0)
      /\ net["129"] = (IF m.account = "129" THEN - C!Net(m.account) ELSE 0)
      /\ net \in Nets
  BY <1>1, <1>2 DEF C!Appropriated, C!Flat, C!Accounts, C!PnL, C!ResultAccounts, Nets
<1> HIDE DEF net
<1>4. Total(net) = 0 /\ \A a \in C!PnL : net[a] = 0
  BY <1>1, <1>2, <1>3 DEF Total, C!PnL
<1>5. e \in Entry
  BY <1>1, <1>3 DEF Entry, Sources, C!Kinds
<1>6. Fits(resultBook, e)
  BY <1>4 DEF Fits
<1>7. Confirms(e)
  <2>1. C!Abs(net[m.account]) = m.amount
    BY <1>1, <1>2, <1>3 DEF C!Abs
  <2>2. \A n \in DOMAIN resultBook :
          ~ (resultBook[n].source = "APPROPRIATION" /\ resultBook[n].parameters.id = m.id)
    BY <1>1 DEF C!ByRequest
  <2> QED  BY <2>1, <2>2 DEF Confirms
<1>8. resultStatus = "OPEN" /\ resultBook' = Append(resultBook, e)
  BY DEF C!PostAppropriation, C!Posted, net
<1> QED  BY <1>5, <1>6, <1>7, <1>8 DEF Appends

\* An entry appended keeps the properties of the book.
LEMMA AppendsKeep ==
  ASSUME ResultInv, NEW e, Appends(e)
  PROVE  /\ Sound(resultBook)' /\ C!ConfirmationPostedOnce' /\ C!PostedAsConfirmed'
<1> DEFINE b == resultBook
           N == Len(resultBook) + 1
<1>1. /\ DOMAIN resultBook' = DOMAIN b \cup {N} /\ N \notin DOMAIN b
      /\ resultBook'[N] = e
      /\ \A n \in DOMAIN b : resultBook'[n] = b[n]
  BY Appended DEF ResultInv, Sound, Appends
<1> HIDE DEF N
<1>2. Sound(resultBook)'
  <2>1. Sound(Append(resultBook, e))
    BY SoundAppended DEF ResultInv, Appends
  <2> QED  BY <2>1 DEF Appends
<1>3. C!ConfirmationPostedOnce'
  BY <1>1 DEF ResultInv, Appends, Confirms, C!ConfirmationPostedOnce
<1>4. C!PostedAsConfirmed'
  BY <1>1 DEF ResultInv, Appends, Confirms, C!PostedAsConfirmed
<1> QED  BY <1>2, <1>3, <1>4

-----------------------------------------------------------------------------
(* The statements read from a sound book *)

LEMMA SumOfTwo ==
  ASSUME NEW f, NEW a, NEW b, a # b, f[a] \in Int, f[b] \in Int, NEW S \in SUBSET {a, b}
  PROVE  SumFunctionOnSet(f, S) =
           (IF a \in S THEN f[a] ELSE 0) + (IF b \in S THEN f[b] ELSE 0)
<1>1. SumFunctionOnSet(f, {}) = 0
  BY SumOfNone
<1>2. ASSUME NEW c \in {a, b} PROVE SumFunctionOnSet(f, {c}) = f[c]
  <2>1. SumFunctionOnSet(f, {} \cup {c}) = f[c] + SumFunctionOnSet(f, {})
    BY SumAdd, FS_EmptySet
  <2> QED  BY <1>1, <2>1
<1>3. SumFunctionOnSet(f, {a, b}) = f[a] + f[b]
  <2>1. SumFunctionOnSet(f, {a} \cup {b}) = f[b] + SumFunctionOnSet(f, {a})
    BY SumAdd, FS_Singleton
  <2>2. {a} \cup {b} = {a, b}
    OBVIOUS
  <2> QED  BY <1>2, <2>1, <2>2
<1>4. CASE S = {}
  BY <1>1, <1>4
<1>5. CASE S = {a}
  <2>1. SumFunctionOnSet(f, S) = f[a]
    BY <1>2, <1>5
  <2> QED  BY <1>5, <2>1
<1>6. CASE S = {b}
  <2>1. SumFunctionOnSet(f, S) = f[b]
    BY <1>2, <1>6
  <2> QED  BY <1>6, <2>1
<1>7. CASE S = {a, b}
  BY <1>3, <1>7
<1>8. S = {} \/ S = {a} \/ S = {b} \/ S = {a, b}
  OBVIOUS
<1> QED  BY <1>4, <1>5, <1>6, <1>7, <1>8

LEMMA SameSign ==
  ASSUME NEW x \in Int, NEW c \in Int
  PROVE  -(x * c) > 0 <=> (x < 0 /\ c > 0) \/ (x > 0 /\ c < 0)
  OBVIOUS

\* The result moved out of the classes is what the accounts of equity hold.
LEMMA Moved ==
  ASSUME Sound(resultBook)
  PROVE  C!ResultOver(C!Operating) - C!RawResult
           = -(C!Net("120") + C!Net("129") + C!Net("101"))
         /\ C!ResultOver(C!Operating) \in Int
<1> DEFINE p == NetIn(resultBook, OperatingIn(resultBook), "615")
           q == NetIn(resultBook, OperatingIn(resultBook), "706")
<1>1. C!ResultOver(C!Operating) = -(p + q)
  BY Readings, SumOfInstance DEF C!ResultOver, C!NetOver, NetIn
<1>2. p \in Int /\ q \in Int
  <2>1. OperatingIn(resultBook) \in SUBSET DOMAIN resultBook
    BY DEF OperatingIn
  <2> QED  BY <2>1, NetInt DEF Sound, C!Accounts, C!PnL
<1>3. p + q = C!Net("615") + C!Net("706") + C!Net("120") + C!Net("129") + C!Net("101")
  BY Readings DEF Sound, Balanced, Total, C!Accounts, C!PnL, C!ResultAccounts
<1> HIDE DEF p, q
<1>4. C!ResultOver(C!Operating) \in Int
  BY <1>1, <1>2
<1>5. C!RawResult = -(C!Net("615") + C!Net("706"))
  BY Readings
<1>6. /\ C!Net("615") \in Int /\ C!Net("706") \in Int /\ C!Net("120") \in Int
      /\ C!Net("129") \in Int /\ C!Net("101") \in Int
  BY NetsOf
<1>7. ASSUME NEW r, NEW raw, NEW n615 \in Int, NEW n706 \in Int, NEW n120 \in Int,
             NEW n129 \in Int, NEW n101 \in Int,
             r = -(p + q), raw = -(n615 + n706),
             p + q = n615 + n706 + n120 + n129 + n101
      PROVE  r - raw = -(n120 + n129 + n101)
  BY <1>2, <1>7
<1>8. C!ResultOver(C!Operating) - C!RawResult
        = -(C!Net("120") + C!Net("129") + C!Net("101"))
  BY <1>1, <1>3, <1>5, <1>6, <1>7
<1> QED  BY <1>4, <1>8

LEMMA Presented ==
  ASSUME Sound(resultBook)
  PROVE  C!PresentedResult
<1> DEFINE x == C!Net("120")
           y == C!Net("129")
           z == C!Net("101")
           closed == C!ResultOver(C!Operating) - C!RawResult
           sitting == {a \in C!ResultAccounts : -C!Net(a) * closed > 0}
           total == C!SumFunctionOnSet([a \in C!Accounts |-> -C!Net(a)], sitting)
           held == IF C!Abs(total) < C!Abs(closed) THEN total ELSE closed
<1>1. /\ x \in Int /\ y \in Int /\ z \in Int /\ closed = -(x + y + z)
      /\ C!ResultOver(C!Operating) \in Int /\ C!RawResult \in Int
  BY NetsOf, Moved
<1>2. C!Live("APPROPRIATION") = {} => z = 0
  <2> SUFFICES ASSUME C!Live("APPROPRIATION") = {} PROVE z = 0
    OBVIOUS
  <2>1. z = NetIn(resultBook, {}, "101")
    BY Readings DEF Sound, Appropriates, C!Accounts
  <2> QED  BY <2>1, SumOfNone DEF NetIn
<1>3. total = (IF "120" \in sitting THEN -x ELSE 0) + (IF "129" \in sitting THEN -y ELSE 0)
  <2> DEFINE f == [a \in C!Accounts |-> -C!Net(a)]
  <2>1. f["120"] = -x /\ f["129"] = -y
    BY DEF C!Accounts, C!ResultAccounts
  <2>2. sitting \in SUBSET {"120", "129"}
    BY DEF C!ResultAccounts
  <2>3. total = SumFunctionOnSet(f, sitting)
    BY SumOfInstance
  <2> HIDE DEF f, sitting, x, y, total
  <2>4. /\ "120" # "129" /\ f["120"] \in Int /\ f["129"] \in Int
    BY <1>1, <2>1
  <2>5. SumFunctionOnSet(f, sitting) = (IF "120" \in sitting THEN f["120"] ELSE 0)
                                         + (IF "129" \in sitting THEN f["129"] ELSE 0)
    BY <2>2, <2>4, SumOfTwo
  <2> QED  BY <2>1, <2>3, <2>5
<1>4. /\ "120" \in sitting <=> (x < 0 /\ closed > 0) \/ (x > 0 /\ closed < 0)
      /\ "129" \in sitting <=> (y < 0 /\ closed > 0) \/ (y > 0 /\ closed < 0)
  <2> HIDE DEF closed
  <2>1. closed \in Int
    BY <1>1 DEF closed
  <2>2. /\ "120" \in sitting <=> -(x * closed) > 0
        /\ "129" \in sitting <=> -(y * closed) > 0
    BY DEF C!ResultAccounts
  <2> HIDE DEF sitting, x, y
  <2>3. x \in Int /\ y \in Int
    BY <1>1
  <2> QED  BY <2>1, <2>2, <2>3, SameSign
<1>5. C!Held = held
  BY DEF C!Held
<1> HIDE DEF x, y, z, sitting, total, closed
<1>6. /\ total \in Int /\ closed \in Int
      /\ closed > 0 => total >= 0 /\ (z = 0 => total >= closed)
      /\ closed < 0 => total <= 0 /\ (z = 0 => total <= closed)
      /\ closed = 0 => total = 0
  BY <1>1, <1>3, <1>4
<1>7. /\ held \in Int /\ C!Abs(held) <= C!Abs(closed)
      /\ closed > 0 => held >= 0
      /\ closed < 0 => held <= 0
      /\ closed = 0 => held = 0
      /\ z = 0 => held = closed
  BY <1>6 DEF C!Abs
<1> HIDE DEF held
<1>8. held * closed >= 0
  BY <1>6, <1>7
<1>9. C!Live("APPROPRIATION") = {} => C!CurrentResult = C!ResultOver(C!Operating)
  <2>1. closed = C!ResultOver(C!Operating) - C!RawResult
    BY DEF closed
  <2>2. C!CurrentResult = C!RawResult + held
    BY <1>5 DEF C!CurrentResult
  <2> QED  BY <1>1, <1>2, <1>7, <2>1, <2>2
<1> QED  BY <1>5, <1>7, <1>8, <1>9 DEF C!PresentedResult, closed

LEMMA Locked ==
  ASSUME Sound(resultBook), resultStatus # "OPEN" => drafts = 0 /\ ~ C!HasClassBalance
  PROVE  C!LockedYearCentralized
<1> SUFFICES ASSUME resultStatus # "OPEN"
             PROVE  /\ \A a \in C!PnL : C!Net(a) = 0
                    /\ -(C!Net("120") + C!Net("129") + C!Net("101")) = C!ResultOver(C!Operating)
  BY DEF C!LockedYearCentralized
<1>1. \A a \in C!PnL : C!Net(a) = 0
  BY DEF C!HasClassBalance
<1>2. C!RawResult = 0
  BY <1>1, Readings DEF C!PnL
<1> QED  BY <1>1, <1>2, Moved, NetsOf

-----------------------------------------------------------------------------
(* The invariant holds at first and is kept by every action *)

LEMMA ResultInitially ==
  ASSUME C!Init PROVE ResultInv
<1>1. resultBook = <<>> /\ DOMAIN resultBook = {} /\ resultBook \in Seq(Entry)
  BY DEF C!Init
<1>2. Sound(resultBook)
  <2>1. OperatingIn(resultBook) = {} /\ \A s : LiveIn(resultBook, s) = {}
    BY <1>1 DEF OperatingIn, LiveIn
  <2>2. \A a \in C!Accounts : NetIn(resultBook, {}, a) = 0
    BY SumOfNone DEF NetIn
  <2>3. Balanced(resultBook)
    BY <1>1, <2>1, <2>2 DEF Balanced, Balances, Total, C!Accounts, C!PnL, C!ResultAccounts
  <2>4. Appropriates(resultBook)
    BY <1>1, <2>1, <2>2 DEF Appropriates, Balances, C!Accounts
  <2> QED  BY <1>1, <2>3, <2>4 DEF Sound, WellFormed
<1> QED
  BY <1>1, <1>2 DEF ResultInv, C!Init, C!ConfirmationPostedOnce, C!PostedAsConfirmed

\* What the actions that leave the book alone keep of it.
LEMMA BookAlone ==
  ASSUME ResultInv, UNCHANGED resultBook
  PROVE  /\ Sound(resultBook)' /\ C!ConfirmationPostedOnce' /\ C!PostedAsConfirmed'
         /\ C!HasClassBalance' <=> C!HasClassBalance
<1>1. C!ConfirmationPostedOnce' /\ C!PostedAsConfirmed'
  BY DEF ResultInv, C!ConfirmationPostedOnce, C!PostedAsConfirmed
<1>2. Sound(resultBook)'
  BY DEF ResultInv
<1>3. C!HasClassBalance' <=> C!HasClassBalance
  BY DEF C!HasClassBalance, C!Net, C!NetOver
<1> QED  BY <1>1, <1>2, <1>3

LEMMA Prepares ==
  ASSUME ResultInv, NEW r \in Requests,
         \/ C!PrepareCentralization(r)
         \/ \E a \in C!ResultAccounts : C!PrepareAppropriation(r, a)
  PROVE  /\ UNCHANGED <<resultStatus, drafts, resultBook, chart>>
         /\ sent' \subseteq Confirmation
         /\ \A m \in sent' : m.kind = "APPROPRIATION" => m.account \in C!ResultAccounts
<1>1. CASE C!PrepareCentralization(r)
  <2> DEFINE m == [id |-> r, kind |-> "CENTRALIZATION", amount |-> C!RawResult,
                   account |-> C!ResultAccount(C!RawResult),
                   create |-> C!RawResult # 0
                                /\ chart[C!ResultAccount(C!RawResult)] = "absent"]
  <2>1. C!RawResult \in Int
    BY NetsOf DEF ResultInv
  <2>2. m \in Confirmation
    BY <2>1 DEF Confirmation, C!Kinds, C!ResultAccount, C!ResultAccounts
  <2>3. sent' = sent \cup {m} /\ UNCHANGED <<resultStatus, drafts, resultBook, chart>>
    BY <1>1 DEF C!PrepareCentralization, C!Send
  <2>4. m.kind = "CENTRALIZATION"
    OBVIOUS
  <2> HIDE DEF m
  <2> QED  BY <2>2, <2>3, <2>4 DEF ResultInv
<1>2. ASSUME NEW a \in C!ResultAccounts, C!PrepareAppropriation(r, a)
      PROVE  /\ UNCHANGED <<resultStatus, drafts, resultBook, chart>>
             /\ sent' \subseteq Confirmation
             /\ \A m \in sent' : m.kind = "APPROPRIATION" => m.account \in C!ResultAccounts
  <2> DEFINE m == [id |-> r, kind |-> "APPROPRIATION", amount |-> C!Abs(C!Net(a)),
                   account |-> a, create |-> FALSE]
  <2>1. C!Abs(C!Net(a)) \in Int
    BY NetsOf DEF ResultInv, C!ResultAccounts, C!Abs
  <2>2. m \in Confirmation /\ m.account \in C!ResultAccounts
    BY <2>1 DEF Confirmation, C!Kinds
  <2>3. sent' = sent \cup {m} /\ UNCHANGED <<resultStatus, drafts, resultBook, chart>>
    BY <1>2 DEF C!PrepareAppropriation, C!Send
  <2> HIDE DEF m
  <2> QED  BY <2>2, <2>3 DEF ResultInv
<1> QED  BY <1>1, <1>2

\* The book of a year that is not open does not move, and a draft is created
\* or validated in an open year only.
LEMMA ResultStep ==
  ASSUME ResultInv, C!Next
  PROVE  ResultInv'
<1>1. ASSUME NEW e, Appends(e), UNCHANGED <<sent, resultStatus>>, drafts' \in Nat
      PROVE  ResultInv'
  BY <1>1, AppendsKeep DEF ResultInv, Appends
<1>2. ASSUME UNCHANGED <<resultBook, sent>>, drafts' \in Nat,
             resultStatus' # "OPEN" => drafts' = 0 /\ ~ C!HasClassBalance
      PROVE  ResultInv'
  BY <1>2, BookAlone DEF ResultInv
<1>3. CASE C!CreateDraft
  BY <1>2, <1>3 DEF ResultInv, C!CreateDraft
<1>4. CASE C!DeleteDraft
  BY <1>2, <1>4 DEF ResultInv, C!DeleteDraft
<1>5. ASSUME NEW net \in Operations, C!ValidateDraft(net) PROVE ResultInv'
  <2>1. PICK e : Appends(e)
    BY <1>5, ValidateAppends
  <2> QED  BY <1>1, <1>5, <2>1 DEF ResultInv, C!ValidateDraft
<1>6. ASSUME NEW a \in C!ResultAccounts, C!SwitchAccount(a) PROVE ResultInv'
  BY <1>2, <1>6 DEF ResultInv, C!SwitchAccount
<1>7. ASSUME NEW n \in DOMAIN resultBook, C!Reverse(n) PROVE ResultInv'
  <2>1. PICK e : Appends(e)
    BY <1>7, ReverseAppends
  <2> QED  BY <1>1, <1>7, <2>1 DEF ResultInv, C!Reverse
<1>8. ASSUME NEW r \in Requests,
             \/ C!PrepareCentralization(r)
             \/ \E a \in C!ResultAccounts : C!PrepareAppropriation(r, a)
      PROVE  ResultInv'
  BY <1>8, Prepares, BookAlone DEF ResultInv
<1>9. ASSUME NEW m \in sent, C!PostCentralization(m) PROVE ResultInv'
  <2>1. PICK e : Appends(e)
    BY <1>9, CentralizationAppends
  <2> QED  BY <1>1, <1>9, <2>1 DEF ResultInv, C!PostCentralization
<1>10. ASSUME NEW m \in sent, C!PostAppropriation(m) PROVE ResultInv'
  <2>1. PICK e : Appends(e)
    BY <1>10, AppropriationAppends
  <2> QED  BY <1>1, <1>10, <2>1 DEF ResultInv, C!PostAppropriation
<1>11. CASE C!MarkReady \/ C!CloseYear
  BY <1>2, <1>11 DEF ResultInv, C!MarkReady, C!CloseYear, C!PrecheckPasses
<1>12. CASE C!ReopenYear
  BY <1>2, <1>12 DEF ResultInv, C!ReopenYear
<1> QED
  BY <1>3, <1>4, <1>5, <1>6, <1>7, <1>8, <1>9, <1>10, <1>11, <1>12 DEF C!Next

-----------------------------------------------------------------------------
(* The theorems *)

ResultInvScene == scene = "result" => ResultInv

LEMMA ResultInvHolds == MCSpec => []ResultInvScene
<1>1. MCInit => ResultInvScene
  BY ResultInitially DEF MCInit, ResultInvScene
<1>2. ResultInvScene /\ [MCNext]_<<vars, assetVars, resultVars, input, scene>>
        => ResultInvScene'
  <2> SUFFICES ASSUME ResultInvScene, [MCNext]_<<vars, assetVars, resultVars, input, scene>>,
                      scene' = "result"
               PROVE  ResultInv'
    BY DEF ResultInvScene
  <2>1. CASE scene = "result" /\ C!Next /\ UNCHANGED scene
    BY <2>1, ResultStep DEF ResultInvScene
  <2>2. ASSUME UNCHANGED <<resultVars, scene>> PROVE ResultInv'
    <3>1. ResultInv
      BY <2>2 DEF ResultInvScene
    <3> QED  BY <2>2, <3>1, BookAlone DEF resultVars, ResultInv
  <2>3. CASE D!MCNext /\ UNCHANGED <<vars, resultVars, input>>
    BY <2>2, <2>3 DEF D!MCNext
  <2> QED  BY <2>1, <2>2, <2>3 DEF MCNext
<1> QED  BY <1>1, <1>2, PTL DEF MCSpec

\* A confirmation sent again, late, or prepared again under its id is posted at
\* most once, for any number of requests, entries and reversals.
THEOREM ConfirmationPostedOnceHolds == MCSpec => []ConfirmationPostedOnce
<1>1. ResultInvScene => ConfirmationPostedOnce
  BY DEF ResultInvScene, ResultInv, ConfirmationPostedOnce
<1> QED  BY <1>1, ResultInvHolds, PTL

\* The entry posted moves the account by the amount the user was shown.
THEOREM PostedAsConfirmedHolds == MCSpec => []PostedAsConfirmed
<1>1. ResultInvScene => PostedAsConfirmed
  BY DEF ResultInvScene, ResultInv, PostedAsConfirmed
<1> QED  BY <1>1, ResultInvHolds, PTL

\* The balance sheet shows the result of the year, neither lost nor counted
\* twice, whatever was centralized, appropriated and reversed, in any order.
THEOREM PresentedResultHolds == MCSpec => []PresentedResult
<1>1. ResultInvScene => PresentedResult
  BY Presented DEF ResultInvScene, ResultInv, PresentedResult
<1> QED  BY <1>1, ResultInvHolds, PTL

\* A year prepared or closed has no draft, and its whole result is in equity.
THEOREM LockedYearCentralizedHolds == MCSpec => []LockedYearCentralized
<1>1. ResultInvScene => LockedYearCentralized
  BY Locked DEF ResultInvScene, ResultInv, LockedYearCentralized
<1> QED  BY <1>1, ResultInvHolds, PTL

-----------------------------------------------------------------------------
(* The fiscal engine, on every input *)

Years == 1..NumYears
Stock == [created : Int, used : Int, expired : Int]
Inputs == [margin : Int, depreciation : Int, additions : Int,
           carried : [Years -> Stock], losses : [Years -> Stock]]

LEMMA EngineSums ==
  ASSUME NEW f
  PROVE  /\ \A S : E!SumFunctionOnSet(f, S) = SumFunctionOnSet(f, S)
         /\ E!SumFunction(f) = SumFunctionOnSet(f, DOMAIN f)
<1>1. \A S : E!SumFunctionOnSet(f, S) = SumFunctionOnSet(f, S)
  BY Zenon DEF E!SumFunctionOnSet, E!FoldFunctionOnSet, E!MapThenFoldSet,
     SumFunctionOnSet, FoldFunctionOnSet, MapThenFoldSet
<1>2. E!SumFunction(f) = E!SumFunctionOnSet(f, DOMAIN f)
  BY Zenon DEF E!SumFunction, E!SumFunctionOnSet, E!FoldFunction
<1> QED  BY <1>1, <1>2

LEMMA ConsumeLeaves ==
  ASSUME NEW a, NEW b
  PROVE  E!Consume(a, b) =
           [o \in Years |-> Left(NumYears, a, b)[o - 1] - Left(NumYears, a, b)[o]]
  BY Zenon DEF E!Consume, E!Smaller, E!FYears, Years, Left, Leaves, Lesser

\* What a computation takes from stocks of which a is available, up to b.
LEMMA Consumes ==
  ASSUME NEW a \in [Years -> Nat], NEW b \in Nat
  PROVE  LET u == E!Consume(a, b) IN
         /\ SumFunctionOnSet(a, Years) \in Nat
         /\ E!SumFunction(u) = Lesser(SumFunctionOnSet(a, Years), b)
         /\ \A o \in Years : u[o] \in Nat /\ u[o] <= a[o]
         /\ \A o, p \in Years : o < p /\ u[p] > 0 => u[o] = a[o]
<1> DEFINE take(o) == Left(NumYears, a, b)[o - 1] - Left(NumYears, a, b)[o]
           u == E!Consume(a, b)
<1>1. u = [o \in Years |-> take(o)] /\ NumYears \in Nat
  BY ConsumeLeaves, EngineAssumption DEF E!EngineAssumption
<1>2. DOMAIN u = Years /\ \A o \in Years : u[o] = take(o)
  BY <1>1
<1> HIDE DEF u
<1>3. E!SumFunction(u) = SumFunctionOnSet(u, Years)
  BY <1>2, EngineSums
<1>4. /\ SumFunctionOnSet(a, Years) \in Nat
      /\ SumFunctionOnSet(u, Years) = Lesser(SumFunctionOnSet(a, Years), b)
  BY <1>1, <1>2, TakenTogether DEF Years
<1>5. ASSUME NEW o \in Years
      PROVE  /\ take(o) \in Nat /\ take(o) <= a[o]
             /\ take(o) > 0 => \A p \in 1..(o - 1) : take(p) = a[p]
  BY <1>1, TakenInTurn DEF Years
<1>6. \A o, p \in Years : o < p => o \in 1..(p - 1)
  BY DEF Years
<1> HIDE DEF take
<1> QED  BY <1>2, <1>3, <1>4, <1>5, <1>6 DEF u

\* The law, on the amounts a computation reads.
LEMMA RemainingIs ==
  ASSUME NEW s \in Stock
  PROVE  /\ E!Remaining(s) \in Nat
         /\ \A n \in Nat : n > 0 /\ n <= E!Remaining(s) => s.used + s.expired + n <= s.created
  BY DEF Stock, E!Remaining, E!Pos

LEMMA Lawful ==
  ASSUME input \in Inputs
  PROVE  E!AppliesTheLaw
<1> DEFINE m == input.margin
           d == input.depreciation
           a == input.additions
           A == E!AvailableOf(input.carried)
           V == E!LossesInside(NumYears, input.losses)
           open == {o \in Years : NumYears - o <= Horizon}
           stock == SumFunctionOnSet(A, Years)
           offered == SumFunctionOnSet(V, Years)
           capacity == E!Pos(m + a)
           current == E!Smaller(E!Pos(d), capacity)
           deductible == current + Lesser(stock, capacity - current)
           before == m - deductible + a
           used == Lesser(offered, E!Pos(before))
           result == before - used
           u == E!Consume(A, capacity - current)
           v == E!Consume(V, E!Pos(before))
<1>1. /\ m \in Int /\ d \in Int /\ a \in Int /\ NumYears \in Nat /\ Horizon \in Nat
      /\ \A o \in Years : input.carried[o] \in Stock /\ input.losses[o] \in Stock
      /\ IsFiniteSet(Years) /\ E!FYears = Years
  BY EngineAssumption, FS_Interval DEF E!EngineAssumption, Inputs, Years, E!FYears
<1>2. /\ A \in [Years -> Nat] /\ V \in [Years -> Nat]
      /\ \A o \in Years :
           /\ A[o] = E!Remaining(input.carried[o])
           /\ V[o] = IF o \in open THEN E!Remaining(input.losses[o]) ELSE 0
           /\ o \in open => E!AvailableOf(input.losses)[o] = V[o]
           /\ E!Expiries(NumYears, input.losses)[o]
                = IF o \in open THEN 0 ELSE E!Remaining(input.losses[o])
  BY <1>1, RemainingIs DEF E!AvailableOf, E!LossesInside, E!InsideHorizon, E!Expiries,
     Years
<1>3. E!SumFunction(A) = stock
  BY <1>1, EngineSums DEF E!AvailableOf
<1>4. E!SumFunctionOnSet(E!AvailableOf(input.losses), open) = offered
  <2> HIDE DEF V
  <2>1. open \in SUBSET Years /\ IsFiniteSet(open) /\ IsFiniteSet(Years \ open)
    BY <1>1, FS_Subset
  <2>2. SumFunctionOnSet(V, Years)
          = SumFunctionOnSet(V, open) + SumFunctionOnSet(V, Years \ open)
    <3>1. \A o \in Years : V[o] \in Int
      BY <1>2
    <3> QED  BY <1>1, <2>1, <3>1, SumSplit
  <2>3. SumFunctionOnSet(V, Years \ open) = 0
    <3>1. \A o \in Years \ open : V[o] = 0
      BY <1>2
    <3> QED  BY <2>1, <3>1, SumZero
  <2>4. SumFunctionOnSet(V, open) = SumFunctionOnSet(E!AvailableOf(input.losses), open)
    <3>1. \A o \in open : V[o] = E!AvailableOf(input.losses)[o]
      BY <1>2
    <3> QED  BY <2>1, <3>1, SumSame
  <2>5. SumFunctionOnSet(V, open) \in Int
    <3>1. \A o \in open : V[o] \in Int
      BY <1>2
    <3> QED  BY <2>1, <3>1, SumInt
  <2> QED  BY <2>2, <2>3, <2>4, <2>5, EngineSums
<1>5. stock \in Nat /\ offered \in Nat
  BY <1>2, Consumes
<1> HIDE DEF m, d, a, A, V, stock, offered, open
<1>6. /\ capacity - current \in Nat /\ E!Pos(before) \in Nat
      /\ deductible = E!Smaller(E!Pos(d) + stock, E!Pos(m + a))
      /\ E!Pos(-result) = E!Pos(-(m + a))
      /\ E!Pos(d) - current = E!Pos(E!Pos(d) - E!Pos(m + a))
      /\ used = E!Smaller(offered, E!Pos(result + used))
  <2>1. m \in Int /\ d \in Int /\ a \in Int
    BY <1>1
  <2>2. /\ capacity = E!Pos(m + a)
        /\ current = E!Smaller(E!Pos(d), capacity)
        /\ deductible = current + Lesser(stock, capacity - current)
        /\ before = m - deductible + a
        /\ used = Lesser(offered, E!Pos(before))
        /\ result = before - used
    OBVIOUS
  <2> HIDE DEF capacity, current, deductible, before, used, result
  <2> HIDE DEF u, v
  <2> QED  BY <2>1, <2>2, <1>5 DEF E!Pos, E!Smaller, Lesser
<1> HIDE DEF capacity, current
<1>7. /\ E!SumFunction(u) = Lesser(stock, capacity - current)
      /\ \A o \in Years : u[o] \in Nat /\ u[o] <= A[o]
      /\ \A o, p \in Years : o < p /\ u[p] > 0 => u[o] = A[o]
  BY <1>2, <1>6, Consumes DEF stock
<1> HIDE DEF deductible
<1> HIDE DEF before
<1>8. /\ E!SumFunction(v) = used
      /\ \A o \in Years : v[o] \in Nat /\ v[o] <= V[o]
      /\ \A o, p \in Years : o < p /\ v[p] > 0 => v[o] = V[o]
  BY <1>2, <1>6, Consumes DEF offered
<1>9. E!Split = [deductible |-> deductible, unused |-> E!Pos(d) - current,
                 depreciationUses |-> u, lossUses |-> v,
                 lossExpiries |-> E!Expiries(NumYears, input.losses),
                 fiscalResult |-> result, taxLoss |-> E!Pos(-result)]
  BY <1>7, <1>8 DEF E!Split, E!Apply, E!Year, m, d, a, A, V, capacity, current,
     deductible, before
<1> HIDE DEF u, v, used, result
<1>10. E!DepreciationCapped
  BY <1>3, <1>6, <1>9 DEF E!DepreciationCapped, m, d, a, A
<1>11. E!LossesAbsorbWithinHorizon
  <2>1. \A o \in Years : o \notin open => v[o] = 0
    BY <1>2, <1>8
  <2>2. open = {o \in E!FYears : E!Year - o <= Horizon}
    BY <1>1 DEF open, E!Year
  <2> QED  BY <1>1, <1>2, <1>4, <1>6, <1>8, <1>9, <2>1, <2>2
              DEF E!LossesAbsorbWithinHorizon
<1>12. E!StocksNeverOverdrawn
  <2>1. ASSUME NEW o \in Years, NEW s \in Stock, NEW n \in Nat, n <= E!Remaining(s), n > 0
        PROVE  s.used + s.expired + n <= s.created
    BY <2>1, RemainingIs
  <2>2. \A o \in Years : u[o] \in Nat /\ u[o] <= E!Remaining(input.carried[o])
    BY <1>2, <1>7
  <2>3. \A o \in Years :
          LET n == v[o] + E!Expiries(NumYears, input.losses)[o]
          IN  n \in Nat /\ n <= E!Remaining(input.losses[o])
    <3> TAKE o \in Years
    <3>1. E!Remaining(input.losses[o]) \in Nat
      BY <1>1, RemainingIs
    <3> QED  BY <1>2, <1>8, <3>1
  <2> QED  BY <1>1, <1>9, <2>1, <2>2, <2>3 DEF E!StocksNeverOverdrawn
<1>13. E!OldestFirst
  BY <1>1, <1>2, <1>7, <1>8, <1>9 DEF E!OldestFirst, E!Year, open
<1> QED  BY <1>10, <1>11, <1>12, <1>13 DEF E!AppliesTheLaw

\* Every input drawn is one of those.
LEMMA InputsDrawn ==
  /\ E!Init => input \in Inputs
  /\ E!Next => input' \in Inputs
<1>1. E!NoStock \in Stock /\ E!NoInput \in Inputs
  BY DEF E!NoInput, E!NoStock, E!FYears, Inputs, Stock, Years
<1>2. E!Stocks \subseteq Stock
  BY EngineAssumption DEF E!BoundsAssumption, E!Stocks, Stock
<1>3. E!OnlyPrior(E!Stocks) \subseteq [Years -> Stock]
  BY <1>1, <1>2 DEF E!OnlyPrior, E!FYears, Years
<1>4. ASSUME NEW m \in Int, NEW d \in Int, NEW a \in Int, NEW s \in [Years -> Stock]
      PROVE  /\ [E!NoInput EXCEPT !.margin = m, !.depreciation = d,
                                  !.additions = a, !.carried = s] \in Inputs
             /\ [E!NoInput EXCEPT !.margin = m, !.depreciation = d, !.losses = s] \in Inputs
  BY <1>1 DEF Inputs
<1>5. /\ -MaxAmount..MaxAmount \subseteq Int /\ -1..MaxAmount \subseteq Int
      /\ 0..MaxAdditions \subseteq Int /\ 0..1 \subseteq Int /\ 0 \in Int
  BY EngineAssumption DEF E!BoundsAssumption
<1>6. ASSUME E!DrawDepreciations PROVE input' \in Inputs
  <2>1. PICK m \in -MaxAmount..MaxAmount, d \in -1..MaxAmount, a \in 0..MaxAdditions,
             s \in E!OnlyPrior(E!Stocks) :
          input' = [E!NoInput EXCEPT !.margin = m, !.depreciation = d,
                                     !.additions = a, !.carried = s]
    BY <1>6, Zenon DEF E!DrawDepreciations
  <2>2. m \in Int /\ d \in Int /\ a \in Int /\ s \in [Years -> Stock]
    BY <1>3, <1>5
  <2> QED  BY <1>4, <2>1, <2>2, Zenon
<1>7. ASSUME E!DrawLosses PROVE input' \in Inputs
  <2>1. PICK m \in -MaxAmount..MaxAmount, d \in 0..1, s \in E!OnlyPrior(E!Stocks) :
          input' = [E!NoInput EXCEPT !.margin = m, !.depreciation = d, !.losses = s]
    BY <1>7, Zenon DEF E!DrawLosses
  <2>2. m \in Int /\ d \in Int /\ s \in [Years -> Stock]
    BY <1>3, <1>5
  <2> QED  BY <1>4, <1>5, <2>1, <2>2, Zenon
<1> QED
  BY <1>1, <1>6, <1>7 DEF E!Init, E!Next, E!Restart

\* What a computation deducts is what the law allows, neither more nor less, and
\* what it draws on the registers is theirs to give, oldest first: for any
\* amounts, stocks, number of years and horizon.
THEOREM AppliesTheLawHolds == MCSpec => []AppliesTheLaw
<1>1. MCInit => input \in Inputs
  BY InputsDrawn DEF MCInit
<1>2. input \in Inputs /\ [MCNext]_<<vars, assetVars, resultVars, input, scene>>
        => (input \in Inputs)'
  BY InputsDrawn DEF MCNext
<1>3. input \in Inputs => AppliesTheLaw
  BY Lawful DEF AppliesTheLaw
<1> QED  BY <1>1, <1>2, <1>3, PTL DEF MCSpec
-----------------------------------------------------------------------------
(* Depreciation, by the invariant of its own module.  Assets is the instance   *)
(* of its proofs: its definitions are those of the instance D that is run.     *)

Assets == INSTANCE DepreciationProofs WITH Years <- AssetYears, status <- assetYearStatus

USE DEF D!books, Assets!books, D!PartSet, Assets!PartSet, D!ChairSet, Assets!ChairSet,
        D!RowSet, Assets!RowSet, D!Registered, Assets!Registered, D!ValueOf, Assets!ValueOf,
        D!Components, Assets!Components, D!Decomposed, Assets!Decomposed,
        D!Targets, Assets!Targets, D!PlanOf, Assets!PlanOf, D!YearFrom, Assets!YearFrom,
        D!YearTo, Assets!YearTo, D!EndOf, Assets!EndOf, D!From, Assets!From, D!To, Assets!To,
        D!MaxOf, Assets!MaxOf, D!MinOf, Assets!MinOf, D!Covers, Assets!Covers,
        D!Accrued, Assets!Accrued, D!Dotation, Assets!Dotation,
        D!Calculated, Assets!Calculated, D!Posted, Assets!Posted, D!Lots, Assets!Lots,
        D!OnlyRegister, Assets!OnlyRegister, D!RegisterGross, Assets!RegisterGross,
        D!IsFiniteSet, Assets!IsFiniteSet, D!Cardinality, Assets!Cardinality,
        D!Range, Assets!Range, D!Max, Assets!Max, D!SumFunction, Assets!SumFunction,
        D!SumFunctionOnSet, Assets!SumFunctionOnSet,
        D!FoldFunctionOnSet, Assets!FoldFunctionOnSet,
        D!MapThenFoldSet, Assets!MapThenFoldSet, D!IsInjective, Assets!IsInjective

LEMMA SameAssumption == Assets!DepreciationAssumption
  BY AssetAssumption, Zenon DEF D!DepreciationAssumption, Assets!DepreciationAssumption

LEMMA SameInit == D!Init <=> Assets!Init
  BY Zenon DEF D!Init, Assets!Init

LEMMA SameDwelling == D!Dwelling <=> Assets!Dwelling
<1>1. ASSUME NEW f PROVE D!SumFunction(f) = Assets!SumFunction(f)
  BY Zenon
<1>2. ASSUME NEW price, NEW n
      PROVE  D!Share(price, n) = Assets!Share(price, n)
  <2> DEFINE floor == [k \in DOMAIN Parts |-> (price * Shares[k]) \div 10000]
  <2> HIDE DEF D!SumFunction, Assets!SumFunction
  <2>1. D!SumFunction(floor) = Assets!SumFunction(floor)
    BY <1>1
  <2> QED  BY <2>1, SMT DEF D!Share, Assets!Share
<1>3. ASSUME NEW start
      PROVE  D!InstallDwelling(start) <=> Assets!InstallDwelling(start)
  BY <1>2, Zenon DEF D!InstallDwelling, Assets!InstallDwelling, D!Created, Assets!Created
<1> QED
  BY <1>3, Zenon DEF D!Dwelling, Assets!Dwelling, D!PreviewDwelling, Assets!PreviewDwelling,
                     D!CorrectProperty, Assets!CorrectProperty

LEMMA SameCreate ==
  ASSUME NEW r, NEW plan
  PROVE  /\ D!CreateAsset(r, plan) <=> Assets!CreateAsset(r, plan)
         /\ D!CreateComponent(r, plan) <=> Assets!CreateComponent(r, plan)
  BY Zenon DEF D!CreateAsset, Assets!CreateAsset, D!Created, Assets!Created,
               D!CreateComponent, Assets!CreateComponent

LEMMA SameCorrections ==
  (D!CorrectRow <=> Assets!CorrectRow) /\ (D!Rename <=> Assets!Rename)
<1>1. ASSUME NEW r PROVE D!Locks(r) = Assets!Locks(r)
  BY Zenon DEF D!Locks, Assets!Locks, D!ClosedCapBlocks, Assets!ClosedCapBlocks
<1>2. ASSUME NEW rows PROVE D!Consistent(rows) <=> Assets!Consistent(rows)
  BY Zenon DEF D!Consistent, Assets!Consistent
<1>3. ASSUME NEW r, NEW plan PROVE D!Correct(r, plan) <=> Assets!Correct(r, plan)
  BY <1>1, <1>2, Zenon DEF D!Correct, Assets!Correct, D!Released, Assets!Released,
                           D!InvalidateOpen, Assets!InvalidateOpen
<1> QED
  BY <1>3, Zenon DEF D!CorrectRow, Assets!CorrectRow, D!Rename, Assets!Rename

LEMMA SameCalculate == D!Calculate <=> Assets!Calculate
<1>1. ASSUME NEW y PROVE D!CalculateYear(y) <=> Assets!CalculateYear(y)
  BY Zenon DEF D!CalculateYear, Assets!CalculateYear, D!PlanComplete, Assets!PlanComplete,
               D!NewPeriod, Assets!NewPeriod, D!LastId, Assets!LastId,
               D!Before, Assets!Before
<1> QED  BY <1>1, Zenon DEF D!Calculate, Assets!Calculate

LEMMA SamePosting == D!PostDotations <=> Assets!PostDotations
<1>1. ASSUME NEW lot, NEW accepted
      PROVE  D!Post(lot, accepted) <=> Assets!Post(lot, accepted)
  BY Zenon DEF D!Post, Assets!Post, D!EntryFor, Assets!EntryFor, D!PeriodOf, Assets!PeriodOf
<1>2. ASSUME NEW p PROVE D!Postable(p) <=> Assets!Postable(p)
  BY Zenon DEF D!Postable, Assets!Postable
<1>3. ASSUME NEW id PROVE D!PostPeriod(id) <=> Assets!PostPeriod(id)
  BY <1>1, <1>2, Zenon DEF D!PostPeriod, Assets!PostPeriod
<1>4. ASSUME NEW key, NEW y, NEW lot
      PROVE  D!PostBatch(key, y, lot) <=> Assets!PostBatch(key, y, lot)
  BY Zenon DEF D!PostBatch, Assets!PostBatch, D!Accepted, Assets!Accepted,
               D!Postable, Assets!Postable, D!Stored, Assets!Stored, D!Post, Assets!Post,
               D!EntryFor, Assets!EntryFor, D!PeriodOf, Assets!PeriodOf
<1> QED  BY <1>3, <1>4, Zenon DEF D!PostDotations, Assets!PostDotations

LEMMA SameBook == D!Book <=> Assets!Book
  BY Zenon DEF D!Book, Assets!Book, D!EnterProperty, Assets!EnterProperty,
               D!PostGross, Assets!PostGross, D!ReverseProperty, Assets!ReverseProperty,
               D!Move, Assets!Move

LEMMA SameYearSteps == D!YearSteps <=> Assets!YearSteps
<1>1. ASSUME NEW y PROVE D!PrecheckPasses(y) <=> Assets!PrecheckPasses(y)
  BY Zenon DEF D!PrecheckPasses, Assets!PrecheckPasses, D!Pending, Assets!Pending,
               D!LedgerOf, Assets!LedgerOf
<1>2. ASSUME NEW y PROVE D!ComputeFiscal(y) <=> Assets!ComputeFiscal(y)
  BY Zenon DEF D!ComputeFiscal, Assets!ComputeFiscal, D!LedgerOf, Assets!LedgerOf
<1> QED
  BY <1>1, <1>2, Zenon DEF D!YearSteps, Assets!YearSteps, D!SetStatus, Assets!SetStatus,
     D!MarkReady, Assets!MarkReady, D!CloseYear, Assets!CloseYear,
     D!ReopenYear, Assets!ReopenYear

\* Every scene is made of steps of Depreciation.
LEMMA SceneSteps == D!MCNext => Assets!Next
  BY SameDwelling, SameCreate, SameCorrections, SameCalculate, SamePosting, SameBook,
     SameYearSteps, Zenon
     DEF D!MCNext, D!SplitDwelling, D!BuildingByParts, D!OneAsset, Assets!Next, Assets!Create

LEMMA SameProperties ==
  /\ Assets!BooksFollowRegister => D!BooksFollowRegister
  /\ Assets!DotationOnce => D!DotationOnce
  /\ Assets!WholePlanDepreciated => D!WholePlanDepreciated
<1>1. Assets!BooksFollowRegister => D!BooksFollowRegister
  BY Zenon DEF D!BooksFollowRegister, Assets!BooksFollowRegister
<1>2. Assets!DotationOnce => D!DotationOnce
  BY Zenon DEF D!DotationOnce, Assets!DotationOnce
<1>3. Assets!WholePlanDepreciated => D!WholePlanDepreciated
  BY Zenon DEF D!WholePlanDepreciated, Assets!WholePlanDepreciated
<1> QED  BY <1>1, <1>2, <1>3

HIDE DEF D!books, Assets!books, D!PartSet, Assets!PartSet, D!ChairSet, Assets!ChairSet,
        D!RowSet, Assets!RowSet, D!Registered, Assets!Registered, D!ValueOf, Assets!ValueOf,
        D!Components, Assets!Components, D!Decomposed, Assets!Decomposed,
        D!Targets, Assets!Targets, D!PlanOf, Assets!PlanOf, D!YearFrom, Assets!YearFrom,
        D!YearTo, Assets!YearTo, D!EndOf, Assets!EndOf, D!From, Assets!From, D!To, Assets!To,
        D!MaxOf, Assets!MaxOf, D!MinOf, Assets!MinOf, D!Covers, Assets!Covers,
        D!Accrued, Assets!Accrued, D!Dotation, Assets!Dotation,
        D!Calculated, Assets!Calculated, D!Posted, Assets!Posted, D!Lots, Assets!Lots,
        D!OnlyRegister, Assets!OnlyRegister, D!RegisterGross, Assets!RegisterGross,
        D!IsFiniteSet, Assets!IsFiniteSet, D!Cardinality, Assets!Cardinality,
        D!Range, Assets!Range, D!Max, Assets!Max, D!SumFunction, Assets!SumFunction,
        D!SumFunctionOnSet, Assets!SumFunctionOnSet,
        D!FoldFunctionOnSet, Assets!FoldFunctionOnSet,
        D!MapThenFoldSet, Assets!MapThenFoldSet, D!IsInjective, Assets!IsInjective

AssetInvScene == scene \in AssetScenes => Assets!AssetInv

\* A step of the run is one of an asset scene, or leaves the assets alone.
LEMMA AssetSteps ==
  ASSUME [MCNext]_<<vars, assetVars, resultVars, input, scene>>
  PROVE  /\ UNCHANGED scene
         /\ \/ scene \in AssetScenes /\ Assets!Next
            \/ UNCHANGED assetVars
  BY SceneSteps DEF MCNext, D!MCNext, AssetScenes

LEMMA AssetInvSceneHolds == MCSpec => []AssetInvScene
<1>1. MCInit => AssetInvScene
  <2>1. D!MCInit => Assets!AssetInv
    BY SameAssumption, SameInit, Assets!Initially DEF D!MCInit
  <2> QED  BY <2>1 DEF MCInit, AssetInvScene, AssetScenes
<1>2. AssetInvScene /\ [MCNext]_<<vars, assetVars, resultVars, input, scene>>
        => AssetInvScene'
  <2> SUFFICES ASSUME AssetInvScene, [MCNext]_<<vars, assetVars, resultVars, input, scene>>,
                      scene' \in AssetScenes
               PROVE  Assets!AssetInv'
    BY DEF AssetInvScene, AssetScenes
  <2>1. Assets!AssetInv
    BY AssetSteps DEF AssetInvScene
  <2>2. CASE Assets!Next
    BY <2>1, <2>2, SameAssumption, Assets!StepInv
  <2>3. CASE UNCHANGED assetVars
    BY <2>1, <2>3, Assets!StutterInv DEF assetVars, Assets!vars
  <2> QED  BY <2>2, <2>3, AssetSteps
<1> QED  BY <1>1, <1>2, PTL DEF MCSpec

\* What was calculated or posted is what the register gives for that year, for
\* any assets, plans and exercises: no correction, split or posting leaves a
\* schedule, a period or an entry behind.
THEOREM BooksFollowRegisterHolds == MCSpec => []BooksFollowRegister
<1>1. AssetInvScene => BooksFollowRegister
  BY SameAssumption, SameProperties, Assets!BooksFollow DEF AssetInvScene, BooksFollowRegister
<1> QED  BY <1>1, AssetInvSceneHolds, PTL

\* A dotation is posted once, for any lots, keys and orders of posting: every
\* entry is that of one period, and what a report announced still stands.
THEOREM DotationOnceHolds == MCSpec => []DotationOnce
<1>1. AssetInvScene => DotationOnce
  BY SameAssumption, SameProperties, Assets!PostedOnce DEF AssetInvScene, DotationOnce
<1> QED  BY <1>1, AssetInvSceneHolds, PTL

\* The periods of a plan never depreciate more than its base, and exactly the
\* base once there is one for each of its years, all of them exercises: for any
\* value, life and start, any length of the exercises and any number of them.
THEOREM WholePlanDepreciatedHolds == MCSpec => []WholePlanDepreciated
<1>1. AssetInvScene => WholePlanDepreciated
  BY SameAssumption, SameProperties, Assets!PlanDepreciated
     DEF AssetInvScene, WholePlanDepreciated
<1> QED  BY <1>1, AssetInvSceneHolds, PTL

\* A stored report is never changed or taken back, whatever is sent again.
THEOREM ReportStandsHolds == MCSpec => ReportStands
<1>1. AssetInvScene /\ [MCNext]_<<vars, assetVars, resultVars, input, scene>>
        => [\A key \in Keys : reports[key] # None => reports'[key] = reports[key]]_(D!vars)
  <2> SUFFICES ASSUME AssetInvScene, [MCNext]_<<vars, assetVars, resultVars, input, scene>>,
                      NEW key \in Keys, reports[key] # None, ~ UNCHANGED D!vars
               PROVE  reports'[key] = reports[key]
    OBVIOUS
  <2>1. Assets!AssetInv /\ Assets!Next
    BY AssetSteps DEF AssetInvScene, assetVars, D!vars
  <2> QED  BY <2>1, Assets!ReportsKept
<1> QED  BY <1>1, AssetInvSceneHolds, PTL DEF ReportStands, D!ReportStands, MCSpec
=============================================================================
