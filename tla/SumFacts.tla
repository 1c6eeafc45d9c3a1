------------------------------ MODULE SumFacts -------------------------------
(***************************************************************************)
(* Induction over natural numbers and finite sets, by way of a smallest    *)
(* counterexample, and what it gives for the sums of the community modules *)
(* (SumFunctionOnSet): the balances of accounts, the settlements of an     *)
(* operation, the stock of a year are such sums.                           *)
(***************************************************************************)
EXTENDS Integers, Functions, FiniteSetTheorems, TLAPS

-----------------------------------------------------------------------------
(* Smallest counterexamples *)

\* A nonempty set of natural numbers has a least element.
LEMMA LeastNat ==
  ASSUME NEW T \in SUBSET Nat, T # {}
  PROVE  \E n \in T : \A m \in T : n <= m
<1>1. IsWellFoundedOn({ss \in Nat \X Nat : ss[1] < ss[2]}, Nat)
  BY NatLessThanWellFounded DEF OpToRel
<1>2. PICK n \in T : \A m \in T : <<m, n>> \notin {ss \in Nat \X Nat : ss[1] < ss[2]}
  BY <1>1, WFMin, Zenon
<1>3. \A m \in T : n <= m
  <2> TAKE m \in T
  <2>1. <<m, n>> \in Nat \X Nat
    OBVIOUS
  <2>2. ~ (<<m, n>>[1] < <<m, n>>[2])
    BY <1>2, <2>1
  <2> QED  BY <2>2
<1> QED  BY <1>3

\* A nonempty family of subsets of a finite set has a minimal one.
LEMMA MinimalSubset ==
  ASSUME NEW S, IsFiniteSet(S), NEW T \in SUBSET SUBSET S, T # {}
  PROVE  \E U \in T : \A V \in T : V \subseteq U => V = U
<1>1. IsWellFoundedOn(StrictSubsetOrdering(S), SUBSET S)
  BY FS_StrictSubsetOrderingWellFounded, FS_FiniteSubsetsOfFinite
<1>2. \E x \in T : \A y \in T : <<y, x>> \notin StrictSubsetOrdering(S)
  BY <1>1, WFMin
<1> QED  BY <1>2 DEF StrictSubsetOrdering

-----------------------------------------------------------------------------
(* The recursion of SumFunctionOnSet *)

Pick(S) == CHOOSE x \in S : TRUE

\* g adds up f over every subset of S.
Adds(g, f, S) ==
  g = [s \in SUBSET S |-> IF s = {} THEN 0 ELSE f[Pick(s)] + g[s \ {Pick(s)}]]

LEMMA PickIn == ASSUME NEW S, S # {} PROVE Pick(S) \in S
  BY DEF Pick

LEMMA SumIsChosen ==
  ASSUME NEW f, NEW S
  PROVE  SumFunctionOnSet(f, S) = (CHOOSE g : Adds(g, f, S))[S]
  BY Zenon DEF Adds, Pick, SumFunctionOnSet, FoldFunctionOnSet, MapThenFoldSet

LEMMA AddsAt ==
  ASSUME NEW f, NEW S, NEW g, Adds(g, f, S), NEW U \in SUBSET S
  PROVE  g[U] = IF U = {} THEN 0 ELSE f[Pick(U)] + g[U \ {Pick(U)}]
<1> DEFINE e(s) == IF s = {} THEN 0 ELSE f[Pick(s)] + g[s \ {Pick(s)}]
<1>1. g = [s \in SUBSET S |-> e(s)]
  BY DEF Adds
<1> HIDE DEF e
<1>2. g[U] = e(U)
  BY <1>1
<1> QED  BY <1>2 DEF e

LEMMA AddsUnique ==
  ASSUME NEW f, NEW S, IsFiniteSet(S), NEW T, NEW g, NEW h,
         Adds(g, f, S), Adds(h, f, T), NEW W \in SUBSET S, W \subseteq T
  PROVE  g[W] = h[W]
<1> DEFINE Bad == {U \in SUBSET S : U \subseteq T /\ g[U] # h[U]}
<1> SUFFICES ASSUME Bad # {} PROVE FALSE
  OBVIOUS
<1>1. Bad \in SUBSET SUBSET S
  OBVIOUS
<1>2. PICK U \in Bad : \A V \in Bad : V \subseteq U => V = U
  <2> HIDE DEF Bad
  <2> QED  BY <1>1, MinimalSubset
<1>3. U \in SUBSET S /\ U \in SUBSET T /\ g[U] # h[U]
  OBVIOUS
<1>4. U # {}
  BY <1>3, AddsAt
<1>5. Pick(U) \in U
  BY <1>4, PickIn
<1>6. g[U \ {Pick(U)}] = h[U \ {Pick(U)}]
  BY <1>2, <1>3, <1>5
<1> HIDE DEF Bad
<1>7. g[U] = f[Pick(U)] + g[U \ {Pick(U)}]
  BY <1>3, <1>4, AddsAt
<1>8. h[U] = f[Pick(U)] + h[U \ {Pick(U)}]
  BY <1>3, <1>4, AddsAt
<1> QED  BY <1>3, <1>6, <1>7, <1>8

\* One step of the recursion, where it is known to be defined.
LEMMA SumStep ==
  ASSUME NEW f, NEW S, IsFiniteSet(S), S # {},
         \E g : Adds(g, f, S), \E g : Adds(g, f, S \ {Pick(S)})
  PROVE  SumFunctionOnSet(f, S) = f[Pick(S)] + SumFunctionOnSet(f, S \ {Pick(S)})
<1> DEFINE R == S \ {Pick(S)}
           g == CHOOSE a : Adds(a, f, S)
           h == CHOOSE a : Adds(a, f, R)
<1>1. Adds(g, f, S) /\ Adds(h, f, R)
  BY Zenon
<1>2. SumFunctionOnSet(f, S) = g[S] /\ SumFunctionOnSet(f, R) = h[R]
  BY SumIsChosen
<1> HIDE DEF g, h
<1>3. g[S] = f[Pick(S)] + g[R]
  BY <1>1, AddsAt
<1>4. g[R] = h[R]
  BY <1>1, AddsUnique
<1> QED  BY <1>2, <1>3, <1>4

LEMMA SumOfNone ==
  ASSUME NEW f
  PROVE  SumFunctionOnSet(f, {}) = 0 /\ \E g : Adds(g, f, {})
<1> DEFINE zero == [s \in SUBSET {} |-> 0]
           g == CHOOSE a : Adds(a, f, {})
<1>1. \A s \in SUBSET {} : s = {}
  OBVIOUS
<1>2. Adds(zero, f, {})
  BY <1>1 DEF Adds
<1>3. Adds(g, f, {})
  BY <1>2, Zenon
<1>4. SumFunctionOnSet(f, {}) = g[{}]
  BY SumIsChosen
<1> HIDE DEF g
<1>5. g[{}] = 0
  BY <1>3, AddsAt
<1> QED  BY <1>2, <1>4, <1>5, Zenon

LEMMA AddsExists ==
  ASSUME NEW f, NEW S, IsFiniteSet(S)
  PROVE  \E g : Adds(g, f, S)
<1> DEFINE Bad == {U \in SUBSET S : ~ \E g : Adds(g, f, U)}
<1> SUFFICES ASSUME Bad # {} PROVE FALSE
  OBVIOUS
<1>1. Bad \in SUBSET SUBSET S
  OBVIOUS
<1>2. PICK U \in Bad : \A V \in Bad : V \subseteq U => V = U
  <2> HIDE DEF Bad
  <2> QED  BY <1>1, MinimalSubset
<1>3. U \in SUBSET S /\ ~ \E g : Adds(g, f, U)
  OBVIOUS
<1>4. \A V \in SUBSET U : V # U => \E g : Adds(g, f, V)
  BY <1>2, <1>3, Zenon
<1> DEFINE e(s) == IF s = {} THEN 0 ELSE f[Pick(s)] + SumFunctionOnSet(f, s \ {Pick(s)})
           g == [s \in SUBSET U |-> e(s)]
<1>5. \A V \in SUBSET U : V # U => g[V] = SumFunctionOnSet(f, V)
  <2> TAKE V \in SUBSET U
  <2> HAVE V # U
  <2>1. CASE V = {}
    BY <2>1, SumOfNone
  <2>2. CASE V # {}
    <3>1. Pick(V) \in V
      BY <2>2, PickIn
    <3>2. IsFiniteSet(V)
      BY <1>3, FS_Subset
    <3>3. V \ {Pick(V)} \in SUBSET U /\ V \ {Pick(V)} # U
      BY <3>1
    <3>4. SumFunctionOnSet(f, V) = f[Pick(V)] + SumFunctionOnSet(f, V \ {Pick(V)})
      BY <1>4, <2>2, <3>2, <3>3, SumStep
    <3> QED  BY <2>2, <3>4
  <2> QED  BY <2>1, <2>2
<1>6. \A s \in SUBSET U : e(s) = IF s = {} THEN 0 ELSE f[Pick(s)] + g[s \ {Pick(s)}]
  <2> TAKE s \in SUBSET U
  <2>1. s # {} => Pick(s) \in s
    BY PickIn
  <2>2. s # {} => g[s \ {Pick(s)}] = SumFunctionOnSet(f, s \ {Pick(s)})
    <3> HIDE DEF g
    <3> QED  BY <1>5, <2>1
  <2> HIDE DEF g
  <2> QED  BY <2>2
<1>7. Adds(g, f, U)
  <2>1. g = [s \in SUBSET U |-> e(s)]
    OBVIOUS
  <2> HIDE DEF g, e
  <2>2. g = [s \in SUBSET U |-> IF s = {} THEN 0 ELSE f[Pick(s)] + g[s \ {Pick(s)}]]
    BY <1>6, <2>1
  <2> QED  BY <2>2 DEF Adds
<1> HIDE DEF g
<1> QED  BY <1>3, <1>7, Zenon

\* The recursion itself.
LEMMA SumRecursion ==
  ASSUME NEW f, NEW S, IsFiniteSet(S), S # {}
  PROVE  /\ Pick(S) \in S
         /\ SumFunctionOnSet(f, S) = f[Pick(S)] + SumFunctionOnSet(f, S \ {Pick(S)})
<1>1. IsFiniteSet(S \ {Pick(S)})
  BY FS_RemoveElement
<1> QED  BY <1>1, AddsExists, SumStep, PickIn

-----------------------------------------------------------------------------
(* What sums of integers are *)

LEMMA SumInt ==
  ASSUME NEW f, NEW S, IsFiniteSet(S), \A x \in S : f[x] \in Int
  PROVE  SumFunctionOnSet(f, S) \in Int
<1> DEFINE Bad == {U \in SUBSET S : SumFunctionOnSet(f, U) \notin Int}
<1> SUFFICES ASSUME Bad # {} PROVE FALSE
  OBVIOUS
<1>1. Bad \in SUBSET SUBSET S
  OBVIOUS
<1>2. PICK U \in Bad : \A V \in Bad : V \subseteq U => V = U
  <2> HIDE DEF Bad
  <2> QED  BY <1>1, MinimalSubset
<1>3. U \in SUBSET S /\ SumFunctionOnSet(f, U) \notin Int
  OBVIOUS
<1>4. U # {}
  BY <1>3, SumOfNone
<1>5. IsFiniteSet(U)
  BY <1>3, FS_Subset
<1>6. /\ Pick(U) \in U
      /\ SumFunctionOnSet(f, U) = f[Pick(U)] + SumFunctionOnSet(f, U \ {Pick(U)})
  BY <1>4, <1>5, SumRecursion
<1>7. SumFunctionOnSet(f, U \ {Pick(U)}) \in Int
  BY <1>2, <1>3, <1>6
<1> QED  BY <1>3, <1>6, <1>7

\* Any element can be taken out first.
LEMMA SumRemove ==
  ASSUME NEW f, NEW S, IsFiniteSet(S), \A x \in S : f[x] \in Int, NEW y \in S
  PROVE  SumFunctionOnSet(f, S) = f[y] + SumFunctionOnSet(f, S \ {y})
<1> DEFINE Bad == {U \in SUBSET S : \E x \in U :
                     SumFunctionOnSet(f, U) # f[x] + SumFunctionOnSet(f, U \ {x})}
<1> SUFFICES ASSUME Bad # {} PROVE FALSE
  OBVIOUS
<1>1. Bad \in SUBSET SUBSET S
  OBVIOUS
<1>2. PICK U \in Bad : \A V \in Bad : V \subseteq U => V = U
  <2> HIDE DEF Bad
  <2> QED  BY <1>1, MinimalSubset
<1>3. PICK x \in U : SumFunctionOnSet(f, U) # f[x] + SumFunctionOnSet(f, U \ {x})
  OBVIOUS
<1>4. U \in SUBSET S /\ IsFiniteSet(U) /\ U # {}
  BY <1>3, FS_Subset
<1> DEFINE p == Pick(U)
<1>5. p \in U /\ SumFunctionOnSet(f, U) = f[p] + SumFunctionOnSet(f, U \ {p})
  BY <1>4, SumRecursion
<1> HIDE DEF p
<1>6. x # p
  BY <1>3, <1>5
<1>7. U \ {p} \notin Bad /\ U \ {x} \notin Bad
  BY <1>2, <1>3, <1>5, Zenon
<1>8. SumFunctionOnSet(f, U \ {p}) = f[x] + SumFunctionOnSet(f, (U \ {p}) \ {x})
  BY <1>4, <1>6, <1>7, <1>3
<1>9. SumFunctionOnSet(f, U \ {x}) = f[p] + SumFunctionOnSet(f, (U \ {p}) \ {x})
  <2>1. SumFunctionOnSet(f, U \ {x}) = f[p] + SumFunctionOnSet(f, (U \ {x}) \ {p})
    BY <1>4, <1>5, <1>6, <1>7
  <2>2. (U \ {p}) \ {x} = (U \ {x}) \ {p}
    OBVIOUS
  <2> QED  BY <2>1, <2>2
<1>10. IsFiniteSet((U \ {p}) \ {x})
  BY <1>4, FS_RemoveElement
<1>11. f[x] \in Int /\ f[p] \in Int
  BY <1>3, <1>4, <1>5
<1>12. SumFunctionOnSet(f, (U \ {p}) \ {x}) \in Int
  BY <1>4, <1>5, <1>10, SumInt
<1> HIDE DEF Bad
<1> QED  BY <1>3, <1>5, <1>8, <1>9, <1>11, <1>12
\* An element can be added.
LEMMA SumAdd ==
  ASSUME NEW f, NEW S, IsFiniteSet(S), NEW y, y \notin S,
         \A x \in S \cup {y} : f[x] \in Int
  PROVE  SumFunctionOnSet(f, S \cup {y}) = f[y] + SumFunctionOnSet(f, S)
<1>1. IsFiniteSet(S \cup {y}) /\ (S \cup {y}) \ {y} = S
  BY FS_AddElement
<1>2. SumFunctionOnSet(f, S \cup {y}) = f[y] + SumFunctionOnSet(f, (S \cup {y}) \ {y})
  BY <1>1, SumRemove
<1> QED  BY <1>1, <1>2

\* A sum depends on the values over its set, and on nothing else.
LEMMA SumSame ==
  ASSUME NEW f, NEW g, NEW S, IsFiniteSet(S), \A x \in S : f[x] = g[x]
  PROVE  SumFunctionOnSet(f, S) = SumFunctionOnSet(g, S)
<1> DEFINE Bad == {U \in SUBSET S : SumFunctionOnSet(f, U) # SumFunctionOnSet(g, U)}
<1> SUFFICES ASSUME Bad # {} PROVE FALSE
  OBVIOUS
<1>1. Bad \in SUBSET SUBSET S
  OBVIOUS
<1>2. PICK U \in Bad : \A V \in Bad : V \subseteq U => V = U
  <2> HIDE DEF Bad
  <2> QED  BY <1>1, MinimalSubset
<1>3. U \in SUBSET S /\ SumFunctionOnSet(f, U) # SumFunctionOnSet(g, U)
  OBVIOUS
<1>4. U # {}
  BY <1>3, SumOfNone
<1>5. IsFiniteSet(U)
  BY <1>3, FS_Subset
<1> DEFINE R == U \ {Pick(U)}
<1>6. /\ Pick(U) \in U
      /\ SumFunctionOnSet(f, U) = f[Pick(U)] + SumFunctionOnSet(f, R)
      /\ SumFunctionOnSet(g, U) = g[Pick(U)] + SumFunctionOnSet(g, R)
  BY <1>4, <1>5, SumRecursion
<1>7. SumFunctionOnSet(f, R) = SumFunctionOnSet(g, R)
  BY <1>2, <1>3, <1>6
<1> QED  BY <1>3, <1>6, <1>7

\* The sum over two sets without common element.
LEMMA SumUnion ==
  ASSUME NEW f, NEW S, NEW T, IsFiniteSet(S), IsFiniteSet(T), S \cap T = {},
         \A x \in S \cup T : f[x] \in Int
  PROVE  SumFunctionOnSet(f, S \cup T)
           = SumFunctionOnSet(f, S) + SumFunctionOnSet(f, T)
<1> DEFINE Bad == {U \in SUBSET T : SumFunctionOnSet(f, S \cup U)
                      # SumFunctionOnSet(f, S) + SumFunctionOnSet(f, U)}
<1> SUFFICES ASSUME Bad # {} PROVE FALSE
  OBVIOUS
<1>1. Bad \in SUBSET SUBSET T
  OBVIOUS
<1>2. PICK U \in Bad : \A V \in Bad : V \subseteq U => V = U
  <2> HIDE DEF Bad
  <2> QED  BY <1>1, MinimalSubset
<1>3. /\ U \in SUBSET T
      /\ SumFunctionOnSet(f, S \cup U) # SumFunctionOnSet(f, S) + SumFunctionOnSet(f, U)
  OBVIOUS
<1>4. SumFunctionOnSet(f, S) \in Int
  BY SumInt
<1>5. U # {}
  <2> SUFFICES ASSUME U = {} PROVE FALSE
    OBVIOUS
  <2>1. S \cup U = S
    OBVIOUS
  <2> QED  BY <1>3, <1>4, <2>1, SumOfNone
<1>6. PICK x \in U : TRUE
  BY <1>5
<1> DEFINE R == U \ {x}
<1>7. SumFunctionOnSet(f, S \cup R) = SumFunctionOnSet(f, S) + SumFunctionOnSet(f, R)
  BY <1>2, <1>3, <1>6
<1>8. IsFiniteSet(U) /\ IsFiniteSet(R) /\ IsFiniteSet(S \cup R)
  BY <1>3, FS_Subset, FS_RemoveElement, FS_Union
<1>9. SumFunctionOnSet(f, U) = f[x] + SumFunctionOnSet(f, R)
  BY <1>3, <1>8, SumRemove
<1>10. SumFunctionOnSet(f, S \cup U) = f[x] + SumFunctionOnSet(f, S \cup R)
  <2>1. S \cup U = (S \cup R) \cup {x} /\ x \notin S \cup R
    BY <1>3
  <2>2. \A z \in (S \cup R) \cup {x} : f[z] \in Int
    BY <1>3
  <2> DEFINE V == S \cup R
  <2>3. IsFiniteSet(V) /\ x \notin V /\ \A z \in V \cup {x} : f[z] \in Int
    BY <1>8, <2>1, <2>2
  <2>4. S \cup U = V \cup {x}
    BY <2>1
  <2> HIDE DEF V, R
  <2>5. SumFunctionOnSet(f, V \cup {x}) = f[x] + SumFunctionOnSet(f, V)
    BY <2>3, SumAdd
  <2> QED  BY <2>4, <2>5 DEF V
<1>11. SumFunctionOnSet(f, R) \in Int /\ f[x] \in Int
  BY <1>3, <1>8, SumInt
<1> HIDE DEF Bad, R
<1> QED  BY <1>3, <1>4, <1>7, <1>9, <1>10, <1>11

\* What a part of a set sums to, from the rest.
LEMMA SumSplit ==
  ASSUME NEW f, NEW S, IsFiniteSet(S), NEW T \in SUBSET S, \A x \in S : f[x] \in Int
  PROVE  SumFunctionOnSet(f, S)
           = SumFunctionOnSet(f, T) + SumFunctionOnSet(f, S \ T)
<1>1. S = T \cup (S \ T) /\ T \cap (S \ T) = {}
  OBVIOUS
<1>2. IsFiniteSet(T) /\ IsFiniteSet(S \ T)
  BY FS_Subset
<1> QED  BY <1>1, <1>2, SumUnion

\* Values that are not negative have a sum that is not.
LEMMA SumNat ==
  ASSUME NEW f, NEW S, IsFiniteSet(S), \A x \in S : f[x] \in Nat
  PROVE  SumFunctionOnSet(f, S) \in Nat
<1> DEFINE Bad == {U \in SUBSET S : SumFunctionOnSet(f, U) \notin Nat}
<1> SUFFICES ASSUME Bad # {} PROVE FALSE
  OBVIOUS
<1>1. Bad \in SUBSET SUBSET S
  OBVIOUS
<1>2. PICK U \in Bad : \A V \in Bad : V \subseteq U => V = U
  <2> HIDE DEF Bad
  <2> QED  BY <1>1, MinimalSubset
<1>3. U \in SUBSET S /\ SumFunctionOnSet(f, U) \notin Nat
  OBVIOUS
<1>4. U # {}
  BY <1>3, SumOfNone
<1>5. IsFiniteSet(U)
  BY <1>3, FS_Subset
<1> DEFINE R == U \ {Pick(U)}
<1>6. Pick(U) \in U /\ SumFunctionOnSet(f, U) = f[Pick(U)] + SumFunctionOnSet(f, R)
  BY <1>4, <1>5, SumRecursion
<1>7. SumFunctionOnSet(f, R) \in Nat
  BY <1>2, <1>3, <1>6
<1> QED  BY <1>3, <1>6, <1>7

LEMMA SumZero ==
  ASSUME NEW f, NEW S, IsFiniteSet(S), \A x \in S : f[x] = 0
  PROVE  SumFunctionOnSet(f, S) = 0
<1> DEFINE Bad == {U \in SUBSET S : SumFunctionOnSet(f, U) # 0}
<1> SUFFICES ASSUME Bad # {} PROVE FALSE
  OBVIOUS
<1>1. Bad \in SUBSET SUBSET S
  OBVIOUS
<1>2. PICK U \in Bad : \A V \in Bad : V \subseteq U => V = U
  <2> HIDE DEF Bad
  <2> QED  BY <1>1, MinimalSubset
<1>3. U \in SUBSET S /\ SumFunctionOnSet(f, U) # 0
  OBVIOUS
<1>4. U # {}
  BY <1>3, SumOfNone
<1>5. IsFiniteSet(U)
  BY <1>3, FS_Subset
<1> DEFINE R == U \ {Pick(U)}
<1>6. Pick(U) \in U /\ SumFunctionOnSet(f, U) = f[Pick(U)] + SumFunctionOnSet(f, R)
  BY <1>4, <1>5, SumRecursion
<1>7. SumFunctionOnSet(f, R) = 0
  BY <1>2, <1>3, <1>6
<1> QED  BY <1>3, <1>6, <1>7

LEMMA SumMonotone ==
  ASSUME NEW f, NEW g, NEW S, IsFiniteSet(S),
         \A x \in S : f[x] \in Int /\ g[x] \in Int /\ f[x] <= g[x]
  PROVE  SumFunctionOnSet(f, S) <= SumFunctionOnSet(g, S)
<1> DEFINE Bad == {U \in SUBSET S :
                     ~ (SumFunctionOnSet(f, U) <= SumFunctionOnSet(g, U))}
<1> SUFFICES ASSUME Bad # {} PROVE FALSE
  OBVIOUS
<1>1. Bad \in SUBSET SUBSET S
  OBVIOUS
<1>2. PICK U \in Bad : \A V \in Bad : V \subseteq U => V = U
  <2> HIDE DEF Bad
  <2> QED  BY <1>1, MinimalSubset
<1>3. U \in SUBSET S /\ IsFiniteSet(U)
  BY <1>1, <1>2, FS_Subset
<1>4. U # {}
  <2> SUFFICES ASSUME U = {} PROVE FALSE
    OBVIOUS
  <2>1. SumFunctionOnSet(f, U) = 0 /\ SumFunctionOnSet(g, U) = 0
    BY SumOfNone
  <2> QED  BY <1>2, <2>1
<1> DEFINE x == Pick(U)
           W == U \ {Pick(U)}
<1>5. /\ x \in U
      /\ SumFunctionOnSet(f, U) = f[x] + SumFunctionOnSet(f, W)
      /\ SumFunctionOnSet(g, U) = g[x] + SumFunctionOnSet(g, W)
  BY <1>3, <1>4, SumRecursion
<1>6. W \in SUBSET S /\ W \subseteq U /\ W # U /\ IsFiniteSet(W)
  BY <1>3, <1>5, FS_RemoveElement
<1>7. SumFunctionOnSet(f, W) <= SumFunctionOnSet(g, W)
  BY <1>2, <1>6
<1>8. SumFunctionOnSet(f, W) \in Int /\ SumFunctionOnSet(g, W) \in Int
  <2>1. (\A z \in W : f[z] \in Int) /\ (\A z \in W : g[z] \in Int)
    BY <1>6
  <2> QED  BY <1>6, <2>1, SumInt
<1>9. f[x] \in Int /\ g[x] \in Int /\ f[x] <= g[x]
  BY <1>3, <1>5
<1> HIDE DEF x, W
<1>10. SumFunctionOnSet(f, U) <= SumFunctionOnSet(g, U)
  BY <1>5, <1>7, <1>8, <1>9
<1> QED  BY <1>2, <1>10

\* h carries the values of f on S, one to one, to those of g on T.
Carries(S, f, g, h) ==
  /\ \A x \in S : f[x] \in Int /\ f[x] = g[h[x]]
  /\ \A x, y \in S : h[x] = h[y] => x = y
Onto(S, h, T) ==
  /\ \A x \in S : h[x] \in T
  /\ \A y \in T : \E x \in S : y = h[x]

\* A sum over a set is the sum over its image, when no two elements share one.
LEMMA SumOnto ==
  ASSUME NEW S, NEW T, NEW f, NEW g, NEW h, IsFiniteSet(S),
         Carries(S, f, g, h), Onto(S, h, T)
  PROVE  /\ IsFiniteSet(T)
         /\ SumFunctionOnSet(f, S) = SumFunctionOnSet(g, T)
<1> USE DEF Carries
<1> DEFINE Image(U) == {h[x] : x \in U}
           Bad == {U \in SUBSET S : ~ (/\ IsFiniteSet(Image(U))
                     /\ SumFunctionOnSet(f, U) = SumFunctionOnSet(g, Image(U)))}
<1>0. T = Image(S)
  BY DEF Onto
<1> SUFFICES ASSUME Bad # {} PROVE FALSE
  BY <1>0
<1>1. Bad \in SUBSET SUBSET S
  OBVIOUS
<1>2. PICK U \in Bad : \A V \in Bad : V \subseteq U => V = U
  <2> HIDE DEF Bad
  <2> QED  BY <1>1, MinimalSubset
<1>3. U \in SUBSET S /\ ~ (/\ IsFiniteSet(Image(U))
                           /\ SumFunctionOnSet(f, U) = SumFunctionOnSet(g, Image(U)))
  OBVIOUS
<1>4. U # {}
  <2>1. Image({}) = {}
    OBVIOUS
  <2> HIDE DEF Image
  <2> QED  BY <1>3, <2>1, SumOfNone, FS_EmptySet
<1>5. PICK y \in U : TRUE
  BY <1>4
<1> DEFINE R == U \ {y}
<1>6. IsFiniteSet(Image(R)) /\ SumFunctionOnSet(f, R) = SumFunctionOnSet(g, Image(R))
  <2>1. R \in SUBSET S /\ R \subseteq U /\ R # U
    BY <1>3, <1>5
  <2>2. R \notin Bad
    <3> HIDE DEF Bad, R
    <3> QED  BY <1>2, <2>1
  <2> HIDE DEF Image, R
  <2> QED  BY <2>1, <2>2
<1>7. Image(U) = Image(R) \cup {h[y]} /\ h[y] \notin Image(R)
  BY <1>3, <1>5
<1>8. /\ f[y] \in Int /\ f[y] = g[h[y]] /\ y \in U
      /\ \A x \in U : f[x] \in Int
      /\ \A z \in Image(R) \cup {h[y]} : g[z] \in Int
  BY <1>3, <1>5
<1>9. IsFiniteSet(U)
  BY <1>3, FS_Subset
<1> HIDE DEF Bad, Image
<1>10. SumFunctionOnSet(f, U) = f[y] + SumFunctionOnSet(f, R)
  BY <1>8, <1>9, SumRemove
<1> HIDE DEF R
<1>11. SumFunctionOnSet(g, Image(R) \cup {h[y]}) = g[h[y]] + SumFunctionOnSet(g, Image(R))
  BY <1>6, <1>7, <1>8, SumAdd
<1>12. IsFiniteSet(Image(U))
  BY <1>6, <1>7, FS_AddElement
<1> QED  BY <1>3, <1>6, <1>7, <1>8, <1>10, <1>11, <1>12

\* The same, with the image written out.
LEMMA SumReindex ==
  ASSUME NEW S, NEW f, NEW g, NEW h, IsFiniteSet(S),
         \A x \in S : f[x] \in Int /\ f[x] = g[h[x]],
         \A x, y \in S : h[x] = h[y] => x = y
  PROVE  /\ IsFiniteSet({h[x] : x \in S})
         /\ SumFunctionOnSet(f, S) = SumFunctionOnSet(g, {h[x] : x \in S})
<1> DEFINE T == {h[x] : x \in S}
<1>1. Carries(S, f, g, h)
  BY DEF Carries
<1>2. Onto(S, h, T)
  BY DEF Onto
<1> HIDE DEF T
<1>3. IsFiniteSet(T) /\ SumFunctionOnSet(f, S) = SumFunctionOnSet(g, T)
  BY <1>1, <1>2, SumOnto
<1> QED  BY <1>3 DEF T

\* Differences of successive values add up to the difference of the ends.
LEMMA Telescoped ==
  ASSUME NEW N \in Nat, NEW G, NEW d,
         \A k \in 0..N : G[k] \in Int,
         \A k \in 1..N : d[k] = G[k] - G[k - 1]
  PROVE  SumFunctionOnSet(d, 1..N) = G[N] - G[0]
<1> DEFINE Bad == {n \in 0..N : SumFunctionOnSet(d, 1..n) # G[n] - G[0]}
<1> SUFFICES ASSUME Bad # {} PROVE FALSE
  OBVIOUS
<1>1. Bad \in SUBSET Nat
  OBVIOUS
<1>2. PICK n \in Bad : \A m \in Bad : n <= m
  <2> HIDE DEF Bad
  <2> QED  BY <1>1, LeastNat
<1>3. n \in 0..N /\ SumFunctionOnSet(d, 1..n) # G[n] - G[0]
  OBVIOUS
<1>4. n # 0
  <2> SUFFICES ASSUME n = 0 PROVE FALSE
    OBVIOUS
  <2>1. 1..n = {}
    OBVIOUS
  <2>2. G[n] - G[0] = 0
    OBVIOUS
  <2> QED  BY <1>3, <2>1, <2>2, SumOfNone
<1>5. n - 1 \in 0..N /\ n - 1 \notin Bad
  BY <1>2, <1>3, <1>4
<1>6. SumFunctionOnSet(d, 1..(n-1)) = G[n-1] - G[0]
  BY <1>5
<1>7. 1..n = (1..(n-1)) \cup {n} /\ n \notin 1..(n-1)
  BY <1>3, <1>4
<1>8. IsFiniteSet(1..(n-1))
  BY <1>3, FS_Interval
<1>9. \A k \in (1..(n-1)) \cup {n} : d[k] \in Int
  <2> HIDE DEF Bad
  <2>1. \A k \in 1..N : k - 1 \in 0..N /\ k \in 0..N
    OBVIOUS
  <2>2. \A k \in 1..N : d[k] \in Int
    BY <2>1
  <2>3. (1..(n-1)) \cup {n} \subseteq 1..N
    BY <1>3, <1>4
  <2> QED  BY <2>2, <2>3, Zenon
<1>10. SumFunctionOnSet(d, (1..(n-1)) \cup {n}) = d[n] + SumFunctionOnSet(d, 1..(n-1))
  BY <1>7, <1>8, <1>9, SumAdd
<1>11. d[n] = G[n] - G[n-1] /\ G[n] \in Int /\ G[n-1] \in Int /\ G[0] \in Int
  BY <1>3, <1>4
<1> HIDE DEF Bad
<1>12. SumFunctionOnSet(d, 1..n) = d[n] + SumFunctionOnSet(d, 1..(n-1))
  BY <1>7, <1>10, Zenon
<1>13. (G[n] - G[n-1]) + (G[n-1] - G[0]) = G[n] - G[0]
  <2> DEFINE last == G[n]
             before == G[n-1]
             first == G[0]
  <2>1. last \in Int /\ before \in Int /\ first \in Int
    BY <1>11
  <2> HIDE DEF last, before, first
  <2>2. (last - before) + (before - first) = last - first
    BY <2>1
  <2> QED  BY <2>2 DEF last, before, first
<1>14. SumFunctionOnSet(d, 1..n) = G[n] - G[0]
  BY <1>6, <1>11, <1>12, <1>13, Zenon
<1> QED  BY <1>3, <1>14

-----------------------------------------------------------------------------
(* Ranks *)

\* Counting the elements that come no later numbers a finite set from 1 on.
LEMMA Ranks ==
  ASSUME NEW S, IsFiniteSet(S), NEW f, \A x \in S : f[x] \in Int,
         \A x, y \in S : f[x] = f[y] => x = y,
         NEW before, \A x \in S : \A y : y \in before[x] <=> y \in S /\ f[y] <= f[x],
         NEW rank, \A x \in S : rank[x] = Cardinality(before[x])
  PROVE  /\ \A x \in S : rank[x] \in 1..Cardinality(S)
         /\ \A x, y \in S : rank[x] = rank[y] => x = y
         /\ \A k \in 1..Cardinality(S) : \E x \in S : rank[x] = k
<1>1. ASSUME NEW x \in S
      PROVE  /\ before[x] \in SUBSET S /\ IsFiniteSet(before[x]) /\ x \in before[x]
             /\ rank[x] = Cardinality(before[x])
             /\ rank[x] \in 1..Cardinality(S)
  <2>1. before[x] \in SUBSET S /\ x \in before[x] /\ rank[x] = Cardinality(before[x])
    BY <1>1
  <2>2. IsFiniteSet(before[x]) /\ Cardinality(before[x]) <= Cardinality(S)
    BY <2>1, FS_Subset
  <2>3. Cardinality(before[x]) \in Nat /\ Cardinality(S) \in Nat /\ Cardinality(before[x]) # 0
    BY <2>1, <2>2, FS_CardinalityType, FS_EmptySet
  <2> QED  BY <2>1, <2>2, <2>3
<1>2. ASSUME NEW x \in S, NEW y \in S, f[x] <= f[y], rank[x] = rank[y] PROVE x = y
  <2>1. before[x] \in SUBSET before[y]
    BY <1>2
  <2>2. y \in before[x]
    <3>1. /\ IsFiniteSet(before[y]) /\ y \in before[y]
          /\ Cardinality(before[y]) = Cardinality(before[x])
      BY <1>1, <1>2
    <3> QED  BY <2>1, <3>1, FS_Subset
  <2> QED  BY <1>2, <2>2
<1>3. \A x, y \in S : rank[x] = rank[y] => x = y
  BY <1>2
<1>4. ASSUME NEW k \in 1..Cardinality(S) PROVE \E x \in S : rank[x] = k
  <2> DEFINE r == [x \in S |-> rank[x]]
             T == 1..Cardinality(S)
  <2>1. r \in [S -> T]
    BY <1>1
  <2>2. \A x, y \in S : r[x] = r[y] => x = y
    BY <1>3
  <2>3. r \in Injection(S, T)
    <3> HIDE DEF r
    <3> QED  BY <2>1, <2>2 DEF Injection, IsInjective
  <2>4. IsFiniteSet(T) /\ Cardinality(T) = Cardinality(S)
    BY FS_CardinalityType, FS_Interval
  <2>5. r \in Surjection(S, T)
    <3> HIDE DEF r, T
    <3> QED  BY <2>3, <2>4, FS_Injection
  <2>6. \A t \in T : \E x \in S : r[x] = t
    <3> HIDE DEF r, T
    <3> QED  BY <2>5 DEF Surjection
  <2> QED  BY <2>6
<1> QED  BY <1>1, <1>3, <1>4

\* The same, with the hypotheses and the conclusion named.
RankedBy(S, f, before, rank) ==
  /\ \A x \in S : f[x] \in Int
  /\ \A x, y \in S : f[x] = f[y] => x = y
  /\ \A x \in S : \A y : y \in before[x] <=> y \in S /\ f[y] <= f[x]
  /\ \A x \in S : rank[x] = Cardinality(before[x])

NumbersFromOne(S, rank) ==
  /\ \A x \in S : rank[x] \in 1..Cardinality(S)
  /\ \A x, y \in S : rank[x] = rank[y] => x = y
  /\ \A k \in 1..Cardinality(S) : \E x \in S : rank[x] = k

LEMMA RanksNumber ==
  ASSUME NEW S, IsFiniteSet(S), NEW f, NEW before, NEW rank, RankedBy(S, f, before, rank)
  PROVE  NumbersFromOne(S, rank)
  BY Ranks DEF RankedBy, NumbersFromOne

-----------------------------------------------------------------------------
(* Division *)

LEMMA DivMonotone ==
  ASSUME NEW a \in Int, NEW b \in Int, NEW d \in Nat \ {0}, a <= b
  PROVE  a \div d <= b \div d
<1> DEFINE p == a \div d
           q == b \div d
<1>1. p \in Int /\ q \in Int
  OBVIOUS
<1>2. d * p <= a /\ a < d * p + d /\ d * q <= b /\ b < d * q + d
  OBVIOUS
<1> HIDE DEF p, q
<1>3. ASSUME q + 1 <= p PROVE FALSE
  <2>1. PICK k \in Nat : p = q + 1 + k
    <3>1. p - q - 1 \in Nat
      BY <1>1, <1>3
    <3> QED BY <3>1, <1>1
  <2>2. d * p = d * q + d + d * k
    BY <2>1, <1>1
  <2>3. d * k >= 0
    BY <2>1
  <2>4. d * p \in Int /\ d * q \in Int /\ d * k \in Int
    BY <1>1, <2>1
  <2> QED BY <1>2, <2>2, <2>3, <2>4
<1>4. p <= q
  BY <1>1, <1>3
<1> QED BY <1>4 DEF p, q

-----------------------------------------------------------------------------
(* What is left of a budget b once 1..o drew on it in turn, each up to a[o] *)

Lesser(p, q) == IF p <= q THEN p ELSE q
Leaves(l, N, a, b) ==
  l = [o \in 0..N |-> IF o = 0 THEN b ELSE l[o - 1] - Lesser(a[o], l[o - 1])]
Left(N, a, b) == CHOOSE l : Leaves(l, N, a, b)

\* The recursive definition has a solution.
LEMMA LeavesExists ==
  ASSUME NEW N \in Nat, NEW a, NEW b
  PROVE  \E l : Leaves(l, N, a, b)
<1> DEFINE Bad == {n \in Nat : ~ \E l : Leaves(l, n, a, b)}
<1> SUFFICES ASSUME Bad # {} PROVE FALSE
  OBVIOUS
<1>1. Bad \in SUBSET Nat
  OBVIOUS
<1>2. PICK n \in Bad : \A m \in Bad : n <= m
  <2> HIDE DEF Bad
  <2> QED  BY <1>1, LeastNat
<1>3. n # 0
  <2> SUFFICES ASSUME n = 0 PROVE FALSE
    OBVIOUS
  <2> DEFINE l == [o \in 0..0 |-> b]
  <2>1. l = [o \in 0..0 |-> IF o = 0 THEN b ELSE l[o - 1] - Lesser(a[o], l[o - 1])]
    OBVIOUS
  <2>2. Leaves(l, 0, a, b)
    BY <2>1 DEF Leaves
  <2> QED  BY <2>2
<1>4. PICK h : Leaves(h, n - 1, a, b)
  BY <1>2, <1>3
<1> DEFINE e(f, o) == IF o = 0 THEN b ELSE f[o - 1] - Lesser(a[o], f[o - 1])
           l == [o \in 0..n |-> IF o = n THEN e(h, o) ELSE h[o]]
<1>5. \A o \in 0..(n - 1) : h[o] = e(h, o)
  <2>1. h = [o \in 0..(n - 1) |-> e(h, o)]
    BY <1>4 DEF Leaves
  <2> HIDE DEF e
  <2> QED  BY <2>1
<1>6. \A o \in 0..n : l[o] = e(l, o)
  BY <1>3, <1>5
<1>7. l = [o \in 0..n |-> e(l, o)]
  <2>1. l = [o \in 0..n |-> l[o]]
    OBVIOUS
  <2> HIDE DEF l, e
  <2> QED  BY <1>6, <2>1
<1>8. Leaves(l, n, a, b)
  BY <1>7 DEF Leaves
<1> QED  BY <1>8

LEMMA LeftAt ==
  ASSUME NEW N \in Nat, NEW a, NEW b
  PROVE  /\ Left(N, a, b)[0] = b
         /\ \A o \in 1..N : Left(N, a, b)[o]
               = Left(N, a, b)[o - 1] - Lesser(a[o], Left(N, a, b)[o - 1])
<1> DEFINE l == Left(N, a, b)
           e(o) == IF o = 0 THEN b ELSE l[o - 1] - Lesser(a[o], l[o - 1])
<1>1. Leaves(l, N, a, b)
  BY LeavesExists, Zenon DEF Left
<1> HIDE DEF l
<1>2. l = [o \in 0..N |-> e(o)]
  BY <1>1 DEF Leaves
<1> HIDE DEF e
<1>3. \A o \in 0..N : l[o] = e(o)
  BY <1>2
<1> QED  BY <1>3 DEF e, l

LEMMA Prefix ==
  ASSUME NEW N \in Nat, NEW o \in 1..N
  PROVE  IsFiniteSet(1..(o - 1)) /\ o \notin 1..(o - 1) /\ 1..o = 1..(o - 1) \cup {o}
<1>1. IsFiniteSet(1..(o - 1))
  BY FS_Interval
<1>2. 1..o = 1..(o - 1) \cup {o}
  OBVIOUS
<1> QED  BY <1>1, <1>2

LEMMA LeftOver ==
  ASSUME NEW p \in Nat, NEW b \in Nat, NEW a \in Nat, NEW l,
         l = IF p <= b THEN b - p ELSE 0
  PROVE  /\ l - Lesser(a, l) \in Nat
         /\ l - Lesser(a, l) = IF a + p <= b THEN b - (a + p) ELSE 0
  BY DEF Lesser

\* What is left is the budget less everything offered so far, down to nothing.
LEMMA LeftIs ==
  ASSUME NEW N \in Nat, NEW a \in [1..N -> Nat], NEW b \in Nat, NEW n \in 0..N
  PROVE  /\ Left(N, a, b)[n] \in Nat
         /\ SumFunctionOnSet(a, 1..n) \in Nat
         /\ Left(N, a, b)[n] = IF SumFunctionOnSet(a, 1..n) <= b
                               THEN b - SumFunctionOnSet(a, 1..n) ELSE 0
<1> DEFINE l == Left(N, a, b)
           S(o) == SumFunctionOnSet(a, 1..o)
           Holds(o) == /\ l[o] \in Nat /\ S(o) \in Nat
                       /\ l[o] = IF S(o) <= b THEN b - S(o) ELSE 0
           Bad == {o \in 0..N : ~ Holds(o)}
<1> SUFFICES ASSUME Bad # {} PROVE FALSE
  OBVIOUS
<1>1. Bad \in SUBSET Nat
  OBVIOUS
<1>2. PICK o \in Bad : \A m \in Bad : o <= m
  <2> HIDE DEF Bad
  <2> QED  BY <1>1, LeastNat
<1>3. o # 0
  <2>1. l[0] = b /\ S(0) = 0
    <3>1. 1..0 = {}
      OBVIOUS
    <3> QED  BY <3>1, LeftAt, SumOfNone
  <2> HIDE DEF l, S
  <2> QED  BY <2>1
<1>4. Holds(o - 1) /\ o \in 1..N
  BY <1>2, <1>3
<1> HIDE DEF Bad, Holds
<1>5. l[o] = l[o - 1] - Lesser(a[o], l[o - 1]) /\ a[o] \in Nat
  BY <1>4, LeftAt
<1>6. S(o) = a[o] + S(o - 1)
  <2>1. IsFiniteSet(1..(o - 1)) /\ o \notin 1..(o - 1) /\ 1..o = 1..(o - 1) \cup {o}
    BY <1>4, Prefix, Zenon
  <2>2. \A m \in 1..(o - 1) \cup {o} : a[m] \in Int
    BY <1>4
  <2> QED  BY <2>1, <2>2, SumAdd
<1> HIDE DEF l, S
<1>7. Holds(o)
  <2>1. l[o - 1] = (IF S(o - 1) <= b THEN b - S(o - 1) ELSE 0) /\ S(o - 1) \in Nat
    BY <1>4 DEF Holds
  <2>2. /\ l[o] \in Nat
        /\ l[o] = IF a[o] + S(o - 1) <= b THEN b - (a[o] + S(o - 1)) ELSE 0
    <3> DEFINE taken == S(o - 1)
               left == l[o - 1]
               offered == a[o]
    <3>1. /\ taken \in Nat /\ offered \in Nat
          /\ left = (IF taken <= b THEN b - taken ELSE 0)
      BY <1>5, <2>1
    <3>2. l[o] = left - Lesser(offered, left)
      BY <1>5
    <3> HIDE DEF taken, left, offered
    <3>3. /\ left - Lesser(offered, left) \in Nat
          /\ left - Lesser(offered, left)
               = IF offered + taken <= b THEN b - (offered + taken) ELSE 0
      BY <3>1, LeftOver
    <3> QED  BY <3>2, <3>3, Zenon DEF taken, left, offered
  <2> QED  BY <1>5, <1>6, <2>1, <2>2 DEF Holds
<1> QED  BY <1>2, <1>7 DEF Bad

\* What each takes: within what it is offered and what is left, in turn.
LEMMA TakenInTurn ==
  ASSUME NEW N \in Nat, NEW a \in [1..N -> Nat], NEW b \in Nat, NEW n \in 1..N
  PROVE  LET take(o) == Left(N, a, b)[o - 1] - Left(N, a, b)[o] IN
         /\ take(n) \in Nat /\ take(n) <= a[n]
         /\ take(n) > 0 => \A o \in 1..(n - 1) : take(o) = a[o]
<1> DEFINE l == Left(N, a, b)
<1>1. \A o \in 0..N : l[o] \in Nat
  BY LeftIs
<1>2. \A o \in 1..N : l[o] = l[o - 1] - Lesser(a[o], l[o - 1]) /\ a[o] \in Nat
  BY LeftAt
<1>3. ASSUME NEW o \in 1..(n - 1), l[n - 1] > 0 PROVE l[o] > 0
  <2>1. IsFiniteSet(1..(n - 1)) /\ 1..o \in SUBSET (1..(n - 1)) /\ o \in 0..N /\ n - 1 \in 0..N
    BY FS_Interval
  <2>2. SumFunctionOnSet(a, 1..(n - 1))
          = SumFunctionOnSet(a, 1..o) + SumFunctionOnSet(a, 1..(n - 1) \ 1..o)
    <3> DEFINE W == 1..(n - 1)
               V == 1..o
    <3>1. \A m \in W : a[m] \in Int
      <4> TAKE m \in W
      <4>1. m \in 1..N
        BY <2>1
      <4> QED  BY <4>1
    <3>2. IsFiniteSet(W) /\ V \in SUBSET W
      BY <2>1
    <3> HIDE DEF W, V, l
    <3>3. SumFunctionOnSet(a, W) = SumFunctionOnSet(a, V) + SumFunctionOnSet(a, W \ V)
      BY <3>1, <3>2, SumSplit
    <3> QED  BY <3>3 DEF W, V
  <2>3. SumFunctionOnSet(a, 1..(n - 1) \ 1..o) \in Nat
    <3>1. IsFiniteSet(1..(n - 1) \ 1..o)
      BY <2>1, FS_Subset
    <3> QED  BY <3>1, SumNat
  <2>4. /\ SumFunctionOnSet(a, 1..o) \in Nat /\ SumFunctionOnSet(a, 1..(n - 1)) \in Nat
        /\ l[o] = IF SumFunctionOnSet(a, 1..o) <= b
                  THEN b - SumFunctionOnSet(a, 1..o) ELSE 0
        /\ l[n - 1] = IF SumFunctionOnSet(a, 1..(n - 1)) <= b
                      THEN b - SumFunctionOnSet(a, 1..(n - 1)) ELSE 0
    BY <2>1, LeftIs
  <2> DEFINE all == SumFunctionOnSet(a, 1..(n - 1))
             first == SumFunctionOnSet(a, 1..o)
             others == SumFunctionOnSet(a, 1..(n - 1) \ 1..o)
  <2>5. all = first + others /\ first \in Nat /\ others \in Nat /\ all \in Nat
    BY <2>2, <2>3, <2>4
  <2>6. /\ l[o] = IF first <= b THEN b - first ELSE 0
        /\ l[n - 1] = IF all <= b THEN b - all ELSE 0
    BY <2>4
  <2> HIDE DEF l, all, first, others
  <2>7. (IF all <= b THEN b - all ELSE 0) > 0
    BY <1>3, <2>6
  <2>8. (IF first <= b THEN b - first ELSE 0) > 0
    BY <2>5, <2>7
  <2> QED  BY <2>6, <2>8
<1> HIDE DEF l
<1>4. ASSUME NEW o \in 1..(n - 1), l[n - 1] > 0 PROVE l[o - 1] - l[o] = a[o]
  <2>1. o \in 1..N /\ o \in 0..N /\ o - 1 \in 0..N
    OBVIOUS
  <2>2. l[o] > 0 /\ l[o] \in Nat /\ l[o - 1] \in Nat
    BY <1>1, <1>3, <1>4, <2>1
  <2>3. l[o] = l[o - 1] - Lesser(a[o], l[o - 1]) /\ a[o] \in Nat
    BY <1>2, <2>1
  <2> QED  BY <2>2, <2>3 DEF Lesser
<1>5. /\ l[n - 1] - l[n] \in Nat /\ l[n - 1] - l[n] <= a[n]
      /\ l[n - 1] - l[n] > 0 => l[n - 1] > 0
  <2>1. n \in 1..N /\ n \in 0..N /\ n - 1 \in 0..N
    OBVIOUS
  <2>2. l[n] \in Nat /\ l[n - 1] \in Nat
    BY <1>1, <2>1
  <2>3. l[n] = l[n - 1] - Lesser(a[n], l[n - 1]) /\ a[n] \in Nat
    BY <1>2, <2>1
  <2> DEFINE left == l[n - 1]
             offered == a[n]
  <2>4. left \in Nat /\ offered \in Nat /\ l[n] = left - Lesser(offered, left)
    BY <2>2, <2>3
  <2> HIDE DEF left, offered
  <2>5. /\ left - (left - Lesser(offered, left)) \in Nat
        /\ left - (left - Lesser(offered, left)) <= offered
        /\ left - (left - Lesser(offered, left)) > 0 => left > 0
    BY <2>4 DEF Lesser
  <2> QED  BY <2>4, <2>5, Zenon DEF left, offered
<1> QED  BY <1>4, <1>5 DEF l

\* What all take: the lesser of the budget and of what is offered.
LEMMA TakenTogether ==
  ASSUME NEW N \in Nat, NEW a \in [1..N -> Nat], NEW b \in Nat,
         NEW u, \A o \in 1..N : u[o] = Left(N, a, b)[o - 1] - Left(N, a, b)[o]
  PROVE  /\ SumFunctionOnSet(a, 1..N) \in Nat
         /\ SumFunctionOnSet(u, 1..N) = Lesser(SumFunctionOnSet(a, 1..N), b)
<1> DEFINE l == Left(N, a, b)
           S(o) == SumFunctionOnSet(u, 1..o)
           Bad == {o \in 0..N : S(o) # b - l[o]}
<1>1. \A o \in 0..N : l[o] \in Nat
  BY LeftIs
<1>2. Bad = {}
  <2> SUFFICES ASSUME Bad # {} PROVE FALSE
    OBVIOUS
  <2>1. Bad \in SUBSET Nat
    OBVIOUS
  <2>2. PICK o \in Bad : \A m \in Bad : o <= m
    <3> HIDE DEF Bad
    <3> QED  BY <2>1, LeastNat
  <2>3. o # 0
    <3>1. l[0] = b /\ S(0) = 0
      <4>1. 1..0 = {}
        OBVIOUS
      <4> QED  BY <4>1, LeftAt, SumOfNone
    <3> HIDE DEF l, S
    <3> QED  BY <3>1
  <2>4. S(o - 1) = b - l[o - 1] /\ o \in 1..N
    BY <2>2, <2>3
  <2> HIDE DEF Bad
  <2>5. S(o) = u[o] + S(o - 1)
    <3>1. IsFiniteSet(1..(o - 1)) /\ o \notin 1..(o - 1) /\ 1..o = 1..(o - 1) \cup {o}
      BY <2>4, Prefix, Zenon
    <3>2. \A m \in 1..(o - 1) \cup {o} : u[m] \in Int
      <4> TAKE m \in 1..(o - 1) \cup {o}
      <4>1. m \in 1..N /\ m \in 0..N /\ m - 1 \in 0..N
        BY <2>4
      <4>2. l[m] \in Nat /\ l[m - 1] \in Nat /\ u[m] = l[m - 1] - l[m]
        BY <1>1, <4>1
      <4> HIDE DEF l
      <4> QED  BY <4>2
    <3>3. SumFunctionOnSet(u, 1..(o - 1) \cup {o})
            = u[o] + SumFunctionOnSet(u, 1..(o - 1))
      BY <3>1, <3>2, SumAdd
    <3> QED  BY <3>1, <3>3, Zenon
  <2>6. u[o] = l[o - 1] - l[o] /\ l[o - 1] \in Nat /\ l[o] \in Nat
    BY <1>1, <2>4
  <2> HIDE DEF l, S
  <2>7. S(o) = b - l[o]
    <3> DEFINE taken == S(o - 1)
               left == l[o - 1]
               after == l[o]
    <3>1. taken = b - left /\ S(o) = (left - after) + taken
      BY <2>4, <2>5, <2>6
    <3>2. left \in Nat /\ after \in Nat
      BY <2>6
    <3> HIDE DEF taken, left, after
    <3>3. (left - after) + (b - left) = b - after
      BY <3>2
    <3> QED  BY <3>1, <3>3 DEF after
  <2> QED  BY <2>2, <2>7 DEF Bad
<1>3. S(N) = b - l[N]
  BY <1>2
<1>4. /\ SumFunctionOnSet(a, 1..N) \in Nat
      /\ l[N] = IF SumFunctionOnSet(a, 1..N) <= b THEN b - SumFunctionOnSet(a, 1..N) ELSE 0
  <2>1. N \in 0..N
    OBVIOUS
  <2> QED  BY <2>1, LeftIs
<1> HIDE DEF l
<1> QED  BY <1>3, <1>4 DEF Lesser
=============================================================================
