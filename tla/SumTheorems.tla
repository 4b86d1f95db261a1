----------------------------- MODULE SumTheorems ------------------------------
(***************************************************************************)
(* What the sums of the models compute.  SumFunctionOnSet adds up a        *)
(* function over a finite set by a recursion that picks one element after  *)
(* another; these theorems say that the choice does not matter: an element *)
(* adds its own value, wherever it comes in the order.                     *)
(*                                                                         *)
(* They are proved by induction over the subsets of a set, in the form     *)
(* that the strict subset ordering on finite sets has minimal elements:    *)
(* if a statement failed, it would fail for a subset whose own subsets     *)
(* satisfy it.                                                             *)
(***************************************************************************)
EXTENDS Integers, FiniteSets, Functions, FiniteSetTheorems, TLAPS

LEMMA SubsetInduction ==
  ASSUME NEW S, IsFiniteSet(S), NEW P,
         \A T \in SUBSET S : (\A U \in SUBSET T : U # T => U \in P) => T \in P
  PROVE  SUBSET S \subseteq P
<1>. DEFINE Bad == (SUBSET S) \ P
<1>. SUFFICES ASSUME Bad # {} PROVE FALSE
  OBVIOUS
<1>1. Bad \subseteq FiniteSubsetsOf(S)
  BY FS_Subset DEF FiniteSubsetsOf
<1>2. IsWellFoundedOn(StrictSubsetOrdering(S), FiniteSubsetsOf(S))
  BY FS_StrictSubsetOrderingWellFounded
<1>3. PICK T \in Bad : \A U \in Bad : <<U, T>> \notin StrictSubsetOrdering(S)
  <2>. HIDE DEF Bad
  <2>. QED
    BY <1>1, <1>2, WFMin
<1>4. \A U \in SUBSET T : U # T => U \in P
  BY <1>3 DEF StrictSubsetOrdering
<1>. QED
  BY <1>3, <1>4

-----------------------------------------------------------------------------
(* The recursion.  g adds up v over every subset of S.                     *)
PickOne(s) == CHOOSE x \in s : TRUE
TheOthers(s) == s \ {PickOne(s)}
Adds(g, v, S) ==
  g = [s \in SUBSET S |-> IF s = {} THEN 0 ELSE v[PickOne(s)] + g[TheOthers(s)]]

LEMMA PickOneIsIn == ASSUME NEW s, s # {} PROVE PickOne(s) \in s
BY DEF PickOne

LEMMA SumIsChosen ==
  ASSUME NEW v, NEW S
  PROVE  SumFunctionOnSet(v, S) = (CHOOSE g : Adds(g, v, S))[S]
BY Zenon DEF SumFunctionOnSet, FoldFunctionOnSet, MapThenFoldSet, Adds, PickOne, TheOthers

LEMMA AddsUnfolds ==
  ASSUME NEW v, NEW S, NEW g, Adds(g, v, S), NEW T \in SUBSET S
  PROVE  g[T] = IF T = {} THEN 0 ELSE v[PickOne(T)] + g[TheOthers(T)]
BY DEF Adds

LEMMA AddsIsUnique ==
  ASSUME NEW v, NEW S, IsFiniteSet(S), NEW g, NEW h, Adds(g, v, S), Adds(h, v, S)
  PROVE  g = h
<1>. DEFINE P == {T \in SUBSET S : g[T] = h[T]}
<1>1. ASSUME NEW T \in SUBSET S, \A U \in SUBSET T : U # T => U \in P
      PROVE  T \in P
  <2>1. CASE T = {}
    BY <2>1, AddsUnfolds
  <2>2. CASE T # {}
    <3>1. TheOthers(T) \in SUBSET T /\ TheOthers(T) # T
      BY <2>2, PickOneIsIn DEF TheOthers
    <3>2. g[TheOthers(T)] = h[TheOthers(T)]
      BY <1>1, <3>1
    <3>. QED
      BY <2>2, <3>2, AddsUnfolds
  <2>. QED
    BY <2>1, <2>2
<1>. HIDE DEF P
<1>2. SUBSET S \subseteq P
  BY <1>1, SubsetInduction
<1>3. \A T \in SUBSET S : g[T] = h[T]
  BY <1>2 DEF P
<1>. QED
  BY <1>3 DEF Adds

LEMMA AddsRestricts ==
  ASSUME NEW v, NEW S, NEW g, Adds(g, v, S), NEW T \in SUBSET S
  PROVE  Adds([s \in SUBSET T |-> g[s]], v, T)
<1>. DEFINE h == [s \in SUBSET T |-> g[s]]
<1>1. \A s \in SUBSET T : h[s] = IF s = {} THEN 0 ELSE v[PickOne(s)] + g[TheOthers(s)]
  BY AddsUnfolds
<1>2. \A s \in SUBSET T : TheOthers(s) \in SUBSET T
  BY DEF TheOthers
<1>. QED
  BY <1>1, <1>2 DEF Adds

LEMMA AddsExists ==
  ASSUME NEW v, NEW S, IsFiniteSet(S)
  PROVE  \E g : Adds(g, v, S)
<1>. DEFINE P == {T \in SUBSET S : \E g : Adds(g, v, T)}
            Total(T) == (CHOOSE g : Adds(g, v, T))[T]
<1>1. ASSUME NEW T \in SUBSET S, \A U \in SUBSET T : U # T => U \in P
      PROVE  T \in P
  <2>. DEFINE g == [s \in SUBSET T |-> IF s = {} THEN 0 ELSE v[PickOne(s)] + Total(TheOthers(s))]
  <2>1. ASSUME NEW U \in SUBSET T, U # T
        PROVE  g[U] = Total(U)
    <3>. DEFINE h == CHOOSE g1 : Adds(g1, v, U)
    <3>1. Adds(h, v, U)
      BY <1>1, <2>1
    <3>2. CASE U = {}
      <4>1. h[U] = 0
        BY <3>1, <3>2, AddsUnfolds
      <4>. QED
        BY <3>2, <4>1
    <3>3. CASE U # {}
      <4>. DEFINE W == TheOthers(U)
                  k == CHOOSE g1 : Adds(g1, v, W)
                  hW == [s \in SUBSET W |-> h[s]]
      <4>1. W \in SUBSET U /\ W \in SUBSET T /\ W # T
        BY <2>1, <3>3, PickOneIsIn DEF TheOthers
      <4>2. Adds(k, v, W)
        BY <1>1, <4>1
      <4>3. Adds(hW, v, W)
        BY <3>1, <4>1, AddsRestricts
      <4>4. IsFiniteSet(W)
        BY <4>1, FS_Subset
      <4>5. k = hW
        <5>. HIDE DEF k, hW, W
        <5>. QED
          BY <4>2, <4>3, <4>4, AddsIsUnique
      <4>6. Total(W) = h[W]
        BY <4>5
      <4>7. h[U] = v[PickOne(U)] + h[W]
        <5>. HIDE DEF h
        <5>. QED
          BY <3>1, <3>3, AddsUnfolds
      <4>. QED
        BY <3>3, <4>6, <4>7
    <3>. QED
      BY <3>2, <3>3
  <2>2. \A s \in SUBSET T : s # {} => TheOthers(s) \in SUBSET T /\ TheOthers(s) # T
    BY PickOneIsIn DEF TheOthers
  <2>3. \A s \in SUBSET T : s # {} => g[TheOthers(s)] = Total(TheOthers(s))
    <3>. HIDE DEF g, Total
    <3>. QED
      BY <2>1, <2>2
  <2>4. Adds(g, v, T)
    <3>. HIDE DEF Total
    <3>. QED
      BY <2>3 DEF Adds
  <2>. QED
    BY <2>4
<1>. HIDE DEF P
<1>2. SUBSET S \subseteq P
  BY <1>1, SubsetInduction
<1>. QED
  BY <1>2 DEF P

(* The sum unfolds at the element it picks. *)
LEMMA SumUnfolds ==
  ASSUME NEW v, NEW S, IsFiniteSet(S), S # {}
  PROVE  SumFunctionOnSet(v, S) = v[PickOne(S)] + SumFunctionOnSet(v, TheOthers(S))
<1>. DEFINE W == TheOthers(S)
            g == CHOOSE g1 : Adds(g1, v, S)
            k == CHOOSE g1 : Adds(g1, v, W)
            gW == [s \in SUBSET W |-> g[s]]
<1>1. W \in SUBSET S /\ IsFiniteSet(W)
  BY FS_Subset DEF TheOthers
<1>2. Adds(g, v, S) /\ Adds(k, v, W)
  BY <1>1, AddsExists
<1>3. Adds(gW, v, W)
  <2>. HIDE DEF g, W
  <2>. QED
    BY <1>1, <1>2, AddsRestricts
<1>4. k = gW
  <2>. HIDE DEF k, gW, W
  <2>. QED
    BY <1>1, <1>2, <1>3, AddsIsUnique
<1>5. k[W] = g[W]
  BY <1>4
<1>6. g[S] = v[PickOne(S)] + g[W]
  <2>. HIDE DEF g
  <2>. QED
    BY <1>2, AddsUnfolds
<1>. QED
  BY <1>5, <1>6, SumIsChosen

-----------------------------------------------------------------------------
THEOREM SumOfNothing == ASSUME NEW v PROVE SumFunctionOnSet(v, {}) = 0
<1>. DEFINE g == CHOOSE g1 : Adds(g1, v, {})
<1>1. Adds(g, v, {})
  BY AddsExists, FS_EmptySet
<1>2. g[{}] = 0
  <2>. HIDE DEF g
  <2>. QED
    BY <1>1, AddsUnfolds
<1>. QED
  BY <1>2, SumIsChosen

(* The sum of integers is one. *)
THEOREM SumIsInt ==
  ASSUME NEW v, NEW S, IsFiniteSet(S), \A x \in S : v[x] \in Int
  PROVE  SumFunctionOnSet(v, S) \in Int
<1>. DEFINE P == {T \in SUBSET S : SumFunctionOnSet(v, T) \in Int}
<1>1. ASSUME NEW T \in SUBSET S, \A U \in SUBSET T : U # T => U \in P
      PROVE  T \in P
  <2>1. CASE T = {}
    BY <2>1, SumOfNothing
  <2>2. CASE T # {}
    <3>1. PickOne(T) \in T /\ TheOthers(T) \in SUBSET T /\ TheOthers(T) # T
      BY <2>2, PickOneIsIn DEF TheOthers
    <3>2. SumFunctionOnSet(v, TheOthers(T)) \in Int /\ v[PickOne(T)] \in Int
      BY <1>1, <3>1
    <3>3. IsFiniteSet(T)
      BY FS_Subset
    <3>. QED
      BY <2>2, <3>2, <3>3, SumUnfolds
  <2>. QED
    BY <2>1, <2>2
<1>. HIDE DEF P
<1>2. SUBSET S \subseteq P
  BY <1>1, SubsetInduction
<1>. QED
  BY <1>2 DEF P

(* Whichever element is set apart, it adds its value to the sum of the     *)
(* others.                                                                 *)
THEOREM SumOfOneMore ==
  ASSUME NEW v, NEW S, IsFiniteSet(S), \A x \in S : v[x] \in Int, NEW a \in S
  PROVE  SumFunctionOnSet(v, S) = v[a] + SumFunctionOnSet(v, S \ {a})
<1>. DEFINE Sum(T) == SumFunctionOnSet(v, T)
            P == {T \in SUBSET S : \A x \in T : Sum(T) = v[x] + Sum(T \ {x})}
<1>1. ASSUME NEW T \in SUBSET S, \A U \in SUBSET T : U # T => U \in P, NEW x \in T
      PROVE  Sum(T) = v[x] + Sum(T \ {x})
  <2>. DEFINE y == PickOne(T)
  <2>1. y \in T
    BY PickOneIsIn
  <2>2. Sum(T) = v[y] + Sum(T \ {y})
    <3>1. IsFiniteSet(T)
      BY FS_Subset
    <3>. QED
      BY <3>1, SumUnfolds DEF TheOthers
  <2>. HIDE DEF y
  <2>3. CASE x = y
    BY <2>2, <2>3
  <2>4. CASE x # y
    <3>. DEFINE R == T \ {x, y}
    <3>1. /\ T \ {y} \in P /\ T \ {x} \in P
          /\ (T \ {y}) \ {x} = R /\ (T \ {x}) \ {y} = R
      BY <1>1, <2>1
    <3>2. Sum(T \ {y}) = v[x] + Sum(R) /\ Sum(T \ {x}) = v[y] + Sum(R)
      BY <2>1, <2>4, <3>1
    <3>3. v[x] \in Int /\ v[y] \in Int /\ Sum(R) \in Int
      <4>1. R \in SUBSET S
        OBVIOUS
      <4>2. IsFiniteSet(R)
        BY <4>1, FS_Subset
      <4>. QED
        BY <4>1, <4>2, <2>1, SumIsInt
    <3>. HIDE DEF Sum, R
    <3>. QED
      BY <2>2, <3>2, <3>3
  <2>. QED
    BY <2>3, <2>4
<1>. HIDE DEF P
<1>2. SUBSET S \subseteq P
  <2>1. ASSUME NEW T \in SUBSET S, \A U \in SUBSET T : U # T => U \in P
        PROVE  T \in P
    BY <1>1, <2>1 DEF P
  <2>. QED
    BY <2>1, SubsetInduction
<1>3. S \in P
  BY <1>2
<1>. QED
  BY <1>3 DEF P

(* Sums of equal values are equal. *)
THEOREM SumOfSame ==
  ASSUME NEW v, NEW w, NEW S, IsFiniteSet(S), \A x \in S : v[x] = w[x]
  PROVE  SumFunctionOnSet(v, S) = SumFunctionOnSet(w, S)
<1>. DEFINE P == {T \in SUBSET S : SumFunctionOnSet(v, T) = SumFunctionOnSet(w, T)}
<1>1. ASSUME NEW T \in SUBSET S, \A U \in SUBSET T : U # T => U \in P
      PROVE  T \in P
  <2>1. CASE T = {}
    BY <2>1, SumOfNothing
  <2>2. CASE T # {}
    <3>1. PickOne(T) \in T /\ TheOthers(T) \in SUBSET T /\ TheOthers(T) # T
      BY <2>2, PickOneIsIn DEF TheOthers
    <3>2. SumFunctionOnSet(v, TheOthers(T)) = SumFunctionOnSet(w, TheOthers(T)) /\ v[PickOne(T)] = w[PickOne(T)]
      BY <1>1, <3>1
    <3>3. IsFiniteSet(T)
      BY FS_Subset
    <3>. QED
      BY <2>2, <3>2, <3>3, SumUnfolds
  <2>. QED
    BY <2>1, <2>2
<1>. HIDE DEF P
<1>2. SUBSET S \subseteq P
  BY <1>1, SubsetInduction
<1>. QED
  BY <1>2 DEF P
-----------------------------------------------------------------------------
(* Sums of whole functions, the form the models use.                       *)
ValueAt(f, a) == IF a \in DOMAIN f THEN f[a] ELSE 0

THEOREM SumFunctionIsInt ==
  ASSUME NEW f, IsFiniteSet(DOMAIN f), \A x \in DOMAIN f : f[x] \in Int
  PROVE  SumFunction(f) \in Int
BY SumIsInt DEF SumFunction

THEOREM SumFunctionOfNothing == ASSUME NEW f, DOMAIN f = {} PROVE SumFunction(f) = 0
BY SumOfNothing DEF SumFunction

(* One argument apart, the function's value there adds to the others'.     *)
LEMMA SumApart ==
  ASSUME NEW f, IsFiniteSet(DOMAIN f), \A x \in DOMAIN f : f[x] \in Int, NEW a
  PROVE  /\ SumFunction(f) = ValueAt(f, a) + SumFunctionOnSet(f, DOMAIN f \ {a})
         /\ SumFunctionOnSet(f, DOMAIN f \ {a}) \in Int
         /\ ValueAt(f, a) \in Int
<1>1. IsFiniteSet(DOMAIN f \ {a})
  BY FS_RemoveElement
<1>2. SumFunctionOnSet(f, DOMAIN f \ {a}) \in Int
  BY <1>1, SumIsInt
<1>3. CASE a \in DOMAIN f
  BY <1>2, <1>3, SumOfOneMore DEF SumFunction, ValueAt
<1>4. CASE a \notin DOMAIN f
  <2>1. DOMAIN f \ {a} = DOMAIN f
    BY <1>4
  <2>. QED
    BY <1>2, <1>4, <2>1 DEF SumFunction, ValueAt
<1>. QED
  BY <1>3, <1>4

(* Two functions that differ at one argument only, where one of them may   *)
(* not be defined: their sums differ by their values there.                *)
THEOREM SumDiffersAt ==
  ASSUME NEW f, NEW g, NEW a, IsFiniteSet(DOMAIN f),
         DOMAIN f \ {a} = DOMAIN g \ {a},
         \A x \in DOMAIN f \ {a} : g[x] = f[x],
         \A x \in DOMAIN f : f[x] \in Int, \A x \in DOMAIN g : g[x] \in Int
  PROVE  SumFunction(g) = SumFunction(f) - ValueAt(f, a) + ValueAt(g, a)
<1>1. IsFiniteSet(DOMAIN g)
  <2>1. IsFiniteSet(DOMAIN f \ {a})
    BY FS_RemoveElement
  <2>2. DOMAIN g \in SUBSET ((DOMAIN f \ {a}) \cup {a})
    OBVIOUS
  <2>. QED
    BY <2>1, <2>2, FS_AddElement, FS_Subset
<1>2. SumFunctionOnSet(g, DOMAIN g \ {a}) = SumFunctionOnSet(f, DOMAIN f \ {a})
  <2>1. IsFiniteSet(DOMAIN f \ {a})
    BY FS_RemoveElement
  <2>. QED
    BY <2>1, SumOfSame
<1>3. /\ SumFunction(f) = ValueAt(f, a) + SumFunctionOnSet(f, DOMAIN f \ {a})
      /\ SumFunctionOnSet(f, DOMAIN f \ {a}) \in Int /\ ValueAt(f, a) \in Int
  BY SumApart
<1>4. /\ SumFunction(g) = ValueAt(g, a) + SumFunctionOnSet(g, DOMAIN g \ {a})
      /\ ValueAt(g, a) \in Int
  BY <1>1, SumApart
<1>. QED
  BY <1>2, <1>3, <1>4

(* A sum of numbers is one, and no less than any of them. *)
THEOREM SumFunctionIsNat ==
  ASSUME NEW f, IsFiniteSet(DOMAIN f), \A x \in DOMAIN f : f[x] \in Nat
  PROVE  /\ SumFunction(f) \in Nat
         /\ \A x \in DOMAIN f : f[x] <= SumFunction(f)
<1>. DEFINE S == DOMAIN f
            P == {T \in SUBSET S : SumFunctionOnSet(f, T) \in Nat}
<1>1. ASSUME NEW T \in SUBSET S, \A U \in SUBSET T : U # T => U \in P
      PROVE  T \in P
  <2>1. CASE T = {}
    BY <2>1, SumOfNothing
  <2>2. CASE T # {}
    <3>1. PickOne(T) \in T /\ TheOthers(T) \in SUBSET T /\ TheOthers(T) # T
      BY <2>2, PickOneIsIn DEF TheOthers
    <3>2. SumFunctionOnSet(f, TheOthers(T)) \in Nat /\ f[PickOne(T)] \in Nat
      BY <1>1, <3>1
    <3>3. IsFiniteSet(T)
      BY FS_Subset
    <3>. QED
      BY <2>2, <3>2, <3>3, SumUnfolds
  <2>. QED
    BY <2>1, <2>2
<1>0. IsFiniteSet(S)
  OBVIOUS
<1>. HIDE DEF P, S
<1>2. SUBSET S \subseteq P
  BY <1>0, <1>1, SubsetInduction
<1>. USE DEF S
<1>3. \A T \in SUBSET S : SumFunctionOnSet(f, T) \in Nat
  BY <1>2 DEF P
<1>4. ASSUME NEW x \in S PROVE f[x] <= SumFunction(f)
  <2>1. SumFunction(f) = f[x] + SumFunctionOnSet(f, S \ {x})
    BY SumOfOneMore DEF SumFunction
  <2>2. SumFunctionOnSet(f, S \ {x}) \in Nat
    BY <1>3
  <2>. QED
    BY <2>1, <2>2
<1>. QED
  BY <1>3, <1>4 DEF SumFunction

(* Nothing added up is nothing. *)
THEOREM SumOfZeros ==
  ASSUME NEW f, IsFiniteSet(DOMAIN f), \A x \in DOMAIN f : f[x] = 0
  PROVE  SumFunction(f) = 0
<1>. DEFINE S == DOMAIN f
            P == {T \in SUBSET S : SumFunctionOnSet(f, T) = 0}
<1>1. ASSUME NEW T \in SUBSET S, \A U \in SUBSET T : U # T => U \in P
      PROVE  T \in P
  <2>1. CASE T = {}
    BY <2>1, SumOfNothing
  <2>2. CASE T # {}
    <3>1. TheOthers(T) \in SUBSET T /\ TheOthers(T) # T /\ PickOne(T) \in T
      BY <2>2, PickOneIsIn DEF TheOthers
    <3>2. SumFunctionOnSet(f, TheOthers(T)) = 0
      BY <1>1, <3>1
    <3>3. IsFiniteSet(T)
      BY FS_Subset
    <3>4. SumFunctionOnSet(f, T) = f[PickOne(T)] + SumFunctionOnSet(f, TheOthers(T))
      BY <2>2, <3>3, SumUnfolds
    <3>. QED
      BY <3>1, <3>2, <3>4
  <2>. QED
    BY <2>1, <2>2
<1>. HIDE DEF P
<1>2. S \in P
  BY <1>1, SubsetInduction
<1>. QED
  BY <1>2 DEF P, SumFunction

(* The sum of the sums is the sum of the values added.                     *)
THEOREM SumOfSums ==
  ASSUME NEW S, IsFiniteSet(S), NEW f \in [S -> Int], NEW g \in [S -> Int]
  PROVE  SumFunction([x \in S |-> f[x] + g[x]]) = SumFunction(f) + SumFunction(g)
<1>. DEFINE h == [x \in S |-> f[x] + g[x]]
            Sum(v, T) == SumFunctionOnSet(v, T)
            P == {T \in SUBSET S : Sum(h, T) = Sum(f, T) + Sum(g, T)}
<1>1. ASSUME NEW T \in SUBSET S, \A U \in SUBSET T : U # T => U \in P
      PROVE  T \in P
  <2>0. IsFiniteSet(T)
    BY FS_Subset
  <2>1. CASE T = {}
    BY <2>1, SumOfNothing
  <2>2. CASE T # {}
    <3>. DEFINE W == TheOthers(T)  y == PickOne(T)
    <3>1. y \in T /\ W \in SUBSET T /\ W # T /\ IsFiniteSet(W)
      BY <2>0, <2>2, PickOneIsIn, FS_Subset DEF TheOthers
    <3>2. Sum(h, W) = Sum(f, W) + Sum(g, W)
      BY <1>1, <3>1
    <3>3. Sum(f, W) \in Int /\ Sum(g, W) \in Int /\ f[y] \in Int /\ g[y] \in Int
      BY <3>1, SumIsInt
    <3>4. h[y] = f[y] + g[y]
      BY <3>1
    <3>5. Sum(h, T) = h[y] + Sum(h, W) /\ Sum(f, T) = f[y] + Sum(f, W) /\ Sum(g, T) = g[y] + Sum(g, W)
      BY <2>0, <2>2, SumUnfolds
    <3>6. Sum(h, T) = Sum(f, T) + Sum(g, T)
      <4>. HIDE DEF Sum, h, W, y
      <4>. QED
        BY <3>2, <3>3, <3>4, <3>5
    <3>. QED
      BY <3>6
  <2>. QED
    BY <2>1, <2>2
<1>. HIDE DEF P
<1>2. S \in P
  BY <1>1, SubsetInduction
<1>3. DOMAIN h = S /\ DOMAIN f = S /\ DOMAIN g = S
  OBVIOUS
<1>. QED
  BY <1>2, <1>3 DEF P, SumFunction

(* Where no value is less, neither is the sum.                             *)
THEOREM SumNoLess ==
  ASSUME NEW S, IsFiniteSet(S), NEW f \in [S -> Int], NEW g \in [S -> Int],
         \A x \in S : f[x] <= g[x]
  PROVE  SumFunction(f) <= SumFunction(g)
<1>. DEFINE more == [x \in S |-> g[x] - f[x]]
<1>1. more \in [S -> Int] /\ \A x \in S : more[x] \in Nat
  OBVIOUS
<1>2. [x \in S |-> f[x] + more[x]] = g
  OBVIOUS
<1>. HIDE DEF more
<1>3. SumFunction(g) = SumFunction(f) + SumFunction(more)
  BY <1>1, <1>2, SumOfSums
<1>4. DOMAIN more = S /\ DOMAIN f = S
  BY <1>1
<1>5. SumFunction(more) \in Nat
  BY <1>1, <1>4, SumFunctionIsNat
<1>6. SumFunction(f) \in Int
  BY <1>4, SumFunctionIsInt
<1>. QED
  BY <1>3, <1>5, <1>6

(* A sum over a set is the sum over a part of it and over the rest.        *)
THEOREM SumOfParts ==
  ASSUME NEW v, NEW S, IsFiniteSet(S), \A x \in S : v[x] \in Int, NEW A \in SUBSET S
  PROVE  SumFunctionOnSet(v, S) = SumFunctionOnSet(v, A) + SumFunctionOnSet(v, S \ A)
<1>. DEFINE Sum(T) == SumFunctionOnSet(v, T)
            P == {T \in SUBSET S : Sum(S) = Sum(T) + Sum(S \ T)}
<1>1. \A T \in SUBSET S : IsFiniteSet(T) /\ Sum(T) \in Int
  <2>. SUFFICES ASSUME NEW T \in SUBSET S PROVE IsFiniteSet(T) /\ Sum(T) \in Int
    OBVIOUS
  <2>1. IsFiniteSet(T)
    BY FS_Subset
  <2>. QED
    BY <2>1, SumIsInt
<1>2. ASSUME NEW T \in SUBSET S, \A U \in SUBSET T : U # T => U \in P
      PROVE  T \in P
  <2>1. CASE T = {}
    <3>1. S \ T = S
      BY <2>1
    <3>. QED
      BY <1>1, <2>1, <3>1, SumOfNothing
  <2>2. CASE T # {}
    <3>. DEFINE y == PickOne(T)  W == T \ {y}  R == S \ W
    <3>1. /\ y \in T /\ W \in SUBSET T /\ W # T /\ y \in R /\ R \in SUBSET S
          /\ R \ {y} = S \ T /\ v[y] \in Int
      BY <2>2, PickOneIsIn
    <3>2. Sum(S) = Sum(W) + Sum(R)
      BY <1>2, <3>1
    <3>3. Sum(R) = v[y] + Sum(S \ T)
      BY <1>1, <3>1, SumOfOneMore
    <3>4. Sum(T) = v[y] + Sum(W)
      BY <1>1, <3>1, SumOfOneMore
    <3>5. Sum(W) \in Int /\ Sum(S \ T) \in Int
      BY <1>1, <3>1
    <3>6. Sum(S) = Sum(T) + Sum(S \ T)
      <4>. HIDE DEF Sum, y, W, R
      <4>. QED
        BY <3>1, <3>2, <3>3, <3>4, <3>5
    <3>. QED
      BY <3>6
  <2>. QED
    BY <2>1, <2>2
<1>. HIDE DEF P
<1>3. A \in P
  BY <1>2, SubsetInduction
<1>. QED
  BY <1>3 DEF P

(* A sum may be taken over the values of a one to one map instead.         *)
THEOREM SumOfBijection ==
  ASSUME NEW S, IsFiniteSet(S), NEW v, NEW w, NEW R, NEW m \in Bijection(S, R),
         \A x \in S : v[x] = w[m[x]], \A y \in R : w[y] \in Int
  PROVE  SumFunctionOnSet(v, S) = SumFunctionOnSet(w, R)
<1>. DEFINE Images(U) == {m[x] : x \in U}
            P == {U \in SUBSET S : SumFunctionOnSet(v, U) = SumFunctionOnSet(w, Images(U))}
<1>0. /\ m \in [S -> R] /\ \A x, y \in S : m[x] = m[y] => x = y
      /\ Images(S) = R
  BY DEF Bijection, Injection, Surjection, IsInjective
<1>1. ASSUME NEW U \in SUBSET S, \A V \in SUBSET U : V # U => V \in P
      PROVE  U \in P
  <2>0. IsFiniteSet(U)
    BY FS_Subset
  <2>1. CASE U = {}
    <3>1. Images(U) = {}
      BY <2>1
    <3>. QED
      BY <2>1, <3>1, SumOfNothing
  <2>2. CASE U # {}
    <3>. DEFINE y == PickOne(U)  W == TheOthers(U)
    <3>1. y \in U /\ W \in SUBSET U /\ W # U /\ W = U \ {y}
      BY <2>2, PickOneIsIn DEF TheOthers
    <3>2. SumFunctionOnSet(v, W) = SumFunctionOnSet(w, Images(W))
      BY <1>1, <3>1
    <3>3. SumFunctionOnSet(v, U) = v[y] + SumFunctionOnSet(v, W)
      BY <2>0, <2>2, SumUnfolds
    <3>4. IsFiniteSet(Images(U)) /\ \A z \in Images(U) : w[z] \in Int
      <4>. DEFINE f == [x \in U |-> m[x]]
      <4>1. f \in Surjection(U, Images(U))
        BY DEF Surjection
      <4>2. IsFiniteSet(Images(U))
        <5>. HIDE DEF f, Images
        <5>. QED
          BY <2>0, <4>1, FS_Surjection
      <4>. QED
        BY <1>0, <4>2
    <3>5. m[y] \in Images(U) /\ Images(U) \ {m[y]} = Images(W)
      <4>. HIDE DEF y, W
      <4>. QED
        BY <1>0, <3>1
    <3>6. SumFunctionOnSet(w, Images(U)) = w[m[y]] + SumFunctionOnSet(w, Images(W))
      <4>. HIDE DEF Images, y, W
      <4>. QED
        BY <3>4, <3>5, SumOfOneMore
    <3>7. v[y] = w[m[y]]
      BY <3>1
    <3>. QED
      BY <3>2, <3>3, <3>6, <3>7
  <2>. QED
    BY <2>1, <2>2
<1>. HIDE DEF P
<1>2. S \in P
  BY <1>1, SubsetInduction
<1>. QED
  BY <1>0, <1>2 DEF P

(* A sum of zeros and ones counts the ones.                                *)
THEOREM SumOfOnes ==
  ASSUME NEW f, IsFiniteSet(DOMAIN f), \A x \in DOMAIN f : f[x] \in {0, 1}
  PROVE  SumFunction(f) = Cardinality({x \in DOMAIN f : f[x] = 1})
<1>. DEFINE S == DOMAIN f
            Ones(T) == {x \in T : f[x] = 1}
            P == {T \in SUBSET S : SumFunctionOnSet(f, T) = Cardinality(Ones(T))}
<1>0. IsFiniteSet(S)
  OBVIOUS
<1>1. ASSUME NEW T \in SUBSET S, \A U \in SUBSET T : U # T => U \in P
      PROVE  T \in P
  <2>1. CASE T = {}
    <3>1. Ones(T) = {}
      BY <2>1
    <3>. QED
      BY <2>1, <3>1, SumOfNothing, FS_EmptySet
  <2>2. CASE T # {}
    <3>. DEFINE y == PickOne(T)  W == TheOthers(T)
    <3>1. y \in T /\ W \in SUBSET T /\ W # T /\ W = T \ {y}
      BY <2>2, PickOneIsIn DEF TheOthers
    <3>2. IsFiniteSet(T) /\ IsFiniteSet(Ones(W))
      <4>1. Ones(W) \in SUBSET S
        BY <3>1
      <4>. QED
        BY <1>0, <4>1, FS_Subset
    <3>3. SumFunctionOnSet(f, W) = Cardinality(Ones(W))
      BY <1>1, <3>1
    <3>4. SumFunctionOnSet(f, T) = f[y] + SumFunctionOnSet(f, W)
      BY <2>2, <3>2, SumUnfolds
    <3>5. Cardinality(Ones(W)) \in Nat
      BY <3>2, FS_CardinalityType
    <3>6. CASE f[y] = 1
      <4>1. Ones(T) = Ones(W) \cup {y} /\ y \notin Ones(W)
        BY <3>1, <3>6
      <4>2. Cardinality(Ones(T)) = Cardinality(Ones(W)) + 1
        <5>. HIDE DEF Ones, W, y
        <5>. QED
          BY <3>2, <4>1, FS_AddElement
      <4>. QED
        BY <3>3, <3>4, <3>5, <3>6, <4>2
    <3>7. CASE f[y] = 0
      <4>1. Ones(T) = Ones(W)
        BY <3>1, <3>7
      <4>2. SumFunctionOnSet(f, T) = Cardinality(Ones(W))
        BY <3>3, <3>4, <3>5, <3>7
      <4>. QED
        BY <4>1, <4>2
    <3>8. f[y] \in {0, 1}
      BY <3>1
    <3>. QED
      BY <3>6, <3>7, <3>8
  <2>. QED
    BY <2>1, <2>2
<1>. HIDE DEF P, S
<1>2. S \in P
  BY <1>0, <1>1, SubsetInduction
<1>. QED
  BY <1>2 DEF P, S, SumFunction

(* Adding up class by class, whatever the classes are, gives the sum.      *)
THEOREM SumByClass ==
  ASSUME NEW S, IsFiniteSet(S), NEW v \in [S -> Int],
         NEW C, IsFiniteSet(C), NEW m \in [S -> C]
  PROVE  SumFunction(v)
           = SumFunction([c \in C |-> SumFunction([x \in {y \in S : m[y] = c} |-> v[x]])])
<1>. DEFINE Class(T, c) == {y \in T : m[y] = c}
            Totals(T) == [c \in C |-> SumFunctionOnSet(v, Class(T, c))]
            P == {T \in SUBSET S : SumFunctionOnSet(v, T) = SumFunction(Totals(T))}
<1>0. ASSUME NEW T \in SUBSET S, NEW c
      PROVE  Class(T, c) \in SUBSET S /\ IsFiniteSet(Class(T, c))
             /\ SumFunctionOnSet(v, Class(T, c)) \in Int
  <2>1. Class(T, c) \in SUBSET S
    OBVIOUS
  <2>2. IsFiniteSet(Class(T, c))
    BY <2>1, FS_Subset
  <2>. HIDE DEF Class
  <2>3. \A x \in Class(T, c) : v[x] \in Int
    BY <2>1
  <2>. QED
    BY <2>1, <2>2, <2>3, SumIsInt
<1>1. ASSUME NEW T \in SUBSET S
      PROVE  DOMAIN Totals(T) = C /\ \A c \in C : Totals(T)[c] \in Int
  <2>. HIDE DEF Class
  <2>. QED
    BY <1>0
<1>2. ASSUME NEW T \in SUBSET S, \A U \in SUBSET T : U # T => U \in P
      PROVE  T \in P
  <2>1. CASE T = {}
    <3>1. \A c \in C : Class(T, c) = {}
      BY <2>1
    <3>2. \A c \in C : Totals(T)[c] = 0
      <4>. HIDE DEF Class
      <4>. QED
        BY <3>1, SumOfNothing
    <3>3. SumFunction(Totals(T)) = 0
      <4>1. DOMAIN Totals(T) = C
        BY <1>1
      <4>. HIDE DEF Totals
      <4>. QED
        BY <3>2, <4>1, SumOfZeros
    <3>. QED
      BY <2>1, <3>3, SumOfNothing
  <2>2. CASE T # {}
    <3>. DEFINE y == PickOne(T)  W == TheOthers(T)  k == m[y]
    <3>1. y \in T /\ W \in SUBSET T /\ W # T /\ W = T \ {y} /\ k \in C /\ IsFiniteSet(T)
      BY <2>2, PickOneIsIn, FS_Subset DEF TheOthers
    <3>2. /\ SumFunctionOnSet(v, W) = SumFunction(Totals(W))
          /\ SumFunctionOnSet(v, T) = v[y] + SumFunctionOnSet(v, W)
      BY <1>2, <2>2, <3>1, SumUnfolds
    <3>3. \A c \in C \ {k} : Class(T, c) = Class(W, c)
      <4>. HIDE DEF y, W
      <4>. QED
        BY <3>1
    <3>4. y \in Class(T, k) /\ Class(T, k) \ {y} = Class(W, k)
      <4>. HIDE DEF y, W
      <4>. QED
        BY <3>1
    <3>5. W \in SUBSET S /\ v[y] \in Int
      BY <3>1
    <3>. HIDE DEF y, W, k
    <3>6. SumFunctionOnSet(v, Class(T, k)) = v[y] + SumFunctionOnSet(v, Class(W, k))
      <4>1. IsFiniteSet(Class(T, k)) /\ \A x \in Class(T, k) : v[x] \in Int
        BY <1>0
      <4>. HIDE DEF Class
      <4>. QED
        BY <3>4, <4>1, SumOfOneMore
    <3>7. /\ DOMAIN Totals(T) = C /\ \A c \in C : Totals(T)[c] \in Int
          /\ DOMAIN Totals(W) = C /\ \A c \in C : Totals(W)[c] \in Int
      BY <1>1, <3>5
    <3>8. /\ \A c \in C \ {k} : Totals(T)[c] = Totals(W)[c]
          /\ Totals(T)[k] = v[y] + Totals(W)[k]
      <4>. HIDE DEF Class
      <4>. QED
        BY <3>1, <3>3, <3>6
    <3>. HIDE DEF Totals
    <3>9. SumFunction(Totals(T))
            = SumFunction(Totals(W)) - ValueAt(Totals(W), k) + ValueAt(Totals(T), k)
      BY <3>7, <3>8, SumDiffersAt
    <3>10. SumFunction(Totals(W)) \in Int
      BY <3>7, SumFunctionIsInt
    <3>11. ValueAt(Totals(W), k) \in Int /\ ValueAt(Totals(T), k) = v[y] + ValueAt(Totals(W), k)
      BY <3>1, <3>7, <3>8 DEF ValueAt
    <3>12. SumFunction(Totals(T)) = v[y] + SumFunction(Totals(W))
      BY <3>5, <3>9, <3>10, <3>11
    <3>. QED
      BY <3>2, <3>12
  <2>. QED
    BY <2>1, <2>2
<1>. HIDE DEF P
<1>3. S \in P
  BY <1>2, SubsetInduction
<1>4. ASSUME NEW c \in C
      PROVE  SumFunctionOnSet(v, Class(S, c)) = SumFunction([x \in Class(S, c) |-> v[x]])
  <2>. DEFINE w == [x \in Class(S, c) |-> v[x]]
  <2>1. IsFiniteSet(Class(S, c))
    BY <1>0
  <2>2. DOMAIN w = Class(S, c) /\ \A x \in Class(S, c) : v[x] = w[x]
    OBVIOUS
  <2>. HIDE DEF w, Class
  <2>3. SumFunctionOnSet(v, Class(S, c)) = SumFunctionOnSet(w, Class(S, c))
    BY <2>1, <2>2, SumOfSame
  <2>4. SumFunctionOnSet(v, Class(S, c)) = SumFunction(w)
    BY <2>2, <2>3 DEF SumFunction
  <2>. QED
    BY <2>4 DEF w
<1>5. Totals(S) = [c \in C |-> SumFunction([x \in Class(S, c) |-> v[x]])]
  <2>. HIDE DEF Class
  <2>. QED
    BY <1>4
<1>6. SumFunctionOnSet(v, S) = SumFunction(Totals(S)) /\ DOMAIN v = S
  BY <1>3 DEF P
<1>. QED
  BY <1>5, <1>6 DEF SumFunction

(* Rows first or columns first, a table has one total.                     *)
THEOREM SumExchange ==
  ASSUME NEW S, IsFiniteSet(S), NEW T, IsFiniteSet(T), NEW f \in [S -> [T -> Int]]
  PROVE  SumFunction([x \in S |-> SumFunction(f[x])])
           = SumFunction([y \in T |-> SumFunction([x \in S |-> f[x][y]])])
<1>. DEFINE Row == [x \in S |-> SumFunction(f[x])]
            Col(y) == [x \in S |-> f[x][y]]
            Foot(U) == [y \in T |-> SumFunctionOnSet(Col(y), U)]
            P == {U \in SUBSET S : SumFunctionOnSet(Row, U) = SumFunction(Foot(U))}
<1>1. \A x \in S : Row[x] = SumFunction(f[x]) /\ DOMAIN f[x] = T /\ f[x] \in [T -> Int]
  OBVIOUS
<1>2. \A y \in T : DOMAIN Col(y) = S /\ \A x \in S : Col(y)[x] = f[x][y] /\ Col(y)[x] \in Int
  OBVIOUS
<1>. HIDE DEF Col, Row
<1>3. ASSUME NEW U \in SUBSET S PROVE Foot(U) \in [T -> Int]
  <2>1. IsFiniteSet(U)
    BY FS_Subset
  <2>2. ASSUME NEW y \in T PROVE SumFunctionOnSet(Col(y), U) \in Int
    BY <1>2, <2>1, SumIsInt
  <2>. QED
    BY <2>2
<1>4. ASSUME NEW U \in SUBSET S, \A V \in SUBSET U : V # U => V \in P
      PROVE  U \in P
  <2>1. CASE U = {}
    <3>1. DOMAIN Foot(U) = T /\ \A y \in T : Foot(U)[y] = 0
      BY <2>1, SumOfNothing
    <3>. HIDE DEF Foot
    <3>2. SumFunction(Foot(U)) = 0
      BY <3>1, SumOfZeros
    <3>. QED
      BY <2>1, <3>2, SumOfNothing
  <2>2. CASE U # {}
    <3>. DEFINE a == PickOne(U)  W == TheOthers(U)
    <3>1. a \in U /\ W \in SUBSET U /\ W # U /\ IsFiniteSet(U)
      BY <2>2, PickOneIsIn, FS_Subset DEF TheOthers
    <3>2. /\ SumFunctionOnSet(Row, W) = SumFunction(Foot(W))
          /\ SumFunctionOnSet(Row, U) = Row[a] + SumFunctionOnSet(Row, W)
      BY <1>4, <2>2, <3>1, SumUnfolds
    <3>3. \A y \in T : SumFunctionOnSet(Col(y), U) = Col(y)[a] + SumFunctionOnSet(Col(y), W)
      BY <2>2, <3>1, SumUnfolds
    <3>. HIDE DEF a, W
    <3>4. W \in SUBSET S /\ a \in S
      BY <3>1
    <3>5. Foot(U) = [y \in T |-> f[a][y] + Foot(W)[y]]
      BY <1>2, <3>3, <3>4
    <3>6. Foot(W) \in [T -> Int]
      BY <1>3, <3>4
    <3>. HIDE DEF Foot
    <3>7. SumFunction(Foot(U)) = SumFunction(f[a]) + SumFunction(Foot(W))
      BY <1>1, <3>4, <3>5, <3>6, SumOfSums
    <3>. QED
      BY <1>1, <3>2, <3>4, <3>7
  <2>. QED
    BY <2>1, <2>2
<1>. HIDE DEF P
<1>5. S \in P
  BY <1>4, SubsetInduction
<1>6. SumFunctionOnSet(Row, S) = SumFunction(Foot(S)) /\ DOMAIN Row = S
  BY <1>5 DEF P, Row
<1>7. \A y \in T : SumFunctionOnSet(Col(y), S) = SumFunction(Col(y))
  BY <1>2 DEF SumFunction
<1>8. Foot(S) = [y \in T |-> SumFunction(Col(y))]
  BY <1>7
<1>9. SumFunction(Row) = SumFunction([y \in T |-> SumFunction(Col(y))])
  BY <1>6, <1>8 DEF SumFunction
<1>. QED
  BY <1>9 DEF Row, Col

(* A sum over a part is one over the whole, with nothing outside the part. *)
THEOREM SumOverPart ==
  ASSUME NEW S, IsFiniteSet(S), NEW A \in SUBSET S, NEW f \in [A -> Int]
  PROVE  SumFunction(f) = SumFunction([x \in S |-> IF x \in A THEN f[x] ELSE 0])
<1>. DEFINE g == [x \in S |-> IF x \in A THEN f[x] ELSE 0]
<1>1. /\ DOMAIN g = S /\ \A x \in S : g[x] \in Int
      /\ \A x \in A : g[x] = f[x]
      /\ \A x \in S \ A : g[x] = 0
  OBVIOUS
<1>2. IsFiniteSet(A) /\ IsFiniteSet(S \ A) /\ DOMAIN f = A
  BY FS_Subset
<1>. HIDE DEF g
<1>3. SumFunctionOnSet(g, S) = SumFunctionOnSet(g, A) + SumFunctionOnSet(g, S \ A)
  BY <1>1, SumOfParts
<1>4. SumFunctionOnSet(g, A) = SumFunctionOnSet(f, A)
  BY <1>1, <1>2, SumOfSame
<1>5. SumFunctionOnSet(g, S \ A) = 0
  <2>. DEFINE z == [x \in S \ A |-> 0]
  <2>1. DOMAIN z = S \ A /\ \A x \in S \ A : z[x] = 0
    OBVIOUS
  <2>. HIDE DEF z
  <2>2. SumFunction(z) = 0
    BY <1>2, <2>1, SumOfZeros
  <2>3. SumFunctionOnSet(g, S \ A) = SumFunctionOnSet(z, S \ A)
    BY <1>1, <1>2, <2>1, SumOfSame
  <2>. QED
    BY <2>1, <2>2, <2>3 DEF SumFunction
<1>6. SumFunction(f) \in Int
  BY <1>2, SumFunctionIsInt
<1>7. SumFunctionOnSet(f, A) = SumFunction(f)
  BY <1>2 DEF SumFunction
<1>8. SumFunction(g) = SumFunction(f)
  BY <1>1, <1>3, <1>4, <1>5, <1>6, <1>7 DEF SumFunction
<1>. QED
  BY <1>8 DEF g

(* The elements of a part, counted as ones of the whole. *)
THEOREM CountOfPart ==
  ASSUME NEW S, IsFiniteSet(S), NEW A \in SUBSET S
  PROVE  Cardinality(A) = SumFunction([x \in S |-> IF x \in A THEN 1 ELSE 0])
<1>. DEFINE f == [x \in S |-> IF x \in A THEN 1 ELSE 0]
<1>1. DOMAIN f = S /\ \A x \in S : f[x] \in {0, 1}
  OBVIOUS
<1>2. {x \in S : f[x] = 1} = A
  OBVIOUS
<1>. HIDE DEF f
<1>3. SumFunction(f) = Cardinality(A)
  BY <1>1, <1>2, SumOfOnes
<1>. QED
  BY <1>3 DEF f

(* The difference of two sums is the sum of the differences.               *)
THEOREM SumOfDifferences ==
  ASSUME NEW S, IsFiniteSet(S), NEW f \in [S -> Int], NEW g \in [S -> Int]
  PROVE  SumFunction([x \in S |-> f[x] - g[x]]) = SumFunction(f) - SumFunction(g)
<1>. DEFINE h == [x \in S |-> f[x] - g[x]]
<1>1. h \in [S -> Int] /\ [x \in S |-> h[x] + g[x]] = f
  OBVIOUS
<1>2. DOMAIN g = S /\ \A x \in S : g[x] \in Int
  OBVIOUS
<1>. HIDE DEF h
<1>3. DOMAIN h = S /\ \A x \in S : h[x] \in Int
  BY <1>1
<1>4. SumFunction(f) = SumFunction(h) + SumFunction(g)
  BY <1>1, SumOfSums
<1>5. SumFunction(h) \in Int /\ SumFunction(g) \in Int
  BY <1>2, <1>3, SumFunctionIsInt
<1>6. SumFunction(h) = SumFunction(f) - SumFunction(g)
  BY <1>4, <1>5
<1>. QED
  BY <1>6 DEF h

(* A common factor comes before the sum.                                   *)
LEMMA FactorOut == ASSUME NEW k \in Int, NEW a \in Int, NEW b \in Int PROVE k * a + k * b = k * (a + b)
OBVIOUS

THEOREM SumTimes ==
  ASSUME NEW S, IsFiniteSet(S), NEW f \in [S -> Int], NEW k \in Int
  PROVE  SumFunction([x \in S |-> k * f[x]]) = k * SumFunction(f)
<1>. DEFINE h == [x \in S |-> k * f[x]]
            P == {T \in SUBSET S : SumFunctionOnSet(h, T) = k * SumFunctionOnSet(f, T)}
<1>0. DOMAIN h = S /\ DOMAIN f = S /\ \A x \in S : f[x] \in Int /\ h[x] = k * f[x]
  OBVIOUS
<1>. HIDE DEF h
<1>1. ASSUME NEW T \in SUBSET S, \A U \in SUBSET T : U # T => U \in P
      PROVE  T \in P
  <2>1. CASE T = {}
    BY <2>1, SumOfNothing
  <2>2. CASE T # {}
    <3>. DEFINE y == PickOne(T)  W == TheOthers(T)
    <3>1. y \in T /\ W \in SUBSET T /\ W # T
      BY <2>2, PickOneIsIn DEF TheOthers
    <3>2. SumFunctionOnSet(h, W) = k * SumFunctionOnSet(f, W)
      BY <1>1, <3>1
    <3>3. IsFiniteSet(T) /\ IsFiniteSet(W)
      BY <3>1, FS_Subset
    <3>4. /\ SumFunctionOnSet(h, T) = h[y] + SumFunctionOnSet(h, W)
          /\ SumFunctionOnSet(f, T) = f[y] + SumFunctionOnSet(f, W)
      BY <2>2, <3>3, SumUnfolds
    <3>5. y \in S /\ W \in SUBSET S
      BY <3>1
    <3>. HIDE DEF y, W
    <3>6. SumFunctionOnSet(f, W) \in Int
      BY <1>0, <3>3, <3>5, SumIsInt
    <3>7. k * f[y] + k * SumFunctionOnSet(f, W) = k * (f[y] + SumFunctionOnSet(f, W))
      BY <1>0, <3>5, <3>6, FactorOut
    <3>. QED
      BY <1>0, <3>2, <3>4, <3>5, <3>7
  <2>. QED
    BY <2>1, <2>2
<1>. HIDE DEF P
<1>2. S \in P
  BY <1>1, SubsetInduction
<1>3. SumFunction(h) = k * SumFunction(f)
  BY <1>0, <1>2 DEF P, SumFunction
<1>. QED
  BY <1>3 DEF h
(* Where everything else is zero, the sum is the one value that is not.    *)
THEOREM SumOfSingle ==
  ASSUME NEW f, IsFiniteSet(DOMAIN f), NEW a \in DOMAIN f, f[a] \in Int,
         \A x \in DOMAIN f \ {a} : f[x] = 0
  PROVE  SumFunction(f) = f[a]
<1>. DEFINE z == [x \in DOMAIN f |-> 0]
<1>1. DOMAIN z = DOMAIN f /\ \A x \in DOMAIN f : z[x] = 0
  OBVIOUS
<1>. HIDE DEF z
<1>2. SumFunction(z) = 0
  BY <1>1, SumOfZeros
<1>3. SumFunction(f) = SumFunction(z) - ValueAt(z, a) + ValueAt(f, a)
  <2>1. \A x \in DOMAIN f : f[x] \in Int /\ z[x] \in Int
    BY <1>1
  <2>. QED
    BY <1>1, <2>1, SumDiffersAt
<1>4. ValueAt(z, a) = 0 /\ ValueAt(f, a) = f[a]
  BY <1>1 DEF ValueAt
<1>. QED
  BY <1>2, <1>3, <1>4

(* A sum over two parts of a set.                                          *)
THEOREM SumInTwo ==
  ASSUME NEW v, NEW S, IsFiniteSet(S), \A x \in S : v[x] \in Int, NEW A \in SUBSET S
  PROVE  /\ SumFunction([x \in S |-> v[x]])
              = SumFunction([x \in A |-> v[x]]) + SumFunction([x \in S \ A |-> v[x]])
         /\ SumFunction([x \in S |-> v[x]]) \in Int
         /\ SumFunction([x \in A |-> v[x]]) \in Int
         /\ SumFunction([x \in S \ A |-> v[x]]) \in Int
<1>1. ASSUME NEW T \in SUBSET S
      PROVE  SumFunction([x \in T |-> v[x]]) = SumFunctionOnSet(v, T) /\ SumFunctionOnSet(v, T) \in Int
  <2>. DEFINE f == [x \in T |-> v[x]]
  <2>1. DOMAIN f = T /\ \A x \in T : f[x] = v[x]
    OBVIOUS
  <2>2. IsFiniteSet(T)
    BY FS_Subset
  <2>. HIDE DEF f
  <2>3. SumFunction(f) = SumFunctionOnSet(v, T)
    BY <2>1, <2>2, SumOfSame DEF SumFunction
  <2>4. SumFunctionOnSet(v, T) \in Int
    BY <2>2, SumIsInt
  <2>. QED
    BY <2>3, <2>4 DEF f
<1>2. SumFunctionOnSet(v, S) = SumFunctionOnSet(v, A) + SumFunctionOnSet(v, S \ A)
  BY SumOfParts
<1>3. S \in SUBSET S /\ S \ A \in SUBSET S
  OBVIOUS
<1>4. /\ SumFunction([x \in S |-> v[x]]) = SumFunctionOnSet(v, S) /\ SumFunctionOnSet(v, S) \in Int
      /\ SumFunction([x \in S \ A |-> v[x]]) = SumFunctionOnSet(v, S \ A) /\ SumFunctionOnSet(v, S \ A) \in Int
  BY <1>1, <1>3
<1>. QED
  BY <1>1, <1>2, <1>4
===============================================================================
