----------------------------- MODULE SumLemmas ------------------------------
(***************************************************************************)
(* Lemmas about SumFunctionOnSet, the sum of a function over a finite set, *)
(* by which the models add up bills, units and discounts.  Induction is    *)
(* over sets: what holds is put into a set X, and the least-element        *)
(* theorems of the library show that nothing is left outside of it.        *)
(***************************************************************************)
EXTENDS Integers, Functions, FiniteSetTheorems, WellFoundedInduction, TLAPS

-----------------------------------------------------------------------------
(* Induction.                                                              *)

LEMMA NatSetInduction ==
    ASSUME NEW X, 0 \in X, \A n \in Nat : n \in X => n + 1 \in X
    PROVE  Nat \subseteq X
<1> DEFINE T == Nat \ X
<1> SUFFICES ASSUME T # {} PROVE FALSE
  OBVIOUS
<1>1. PICK n \in T : \A m \in T : <<m, n>> \notin OpToRel(<, Nat)
  <2>1. T \subseteq Nat
    OBVIOUS
  <2> HIDE DEF T
  <2> QED BY <2>1, NatLessThanWellFounded, WFMin
<1>2. n # 0 /\ n - 1 \in Nat /\ n - 1 < n
  OBVIOUS
<1>3. n - 1 \in X
  BY <1>1, <1>2 DEF OpToRel
<1> QED BY <1>2, <1>3

LEMMA StrictSubsetInduction ==
    ASSUME NEW S, IsFiniteSet(S), NEW X,
           \A T \in SUBSET S : (\A U \in SUBSET T : U # T => U \in X) => T \in X
    PROVE  S \in X
<1>1. IsWellFoundedOn(StrictSubsetOrdering(S), SUBSET S)
  BY FS_StrictSubsetOrderingWellFounded, FS_FiniteSubsetsOfFinite
<1> DEFINE B == (SUBSET S) \ X
<1> SUFFICES ASSUME B # {} PROVE FALSE
  OBVIOUS
<1>2. PICK T \in B : \A U \in B : <<U, T>> \notin StrictSubsetOrdering(S)
  <2>1. B \subseteq SUBSET S
    OBVIOUS
  <2> HIDE DEF B
  <2> QED BY <2>1, <1>1, WFMin
<1>3. \A U \in SUBSET T : U # T => U \in X
  BY <1>2 DEF StrictSubsetOrdering
<1> QED BY <1>3

\* What holds of the empty set, and of a set if it holds without one of its elements.
LEMMA FiniteInduction ==
    ASSUME NEW S, IsFiniteSet(S), NEW X, {} \in X,
           \A T \in SUBSET S : \A x \in S \ T : T \in X => T \cup {x} \in X
    PROVE  S \in X
<1>1. ASSUME NEW T \in SUBSET S, \A U \in SUBSET T : U # T => U \in X PROVE T \in X
  <2>1. CASE T = {}
    BY <2>1
  <2>2. CASE T # {}
    <3>1. PICK x \in T : TRUE
      BY <2>2
    <3>2. T \ {x} \in X /\ x \in S \ (T \ {x}) /\ (T \ {x}) \cup {x} = T
      BY <1>1, <3>1
    <3> QED BY <3>2
  <2> QED BY <2>1, <2>2
<1> HIDE DEF StrictSubsetOrdering
<1> QED BY <1>1, StrictSubsetInduction

-----------------------------------------------------------------------------
(* The recursive function by which the sum is defined exists.              *)

Pick(s) == CHOOSE x \in s : TRUE
Folded(g, f, s) == IF s = {} THEN 0 ELSE f[Pick(s)] + g[s \ {Pick(s)}]
Fold(f, S) == CHOOSE g : g = [s \in SUBSET S |-> Folded(g, f, s)]

LEMMA Unfold ==
    ASSUME NEW f, NEW S
    PROVE  SumFunctionOnSet(f, S) = Fold(f, S)[S]
  BY Zenon DEF SumFunctionOnSet, FoldFunctionOnSet, MapThenFoldSet, Fold, Folded, Pick

Small(S, n) == {s \in SUBSET S : Cardinality(s) <= n}

LEMMA FoldExists ==
    ASSUME NEW f, NEW S, IsFiniteSet(S)
    PROVE  \E g : g = [s \in SUBSET S |-> Folded(g, f, s)]
<1> DEFINE X == {n \in Nat : \E g : g = [s \in Small(S, n) |-> Folded(g, f, s)]}
<1>1. \A s \in SUBSET S :
        /\ IsFiniteSet(s) /\ Cardinality(s) \in Nat /\ Cardinality(s) <= Cardinality(S)
  BY FS_Subset, FS_CardinalityType
<1>2. \A s \in SUBSET S : s # {} =>
        /\ s \ {Pick(s)} \in SUBSET S
        /\ Cardinality(s \ {Pick(s)}) = Cardinality(s) - 1
  BY <1>1, FS_RemoveElement DEF Pick
<1>3. \A s \in SUBSET S : Cardinality(s) <= 0 <=> s = {}
  BY <1>1, FS_EmptySet
<1>4. 0 \in X
  <2> DEFINE g == [s \in Small(S, 0) |-> 0]
  <2>1. \A s \in Small(S, 0) : Folded(g, f, s) = 0
    BY <1>3 DEF Small, Folded
  <2>2. g = [s \in Small(S, 0) |-> Folded(g, f, s)]
    BY <2>1, Zenon
  <2> QED BY <2>2
<1>5. ASSUME NEW n \in Nat, n \in X PROVE n + 1 \in X
  <2>1. PICK g : g = [s \in Small(S, n) |-> Folded(g, f, s)]
    BY <1>5
  <2> DEFINE h == [s \in Small(S, n + 1) |-> Folded(g, f, s)]
  <2>2. \A s \in Small(S, n) : s \in Small(S, n + 1)
    BY <1>1 DEF Small
  <2>3. \A s \in Small(S, n) : h[s] = g[s]
    <3>1. \A s \in Small(S, n) : g[s] = Folded(g, f, s)
      BY <2>1, Zenon
    <3> QED BY <2>2, <3>1, Zenon
  <2>4. \A s \in Small(S, n + 1) : s = {} \/ s \ {Pick(s)} \in Small(S, n)
    BY <1>1, <1>2 DEF Small
  <2>5. ASSUME NEW s \in Small(S, n + 1) PROVE Folded(h, f, s) = Folded(g, f, s)
    <3> HIDE DEF h
    <3> QED BY <2>3, <2>4 DEF Folded
  <2>6. h = [s \in Small(S, n + 1) |-> Folded(h, f, s)]
    BY <2>5, Zenon
  <2>7. n + 1 \in Nat
    OBVIOUS
  <2> QED BY <2>6, <2>7, Zenon
<1>6. Cardinality(S) \in X
  <2> HIDE DEF X
  <2> QED BY <1>4, <1>5, NatSetInduction, FS_CardinalityType
<1>7. Small(S, Cardinality(S)) = SUBSET S
  BY <1>1 DEF Small
<1> QED BY <1>6, <1>7

-----------------------------------------------------------------------------
(* Sums.                                                                   *)

LEMMA FoldFolds ==
    ASSUME NEW f, NEW S, IsFiniteSet(S)
    PROVE  \A s \in SUBSET S : Fold(f, S)[s] = Folded(Fold(f, S), f, s)
<1>1. \E g : g = [s \in SUBSET S |-> Folded(g, f, s)]
  BY FoldExists
<1>2. Fold(f, S) = [s \in SUBSET S |-> Folded(Fold(f, S), f, s)]
  BY <1>1, Zenon DEF Fold
<1> QED BY <1>2, Zenon

\* The folding function of a larger set does the same.
LEMMA FoldsAgree ==
    ASSUME NEW f, NEW S, IsFiniteSet(S), NEW R \in SUBSET S
    PROVE  Fold(f, S)[R] = Fold(f, R)[R]
<1> DEFINE X == {s \in SUBSET R : Fold(f, S)[s] = Fold(f, R)[s]}
<1>1. IsFiniteSet(R)
  BY FS_Subset
<1>2. ASSUME NEW T \in SUBSET R, \A U \in SUBSET T : U # T => U \in X PROVE T \in X
  <2>1. T \in SUBSET S
    OBVIOUS
  <2>2. Fold(f, S)[T] = Folded(Fold(f, S), f, T) /\ Fold(f, R)[T] = Folded(Fold(f, R), f, T)
    BY <1>1, <2>1, FoldFolds
  <2>3. T # {} => T \ {Pick(T)} \in X
    <3>1. T # {} => T \ {Pick(T)} \in SUBSET T /\ T \ {Pick(T)} # T
      BY DEF Pick
    <3> QED BY <1>2, <3>1
  <2>4. Fold(f, S)[T] = Fold(f, R)[T]
    BY <2>2, <2>3 DEF Folded
  <2> QED BY <2>4
<1>3. R \in X
  <2> HIDE DEF X
  <2> QED BY <1>1, <1>2, StrictSubsetInduction
<1> QED BY <1>3

LEMMA SumEmpty ==
    ASSUME NEW f
    PROVE  SumFunctionOnSet(f, {}) = 0
<1>1. {} \in SUBSET {} /\ IsFiniteSet({})
  BY FS_EmptySet
<1>2. Fold(f, {})[{}] = Folded(Fold(f, {}), f, {})
  BY <1>1, FoldFolds
<1> QED BY <1>2, Unfold DEF Folded

LEMMA SumPick ==
    ASSUME NEW f, NEW S, IsFiniteSet(S), S # {}
    PROVE  SumFunctionOnSet(f, S) = f[Pick(S)] + SumFunctionOnSet(f, S \ {Pick(S)})
<1> DEFINE R == S \ {Pick(S)}
<1>1. R \in SUBSET S /\ R \in SUBSET R /\ S \in SUBSET S
  OBVIOUS
<1>3. SumFunctionOnSet(f, S) = Fold(f, S)[S] /\ SumFunctionOnSet(f, R) = Fold(f, R)[R]
  BY Unfold, Zenon
<1>4. Fold(f, S)[S] = f[Pick(S)] + Fold(f, S)[R]
  BY <1>1, FoldFolds DEF Folded
<1>5. Fold(f, S)[R] = Fold(f, R)[R]
  BY <1>1, FoldsAgree
<1> QED BY <1>3, <1>4, <1>5, Zenon

\* A sum of integers is one, and any term may be taken out of it first.
LEMMA SumInt ==
    ASSUME NEW f, NEW S, IsFiniteSet(S), \A i \in S : f[i] \in Int
    PROVE  SumFunctionOnSet(f, S) \in Int
<1> DEFINE X == {T \in SUBSET S : SumFunctionOnSet(f, T) \in Int}
<1>1. ASSUME NEW T \in SUBSET S, \A U \in SUBSET T : U # T => U \in X PROVE T \in X
  <2>1. CASE T = {}
    BY <2>1, SumEmpty
  <2>2. CASE T # {}
    <3>1. Pick(T) \in T /\ IsFiniteSet(T)
      BY <2>2, FS_Subset DEF Pick
    <3>2. T \ {Pick(T)} \in X
      BY <1>1, <3>1
    <3>3. SumFunctionOnSet(f, T) = f[Pick(T)] + SumFunctionOnSet(f, T \ {Pick(T)})
      BY <2>2, <3>1, SumPick
    <3> QED BY <3>1, <3>2, <3>3
  <2> QED BY <2>1, <2>2
<1>2. S \in X
  <2> HIDE DEF X
  <2> QED BY <1>1, StrictSubsetInduction
<1> QED BY <1>2

LEMMA SumTake ==
    ASSUME NEW f, NEW S, IsFiniteSet(S), \A i \in S : f[i] \in Int, NEW x \in S
    PROVE  SumFunctionOnSet(f, S) = f[x] + SumFunctionOnSet(f, S \ {x})
<1> DEFINE sum(T) == SumFunctionOnSet(f, T)
           X == {T \in SUBSET S : \A y \in T : sum(T) = f[y] + sum(T \ {y})}
<1>0. \A T \in SUBSET S : sum(T) \in Int /\ IsFiniteSet(T)
  BY SumInt, FS_Subset
<1>1. ASSUME NEW T \in SUBSET S, \A U \in SUBSET T : U # T => U \in X PROVE T \in X
  <2> SUFFICES ASSUME NEW y \in T PROVE sum(T) = f[y] + sum(T \ {y})
    OBVIOUS
  <2> DEFINE p == Pick(T)
  <2>1. p \in T
    BY DEF Pick
  <2>2. sum(T) = f[p] + sum(T \ {p})
    BY <1>0, SumPick
  <2>3. CASE p = y
    BY <2>2, <2>3
  <2>4. CASE p # y
    <3>1. T \ {p} \in X /\ T \ {y} \in X
      BY <1>1, <2>1
    <3>2. sum(T \ {p}) = f[y] + sum((T \ {p}) \ {y})
      BY <3>1, <2>4
    <3>3. sum(T \ {y}) = f[p] + sum((T \ {y}) \ {p})
      BY <3>1, <2>1, <2>4
    <3>4. sum((T \ {p}) \ {y}) = sum((T \ {y}) \ {p})
      <4>1. (T \ {p}) \ {y} = (T \ {y}) \ {p}
        OBVIOUS
      <4> HIDE DEF p, sum
      <4> QED BY <4>1
    <3>5. f[p] \in Int /\ f[y] \in Int /\ sum((T \ {p}) \ {y}) \in Int
      BY <1>0, <2>1
    <3> HIDE DEF p, sum
    <3> QED BY <2>2, <3>2, <3>3, <3>4, <3>5
  <2> QED BY <2>3, <2>4
<1>2. S \in X
  <2> HIDE DEF X
  <2> QED BY <1>1, StrictSubsetInduction
<1> QED BY <1>2
LEMMA SumAdd ==
    ASSUME NEW f, NEW S, IsFiniteSet(S), NEW x, x \notin S, \A i \in S \cup {x} : f[i] \in Int
    PROVE  SumFunctionOnSet(f, S \cup {x}) = f[x] + SumFunctionOnSet(f, S)
<1>1. IsFiniteSet(S \cup {x}) /\ (S \cup {x}) \ {x} = S
  BY FS_AddElement
<1>2. x \in S \cup {x}
  OBVIOUS
<1>3. SumFunctionOnSet(f, S \cup {x}) = f[x] + SumFunctionOnSet(f, (S \cup {x}) \ {x})
  BY <1>1, <1>2, SumTake
<1> QED BY <1>1, <1>3, Zenon

\* Sums of functions that agree are equal; terms in order give sums in order.
LEMMA SumSame ==
    ASSUME NEW f, NEW g, NEW S, IsFiniteSet(S), \A i \in S : f[i] \in Int,
           \A i \in S : g[i] = f[i]
    PROVE  SumFunctionOnSet(g, S) = SumFunctionOnSet(f, S)
<1> DEFINE X == {T \in SUBSET S : SumFunctionOnSet(g, T) = SumFunctionOnSet(f, T)}
<1>1. {} \in X
  BY SumEmpty
<1>2. ASSUME NEW T \in SUBSET S, NEW x \in S \ T, T \in X PROVE T \cup {x} \in X
  <2>1. IsFiniteSet(T) /\ T \cup {x} \in SUBSET S
    BY FS_Subset
  <2>2. SumFunctionOnSet(f, T \cup {x}) = f[x] + SumFunctionOnSet(f, T)
    BY <2>1, SumAdd
  <2>3. SumFunctionOnSet(g, T \cup {x}) = g[x] + SumFunctionOnSet(g, T)
    BY <2>1, SumAdd
  <2> QED BY <1>2, <2>1, <2>2, <2>3
<1>3. S \in X
  <2> HIDE DEF X
  <2> QED BY <1>1, <1>2, FiniteInduction
<1> QED BY <1>3

LEMMA SumOrder ==
    ASSUME NEW f, NEW g, NEW S, IsFiniteSet(S), \A i \in S : f[i] \in Int /\ g[i] \in Int,
           \A i \in S : f[i] <= g[i]
    PROVE  SumFunctionOnSet(f, S) <= SumFunctionOnSet(g, S)
<1> DEFINE X == {T \in SUBSET S : SumFunctionOnSet(f, T) <= SumFunctionOnSet(g, T)}
<1>1. {} \in X
  BY SumEmpty
<1>2. ASSUME NEW T \in SUBSET S, NEW x \in S \ T, T \in X PROVE T \cup {x} \in X
  <2>1. IsFiniteSet(T) /\ T \cup {x} \in SUBSET S
    BY FS_Subset
  <2>2. SumFunctionOnSet(f, T \cup {x}) = f[x] + SumFunctionOnSet(f, T)
    BY <2>1, SumAdd
  <2>3. SumFunctionOnSet(g, T \cup {x}) = g[x] + SumFunctionOnSet(g, T)
    BY <2>1, SumAdd
  <2>4. SumFunctionOnSet(f, T) \in Int /\ SumFunctionOnSet(g, T) \in Int
    BY <2>1, SumInt
  <2> QED BY <1>2, <2>1, <2>2, <2>3, <2>4
<1>3. S \in X
  <2> HIDE DEF X
  <2> QED BY <1>1, <1>2, FiniteInduction
<1> QED BY <1>3

LEMMA SumZero ==
    ASSUME NEW f, NEW S, IsFiniteSet(S), \A i \in S : f[i] = 0
    PROVE  SumFunctionOnSet(f, S) = 0
<1> DEFINE X == {T \in SUBSET S : SumFunctionOnSet(f, T) = 0}
<1>1. {} \in X
  BY SumEmpty
<1>2. ASSUME NEW T \in SUBSET S, NEW x \in S \ T, T \in X PROVE T \cup {x} \in X
  <2>1. IsFiniteSet(T) /\ T \cup {x} \in SUBSET S
    BY FS_Subset
  <2>2. SumFunctionOnSet(f, T \cup {x}) = f[x] + SumFunctionOnSet(f, T)
    BY <2>1, SumAdd
  <2> QED BY <1>2, <2>1, <2>2
<1>3. S \in X
  <2> HIDE DEF X
  <2> QED BY <1>1, <1>2, FiniteInduction
<1> QED BY <1>3

LEMMA SumNat ==
    ASSUME NEW f, NEW S, IsFiniteSet(S), \A i \in S : f[i] \in Nat
    PROVE  SumFunctionOnSet(f, S) \in Nat
<1> DEFINE zero == [i \in S |-> 0]
<1>1. SumFunctionOnSet(zero, S) = 0
  BY SumZero
<1>2. SumFunctionOnSet(zero, S) <= SumFunctionOnSet(f, S)
  <2>1. /\ \A i \in S : zero[i] \in Int /\ f[i] \in Int
        /\ \A i \in S : zero[i] <= f[i]
    OBVIOUS
  <2> HIDE DEF zero
  <2> QED BY <2>1, SumOrder
<1>3. SumFunctionOnSet(f, S) \in Int
  BY SumInt
<1> QED BY <1>1, <1>2, <1>3

\* No term, and no two, exceed the sum of numbers that are not negative.
LEMMA TermsWithin ==
    ASSUME NEW f, NEW S, IsFiniteSet(S), \A i \in S : f[i] \in Nat
    PROVE  /\ SumFunctionOnSet(f, S) \in Nat
           /\ \A x \in S : f[x] <= SumFunctionOnSet(f, S)
           /\ \A x \in S : \A y \in S \ {x} : f[x] + f[y] <= SumFunctionOnSet(f, S)
<1>1. \A i \in S : f[i] \in Int
  OBVIOUS
<1>2. ASSUME NEW x \in S
      PROVE  /\ IsFiniteSet(S \ {x}) /\ SumFunctionOnSet(f, S \ {x}) \in Nat
             /\ SumFunctionOnSet(f, S) = f[x] + SumFunctionOnSet(f, S \ {x})
  <2>1. IsFiniteSet(S \ {x})
    BY FS_Subset
  <2>2. SumFunctionOnSet(f, S \ {x}) \in Nat
    <3> DEFINE R == S \ {x}
    <3>1. IsFiniteSet(R) /\ \A i \in R : f[i] \in Nat
      BY <2>1
    <3> HIDE DEF R
    <3>2. SumFunctionOnSet(f, R) \in Nat
      BY <3>1, SumNat
    <3> QED BY <3>2 DEF R
  <2>3. SumFunctionOnSet(f, S) = f[x] + SumFunctionOnSet(f, S \ {x})
    BY <1>1, SumTake
  <2> QED BY <2>1, <2>2, <2>3
<1>3. ASSUME NEW x \in S, NEW y \in S \ {x} PROVE f[x] + f[y] <= SumFunctionOnSet(f, S)
  <2> DEFINE R == S \ {x}
  <2>1. IsFiniteSet(R) /\ \A i \in R : f[i] \in Int
    BY <1>1, <1>2
  <2>2. y \in R /\ IsFiniteSet(R \ {y}) /\ \A i \in R \ {y} : f[i] \in Nat
    BY <2>1, FS_Subset
  <2>3. SumFunctionOnSet(f, S) = f[x] + SumFunctionOnSet(f, R)
    BY <1>2
  <2> HIDE DEF R
  <2>4. SumFunctionOnSet(f, R) = f[y] + SumFunctionOnSet(f, R \ {y})
    BY <2>1, <2>2, SumTake
  <2>5. SumFunctionOnSet(f, R \ {y}) \in Nat
    <3> DEFINE Q == R \ {y}
    <3>1. IsFiniteSet(Q) /\ \A i \in Q : f[i] \in Nat
      BY <2>2
    <3> HIDE DEF Q
    <3>2. SumFunctionOnSet(f, Q) \in Nat
      BY <3>1, SumNat
    <3> QED BY <3>2 DEF Q
  <2>6. f[x] \in Nat /\ f[y] \in Nat
    OBVIOUS
  <2> QED BY <2>3, <2>4, <2>5, <2>6
<1>4. \A x \in S : f[x] <= SumFunctionOnSet(f, S)
  <2>1. ASSUME NEW x \in S PROVE f[x] <= SumFunctionOnSet(f, S)
    <3> DEFINE r == SumFunctionOnSet(f, S \ {x})
    <3>1. f[x] \in Nat /\ r \in Nat /\ SumFunctionOnSet(f, S) = f[x] + r
      BY <1>2
    <3> HIDE DEF r
    <3> QED BY <3>1
  <2> QED BY <2>1
<1>5. SumFunctionOnSet(f, S) \in Nat
  BY SumNat
<1> QED BY <1>3, <1>4, <1>5

\* One term changes.
LEMMA SumUpdate ==
    ASSUME NEW f, NEW g, NEW S, IsFiniteSet(S), \A i \in S : f[i] \in Int /\ g[i] \in Int,
           NEW x \in S, \A i \in S \ {x} : g[i] = f[i]
    PROVE  SumFunctionOnSet(g, S) = SumFunctionOnSet(f, S) - f[x] + g[x]
<1>1. IsFiniteSet(S \ {x})
  BY FS_Subset
<1>2. SumFunctionOnSet(g, S \ {x}) = SumFunctionOnSet(f, S \ {x})
  BY <1>1, SumSame
<1>3. SumFunctionOnSet(f, S) = f[x] + SumFunctionOnSet(f, S \ {x})
  BY SumTake
<1>4. SumFunctionOnSet(g, S) = g[x] + SumFunctionOnSet(g, S \ {x})
  BY SumTake
<1>5. SumFunctionOnSet(f, S \ {x}) \in Int /\ f[x] \in Int /\ g[x] \in Int
  BY <1>1, SumInt
<1> QED BY <1>2, <1>3, <1>4, <1>5

\* Two terms change.
LEMMA SumTwo ==
    ASSUME NEW f, NEW g, NEW S, IsFiniteSet(S), \A i \in S : f[i] \in Int /\ g[i] \in Int,
           NEW x \in S, NEW y \in S \ {x}, \A i \in S \ {x, y} : g[i] = f[i]
    PROVE  SumFunctionOnSet(g, S) = SumFunctionOnSet(f, S) - f[x] - f[y] + g[x] + g[y]
<1> DEFINE h == [i \in S |-> IF i = x THEN g[i] ELSE f[i]]
<1>1. \A i \in S : h[i] \in Int
  OBVIOUS
<1>2. h[x] = g[x] /\ h[y] = f[y] /\ (\A i \in S \ {x} : h[i] = f[i]) /\ \A i \in S \ {y} : g[i] = h[i]
  OBVIOUS
<1> HIDE DEF h
<1>3. SumFunctionOnSet(h, S) = SumFunctionOnSet(f, S) - f[x] + h[x]
  BY <1>1, <1>2, SumUpdate
<1>4. SumFunctionOnSet(g, S) = SumFunctionOnSet(h, S) - h[y] + g[y]
  BY <1>1, <1>2, SumUpdate
<1>5. SumFunctionOnSet(f, S) \in Int /\ f[x] \in Int /\ f[y] \in Int /\ g[x] \in Int /\ g[y] \in Int
  BY SumInt
<1> QED BY <1>2, <1>3, <1>4, <1>5

\* The sum of a pointwise sum.
LEMMA SumPlus ==
    ASSUME NEW f, NEW g, NEW h, NEW S, IsFiniteSet(S),
           \A i \in S : f[i] \in Int /\ g[i] \in Int, \A i \in S : h[i] = f[i] + g[i]
    PROVE  SumFunctionOnSet(h, S) = SumFunctionOnSet(f, S) + SumFunctionOnSet(g, S)
<1> DEFINE X == {T \in SUBSET S :
                    SumFunctionOnSet(h, T) = SumFunctionOnSet(f, T) + SumFunctionOnSet(g, T)}
<1>1. {} \in X
  BY SumEmpty
<1>2. ASSUME NEW T \in SUBSET S, NEW x \in S \ T, T \in X PROVE T \cup {x} \in X
  <2>1. IsFiniteSet(T) /\ T \cup {x} \in SUBSET S
    BY FS_Subset
  <2>2. SumFunctionOnSet(f, T \cup {x}) = f[x] + SumFunctionOnSet(f, T)
    BY <2>1, SumAdd
  <2>3. SumFunctionOnSet(g, T \cup {x}) = g[x] + SumFunctionOnSet(g, T)
    BY <2>1, SumAdd
  <2>4. SumFunctionOnSet(h, T \cup {x}) = h[x] + SumFunctionOnSet(h, T)
    BY <2>1, SumAdd
  <2>5. SumFunctionOnSet(f, T) \in Int /\ SumFunctionOnSet(g, T) \in Int
    BY <2>1, SumInt
  <2> QED BY <1>2, <2>1, <2>2, <2>3, <2>4, <2>5
<1>3. S \in X
  <2> HIDE DEF X
  <2> QED BY <1>1, <1>2, FiniteInduction
<1> QED BY <1>3

\* The sum over a set of which a part adds nothing.
LEMMA SumPart ==
    ASSUME NEW f, NEW S, IsFiniteSet(S), NEW T \in SUBSET S,
           \A i \in S : f[i] \in Int, \A i \in S \ T : f[i] = 0
    PROVE  SumFunctionOnSet(f, S) = SumFunctionOnSet(f, T)
<1> DEFINE X == {U \in SUBSET S : SumFunctionOnSet(f, U) = SumFunctionOnSet(f, U \cap T)}
<1>1. {} \in X
  OBVIOUS
<1>2. ASSUME NEW U \in SUBSET S, NEW x \in S \ U, U \in X PROVE U \cup {x} \in X
  <2>1. IsFiniteSet(U) /\ U \cup {x} \in SUBSET S /\ IsFiniteSet(U \cap T)
    BY FS_Subset
  <2>2. SumFunctionOnSet(f, U \cup {x}) = f[x] + SumFunctionOnSet(f, U)
    BY <2>1, SumAdd
  <2>3. SumFunctionOnSet(f, U) \in Int
    BY <2>1, SumInt
  <2>4. CASE x \in T
    <3>1. SumFunctionOnSet(f, (U \cap T) \cup {x}) = f[x] + SumFunctionOnSet(f, U \cap T)
      BY <2>1, SumAdd
    <3>2. (U \cup {x}) \cap T = (U \cap T) \cup {x}
      BY <2>4
    <3>3. SumFunctionOnSet(f, (U \cup {x}) \cap T) = f[x] + SumFunctionOnSet(f, U \cap T)
      BY <3>1, <3>2, Zenon
    <3> QED BY <1>2, <2>1, <2>2, <3>3
  <2>5. CASE x \notin T
    <3>1. (U \cup {x}) \cap T = U \cap T /\ f[x] = 0
      BY <2>5
    <3>2. SumFunctionOnSet(f, (U \cup {x}) \cap T) = SumFunctionOnSet(f, U \cap T)
      BY <3>1, Zenon
    <3> QED BY <1>2, <2>1, <2>2, <2>3, <3>1, <3>2
  <2> QED BY <2>4, <2>5
<1>3. S \in X
  <2> HIDE DEF X
  <2> QED BY <1>1, <1>2, FiniteInduction
<1>4. S \cap T = T
  OBVIOUS
<1> QED BY <1>3, <1>4

\* The terms may be given other names.
LEMMA SumRename ==
    ASSUME NEW f, NEW g, NEW S, IsFiniteSet(S), NEW T, NEW h \in [S -> T],
           \A i, j \in S : h[i] = h[j] => i = j, \A t \in T : \E i \in S : h[i] = t,
           \A t \in T : f[t] \in Int, \A i \in S : g[i] = f[h[i]]
    PROVE  SumFunctionOnSet(f, T) = SumFunctionOnSet(g, S)
<1> DEFINE image(U) == {h[i] : i \in U}
           X == {U \in SUBSET S : /\ IsFiniteSet(image(U))
                                  /\ SumFunctionOnSet(f, image(U)) = SumFunctionOnSet(g, U)}
<1>1. {} \in X
  <2>1. image({}) = {}
    OBVIOUS
  <2> QED BY <2>1, SumEmpty, FS_EmptySet
<1>2. ASSUME NEW U \in SUBSET S, NEW x \in S \ U, U \in X PROVE U \cup {x} \in X
  <2>1. IsFiniteSet(U) /\ U \cup {x} \in SUBSET S
    BY FS_Subset
  <2>2. image(U \cup {x}) = image(U) \cup {h[x]} /\ h[x] \notin image(U) /\ image(U) \subseteq T
    OBVIOUS
  <2>3. IsFiniteSet(image(U)) /\ IsFiniteSet(image(U) \cup {h[x]})
    BY <1>2, FS_AddElement
  <2>4. SumFunctionOnSet(g, U \cup {x}) = g[x] + SumFunctionOnSet(g, U)
    BY <2>1, SumAdd
  <2>5. SumFunctionOnSet(f, image(U) \cup {h[x]}) = f[h[x]] + SumFunctionOnSet(f, image(U))
    <3>1. \A i \in image(U) \cup {h[x]} : f[i] \in Int
      BY <2>2
    <3> HIDE DEF image
    <3> QED BY <2>2, <2>3, <3>1, SumAdd
  <2>6. SumFunctionOnSet(f, image(U \cup {x})) = SumFunctionOnSet(g, U \cup {x})
    <3>1. SumFunctionOnSet(f, image(U)) = SumFunctionOnSet(g, U) /\ g[x] = f[h[x]]
      BY <1>2
    <3> HIDE DEF image, X
    <3> QED BY <2>2, <2>4, <2>5, <3>1
  <2>7. IsFiniteSet(image(U \cup {x}))
    BY <2>2, <2>3, Zenon
  <2> HIDE DEF image
  <2> QED BY <2>1, <2>6, <2>7
<1>3. S \in X
  <2> HIDE DEF X
  <2> QED BY <1>1, <1>2, FiniteInduction
<1>4. image(S) = T
  OBVIOUS
<1>5. SumFunctionOnSet(f, image(S)) = SumFunctionOnSet(g, S)
  BY <1>3
<1> HIDE DEF image
<1> QED BY <1>4, <1>5

\* The order of two sums does not matter.
LEMMA SumSwap ==
    ASSUME NEW f, NEW S, DOMAIN f = S, IsFiniteSet(S), NEW T, IsFiniteSet(T),
           \A i \in S : \A j \in T : f[i][j] \in Int,
           NEW rows, \A i \in S : rows[i] = SumFunctionOnSet(f[i], T),
           NEW columns, NEW turned, DOMAIN turned = T,
           \A j \in T : columns[j] = SumFunctionOnSet(turned[j], S),
           \A i \in S : \A j \in T : turned[j][i] = f[i][j]
    PROVE  SumFunctionOnSet(rows, S) = SumFunctionOnSet(columns, T)
<1> DEFINE part(U) == [j \in T |-> SumFunctionOnSet(turned[j], U)]
           X == {U \in SUBSET S : SumFunctionOnSet(rows, U) = SumFunctionOnSet(part(U), T)}
<1>0. \A i \in S : rows[i] \in Int
  BY SumInt
<1>1. {} \in X
  <2>1. \A j \in T : part({})[j] = 0
    BY SumEmpty
  <2>2. SumFunctionOnSet(part({}), T) = 0
    <3> HIDE DEF part
    <3> QED BY <2>1, SumZero
  <2>3. SumFunctionOnSet(rows, {}) = 0
    BY SumEmpty
  <2> HIDE DEF part
  <2> QED BY <2>2, <2>3
<1>2. ASSUME NEW U \in SUBSET S, NEW x \in S \ U, U \in X PROVE U \cup {x} \in X
  <2>1. IsFiniteSet(U) /\ U \cup {x} \in SUBSET S
    BY FS_Subset
  <2>2. SumFunctionOnSet(rows, U \cup {x}) = rows[x] + SumFunctionOnSet(rows, U)
    BY <1>0, <2>1, SumAdd
  <2>3. \A j \in T : part(U \cup {x})[j] = f[x][j] + part(U)[j] /\ part(U)[j] \in Int
    <3> SUFFICES ASSUME NEW j \in T
                 PROVE  /\ SumFunctionOnSet(turned[j], U \cup {x})
                              = f[x][j] + SumFunctionOnSet(turned[j], U)
                        /\ SumFunctionOnSet(turned[j], U) \in Int
      OBVIOUS
    <3>1. \A i \in U \cup {x} : turned[j][i] \in Int
      OBVIOUS
    <3>2. SumFunctionOnSet(turned[j], U \cup {x}) = turned[j][x] + SumFunctionOnSet(turned[j], U)
      BY <2>1, <3>1, SumAdd
    <3> QED BY <2>1, <3>1, <3>2, SumInt
  <2>4. SumFunctionOnSet(part(U \cup {x}), T)
          = SumFunctionOnSet(f[x], T) + SumFunctionOnSet(part(U), T)
    <3> DEFINE new == part(U \cup {x})
               old == part(U)
    <3>1. \A j \in T : new[j] = f[x][j] + old[j] /\ f[x][j] \in Int /\ old[j] \in Int
      BY <2>3
    <3> HIDE DEF new, old
    <3>2. SumFunctionOnSet(new, T) = SumFunctionOnSet(f[x], T) + SumFunctionOnSet(old, T)
      BY <3>1, SumPlus
    <3> QED BY <3>2 DEF new, old
  <2>5. SumFunctionOnSet(rows, U) = SumFunctionOnSet(part(U), T)
    BY <1>2
  <2> HIDE DEF part
  <2> QED BY <2>1, <2>2, <2>4, <2>5
<1>3. S \in X
  <2> HIDE DEF X
  <2> QED BY <1>1, <1>2, FiniteInduction
<1>4. SumFunctionOnSet(part(S), T) = SumFunctionOnSet(columns, T)
  <2>1. \A j \in T : columns[j] \in Int
    BY SumInt
  <2>2. \A j \in T : part(S)[j] = columns[j]
    OBVIOUS
  <2> HIDE DEF part
  <2> QED BY <2>1, <2>2, SumSame
<1>5. SumFunctionOnSet(rows, S) = SumFunctionOnSet(part(S), T)
  BY <1>3
<1> HIDE DEF part
<1> QED BY <1>4, <1>5

\* A common factor.
LEMMA SumTimes ==
    ASSUME NEW f, NEW g, NEW S, IsFiniteSet(S), NEW k \in Int,
           \A i \in S : f[i] \in Int, \A i \in S : g[i] = f[i] * k
    PROVE  SumFunctionOnSet(g, S) = SumFunctionOnSet(f, S) * k
<1> DEFINE X == {T \in SUBSET S : SumFunctionOnSet(g, T) = SumFunctionOnSet(f, T) * k}
<1>0. \A i \in S : f[i] * k \in Int
  OBVIOUS
<1>1. {} \in X
  BY SumEmpty
<1>2. ASSUME NEW T \in SUBSET S, NEW x \in S \ T, T \in X PROVE T \cup {x} \in X
  <2>1. IsFiniteSet(T) /\ T \cup {x} \in SUBSET S
    BY FS_Subset
  <2>2. SumFunctionOnSet(f, T \cup {x}) = f[x] + SumFunctionOnSet(f, T)
    BY <2>1, SumAdd
  <2>3. SumFunctionOnSet(g, T \cup {x}) = g[x] + SumFunctionOnSet(g, T)
    BY <1>0, <2>1, SumAdd
  <2>4. SumFunctionOnSet(f, T) \in Int /\ f[x] \in Int /\ g[x] = f[x] * k
    BY <2>1, SumInt
  <2>5. SumFunctionOnSet(g, T) = SumFunctionOnSet(f, T) * k
    BY <1>2
  <2> DEFINE a == SumFunctionOnSet(f, T)
             b == f[x]
  <2>6. a \in Int /\ b \in Int
    BY <2>4
  <2> HIDE DEF a, b
  <2>7. b * k + a * k = (b + a) * k
    BY <2>6
  <2>8. SumFunctionOnSet(g, T \cup {x}) = SumFunctionOnSet(f, T \cup {x}) * k
    BY <2>2, <2>3, <2>4, <2>5, <2>7 DEF a, b
  <2> QED BY <2>1, <2>8
<1>3. S \in X
  <2> HIDE DEF X
  <2> QED BY <1>1, <1>2, FiniteInduction
<1> QED BY <1>3

\* The sum over two sets that have nothing in common.
LEMMA SumUnion ==
    ASSUME NEW f, NEW R, IsFiniteSet(R), NEW S, IsFiniteSet(S), R \cap S = {},
           \A i \in R \cup S : f[i] \in Int
    PROVE  SumFunctionOnSet(f, R \cup S) = SumFunctionOnSet(f, R) + SumFunctionOnSet(f, S)
<1> DEFINE X == {T \in SUBSET S :
                    SumFunctionOnSet(f, R \cup T) = SumFunctionOnSet(f, R) + SumFunctionOnSet(f, T)}
<1>0. SumFunctionOnSet(f, R) \in Int
  BY SumInt
<1>1. {} \in X
  <2>1. R \cup {} = R
    OBVIOUS
  <2> QED BY <1>0, <2>1, SumEmpty
<1>2. ASSUME NEW T \in SUBSET S, NEW x \in S \ T, T \in X PROVE T \cup {x} \in X
  <2>1. IsFiniteSet(T) /\ T \cup {x} \in SUBSET S
    BY FS_Subset
  <2>2. IsFiniteSet(R \cup T) /\ x \notin R \cup T
    BY <2>1, FS_Union
  <2>3. SumFunctionOnSet(f, (R \cup T) \cup {x}) = f[x] + SumFunctionOnSet(f, R \cup T)
    BY <2>2, SumAdd
  <2>4. SumFunctionOnSet(f, T \cup {x}) = f[x] + SumFunctionOnSet(f, T)
    BY <2>1, SumAdd
  <2>5. SumFunctionOnSet(f, T) \in Int /\ f[x] \in Int
    BY <2>1, SumInt
  <2>6. (R \cup T) \cup {x} = R \cup (T \cup {x})
    OBVIOUS
  <2>7. SumFunctionOnSet(f, R \cup T) = SumFunctionOnSet(f, R) + SumFunctionOnSet(f, T)
    BY <1>2
  <2>8. SumFunctionOnSet(f, R \cup (T \cup {x})) = f[x] + SumFunctionOnSet(f, R \cup T)
    BY <2>3, <2>6, Zenon
  <2>9. SumFunctionOnSet(f, R \cup (T \cup {x}))
          = SumFunctionOnSet(f, R) + SumFunctionOnSet(f, T \cup {x})
    BY <1>0, <2>4, <2>5, <2>7, <2>8
  <2> QED BY <2>1, <2>9
<1>3. S \in X
  <2> HIDE DEF X
  <2> QED BY <1>1, <1>2, FiniteInduction
<1> QED BY <1>3

\* A sum over pairs, one inner sum after the other.
Pairs(A, D) == UNION {{o} \X D[o] : o \in A}

LEMMA SumPairs ==
    ASSUME NEW A, IsFiniteSet(A), NEW D, \A o \in A : IsFiniteSet(D[o]),
           NEW f, \A o \in A : \A i \in D[o] : f[<<o, i>>] \in Int,
           NEW inner, DOMAIN inner = A, \A o \in A : \A i \in D[o] : inner[o][i] = f[<<o, i>>],
           NEW outer, \A o \in A : outer[o] = SumFunctionOnSet(inner[o], D[o])
    PROVE  SumFunctionOnSet(f, Pairs(A, D)) = SumFunctionOnSet(outer, A)
<1> DEFINE pairs(T) == UNION {{o} \X D[o] : o \in T}
           X == {T \in SUBSET A : /\ IsFiniteSet(pairs(T))
                                  /\ SumFunctionOnSet(f, pairs(T)) = SumFunctionOnSet(outer, T)}
<1>0. ASSUME NEW o \in A PROVE outer[o] \in Int
  <2>1. \A i \in D[o] : inner[o][i] \in Int
    OBVIOUS
  <2>2. SumFunctionOnSet(inner[o], D[o]) \in Int
    BY <2>1, SumInt
  <2> QED BY <2>2
<1>1. {} \in X
  <2>1. pairs({}) = {}
    OBVIOUS
  <2> QED BY <2>1, SumEmpty, FS_EmptySet
<1>2. ASSUME NEW T \in SUBSET A, NEW x \in A \ T, T \in X PROVE T \cup {x} \in X
  <2> DEFINE row == {x} \X D[x]
             h == [i \in D[x] |-> <<x, i>>]
             R == pairs(T)
  <2>1. IsFiniteSet(T) /\ T \cup {x} \in SUBSET A /\ IsFiniteSet(D[x])
    BY FS_Subset
  <2>2. IsFiniteSet(R) /\ SumFunctionOnSet(f, R) = SumFunctionOnSet(outer, T)
    BY <1>2
  <2>3. IsFiniteSet(row)
    BY <2>1, FS_Singleton, FS_Product
  <2>4. pairs(T \cup {x}) = R \cup row /\ R \cap row = {}
    OBVIOUS
  <2>5. \A p \in R \cup row : f[p] \in Int
    <3>1. \A p \in R \cup row : \E o \in A : \E i \in D[o] : p = <<o, i>>
      OBVIOUS
    <3> QED BY <3>1
  <2>6. SumFunctionOnSet(f, row) = outer[x]
    <3>1. /\ h \in [D[x] -> row]
          /\ \A i, j \in D[x] : h[i] = h[j] => i = j
          /\ \A p \in row : \E i \in D[x] : h[i] = p
      OBVIOUS
    <3>2. \A p \in row : f[p] \in Int
      BY <2>5
    <3>3. \A i \in D[x] : inner[x][i] = f[h[i]]
      OBVIOUS
    <3> HIDE DEF h, row
    <3>4. SumFunctionOnSet(f, row) = SumFunctionOnSet(inner[x], D[x])
      BY <2>1, <3>1, <3>2, <3>3, SumRename
    <3> QED BY <3>4
  <2> HIDE DEF R, row, pairs
  <2>7. SumFunctionOnSet(f, R \cup row) = SumFunctionOnSet(f, R) + SumFunctionOnSet(f, row)
    BY <2>2, <2>3, <2>4, <2>5, SumUnion
  <2>8. SumFunctionOnSet(outer, T \cup {x}) = outer[x] + SumFunctionOnSet(outer, T)
    BY <1>0, <2>1, SumAdd
  <2>9. SumFunctionOnSet(outer, T) \in Int /\ outer[x] \in Int
    BY <1>0, <2>1, SumInt
  <2>10. IsFiniteSet(R \cup row)
    BY <2>2, <2>3, FS_Union
  <2>11. IsFiniteSet(pairs(T \cup {x}))
    BY <2>4, <2>10
  <2>12. SumFunctionOnSet(f, R \cup row) = SumFunctionOnSet(outer, T \cup {x})
    BY <2>2, <2>6, <2>7, <2>8, <2>9
  <2>13. SumFunctionOnSet(f, pairs(T \cup {x})) = SumFunctionOnSet(outer, T \cup {x})
    BY <2>4, <2>12
  <2> QED BY <2>1, <2>11, <2>13
<1>3. A \in X
  <2> HIDE DEF X
  <2> QED BY <1>1, <1>2, FiniteInduction
<1> QED BY <1>3 DEF Pairs

\* Sums whose terms lie at most c apart lie at most c times their number apart.
LEMMA SumWithin ==
    ASSUME NEW S, IsFiniteSet(S), NEW f, NEW g, NEW c \in Nat,
           \A i \in S : f[i] \in Int /\ g[i] \in Int,
           \A i \in S : f[i] - g[i] <= c /\ g[i] - f[i] <= c
    PROVE  /\ SumFunctionOnSet(f, S) - SumFunctionOnSet(g, S) <= c * Cardinality(S)
           /\ SumFunctionOnSet(g, S) - SumFunctionOnSet(f, S) <= c * Cardinality(S)
<1> DEFINE F(T) == SumFunctionOnSet(f, T)
           G(T) == SumFunctionOnSet(g, T)
           Within(T) == F(T) - G(T) <= c * Cardinality(T) /\ G(T) - F(T) <= c * Cardinality(T)
           X == {T \in SUBSET S : Within(T)}
<1>1. {} \in X
  <2>1. F({}) = 0 /\ G({}) = 0 /\ Cardinality({}) = 0
    BY SumEmpty, FS_EmptySet
  <2>2. c * 0 = 0
    OBVIOUS
  <2> QED BY <2>1, <2>2
<1>2. ASSUME NEW T \in SUBSET S, NEW x \in S \ T, T \in X PROVE T \cup {x} \in X
  <2>1. IsFiniteSet(T) /\ T \cup {x} \in SUBSET S
    BY FS_Subset
  <2>2. F(T \cup {x}) = f[x] + F(T) /\ G(T \cup {x}) = g[x] + G(T)
    BY <2>1, SumAdd
  <2>3. F(T) \in Int /\ G(T) \in Int
    BY <2>1, SumInt
  <2>4. Cardinality(T \cup {x}) = Cardinality(T) + 1 /\ Cardinality(T) \in Nat
    BY <2>1, FS_AddElement, FS_CardinalityType
  <2> DEFINE n == Cardinality(T)
             a == f[x]
             b == g[x]
  <2>5. c * n \in Int /\ c * (n + 1) = c * n + c
    <3> HIDE DEF n
    <3>1. n \in Nat
      BY <2>4 DEF n
    <3> QED BY <3>1
  <2>6. a \in Int /\ b \in Int /\ a - b <= c /\ b - a <= c
    OBVIOUS
  <2>7. F(T) - G(T) <= c * n /\ G(T) - F(T) <= c * n
    BY <1>2
  <2>8. F(T \cup {x}) = a + F(T) /\ G(T \cup {x}) = b + G(T) /\ Cardinality(T \cup {x}) = n + 1
    BY <2>2, <2>4
  <2> HIDE DEF F, G, n, a, b
  <2>9. Within(T \cup {x})
    BY <2>3, <2>5, <2>6, <2>7, <2>8
  <2> QED BY <2>1, <2>9
<1>3. S \in X
  <2> HIDE DEF X
  <2> QED BY <1>1, <1>2, FiniteInduction
<1> QED BY <1>3

-----------------------------------------------------------------------------
(* The first and the last of a set.                                        *)

LEMMA LeastExists ==
    ASSUME NEW S, S # {}, S \subseteq Nat
    PROVE  \E s \in S : \A r \in S : s <= r
<1>1. PICK n \in S : \A m \in S : <<m, n>> \notin OpToRel(<, Nat)
  BY NatLessThanWellFounded, WFMin
<1>2. \A m \in S : n <= m
  <2> SUFFICES ASSUME NEW m \in S, m < n PROVE FALSE
    OBVIOUS
  <2>1. <<m, n>> \in OpToRel(<, Nat)
    BY DEF OpToRel
  <2> QED BY <1>1, <2>1
<1> QED BY <1>2

\* Of the elements where v is greatest, one is first.
LEMMA GreatestExists ==
    ASSUME NEW S, IsFiniteSet(S), S # {}, S \subseteq Int, NEW v, \A s \in S : v[s] \in Int
    PROVE  \E s \in S : \A r \in S : v[r] < v[s] \/ (v[r] = v[s] /\ s <= r)
<1> DEFINE Best(s, T) == \A r \in T : v[r] < v[s] \/ (v[r] = v[s] /\ s <= r)
           X == {T \in SUBSET S : T = {} \/ \E s \in T : Best(s, T)}
<1>1. {} \in X
  OBVIOUS
<1>2. ASSUME NEW T \in SUBSET S, NEW x \in S \ T, T \in X PROVE T \cup {x} \in X
  <2>1. CASE T = {}
    BY <2>1
  <2>2. CASE T # {}
    <3>1. PICK s \in T : Best(s, T)
      BY <1>2, <2>2
    <3>2. \A r \in T \cup {x} : r \in Int /\ v[r] \in Int
      OBVIOUS
    <3>3. CASE v[x] < v[s] \/ (v[x] = v[s] /\ s <= x)
      BY <3>1, <3>2, <3>3
    <3>4. CASE ~(v[x] < v[s] \/ (v[x] = v[s] /\ s <= x))
      <4>1. Best(x, T \cup {x})
        BY <3>1, <3>2, <3>4
      <4> QED BY <4>1
    <3> QED BY <3>3, <3>4
  <2> QED BY <2>1, <2>2
<1>3. S \in X
  <2> HIDE DEF X
  <2> QED BY <1>1, <1>2, FiniteInduction
<1> QED BY <1>3

-----------------------------------------------------------------------------
(* Sums over the positions of a sequence.                                  *)

LEMMA Positions == \A N \in Int : IsFiniteSet(1 .. N)
  BY FS_Interval

\* One more term at the end.
LEMMA SumAppended ==
    ASSUME NEW N \in Nat, NEW f, NEW g, \A k \in 1 .. N : f[k] \in Int,
           \A k \in 1 .. N : g[k] = f[k], g[N + 1] \in Int
    PROVE  SumFunctionOnSet(g, 1 .. N + 1) = SumFunctionOnSet(f, 1 .. N) + g[N + 1]
<1> DEFINE I == 1 .. N
           J == 1 .. N + 1
           x == N + 1
<1>1. /\ IsFiniteSet(I) /\ J = I \cup {x} /\ x \notin I
      /\ \A k \in I : f[k] \in Int /\ g[k] \in Int /\ g[k] = f[k]
      /\ g[x] \in Int
  BY Positions
<1> HIDE DEF I, J, x
<1>2. SumFunctionOnSet(g, I \cup {x}) = g[x] + SumFunctionOnSet(g, I)
  BY <1>1, SumAdd
<1>3. SumFunctionOnSet(g, I) = SumFunctionOnSet(f, I) /\ SumFunctionOnSet(f, I) \in Int
  BY <1>1, SumSame, SumInt
<1>4. SumFunctionOnSet(g, J) = SumFunctionOnSet(f, I) + g[x]
  BY <1>1, <1>2, <1>3
<1> QED BY <1>4 DEF I, J, x

\* The term at n is taken out.
LEMMA SumWithout ==
    ASSUME NEW N \in Nat, NEW f, \A k \in 1 .. N : f[k] \in Int, NEW n \in 1 .. N
    PROVE  SumFunctionOnSet(f, 1 .. N) = f[n] + SumFunctionOnSet(f, (1 .. N) \ {n})
<1> DEFINE I == 1 .. N
<1>1. IsFiniteSet(I)
  BY Positions
<1>2. n \in I
  OBVIOUS
<1>3. \A k \in I : f[k] \in Int
  OBVIOUS
<1> HIDE DEF I
<1>4. \A x \in I : SumFunctionOnSet(f, I) = f[x] + SumFunctionOnSet(f, I \ {x})
  BY <1>1, <1>3, SumTake
<1>5. SumFunctionOnSet(f, I) = f[n] + SumFunctionOnSet(f, I \ {n})
  BY <1>2, <1>4, Zenon
<1> QED BY <1>5 DEF I

\* The term at n is taken out, and those behind it move up.
LEMMA SumRemoved ==
    ASSUME NEW N \in Nat, NEW f, NEW g, \A k \in 1 .. N : f[k] \in Int, NEW n \in 1 .. N,
           \A k \in 1 .. N - 1 : g[k] = f[IF k < n THEN k ELSE k + 1]
    PROVE  SumFunctionOnSet(g, 1 .. N - 1) = SumFunctionOnSet(f, 1 .. N) - f[n]
<1> DEFINE I == 1 .. N
           J == 1 .. N - 1
           rest == I \ {n}
           h == [k \in J |-> IF k < n THEN k ELSE k + 1]
<1>1. IsFiniteSet(J) /\ IsFiniteSet(I) /\ n \in I /\ \A k \in I : f[k] \in Int
  BY Positions
<1>2. SumFunctionOnSet(f, rest) = SumFunctionOnSet(g, J)
  <2>1. h \in [J -> rest]
    OBVIOUS
  <2>2. \A i, j \in J : h[i] = h[j] => i = j
    OBVIOUS
  <2>3. ASSUME NEW t \in rest PROVE \E i \in J : h[i] = t
    <3>1. CASE t < n
      <4>1. t \in J /\ h[t] = t
        BY <3>1
      <4> QED BY <4>1
    <3>2. CASE ~(t < n)
      <4>1. t - 1 \in J /\ h[t - 1] = t
        BY <3>2
      <4> QED BY <4>1
    <3> QED BY <3>1, <3>2
  <2>4. /\ \A t \in rest : f[t] \in Int
        /\ \A i \in J : g[i] = f[h[i]]
    OBVIOUS
  <2> HIDE DEF h, rest, I, J
  <2> QED BY <1>1, <2>1, <2>2, <2>3, <2>4, SumRename
<1> HIDE DEF I, J, h
<1>3. SumFunctionOnSet(f, I) = f[n] + SumFunctionOnSet(f, rest)
  BY SumWithout DEF I
<1>4. SumFunctionOnSet(f, rest) \in Int /\ f[n] \in Int
  <2>1. IsFiniteSet(rest) /\ \A k \in rest : f[k] \in Int
    BY <1>1, FS_Subset
  <2> QED BY <1>1, <2>1, SumInt
<1>5. SumFunctionOnSet(g, J) = SumFunctionOnSet(f, I) - f[n]
  BY <1>2, <1>3, <1>4
<1> QED BY <1>5 DEF I, J

=============================================================================
