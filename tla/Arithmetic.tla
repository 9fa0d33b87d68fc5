----------------------------- MODULE Arithmetic -----------------------------
(***************************************************************************)
(* Facts about the arithmetic the models are built from: sums over finite  *)
(* sets and orders of use, then the integers of the language.  Each        *)
(* induction is the descent to a minimal counterexample: the finite        *)
(* subsets of a set are well-founded under strict inclusion.               *)
(***************************************************************************)
EXTENDS Integers, Sequences, FiniteSets, FiniteSetsExt, FiniteSetTheorems,
        WellFoundedInduction, Recency, MachineIntegers, TLAPS

\* The sum of the numbers f[x] over the finite set S, as MapThenSumSet and
\* FoldFunction compute it.
SumOver(f, S) == MapThenSumSet(LAMBDA x : f[x], S)

\* A family of subsets of a finite set that is not empty has a minimal member:
\* what every induction below rests on.
LEMMA MinimalSubset ==
  ASSUME NEW S, IsFiniteSet(S), NEW Bad, Bad \subseteq SUBSET S, Bad # {}
  PROVE  \E T \in Bad : \A U \in SUBSET T : U # T => U \notin Bad
<1>1. IsWellFoundedOn(StrictSubsetOrdering(S), FiniteSubsetsOf(S))
  BY FS_StrictSubsetOrderingWellFounded
<1>2. Bad \subseteq FiniteSubsetsOf(S)
  BY FS_Subset DEF FiniteSubsetsOf
<1>3. PICK T \in Bad : \A U \in Bad : ~(<<U, T>> \in StrictSubsetOrdering(S))
  BY <1>1, <1>2, WFMin
<1>4. ASSUME NEW U \in SUBSET T, U # T, U \in Bad PROVE FALSE
  <2>1. <<U, T>> \in StrictSubsetOrdering(S)
    BY <1>4 DEF StrictSubsetOrdering
  <2> QED BY <2>1, <1>3, <1>4
<1> QED BY <1>4

-----------------------------------------------------------------------------
(* How the fold unfolds                                                    *)

Pick(S) == CHOOSE x \in S : TRUE

\* g is the function of subsets of S that the fold is defined by.
IsIter(g, f, S) ==
    g = [s \in SUBSET S |-> IF s = {} THEN 0 ELSE f[Pick(s)] + g[s \ {Pick(s)}]]

Iter(f, S) == CHOOSE g : IsIter(g, f, S)

\* The fold of the library is the value of that function at S.
LEMMA SumIsIter == \A f, S : SumOver(f, S) = Iter(f, S)[S]
  BY DEF SumOver, MapThenSumSet, MapThenFoldSet, Iter, IsIter, Pick

\* The chosen element belongs to the set.
LEMMA PickIn == \A S : S # {} => Pick(S) \in S
  BY DEF Pick

\* The functions of two sets agree on what is a subset of both.
LEMMA IterUnique ==
  ASSUME NEW f, NEW S, NEW R, IsFiniteSet(S), NEW g, IsIter(g, f, S), NEW h, IsIter(h, f, R),
         S \subseteq R
  PROVE  \A s \in SUBSET S : g[s] = h[s]
<1> DEFINE Bad == {s \in SUBSET S : g[s] # h[s]}
<1> SUFFICES ASSUME Bad # {} PROVE FALSE
  OBVIOUS
<1>1. PICK T \in Bad : \A U \in SUBSET T : U # T => U \notin Bad
  <2>1. Bad \subseteq SUBSET S
    OBVIOUS
  <2> HIDE DEF Bad
  <2> QED BY <2>1, MinimalSubset
<1>2. T # {}
  BY DEF IsIter
<1> DEFINE U == T \ {Pick(T)}
<1>3. U \in SUBSET T /\ U # T
  BY <1>2, PickIn
<1>4. g[U] = h[U]
  BY <1>1, <1>3
<1>5. g[T] = f[Pick(T)] + g[U] /\ h[T] = f[Pick(T)] + h[U]
  BY <1>2 DEF IsIter
<1> QED BY <1>4, <1>5

\* Such a function exists for every finite set, so CHOOSE finds it.
LEMMA IterExists ==
  ASSUME NEW f, NEW S, IsFiniteSet(S)
  PROVE  IsIter(Iter(f, S), f, S)
<1> DEFINE Bad == {T \in SUBSET S : ~(\E g : IsIter(g, f, T))}
<1>1. ASSUME Bad # {} PROVE FALSE
  <2>1. PICK T \in Bad : \A U \in SUBSET T : U # T => U \notin Bad
    <3>1. Bad \subseteq SUBSET S
      OBVIOUS
    <3> HIDE DEF Bad
    <3> QED BY <3>1, <1>1, MinimalSubset
  <2>2. \A U \in SUBSET T : U # T => IsIter(Iter(f, U), f, U)
    <3> SUFFICES ASSUME NEW U \in SUBSET T, U # T PROVE IsIter(Iter(f, U), f, U)
      OBVIOUS
    <3>1. \E g : IsIter(g, f, U)
      BY <2>1
    <3> QED BY <3>1 DEF Iter
  <2> DEFINE at(s) == IF s = {} THEN 0 ELSE f[Pick(s)] + Iter(f, s \ {Pick(s)})[s \ {Pick(s)}]
             h == [s \in SUBSET T |-> at(s)]
  <2>3. ASSUME NEW s \in SUBSET T, s # {} PROVE h[s \ {Pick(s)}] = Iter(f, s \ {Pick(s)})[s \ {Pick(s)}]
    <3> DEFINE u == s \ {Pick(s)}
               v == u \ {Pick(u)}
    <3>1. u \in SUBSET T /\ u # T /\ IsFiniteSet(u)
      BY <2>3, PickIn, FS_Subset
    <3>2. IsIter(Iter(f, u), f, u)
      BY <3>1, <2>2
    <3>3. CASE u = {}
      <4>1. Iter(f, u)[u] = 0
        BY <3>2, <3>3 DEF IsIter
      <4>2. h[u] = 0
        BY <3>1, <3>3
      <4> QED BY <4>1, <4>2
    <3>4. CASE u # {}
      <4>1. Iter(f, u)[u] = f[Pick(u)] + Iter(f, u)[v]
        BY <3>2, <3>4 DEF IsIter
      <4>2. v \in SUBSET T /\ v # T /\ IsFiniteSet(v) /\ v \subseteq u
        BY <3>1, <3>4, PickIn, FS_Subset
      <4>3. IsIter(Iter(f, v), f, v)
        BY <4>2, <2>2
      <4>4. Iter(f, v)[v] = Iter(f, u)[v]
        <5> HIDE DEF u, v
        <5> QED BY <4>2, <4>3, <3>2, IterUnique
      <4>5. h[u] = f[Pick(u)] + Iter(f, v)[v]
        BY <3>1, <3>4
      <4> QED BY <4>1, <4>4, <4>5
    <3> QED BY <3>3, <3>4
  <2>4. IsIter(h, f, T)
    <3>1. \A s \in SUBSET T : h[s] = IF s = {} THEN 0 ELSE f[Pick(s)] + h[s \ {Pick(s)}]
      BY <2>3
    <3> HIDE DEF h
    <3>2. h = [s \in SUBSET T |-> h[s]]
      BY DEF h
    <3> QED BY <3>1, <3>2 DEF IsIter
  <2> QED BY <2>1, <2>4
<1>2. \E g : IsIter(g, f, S)
  BY <1>1
<1> QED BY <1>2 DEF Iter

\* A sum is its chosen element and the sum of the rest.
LEMMA SumUnfold ==
  ASSUME NEW f, NEW S, IsFiniteSet(S)
  PROVE  SumOver(f, S) = IF S = {} THEN 0 ELSE f[Pick(S)] + SumOver(f, S \ {Pick(S)})
<1>1. IsIter(Iter(f, S), f, S)
  BY IterExists
<1>2. CASE S = {}
  BY <1>1, <1>2, SumIsIter DEF IsIter
<1>3. CASE S # {}
  <2> DEFINE U == S \ {Pick(S)}
  <2>1. IsFiniteSet(U) /\ U \subseteq S
    BY FS_Subset
  <2>2. IsIter(Iter(f, U), f, U)
    BY <2>1, IterExists
  <2>3. Iter(f, U)[U] = Iter(f, S)[U]
    BY <2>1, <2>2, <1>1, IterUnique
  <2>4. Iter(f, S)[S] = f[Pick(S)] + Iter(f, S)[U]
    BY <1>1, <1>3 DEF IsIter
  <2> QED BY <2>3, <2>4, <1>3, SumIsIter
<1> QED BY <1>2, <1>3

-----------------------------------------------------------------------------
(* What sums are                                                           *)

\* Nothing adds up to zero.
LEMMA SumEmpty == ASSUME NEW f PROVE SumOver(f, {}) = 0
  BY SumUnfold, FS_EmptySet

\* A sum of natural numbers is one.
LEMMA SumNat ==
  ASSUME NEW f, NEW S, IsFiniteSet(S), \A x \in S : f[x] \in Nat
  PROVE  SumOver(f, S) \in Nat
<1> DEFINE Bad == {T \in SUBSET S : SumOver(f, T) \notin Nat}
<1>1. ASSUME Bad # {} PROVE FALSE
  <2>1. PICK T \in Bad : \A U \in SUBSET T : U # T => U \notin Bad
    <3>1. Bad \subseteq SUBSET S
      OBVIOUS
    <3> HIDE DEF Bad
    <3> QED BY <3>1, <1>1, MinimalSubset
  <2>2. IsFiniteSet(T) /\ T # {}
    BY <2>1, FS_Subset, SumEmpty
  <2> DEFINE U == T \ {Pick(T)}
  <2>3. U \in SUBSET T /\ U # T /\ Pick(T) \in S
    BY <2>2, PickIn
  <2>4. SumOver(f, U) \in Nat
    BY <2>1, <2>3
  <2>5. SumOver(f, T) = f[Pick(T)] + SumOver(f, U)
    BY <2>2, SumUnfold
  <2>6. f[Pick(T)] \in Nat
    BY <2>3
  <2> HIDE DEF U
  <2>7. SumOver(f, T) \in Nat
    BY <2>4, <2>5, <2>6
  <2> QED BY <2>1, <2>7
<1> QED BY <1>1

\* Any element can be taken out of a sum.
LEMMA SumRemove ==
  ASSUME NEW f, NEW S, IsFiniteSet(S), \A x \in S : f[x] \in Nat, NEW y \in S
  PROVE  SumOver(f, S) = f[y] + SumOver(f, S \ {y})
<1> DEFINE Good(T) == \A x \in T : SumOver(f, T) = f[x] + SumOver(f, T \ {x})
           Bad == {T \in SUBSET S : ~Good(T)}
<1>1. ASSUME Bad # {} PROVE FALSE
  <2>1. PICK T \in Bad : \A U \in SUBSET T : U # T => U \notin Bad
    <3>1. Bad \subseteq SUBSET S
      OBVIOUS
    <3> HIDE DEF Bad
    <3> QED BY <3>1, <1>1, MinimalSubset
  <2>2. PICK x \in T : SumOver(f, T) # f[x] + SumOver(f, T \ {x})
    BY <2>1
  <2> DEFINE c == Pick(T)
  <2>3. c \in T /\ IsFiniteSet(T)
    BY <2>1, <2>2, PickIn, FS_Subset
  <2>4. SumOver(f, T) = f[c] + SumOver(f, T \ {c})
    BY <2>2, <2>3, SumUnfold
  <2> HIDE DEF c
  <2>5. x # c
    BY <2>2, <2>4
  <2>6. Good(T \ {c}) /\ Good(T \ {x})
    BY <2>1, <2>2, <2>3
  <2>7. SumOver(f, T \ {c}) = f[x] + SumOver(f, (T \ {c}) \ {x})
    BY <2>2, <2>5, <2>6
  <2>8. SumOver(f, T \ {x}) = f[c] + SumOver(f, (T \ {x}) \ {c})
    BY <2>3, <2>5, <2>6
  <2>9. (T \ {c}) \ {x} = (T \ {x}) \ {c}
    OBVIOUS
  <2>10. SumOver(f, (T \ {x}) \ {c}) \in Nat
    <3>1. IsFiniteSet((T \ {x}) \ {c})
      BY <2>3, FS_Subset
    <3> QED BY <3>1, <2>1, SumNat
  <2>11. f[x] \in Nat /\ f[c] \in Nat
    BY <2>1, <2>2, <2>3
  <2> DEFINE rest == SumOver(f, (T \ {x}) \ {c})
  <2>12. /\ SumOver(f, T) = f[c] + (f[x] + rest) /\ SumOver(f, T \ {x}) = f[c] + rest
         /\ rest \in Nat
    BY <2>4, <2>7, <2>8, <2>9, <2>10
  <2> HIDE DEF rest
  <2>13. SumOver(f, T) = f[x] + SumOver(f, T \ {x})
    BY <2>11, <2>12
  <2> QED BY <2>2, <2>13
<1>2. Good(S)
  BY <1>1
<1> QED BY <1>2

\* One more element adds its own number.
LEMMA SumAdd ==
  ASSUME NEW f, NEW S, IsFiniteSet(S), NEW y, y \notin S, f[y] \in Nat, \A x \in S : f[x] \in Nat
  PROVE  SumOver(f, S \cup {y}) = SumOver(f, S) + f[y]
<1>1. IsFiniteSet(S \cup {y}) /\ (S \cup {y}) \ {y} = S
  BY FS_AddElement
<1>2. SumOver(f, S \cup {y}) = f[y] + SumOver(f, S)
  BY <1>1, SumRemove
<1>3. SumOver(f, S) \in Nat
  BY SumNat
<1> QED BY <1>2, <1>3

\* A sum over a part and a sum over the rest make up the sum.
LEMMA SumSplit ==
  ASSUME NEW f, NEW S, IsFiniteSet(S), \A x \in S : f[x] \in Nat, NEW T \in SUBSET S
  PROVE  SumOver(f, S) = SumOver(f, T) + SumOver(f, S \ T)
<1> DEFINE Good(U) == SumOver(f, S) = SumOver(f, U) + SumOver(f, S \ U)
           Bad == {U \in SUBSET S : ~Good(U)}
<1>1. ASSUME Bad # {} PROVE FALSE
  <2>1. PICK U \in Bad : \A V \in SUBSET U : V # U => V \notin Bad
    <3>1. Bad \subseteq SUBSET S
      OBVIOUS
    <3> HIDE DEF Bad
    <3> QED BY <3>1, <1>1, MinimalSubset
  <2>2. U # {}
    <3>1. S \ {} = S
      OBVIOUS
    <3>2. SumOver(f, S) \in Nat
      BY SumNat
    <3>3. Good({})
      BY <3>1, <3>2, SumEmpty
    <3> QED BY <3>3, <2>1
  <2>3. PICK x : x \in U
    BY <2>2
  <2> DEFINE V == U \ {x}
  <2>4. V \subseteq U /\ V # U /\ x \in S /\ x \notin S \ U /\ S \ V = (S \ U) \cup {x}
    BY <2>1, <2>3
  <2>5. IsFiniteSet(U) /\ IsFiniteSet(V) /\ IsFiniteSet(S \ U)
    BY <2>1, <2>4, FS_Subset
  <2>6. Good(V)
    BY <2>1, <2>4
  <2>7. SumOver(f, U) = f[x] + SumOver(f, V)
    BY <2>1, <2>3, <2>5, SumRemove
  <2>8. SumOver(f, S \ V) = SumOver(f, S \ U) + f[x]
    BY <2>4, <2>5, SumAdd
  <2>9. SumOver(f, V) \in Nat /\ SumOver(f, S \ U) \in Nat /\ f[x] \in Nat
    BY <2>1, <2>4, <2>5, SumNat
  <2> HIDE DEF V
  <2>10. Good(U)
    BY <2>6, <2>7, <2>8, <2>9
  <2> QED BY <2>1, <2>10
<1>2. Good(T)
  BY <1>1
<1> QED BY <1>2

\* Fewer elements never add up to more.
LEMMA SumMonotone ==
  ASSUME NEW f, NEW S, IsFiniteSet(S), \A x \in S : f[x] \in Nat, NEW T \in SUBSET S
  PROVE  SumOver(f, T) <= SumOver(f, S)
<1>1. IsFiniteSet(T) /\ IsFiniteSet(S \ T)
  BY FS_Subset
<1>2. SumOver(f, T) \in Nat /\ SumOver(f, S \ T) \in Nat
  BY <1>1, SumNat
<1> QED BY <1>2, SumSplit

\* Only the numbers of the set's elements count.
LEMMA SumSame ==
  ASSUME NEW f, NEW g, NEW S, IsFiniteSet(S), \A x \in S : f[x] = g[x]
  PROVE  SumOver(f, S) = SumOver(g, S)
<1> DEFINE Bad == {T \in SUBSET S : SumOver(f, T) # SumOver(g, T)}
<1>1. ASSUME Bad # {} PROVE FALSE
  <2>1. PICK T \in Bad : \A U \in SUBSET T : U # T => U \notin Bad
    <3>1. Bad \subseteq SUBSET S
      OBVIOUS
    <3> HIDE DEF Bad
    <3> QED BY <3>1, <1>1, MinimalSubset
  <2>2. IsFiniteSet(T) /\ T # {}
    BY <2>1, FS_Subset, SumEmpty
  <2> DEFINE U == T \ {Pick(T)}
  <2>3. U \in SUBSET T /\ U # T /\ Pick(T) \in S
    BY <2>2, PickIn
  <2>4. SumOver(f, U) = SumOver(g, U)
    BY <2>1, <2>3
  <2>5. /\ SumOver(f, T) = f[Pick(T)] + SumOver(f, U)
        /\ SumOver(g, T) = g[Pick(T)] + SumOver(g, U)
    BY <2>2, SumUnfold
  <2> QED BY <2>1, <2>3, <2>4, <2>5
<1> QED BY <1>1

-----------------------------------------------------------------------------
(* Least elements                                                          *)

\* A finite set that is not empty has an element with the least number.
LEMMA LeastNumber ==
  ASSUME NEW f, NEW S, IsFiniteSet(S), S # {}, \A x \in S : f[x] \in Int
  PROVE  \E x \in S : \A y \in S : f[x] <= f[y]
<1> DEFINE Good(T) == \E x \in T : \A y \in T : f[x] <= f[y]
           Bad == {T \in SUBSET S : T # {} /\ ~Good(T)}
<1>1. ASSUME Bad # {} PROVE FALSE
  <2>1. PICK T \in Bad : \A U \in SUBSET T : U # T => U \notin Bad
    <3>1. Bad \subseteq SUBSET S
      OBVIOUS
    <3> HIDE DEF Bad
    <3> QED BY <3>1, <1>1, MinimalSubset
  <2>2. PICK c : c \in T
    BY <2>1
  <2> DEFINE U == T \ {c}
  <2>3. U \in SUBSET T /\ U # T
    BY <2>2
  <2>4. CASE U = {}
    <3>1. T = {c}
      BY <2>2, <2>4
    <3>2. f[c] <= f[c]
      BY <2>1, <2>2
    <3> QED BY <3>1, <3>2, <2>1
  <2>5. CASE U # {}
    <3>1. Good(U)
      BY <2>1, <2>3, <2>5
    <3>2. PICK x \in U : \A y \in U : f[x] <= f[y]
      BY <3>1
    <3>3. f[x] \in Int /\ f[c] \in Int /\ \A y \in U : f[y] \in Int
      BY <2>1, <2>2
    <3>4. CASE f[c] <= f[x]
      <4>1. \A y \in T : f[c] <= f[y]
        BY <3>2, <3>3, <3>4
      <4> QED BY <4>1, <2>1, <2>2
    <3>5. CASE f[x] <= f[c]
      <4>1. \A y \in T : f[x] <= f[y]
        BY <3>2, <3>3, <3>5
      <4> QED BY <4>1, <2>1
    <3> QED BY <3>3, <3>4, <3>5
  <2> QED BY <2>4, <2>5
<1>2. Good(S)
  BY <1>1
<1> QED BY <1>2

\* Of the numbered elements of A, at most m have fewer than m above them: what
\* keeping the newest m rows of a table retains.
LEMMA NewestBounded ==
  ASSUME NEW A, IsFiniteSet(A), NEW f, \A x \in A : f[x] \in Int,
         \A x, y \in A : x # y => f[x] # f[y], NEW m \in Nat
  PROVE  Cardinality({x \in A : Cardinality({y \in A : f[y] > f[x]}) < m}) <= m
<1> DEFINE B == {x \in A : Cardinality({y \in A : f[y] > f[x]}) < m}
<1>1. IsFiniteSet(B) /\ Cardinality(B) \in Nat
  BY FS_Subset, FS_CardinalityType
<1>2. CASE B = {}
  <2>1. Cardinality(B) = 0
    BY <1>2, FS_EmptySet
  <2> HIDE DEF B
  <2>2. Cardinality(B) <= m
    BY <2>1
  <2> QED BY <2>2 DEF B
<1>3. CASE B # {}
  <2>0. \A x \in B : f[x] \in Int
    OBVIOUS
  <2>1. PICK b \in B : \A y \in B : f[b] <= f[y]
    <3> HIDE DEF B
    <3> QED BY <1>1, <1>3, <2>0, LeastNumber
  <2> DEFINE C == {y \in A : f[y] > f[b]}
  <2>2. B \ {b} \subseteq C
    BY <2>1
  <2>3. IsFiniteSet(C) /\ Cardinality(C) < m /\ Cardinality(C) \in Nat
    BY <2>1, FS_Subset, FS_CardinalityType
  <2> HIDE DEF B, C
  <2>4. Cardinality(B \ {b}) = Cardinality(B) - 1
    BY <1>1, <2>1, FS_RemoveElement
  <2>5. Cardinality(B \ {b}) <= Cardinality(C)
    BY <2>2, <2>3, FS_Subset
  <2>6. Cardinality(B) <= m
    BY <2>3, <2>4, <2>5, <1>1
  <2> QED BY <2>6 DEF B
<1> QED BY <1>2, <1>3

\* A strict order has a least member in every finite set that is not empty.
LEMMA LeastOf ==
  ASSUME NEW S, IsFiniteSet(S), S # {}, NEW R,
         \A x \in S : <<x, x>> \notin R,
         \A x, y, z \in S : <<x, y>> \in R /\ <<y, z>> \in R => <<x, z>> \in R
  PROVE  \E x \in S : \A y \in S : <<y, x>> \notin R
<1> DEFINE Below(x) == {y \in S : <<y, x>> \in R}
           Bad == {Below(x) : x \in S}
<1>1. Bad \subseteq SUBSET S /\ Bad # {}
  <2>1. PICK x \in S : TRUE
    OBVIOUS
  <2>2. Below(x) \in Bad
    OBVIOUS
  <2>3. \A y : Below(y) \in SUBSET S
    OBVIOUS
  <2> HIDE DEF Below
  <2> QED BY <2>2, <2>3
<1> HIDE DEF Bad
<1>2. PICK T \in Bad : \A U \in SUBSET T : U # T => U \notin Bad
  BY <1>1, MinimalSubset
<1>3. PICK x \in S : T = Below(x)
  BY DEF Bad
<1>4. ASSUME NEW y \in S, <<y, x>> \in R PROVE FALSE
  <2>1. y \in T /\ y \notin Below(y)
    BY <1>3, <1>4
  <2>2. Below(y) \in SUBSET T
    BY <1>3, <1>4
  <2>3. Below(y) \in Bad
    BY DEF Bad
  <2> QED BY <1>2, <2>1, <2>2, <2>3
<1> QED BY <1>4
-----------------------------------------------------------------------------
(* Orders of use                                                           *)

\* A part of a strict order is one.
LEMMA PartOrdered ==
  ASSUME NEW order, NEW S, OrdersStrictly(order, S), NEW T \in SUBSET S
  PROVE  OrdersStrictly(Among(order, T), T)
  BY DEF OrdersStrictly, Among

\* A key with the newest stamp keeps the order strict, and is the last.
LEMMA UsedNowOrdered ==
  ASSUME NEW order, NEW S, OrdersStrictly(order, S), NEW s
  PROVE  /\ OrdersStrictly(UsedNow(order, S, s), S \cup {s})
         /\ ((S \cup {s}) \ {s}) \X {s} \subseteq UsedNow(order, S, s)
<1> DEFINE R == UsedNow(order, S, s)
           T == S \cup {s}
<1>1. \A x, y : <<x, y>> \in R <=> \/ <<x, y>> \in order /\ x \in S \ {s} /\ y \in S \ {s}
                                   \/ x \in S /\ x # s /\ y = s
  BY DEF UsedNow, Among
<1>2. R \subseteq T \X T
  BY DEF UsedNow, Among, OrdersStrictly
<1>3. \A x \in T : <<x, x>> \notin R
  BY <1>1 DEF OrdersStrictly
<1>4. \A x, y \in T : x # y => <<x, y>> \in R \/ <<y, x>> \in R
  BY <1>1 DEF OrdersStrictly
<1>5. \A x, y, z \in T : <<x, y>> \in R /\ <<y, z>> \in R => <<x, z>> \in R
  BY <1>1 DEF OrdersStrictly
<1>6. (T \ {s}) \X {s} \subseteq R
  BY DEF UsedNow
<1> HIDE DEF R, T
<1>7. OrdersStrictly(R, T)
  BY <1>2, <1>3, <1>4, <1>5 DEF OrdersStrictly
<1> QED
  BY <1>6, <1>7 DEF R, T

\* What is evicted of C is all of it, if no candidate is enough, or what goes
\* as far as one that is enough.
LEMMA VictimsStop ==
  ASSUME NEW order, NEW S, IsFiniteSet(S), OrdersStrictly(order, S),
         NEW C \in SUBSET S, NEW enough \in SUBSET C
  PROVE  \/ enough = {} /\ Victims(order, C, enough) = C
         \/ \E t \in enough : Victims(order, C, enough) = UpTo(order, C, t)
<1>1. CASE enough = {}
  BY <1>1 DEF Victims
<1>2. CASE enough # {}
  <2>1. IsFiniteSet(enough)
    BY FS_Subset
  <2>2. PICK t \in enough : \A u \in enough : <<u, t>> \notin order
    <3>1. \A x \in enough : <<x, x>> \notin order
      BY DEF OrdersStrictly
    <3>2. \A x, y, z \in enough : <<x, y>> \in order /\ <<y, z>> \in order => <<x, z>> \in order
      BY DEF OrdersStrictly
    <3> QED
      BY <1>2, <2>1, <3>1, <3>2, LeastOf
  <2>3. ASSUME NEW u \in enough, NEW s \in UpTo(order, C, t)
        PROVE  s \in UpTo(order, C, u)
    <3>1. u = t \/ <<t, u>> \in order
      BY <2>2 DEF OrdersStrictly
    <3> QED
      BY <3>1 DEF OrdersStrictly, UpTo
  <2>4. Victims(order, C, enough) = UpTo(order, C, t)
    BY <2>3 DEF Victims, UpTo
  <2> QED
    BY <2>4
<1> QED
  BY <1>1, <1>2

\* Eviction takes a beginning of the order of use: with a candidate go all the
\* candidates that were used less recently.
LEMMA VictimsDownward ==
  ASSUME NEW order, NEW S, OrdersStrictly(order, S), NEW C \in SUBSET S, NEW enough \in SUBSET C,
         NEW t \in Victims(order, C, enough), NEW s \in C, <<s, t>> \in order
  PROVE  s \in Victims(order, C, enough)
<1>1. ASSUME NEW u \in enough PROVE s \in UpTo(order, C, u)
  BY DEF OrdersStrictly, UpTo, Victims
<1> QED
  BY <1>1 DEF Victims

-----------------------------------------------------------------------------
(* Wrapping around                                                         *)

\* A product is at least as large as its positive factor, unless it is zero
\* or negative.
LEMMA ProductSigns ==
  ASSUME NEW k \in Int, NEW m \in Int, m > 0
  PROVE  /\ k >= 1 => k * m >= m
         /\ k <= -1 => k * m <= -m
         /\ k >= 2 => k * m >= 2 * m
         /\ k <= -2 => k * m <= -(2 * m)
         /\ k = 0 => k * m = 0
<1>1. k >= 1 => k * m >= m
  OBVIOUS
<1>2. k <= -1 => k * m <= -m
  OBVIOUS
<1>3. k >= 2 => k * m >= 2 * m
  OBVIOUS
<1>4. k <= -2 => k * m <= -(2 * m)
  OBVIOUS
<1> QED BY <1>1, <1>2, <1>3, <1>4

\* Wrapping around moves a number by a multiple of the number of words, into
\* the words, and leaves the words alone.
LEMMA WrapIsWord ==
  ASSUME NEW max \in Nat, NEW n \in Int
  PROVE  /\ Wrap(max, n) \in Word(max)
         /\ \E k \in Int : Wrap(max, n) = n + k * (2 * (max + 1))
         /\ n \in Word(max) => Wrap(max, n) = n
<1> DEFINE m == 2 * (max + 1)
           x == n - MinOf(max)
           k == x \div m
<1>1. m \in Nat /\ m > 0 /\ MinOf(max) \in Int /\ x \in Int /\ MinOf(max) + m = max + 1
  BY DEF MinOf
<1>2. k \in Int /\ x % m \in 0..(m - 1) /\ x = m * k + (x % m)
  <2> HIDE DEF x, m
  <2> QED BY <1>1 DEF k
<1>3. Wrap(max, n) = (x % m) + MinOf(max)
  BY DEF Wrap
<1> HIDE DEF m, k
<1>4. Wrap(max, n) \in Word(max)
  <2> HIDE DEF x
  <2> QED BY <1>1, <1>2, <1>3 DEF Word, m
<1>5. Wrap(max, n) = n + (-k) * m
  <2>2. (-k) * m = -(m * k)
    BY <1>1, <1>2
  <2>3. m * k \in Int
    BY <1>1, <1>2
  <2>4. x = n - MinOf(max)
    OBVIOUS
  <2> HIDE DEF x
  <2>1. Wrap(max, n) = n - m * k
    BY <1>1, <1>2, <1>3, <2>3, <2>4
  <2> QED BY <1>2, <1>1, <2>1, <2>2, <2>3
<1>6. n \in Word(max) => Wrap(max, n) = n
  <2> SUFFICES ASSUME n \in Word(max) PROVE Wrap(max, n) = n
    OBVIOUS
  <2>1. x >= 0 /\ x < m
    BY <1>1 DEF Word, MinOf, m
  <2>2. k = 0
    <3>1. k >= 1 => k * m >= m
      BY ProductSigns, <1>1, <1>2
    <3>2. k <= -1 => k * m <= -m
      BY ProductSigns, <1>1, <1>2
    <3>3. k * m = m * k /\ k * m \in Int
      BY <1>1, <1>2
    <3> HIDE DEF x
    <3> QED BY <1>1, <1>2, <2>1, <3>1, <3>2, <3>3
  <2>3. x % m = x
    <3>1. m * k = 0
      BY <2>2, <1>1
    <3> HIDE DEF x
    <3> QED BY <1>1, <1>2, <3>1
  <2> QED BY <1>1, <1>3, <2>3
<1>7. \E j \in Int : Wrap(max, n) = n + j * m
  <2>1. -k \in Int
    BY <1>2
  <2> QED BY <1>5, <2>1
<1> QED BY <1>4, <1>6, <1>7 DEF m

\* A number at most one word range away is wrapped by at most one.
LEMMA WrapNear ==
  ASSUME NEW max \in Nat, NEW n \in Int, n >= 2 * MinOf(max), n <= 2 * max + 1
  PROVE  /\ n \in Word(max) => Wrap(max, n) = n
         /\ n > max => Wrap(max, n) = n - 2 * (max + 1)
         /\ n < MinOf(max) => Wrap(max, n) = n + 2 * (max + 1)
<1> DEFINE m == 2 * (max + 1)
<1>1. PICK k \in Int : Wrap(max, n) = n + k * m
  BY WrapIsWord
<1>2. Wrap(max, n) \in Int /\ Wrap(max, n) >= MinOf(max) /\ Wrap(max, n) <= max
  BY WrapIsWord DEF Word, MinOf
<1>3. m \in Int /\ m > 0 /\ MinOf(max) = max + 1 - m /\ m = 2 * max + 2
  BY DEF MinOf
<1> HIDE DEF m
<1>4. k * m \in Int
  BY <1>3
<1>5. /\ k >= 1 => k * m >= m
      /\ k <= -1 => k * m <= -m
      /\ k >= 2 => k * m >= 2 * m
      /\ k <= -2 => k * m <= -(2 * m)
      /\ k = 0 => k * m = 0
  BY ProductSigns, <1>3
<1>6. k = 1 => k * m = m
  BY <1>3
<1>7. k = -1 => k * m = -m
  BY <1>3
<1>8. ASSUME n > max PROVE k = -1
  BY <1>1, <1>2, <1>3, <1>4, <1>5, <1>8 DEF MinOf
<1>9. ASSUME n < MinOf(max) PROVE k = 1
  BY <1>1, <1>2, <1>3, <1>4, <1>5, <1>9 DEF MinOf
<1>10. n \in Word(max) => Wrap(max, n) = n
  BY WrapIsWord
<1>11. n > max => Wrap(max, n) = n - m
  BY <1>1, <1>3, <1>7, <1>8
<1>12. n < MinOf(max) => Wrap(max, n) = n + m
  BY <1>1, <1>3, <1>6, <1>9
<1> QED BY <1>10, <1>11, <1>12 DEF m
-----------------------------------------------------------------------------
(* Division                                                                *)

\* Division rounds towards zero: what is left is smaller than the divisor.
LEMMA QuotientRounds ==
  ASSUME NEW a \in Int, NEW b \in Int, b # 0
  PROVE  /\ Quotient(a, b) \in Int /\ b * Quotient(a, b) \in Int
         /\ Remainder(a, b) \in Int
         /\ Magnitude(Remainder(a, b)) < Magnitude(b)
         /\ a >= 0 => Remainder(a, b) >= 0
         /\ a <= 0 => Remainder(a, b) <= 0
<1> DEFINE x == Magnitude(a)
           y == Magnitude(b)
           q == x \div y
<1>1. x \in Nat /\ y \in Nat /\ y > 0
  BY DEF Magnitude
<1>2. q \in Nat /\ x % y \in 0..(y - 1) /\ x = y * q + (x % y)
  <2> HIDE DEF x, y
  <2> QED BY <1>1
<1> DEFINE p == y * q
           rest == x % y
<1>3. p \in Int /\ rest \in Int /\ rest >= 0 /\ rest < y /\ x = p + rest
  <2> HIDE DEF x, y, q
  <2>1. p \in Int
    BY <1>1, <1>2
  <2>2. rest \in 0..(y - 1) /\ x = p + rest
    BY <1>2
  <2> HIDE DEF p, rest
  <2> QED BY <1>1, <2>1, <2>2
<1> HIDE DEF x, y, q, p, rest
<1>4. Quotient(a, b) = IF (a < 0) <=> (b < 0) THEN q ELSE -q
  BY DEF Quotient, q, x, y
<1>5. b = IF b < 0 THEN -y ELSE y
  BY DEF y, Magnitude
<1>6. a = IF a < 0 THEN -x ELSE x
  BY DEF x, Magnitude
<1>7. b * Quotient(a, b) = IF a < 0 THEN -p ELSE p
  <2>1. (-y) * q = -p /\ y * (-q) = -p /\ (-y) * (-q) = p /\ y * q = p
    BY <1>1, <1>2 DEF p
  <2>2. CASE a < 0 /\ b < 0
    BY <2>1, <2>2, <1>4, <1>5
  <2>3. CASE ~(a < 0) /\ b < 0
    BY <2>1, <2>3, <1>4, <1>5
  <2>4. CASE a < 0 /\ ~(b < 0)
    BY <2>1, <2>4, <1>4, <1>5
  <2>5. CASE ~(a < 0) /\ ~(b < 0)
    BY <2>1, <2>5, <1>4, <1>5
  <2> QED BY <2>2, <2>3, <2>4, <2>5
<1>8. Remainder(a, b) = IF a < 0 THEN -rest ELSE rest
  BY <1>3, <1>6, <1>7 DEF Remainder
<1>9. Quotient(a, b) \in Int
  BY <1>2, <1>4
<1>10. Magnitude(Remainder(a, b)) = rest
  BY <1>3, <1>8 DEF Magnitude
<1>11. Magnitude(b) = y
  BY DEF y
<1>12. a = 0 => rest = 0
  <2> SUFFICES ASSUME a = 0 PROVE rest = 0
    OBVIOUS
  <2>1. x = 0
    BY DEF x, Magnitude
  <2>2. p >= 0
    BY <1>1, <1>2 DEF p
  <2> QED BY <2>1, <2>2, <1>3
<1> QED BY <1>3, <1>7, <1>8, <1>9, <1>10, <1>11, <1>12

\* Dividing a product by one factor gives the other.
LEMMA QuotientOfProduct ==
  ASSUME NEW l \in Int, NEW r \in Int, r # 0
  PROVE  Quotient(l * r, r) = l
<1> DEFINE a == l * r
           q == Quotient(a, r)
<1>1. a \in Int
  OBVIOUS
<1> HIDE DEF a
<1>2. /\ q \in Int /\ r * q \in Int /\ Remainder(a, r) \in Int
      /\ Magnitude(Remainder(a, r)) < Magnitude(r)
  BY <1>1, QuotientRounds
<1>3. Remainder(a, r) = (l - q) * r
  <2>1. (l - q) * r = l * r - r * q
    BY <1>2
  <2> QED BY <2>1, <1>1 DEF Remainder, a
<1>4. SUFFICES q = l
  BY DEF a
<1> HIDE DEF q
<1>5. l - q = 0
  <2> DEFINE d == l - q
             s == d * r
  <2>1. d \in Int /\ s \in Int
    BY <1>2
  <2>2. s < Magnitude(r) /\ -s < Magnitude(r)
    BY <1>2, <1>3, <2>1 DEF Magnitude
  <2> HIDE DEF d
  <2>3. CASE r > 0
    <3>1. (d >= 1 => d * r >= r) /\ (d <= -1 => d * r <= -r)
      BY <2>1, <2>3, ProductSigns
    <3> QED BY <2>1, <2>2, <2>3, <3>1 DEF Magnitude, d
  <2>4. CASE r < 0
    <3>1. (d >= 1 => d * (-r) >= -r) /\ (d <= -1 => d * (-r) <= -(-r))
      BY <2>1, <2>4, ProductSigns
    <3>2. d * (-r) = -s
      BY <2>1
    <3> HIDE DEF s
    <3> QED BY <2>1, <2>2, <2>4, <3>1, <3>2 DEF Magnitude, d
  <2> QED BY <2>3, <2>4
<1> QED BY <1>2, <1>5

-----------------------------------------------------------------------------
(* The evaluator and the component                                         *)

\* The test of signs beside i64.add and i64.sub finds every overflow and
\* nothing else.
LEMMA SumsTested ==
  ASSUME NEW max \in Nat, NEW l \in Word(max), NEW r \in Word(max)
  PROVE  /\ CompiledTraps(max, "+", l, r) <=> l + r \notin Word(max)
         /\ CompiledTraps(max, "-", l, r) <=> l - r \notin Word(max)
<1>1. /\ l \in Int /\ l >= MinOf(max) /\ l <= max
      /\ r \in Int /\ r >= MinOf(max) /\ r <= max
      /\ MinOf(max) = -max - 1 /\ MinOf(max) \in Int
  BY DEF Word, MinOf
<1>2. CompiledTraps(max, "+", l, r) <=> l + r \notin Word(max)
  <2> DEFINE n == l + r
             w == Wrap(max, n)
  <2>1. n \in Int /\ n >= 2 * MinOf(max) /\ n <= 2 * max + 1
    BY <1>1
  <2>2. /\ n \in Word(max) => w = n
        /\ n > max => w = n - 2 * (max + 1)
        /\ n < MinOf(max) => w = n + 2 * (max + 1)
    <3> HIDE DEF n
    <3> QED BY <2>1, WrapNear
  <2>3. CompiledTraps(max, "+", l, r) <=> SignsDiffer(l, w) /\ SignsDiffer(r, w)
    BY DEF CompiledTraps, CompiledWord
  <2>4. n \in Word(max) <=> n >= MinOf(max) /\ n <= max
    BY <1>1, <2>1 DEF Word
  <2> HIDE DEF w
  <2>5. CASE n \in Word(max)
    BY <1>1, <2>2, <2>3, <2>5 DEF SignsDiffer
  <2>6. CASE n > max
    BY <1>1, <2>2, <2>3, <2>4, <2>6 DEF SignsDiffer
  <2>7. CASE n < MinOf(max)
    BY <1>1, <2>2, <2>3, <2>4, <2>7 DEF SignsDiffer
  <2> QED BY <1>1, <2>1, <2>4, <2>5, <2>6, <2>7
<1>3. CompiledTraps(max, "-", l, r) <=> l - r \notin Word(max)
  <2> DEFINE n == l - r
             w == Wrap(max, n)
  <2>1. n \in Int /\ n >= 2 * MinOf(max) /\ n <= 2 * max + 1
    BY <1>1
  <2>2. /\ n \in Word(max) => w = n
        /\ n > max => w = n - 2 * (max + 1)
        /\ n < MinOf(max) => w = n + 2 * (max + 1)
    <3> HIDE DEF n
    <3> QED BY <2>1, WrapNear
  <2>3. CompiledTraps(max, "-", l, r) <=> SignsDiffer(l, r) /\ SignsDiffer(l, w)
    BY DEF CompiledTraps, CompiledWord
  <2>4. n \in Word(max) <=> n >= MinOf(max) /\ n <= max
    BY <1>1, <2>1 DEF Word
  <2> HIDE DEF w
  <2>5. CASE n \in Word(max)
    BY <1>1, <2>2, <2>3, <2>5 DEF SignsDiffer
  <2>6. CASE n > max
    BY <1>1, <2>2, <2>3, <2>4, <2>6 DEF SignsDiffer
  <2>7. CASE n < MinOf(max)
    BY <1>1, <2>2, <2>3, <2>4, <2>7 DEF SignsDiffer
  <2> QED BY <1>1, <2>1, <2>4, <2>5, <2>6, <2>7
<1> QED BY <1>2, <1>3

\* Dividing the wrapped product again finds every overflow and nothing else:
\* a wrapped product is off by a multiple of the number of words, and what a
\* division leaves is smaller than half of that.
LEMMA ProductsTested ==
  ASSUME NEW max \in Nat, NEW l \in Word(max), NEW r \in Word(max)
  PROVE  CompiledTraps(max, "*", l, r) <=> l * r \notin Word(max)
<1> DEFINE n == l * r
           w == Wrap(max, n)
           m == 2 * (max + 1)
<1>1. /\ l \in Int /\ l >= MinOf(max) /\ l <= max
      /\ r \in Int /\ r >= MinOf(max) /\ r <= max
      /\ MinOf(max) = -max - 1 /\ MinOf(max) \in Int /\ 0 \in Word(max)
  BY DEF Word, MinOf
<1>2. n \in Int
  BY <1>1
<1>3. /\ w \in Word(max)
      /\ n \in Word(max) => w = n
  <2> HIDE DEF n
  <2> QED BY <1>2, WrapIsWord
<1>4. PICK k \in Int : w = n + k * m
  <2> HIDE DEF n
  <2> QED BY <1>2, WrapIsWord
<1>5. CompiledTraps(max, "*", l, r) <=> r # 0 /\ (DivTraps(max, w, r) \/ Quotient(w, r) # l)
  BY DEF CompiledTraps, CompiledWord
<1>6. CASE r = 0
  <2>1. n = 0
    BY <1>1, <1>6
  <2> QED BY <1>1, <1>5, <1>6, <2>1
<1>7. CASE r # 0 /\ n \in Word(max)
  <2>1. w = n
    BY <1>3, <1>7
  <2>2. Quotient(w, r) = l
    BY <1>1, <1>7, <2>1, QuotientOfProduct
  <2>3. ~DivTraps(max, w, r)
    <3>1. SUFFICES ASSUME n = MinOf(max), r = -1 PROVE FALSE
      BY <1>7, <2>1 DEF DivTraps
    <3> QED BY <1>1, <3>1
  <2> QED BY <1>5, <1>7, <2>2, <2>3
<1>8. CASE r # 0 /\ n \notin Word(max)
  <2> SUFFICES ASSUME ~DivTraps(max, w, r), Quotient(w, r) = l PROVE FALSE
    BY <1>5, <1>8
  <2>1. /\ w \in Int /\ Remainder(w, r) \in Int
        /\ Magnitude(Remainder(w, r)) < Magnitude(r)
    <3>1. w \in Int
      BY <1>1, <1>3 DEF Word
    <3> QED BY <3>1, <1>1, <1>8, QuotientRounds
  <2>2. Remainder(w, r) = k * m
    <3>1. Remainder(w, r) = w - r * l
      BY DEF Remainder
    <3>2. r * l = n
      BY <1>1
    <3>3. k * m \in Int
      BY DEF m
    <3> HIDE DEF w, n, m
    <3> QED BY <1>2, <1>4, <3>1, <3>2, <3>3, <2>1
  <2>3. m \in Int /\ m > 0 /\ Magnitude(r) < m
    BY <1>1 DEF Magnitude, m
  <2>4. k = 0
    <3>1. (k >= 1 => k * m >= m) /\ (k <= -1 => k * m <= -m)
      BY <2>3, ProductSigns
    <3>2. Magnitude(k * m) < m /\ k * m \in Int
      BY <2>1, <2>2, <2>3, <1>1 DEF Magnitude
    <3> HIDE DEF m
    <3> QED BY <3>1, <3>2, <2>3 DEF Magnitude
  <2>5. w = n
    <3>1. k * m = 0
      BY <2>3, <2>4
    <3> HIDE DEF w, n, m
    <3> QED BY <1>2, <1>4, <3>1
  <2> QED BY <1>3, <1>8, <2>5
<1> QED BY <1>6, <1>7, <1>8

\* The quotient of two words is a word, except MIN / -1.
LEMMA QuotientsOfWords ==
  ASSUME NEW max \in Nat, NEW l \in Word(max), NEW r \in Word(max), r # 0
  PROVE  /\ Quotient(l, r) \notin Word(max) <=> (l = MinOf(max) /\ r = -1)
         /\ Quotient(l, r) \in Int /\ Remainder(l, r) \in Word(max)
<1> DEFINE x == Magnitude(l)
           y == Magnitude(r)
           q == x \div y
<1>1. /\ l \in Int /\ l >= MinOf(max) /\ l <= max
      /\ r \in Int /\ r >= MinOf(max) /\ r <= max
      /\ MinOf(max) = -max - 1 /\ MinOf(max) \in Int
  BY DEF Word, MinOf
<1>2. x \in Nat /\ y \in Nat /\ y > 0 /\ x <= max + 1 /\ y <= max + 1
  BY <1>1 DEF Magnitude
<1>3. q \in Nat /\ q <= x /\ (y = 1 => q = x) /\ (y >= 2 /\ x >= 1 => q < x)
  <2> DEFINE rest == x % y
             p == y * q
  <2>1. q \in Nat /\ rest \in 0..(y - 1) /\ x = p + rest
    <3> HIDE DEF x, y
    <3> QED BY <1>2
  <2>2. p \in Nat /\ p >= q /\ (y = 1 => p = q) /\ (y >= 2 => p >= 2 * q)
    <3> HIDE DEF x, y
    <3>1. q \in Nat
      BY <2>1
    <3> HIDE DEF q
    <3>2. p \in Nat
      BY <1>2, <3>1
    <3>3. p >= q
      BY <1>2, <3>1
    <3>4. y = 1 => p = q
      BY <3>1
    <3>5. y >= 2 => p >= 2 * q
      BY <1>2, <3>1
    <3> QED BY <3>2, <3>3, <3>4, <3>5
  <2> HIDE DEF x, y, q, rest, p
  <2> QED BY <1>2, <2>1, <2>2
<1>4. Quotient(l, r) = IF (l < 0) <=> (r < 0) THEN q ELSE -q
  BY DEF Quotient
<1>5. Quotient(l, r) \notin Word(max) <=> (l = MinOf(max) /\ r = -1)
  <2>1. Quotient(l, r) \in Word(max) <=> Quotient(l, r) >= MinOf(max) /\ Quotient(l, r) <= max
    <3> HIDE DEF q
    <3> QED BY <1>1, <1>3, <1>4 DEF Word
  <2>2. CASE l = MinOf(max) /\ r = -1
    <3>1. q = max + 1 /\ l < 0 /\ r < 0
      <4>1. y = 1
        <5>1. r + 1 = 0
          BY <2>2
        <5> QED BY <5>1, <1>1 DEF Magnitude
      <4>2. x = max + 1
        BY <1>1, <2>2 DEF Magnitude
      <4> HIDE DEF x, y, q
      <4> QED BY <4>1, <4>2, <1>1, <1>3, <2>2
    <3> HIDE DEF q
    <3> QED BY <1>1, <1>4, <2>1, <2>2, <3>1
  <2>3. CASE ~(l = MinOf(max) /\ r = -1)
    <3>1. (l < 0) <=> (r < 0) => q <= max
      <4> SUFFICES ASSUME (l < 0) <=> (r < 0) PROVE q <= max
        OBVIOUS
      <4>1. CASE l = MinOf(max)
        <5>1. r < 0 /\ r # -1
          BY <4>1, <1>1, <2>3
        <5>2. y >= 2 /\ x >= 1
          BY <4>1, <5>1, <1>1 DEF Magnitude
        <5> HIDE DEF q, x, y
        <5> QED BY <1>2, <1>3, <5>2
      <4>2. CASE l # MinOf(max)
        <5>1. x <= max
          BY <4>2, <1>1 DEF Magnitude
        <5> HIDE DEF q, x, y
        <5> QED BY <1>2, <1>3, <5>1
      <4> QED BY <4>1, <4>2
    <3> HIDE DEF q, x, y
    <3> QED BY <1>1, <1>2, <1>3, <1>4, <2>1, <2>3, <3>1
  <2> QED BY <2>2, <2>3
<1>6. Remainder(l, r) \in Word(max)
  <2>1. Remainder(l, r) \in Int /\ Magnitude(Remainder(l, r)) < Magnitude(r)
    BY <1>1, QuotientRounds
  <2> HIDE DEF x
  <2> QED BY <2>1, <1>1, <1>2 DEF Magnitude, Word
<1> QED BY <1>1, <1>5, <1>6, QuotientRounds

\* For integers of every width, so for those of 64 bits, and all operands: the
\* component traps exactly where the evaluator reports a division by zero or an
\* overflow, and otherwise computes the same word (encode_binary,
\* apply_binary).  The runs compare whole programs, on words of three bits.
THEOREM ArithmeticAgrees ==
  ASSUME NEW max \in Nat, NEW op \in IntegerOperators, NEW l \in Word(max), NEW r \in Word(max)
  PROVE  /\ CompiledTraps(max, op, l, r) <=> CheckedBinary(max, op, l, r).code \in {"K4004", "K4005"}
         /\ ~CompiledTraps(max, op, l, r) =>
              /\ CompiledWord(max, op, l, r) = CheckedBinary(max, op, l, r).n
              /\ CompiledWord(max, op, l, r) \in Word(max)
<1>1. l \in Int /\ r \in Int /\ MinOf(max) \in Int
  BY DEF Word, MinOf
<1>2. ASSUME NEW n \in Int
      PROVE  /\ n \in Word(max) => CheckedInteger(max, n).code = "" /\ CheckedInteger(max, n).n = n
             /\ n \notin Word(max) => CheckedInteger(max, n).code = "K4005"
             /\ n \in Word(max) => Wrap(max, n) = n
  BY <1>2, WrapIsWord DEF CheckedInteger, Number, NoNumber
<1>3. CASE op = "+"
  <2>1. l + r \in Int
    BY <1>1
  <2>2. /\ CheckedBinary(max, op, l, r) = CheckedInteger(max, l + r)
        /\ CompiledWord(max, op, l, r) = Wrap(max, l + r)
    BY <1>3 DEF CheckedBinary, CompiledWord
  <2>3. CompiledTraps(max, op, l, r) <=> l + r \notin Word(max)
    BY <1>3, SumsTested
  <2> QED BY <1>2, <2>1, <2>2, <2>3
<1>4. CASE op = "-"
  <2>1. l - r \in Int
    BY <1>1
  <2>2. /\ CheckedBinary(max, op, l, r) = CheckedInteger(max, l - r)
        /\ CompiledWord(max, op, l, r) = Wrap(max, l - r)
    BY <1>4 DEF CheckedBinary, CompiledWord
  <2>3. CompiledTraps(max, op, l, r) <=> l - r \notin Word(max)
    BY <1>4, SumsTested
  <2> QED BY <1>2, <2>1, <2>2, <2>3
<1>5. CASE op = "*"
  <2>1. l * r \in Int
    BY <1>1
  <2>2. /\ CheckedBinary(max, op, l, r) = CheckedInteger(max, l * r)
        /\ CompiledWord(max, op, l, r) = Wrap(max, l * r)
    BY <1>5 DEF CheckedBinary, CompiledWord
  <2>3. CompiledTraps(max, op, l, r) <=> l * r \notin Word(max)
    BY <1>5, ProductsTested
  <2> QED BY <1>2, <2>1, <2>2, <2>3
<1>6. CASE op \in {"/", "%"} /\ r = 0
  <2>1. CheckedBinary(max, op, l, r).code = "K4004"
    BY <1>6 DEF CheckedBinary, NoNumber
  <2>2. CompiledTraps(max, op, l, r)
    BY <1>6 DEF CompiledTraps, DivTraps
  <2> QED BY <2>1, <2>2
<1>7. CASE op \in {"/", "%"} /\ r # 0
  <2> DEFINE value == IF op = "/" THEN Quotient(l, r) ELSE Remainder(l, r)
  <2>1. /\ Quotient(l, r) \notin Word(max) <=> (l = MinOf(max) /\ r = -1)
        /\ Remainder(l, r) \in Word(max)
    BY <1>7, QuotientsOfWords
  <2>2. CompiledTraps(max, op, l, r) <=> (l = MinOf(max) /\ r = -1)
    BY <1>7 DEF CompiledTraps, DivTraps
  <2>3. CompiledWord(max, op, l, r) = value
    BY <1>7 DEF CompiledWord
  <2>4. CheckedBinary(max, op, l, r) =
           IF Quotient(l, r) \notin Word(max) THEN NoNumber("K4005") ELSE Number(value)
    BY <1>7 DEF CheckedBinary
  <2>5. Quotient(l, r) \notin Word(max) => CheckedBinary(max, op, l, r).code = "K4005"
    BY <2>4 DEF NoNumber
  <2>6. Quotient(l, r) \in Word(max) =>
          CheckedBinary(max, op, l, r).code = "" /\ CheckedBinary(max, op, l, r).n = value
    <3>1. \A v : Number(v).code = "" /\ Number(v).n = v
      BY DEF Number
    <3> HIDE DEF value
    <3> QED BY <2>4, <3>1
  <2>7. Quotient(l, r) \in Word(max) => value \in Word(max)
    BY <2>1
  <2> HIDE DEF value
  <2> QED BY <2>1, <2>2, <2>3, <2>5, <2>6, <2>7
<1> QED BY <1>3, <1>4, <1>5, <1>6, <1>7 DEF IntegerOperators

\* The same for the negation of a word (encode_unary, apply_unary).
THEOREM NegationAgrees ==
  ASSUME NEW max \in Nat, NEW n \in Word(max)
  PROVE  /\ NegationTraps(max, n) <=> CheckedInteger(max, -n).code = "K4005"
         /\ ~NegationTraps(max, n) =>
              /\ CompiledNegation(max, n) = CheckedInteger(max, -n).n
              /\ CompiledNegation(max, n) \in Word(max)
<1>1. n \in Int /\ n >= MinOf(max) /\ n <= max /\ MinOf(max) = -max - 1
  BY DEF Word, MinOf
<1>2. -n \in Int /\ 0 - n = -n /\ (-n \in Word(max) <=> n # MinOf(max))
  BY <1>1 DEF Word
<1>3. -n \in Word(max) => Wrap(max, -n) = -n
  BY <1>2, WrapIsWord
<1> QED BY <1>2, <1>3 DEF NegationTraps, CompiledNegation, CheckedInteger, Number, NoNumber
=============================================================================
