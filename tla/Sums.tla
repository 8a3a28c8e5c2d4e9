--------------------------------- MODULE Sums ---------------------------------
(***************************************************************************)
(* Facts about SumFunctionOnSet, the sum of the community modules that the  *)
(* escrow of the OFT, the receipts of a send and the fees of the DVNs are   *)
(* written with.  The sum is a recursive function over the subsets of a     *)
(* set, chosen by CHOOSE, so first that function is shown to exist.  What   *)
(* holds of every finite set is shown by a smallest counterexample: a set   *)
(* of which it does not hold while it holds of each of its strict subsets.  *)
(***************************************************************************)
EXTENDS Functions, FiniteSetTheorems, WellFoundedInduction, TLAPS

(* A set of natural numbers has a least element.                           *)
LEMMA LeastNatural ==
  ASSUME NEW T \in SUBSET Nat, T # {}
  PROVE  \E n \in T : \A m \in T : n <= m
<1>1. PICK n \in T : \A m \in T : ~(<<m, n>> \in OpToRel(<, Nat))
  BY NatLessThanWellFounded, WFMin
<1>2. \A m \in T : ~(m < n)
  BY <1>1 DEF OpToRel
<1> QED  BY <1>2

(* Any set of finite sets has one that contains no other one strictly.     *)
LEMMA LeastFiniteSet ==
  ASSUME NEW T, T # {}, \A s \in T : IsFiniteSet(s)
  PROVE  \E s \in T : \A r \in T : r \subseteq s => r = s
<1> DEFINE sizes == {Cardinality(s) : s \in T}
<1>1. sizes \in SUBSET Nat /\ sizes # {}
  BY FS_CardinalityType
<1>2. PICK n \in sizes : \A m \in sizes : n <= m
  <2> HIDE DEF sizes
  <2> QED BY <1>1, LeastNatural
<1>3. PICK s \in T : n = Cardinality(s)
  OBVIOUS
<1>4. ASSUME NEW r \in T, r \subseteq s PROVE r = s
  <2>1. Cardinality(s) <= Cardinality(r)
    BY <1>2, <1>3
  <2> QED BY <1>4, <2>1, FS_Subset, FS_CardinalityType
<1> QED  BY <1>4

(* The element that a sum over s takes out first.                          *)
Chosen(s) == CHOOSE x \in s : TRUE

(* What the recursive function inside a sum over S is to satisfy, on the   *)
(* subsets of S up to n elements.                                          *)
SumsUpTo(f, S, n, g) ==
  \A s \in SUBSET S : Cardinality(s) <= n =>
    g[s] = IF s = {} THEN 0 ELSE f[Chosen(s)] + g[s \ {Chosen(s)}]

(* The element that a sum takes out of a set first is one of the set.      *)
LEMMA ChosenIsIn == ASSUME NEW s, s # {} PROVE Chosen(s) \in s
BY DEF Chosen

(* For every n there is a function that satisfies the recursive equation on *)
(* the subsets of up to n elements.                                        *)
LEMMA SumsExist ==
  ASSUME NEW f, NEW S, IsFiniteSet(S), NEW n \in Nat
  PROVE  \E g : DOMAIN g = SUBSET S /\ SumsUpTo(f, S, n, g)
<1> DEFINE T == {k \in Nat : ~ \E g : DOMAIN g = SUBSET S /\ SumsUpTo(f, S, k, g)}
<1> SUFFICES T = {}
  OBVIOUS
<1> SUFFICES ASSUME T # {} PROVE FALSE
  OBVIOUS
<1>1. PICK k \in T : \A m \in T : k <= m
  <2>1. T \in SUBSET Nat
    OBVIOUS
  <2> HIDE DEF T
  <2> QED  BY <2>1, LeastNatural
<1>2. k \in Nat /\ ~ \E g : DOMAIN g = SUBSET S /\ SumsUpTo(f, S, k, g)
  OBVIOUS
<1>0. \A s \in SUBSET S : IsFiniteSet(s) /\ Cardinality(s) \in Nat
  BY FS_Subset, FS_CardinalityType
<1>3. CASE k = 0
  <2> DEFINE g == [s \in SUBSET S |-> 0]
  <2>1. SumsUpTo(f, S, 0, g)
    BY <1>0, FS_EmptySet DEF SumsUpTo
  <2> QED  BY <1>2, <1>3, <2>1
<1>4. CASE k # 0
  <2>1. k - 1 \in Nat /\ k - 1 \notin T
    <3> HIDE DEF T
    <3> QED  BY <1>1, <1>2, <1>4
  <2>2. PICK h : DOMAIN h = SUBSET S /\ SumsUpTo(f, S, k - 1, h)
    BY <2>1
  <2> DEFINE g == [s \in SUBSET S |->
                     IF Cardinality(s) = k /\ s # {}
                     THEN f[Chosen(s)] + h[s \ {Chosen(s)}] ELSE h[s]]
  <2>3. ASSUME NEW s \in SUBSET S, Cardinality(s) <= k
        PROVE  g[s] = IF s = {} THEN 0 ELSE f[Chosen(s)] + g[s \ {Chosen(s)}]
    <3>1. CASE s = {}
      <4>1. Cardinality(s) = 0
        BY <3>1, FS_EmptySet
      <4> QED  BY <2>1, <2>2, <3>1, <4>1 DEF SumsUpTo
    <3>2. CASE s # {}
      <4> DEFINE r == s \ {Chosen(s)}
      <4>1. r \in SUBSET S /\ Cardinality(r) = Cardinality(s) - 1
        BY <3>2, <1>0, ChosenIsIn, FS_RemoveElement
      <4>2. g[r] = h[r]
        BY <2>3, <4>1, <1>0, <1>2
      <4> HIDE DEF r
      <4>3. g[s] = IF Cardinality(s) = k THEN f[Chosen(s)] + h[r] ELSE h[s]
        BY <3>2 DEF r
      <4>4. Cardinality(s) # k => Cardinality(s) <= k - 1
        BY <2>3, <1>0, <1>2
      <4>5. Cardinality(s) # k => h[s] = f[Chosen(s)] + h[r]
        BY <4>4, <2>2, <3>2 DEF SumsUpTo, r
      <4> HIDE DEF g
      <4> QED  BY <3>2, <4>2, <4>3, <4>5 DEF r
    <3> QED  BY <3>1, <3>2
  <2>4. SumsUpTo(f, S, k, g)
    <3> HIDE DEF g
    <3> QED BY <2>3 DEF SumsUpTo
  <2> HIDE DEF T
  <2> QED  BY <1>2, <2>4
<1> QED  BY <1>3, <1>4

(* The recursive function inside a sum over S.                             *)
Iter(f, S) ==
  CHOOSE g : g = [s \in SUBSET S |->
    IF s = {} THEN 0 ELSE f[Chosen(s)] + g[s \ {Chosen(s)}]]

(* The sum of the community modules is that function, applied to S.        *)
LEMMA SumIsIter ==
  ASSUME NEW f, NEW S
  PROVE  SumFunctionOnSet(f, S) = Iter(f, S)[S]
BY Zenon DEF SumFunctionOnSet, FoldFunctionOnSet, MapThenFoldSet, Chosen, Iter

(* The function satisfies its equation: one element, plus the others.      *)
LEMMA IterUnfolds ==
  ASSUME NEW f, NEW S, IsFiniteSet(S), NEW s \in SUBSET S
  PROVE  Iter(f, S)[s] =
           IF s = {} THEN 0 ELSE f[Chosen(s)] + Iter(f, S)[s \ {Chosen(s)}]
<1> DEFINE Eq(g) == g = [r \in SUBSET S |->
                           IF r = {} THEN 0 ELSE f[Chosen(r)] + g[r \ {Chosen(r)}]]
<1>1. PICK g : DOMAIN g = SUBSET S /\ SumsUpTo(f, S, Cardinality(S), g)
  BY SumsExist, FS_CardinalityType
<1> DEFINE h == [r \in SUBSET S |-> g[r]]
<1>2. Eq(h)
  <2>1. ASSUME NEW r \in SUBSET S
        PROVE  h[r] = IF r = {} THEN 0 ELSE f[Chosen(r)] + h[r \ {Chosen(r)}]
    <3>1. Cardinality(r) <= Cardinality(S)
      BY FS_Subset
    <3> QED  BY <1>1, <3>1 DEF SumsUpTo
  <2> DEFINE k == [r \in SUBSET S |->
                           IF r = {} THEN 0 ELSE f[Chosen(r)] + h[r \ {Chosen(r)}]]
  <2>2. \A r \in SUBSET S : h[r] = k[r]
    BY <2>1
  <2>3. h = k
    BY <2>2
  <2> QED  BY <2>3
<1>3. Eq(Iter(f, S))
  <2>1. \E x : Eq(x)
    <3> HIDE DEF h
    <3> QED BY <1>2
  <2>2. Iter(f, S) = CHOOSE x : Eq(x)
    BY Zenon DEF Iter
  <2> HIDE DEF Eq
  <2> QED  BY <2>1, <2>2
<1> QED  BY <1>3

(* The function inside a sum over S also sums over the subsets of S.       *)
LEMMA IterRestricts ==
  ASSUME NEW f, NEW S, IsFiniteSet(S), NEW R \in SUBSET S
  PROVE  \A s \in SUBSET R : Iter(f, S)[s] = Iter(f, R)[s]
<1> DEFINE bad == {s \in SUBSET R : Iter(f, S)[s] # Iter(f, R)[s]}
<1> SUFFICES ASSUME bad # {} PROVE FALSE
  OBVIOUS
<1>1. IsFiniteSet(R) /\ \A s \in bad : IsFiniteSet(s)
  BY FS_Subset
<1>2. PICK s \in bad : \A r \in bad : r \subseteq s => r = s
  <2> HIDE DEF bad
  <2> QED  BY <1>1, LeastFiniteSet
<1>3. s \in SUBSET R /\ s \in SUBSET S
  OBVIOUS
<1>4. CASE s = {}
  BY <1>1, <1>3, <1>4, IterUnfolds
<1>5. CASE s # {}
  <2> DEFINE r == s \ {Chosen(s)}
  <2>1. r \subseteq s /\ r # s /\ r \in SUBSET R
    BY <1>3, <1>5, ChosenIsIn
  <2>2. r \notin bad
    <3> HIDE DEF bad, r
    <3> QED BY <1>2, <2>1
  <2>3. Iter(f, S)[r] = Iter(f, R)[r]
    BY <2>1, <2>2
  <2>4. Iter(f, S)[s] = f[Chosen(s)] + Iter(f, S)[r]
    <3> HIDE DEF bad
    <3> QED  BY <1>3, <1>5, IterUnfolds
  <2>5. Iter(f, R)[s] = f[Chosen(s)] + Iter(f, R)[r]
    BY <1>1, <1>3, <1>5, IterUnfolds
  <2> QED  BY <2>3, <2>4, <2>5
<1> QED  BY <1>4, <1>5

(* A sum over nothing.                                                     *)
LEMMA SumEmpty == ASSUME NEW f PROVE SumFunctionOnSet(f, {}) = 0
BY SumIsIter, IterUnfolds, FS_EmptySet

(* A sum is the value of the chosen element and the sum of the others.     *)
LEMMA SumChosen ==
  ASSUME NEW f, NEW S, IsFiniteSet(S), S # {}
  PROVE  SumFunctionOnSet(f, S) =
           f[Chosen(S)] + SumFunctionOnSet(f, S \ {Chosen(S)})
<1> DEFINE R == S \ {Chosen(S)}
<1>1. SumFunctionOnSet(f, S) = f[Chosen(S)] + Iter(f, S)[R]
  BY SumIsIter, IterUnfolds
<1>2. Iter(f, S)[R] = Iter(f, R)[R]
  BY IterRestricts
<1>3. SumFunctionOnSet(f, R) = Iter(f, R)[R]
  BY SumIsIter
<1> QED  BY <1>1, <1>2, <1>3

(* A sum of integers, of natural numbers.                                  *)
LEMMA SumType ==
  ASSUME NEW Number \in {Nat, Int}, NEW f, NEW S, IsFiniteSet(S), \A x \in S : f[x] \in Number
  PROVE  SumFunctionOnSet(f, S) \in Number
<1> DEFINE bad == {s \in SUBSET S : SumFunctionOnSet(f, s) \notin Number}
<1> SUFFICES ASSUME bad # {} PROVE FALSE
  OBVIOUS
<1>1. \A s \in bad : IsFiniteSet(s)
  BY FS_Subset
<1>2. PICK s \in bad : \A r \in bad : r \subseteq s => r = s
  <2> HIDE DEF bad
  <2> QED  BY <1>1, LeastFiniteSet
<1>3. s \in SUBSET S /\ SumFunctionOnSet(f, s) \notin Number /\ IsFiniteSet(s)
  BY <1>1
<1>4. CASE s = {}
  BY <1>3, <1>4, SumEmpty
<1>5. CASE s # {}
  <2> DEFINE r == s \ {Chosen(s)}
  <2>1. r \subseteq s /\ r # s /\ r \in SUBSET S
    BY <1>3, <1>5, ChosenIsIn
  <2>2. r \notin bad
    <3> HIDE DEF bad, r
    <3> QED BY <1>2, <2>1
  <2>3. SumFunctionOnSet(f, r) \in Number
    BY <2>1, <2>2
  <2>4. SumFunctionOnSet(f, s) = f[Chosen(s)] + SumFunctionOnSet(f, r)
    BY <1>3, <1>5, SumChosen
  <2>5. f[Chosen(s)] \in Number
    BY <1>3, <1>5, ChosenIsIn
  <2> HIDE DEF r
  <2> QED  BY <1>3, <2>3, <2>4, <2>5
<1> QED  BY <1>4, <1>5

(* Any element may be taken out first.                                     *)
LEMMA SumRemove ==
  ASSUME NEW f, NEW S, IsFiniteSet(S), \A x \in S : f[x] \in Int, NEW e \in S
  PROVE  SumFunctionOnSet(f, S) = f[e] + SumFunctionOnSet(f, S \ {e})
<1> DEFINE Sum(s) == SumFunctionOnSet(f, s)
           bad == {s \in SUBSET S : \E x \in s : Sum(s) # f[x] + Sum(s \ {x})}
<1> SUFFICES ASSUME bad # {} PROVE FALSE
  OBVIOUS
<1>1. \A s \in bad : IsFiniteSet(s)
  BY FS_Subset
<1>2. PICK s \in bad : \A r \in bad : r \subseteq s => r = s
  <2> HIDE DEF bad
  <2> QED  BY <1>1, LeastFiniteSet
<1>3. PICK x \in s : Sum(s) # f[x] + Sum(s \ {x})
  OBVIOUS
<1>4. s \in SUBSET S /\ s # {} /\ IsFiniteSet(s)
  BY <1>1
<1> DEFINE y == Chosen(s)
<1>5. y \in s /\ x \in S /\ y \in S
  BY <1>4, ChosenIsIn
<1>6. Sum(s) = f[y] + Sum(s \ {y})
  BY <1>4, SumChosen
<1>7. \A r \in SUBSET S : Sum(r) \in Int
  <2> SUFFICES ASSUME NEW r \in SUBSET S PROVE Sum(r) \in Int
    OBVIOUS
  <2>1. IsFiniteSet(r)
    BY FS_Subset
  <2> QED  BY <2>1, SumType, Int \in {Nat, Int}
<1> HIDE DEF y, Sum
<1>8. x # y
  BY <1>3, <1>6
<1>9. ASSUME NEW a \in s, NEW b \in s \ {a} PROVE Sum(s \ {a}) = f[b] + Sum((s \ {a}) \ {b})
  <2>1. s \ {a} \in SUBSET S /\ s \ {a} \subseteq s /\ s \ {a} # s
    BY <1>4
  <2>2. s \ {a} \notin bad
    <3> HIDE DEF bad
    <3> QED  BY <1>2, <2>1
  <2> QED  BY <2>1, <2>2
<1>10. (s \ {x}) \ {y} = (s \ {y}) \ {x}
  OBVIOUS
<1>11. /\ Sum(s \ {y}) = f[x] + Sum((s \ {y}) \ {x})
       /\ Sum(s \ {x}) = f[y] + Sum((s \ {x}) \ {y})
  BY <1>5, <1>8, <1>9
<1>12. (s \ {y}) \ {x} \in SUBSET S
  BY <1>4
<1>13. Sum((s \ {y}) \ {x}) \in Int /\ f[x] \in Int /\ f[y] \in Int
  BY <1>5, <1>7, <1>12
<1>14. f[y] + (f[x] + Sum((s \ {y}) \ {x})) = f[x] + (f[y] + Sum((s \ {y}) \ {x}))
  <2>1. \A i, j, k \in Int : i + (j + k) = j + (i + k)
    OBVIOUS
  <2> QED  BY <1>13, <2>1, Zenon
<1> QED  BY <1>3, <1>6, <1>10, <1>11, <1>14, Zenon

(* An element more.                                                        *)
LEMMA SumAdd ==
  ASSUME NEW f, NEW S, IsFiniteSet(S), NEW e, e \notin S, \A x \in S \cup {e} : f[x] \in Int
  PROVE  SumFunctionOnSet(f, S \cup {e}) = f[e] + SumFunctionOnSet(f, S)
<1>1. IsFiniteSet(S \cup {e})
  BY FS_AddElement
<1>2. (S \cup {e}) \ {e} = S
  OBVIOUS
<1> QED  BY <1>1, <1>2, SumRemove

(* A sum depends on the values that are summed only.                       *)
LEMMA SumSame ==
  ASSUME NEW f, NEW g, NEW S, IsFiniteSet(S), \A x \in S : f[x] = g[x]
  PROVE  SumFunctionOnSet(f, S) = SumFunctionOnSet(g, S)
<1> DEFINE bad == {s \in SUBSET S : SumFunctionOnSet(f, s) # SumFunctionOnSet(g, s)}
<1> SUFFICES ASSUME bad # {} PROVE FALSE
  OBVIOUS
<1>1. \A s \in bad : IsFiniteSet(s)
  BY FS_Subset
<1>2. PICK s \in bad : \A r \in bad : r \subseteq s => r = s
  <2> HIDE DEF bad
  <2> QED  BY <1>1, LeastFiniteSet
<1>3. s \in SUBSET S /\ IsFiniteSet(s)
  BY <1>1
<1>4. s # {}
  BY SumEmpty
<1> DEFINE r == s \ {Chosen(s)}
<1>5. r \subseteq s /\ r # s /\ r \in SUBSET S /\ Chosen(s) \in S
  BY <1>3, <1>4, ChosenIsIn
<1>6. r \notin bad
  <2> HIDE DEF bad, r
  <2> QED BY <1>2, <1>5
<1>7. SumFunctionOnSet(f, r) = SumFunctionOnSet(g, r)
  BY <1>5, <1>6
<1>8. /\ SumFunctionOnSet(f, s) = f[Chosen(s)] + SumFunctionOnSet(f, r)
      /\ SumFunctionOnSet(g, s) = g[Chosen(s)] + SumFunctionOnSet(g, r)
  BY <1>3, <1>4, SumChosen
<1> QED  BY <1>5, <1>7, <1>8

(* Summands are no more than the sum, if none is negative.                 *)
LEMMA SumAtLeast ==
  ASSUME NEW f, NEW S, IsFiniteSet(S), \A x \in S : f[x] \in Nat, NEW e \in S
  PROVE  f[e] <= SumFunctionOnSet(f, S)
<1>1. IsFiniteSet(S \ {e})
  BY FS_RemoveElement
<1>2. SumFunctionOnSet(f, S \ {e}) \in Nat
  BY <1>1, SumType
<1>3. SumFunctionOnSet(f, S) = f[e] + SumFunctionOnSet(f, S \ {e})
  BY SumRemove
<1> QED  BY <1>2, <1>3

(* One summand changed.                                                    *)
LEMMA SumUpdate ==
  ASSUME NEW f, NEW g, NEW S, IsFiniteSet(S), NEW e \in S,
         \A x \in S : f[x] \in Int, g[e] \in Int, \A x \in S \ {e} : g[x] = f[x]
  PROVE  SumFunctionOnSet(g, S) = SumFunctionOnSet(f, S) - f[e] + g[e]
<1>1. IsFiniteSet(S \ {e})
  BY FS_RemoveElement
<1>2. SumFunctionOnSet(f, S \ {e}) \in Int
  BY <1>1, SumType
<1>3. SumFunctionOnSet(f, S) = f[e] + SumFunctionOnSet(f, S \ {e})
  BY SumRemove
<1>4. SumFunctionOnSet(g, S) = g[e] + SumFunctionOnSet(g, S \ {e})
  BY SumRemove
<1>5. SumFunctionOnSet(g, S \ {e}) = SumFunctionOnSet(f, S \ {e})
  BY <1>1, SumSame
<1> QED  BY <1>2, <1>3, <1>4, <1>5

(* A sum of zeros.                                                         *)
LEMMA SumZero ==
  ASSUME NEW f, NEW S, IsFiniteSet(S), \A x \in S : f[x] = 0
  PROVE  SumFunctionOnSet(f, S) = 0
<1> DEFINE bad == {s \in SUBSET S : SumFunctionOnSet(f, s) # 0}
<1> SUFFICES ASSUME bad # {} PROVE FALSE
  OBVIOUS
<1>1. \A s \in bad : IsFiniteSet(s)
  BY FS_Subset
<1>2. PICK s \in bad : \A r \in bad : r \subseteq s => r = s
  <2> HIDE DEF bad
  <2> QED  BY <1>1, LeastFiniteSet
<1>3. s \in SUBSET S /\ IsFiniteSet(s) /\ s # {}
  BY <1>1, SumEmpty
<1>4. PICK e \in s : TRUE
  BY <1>3
<1>5. s \ {e} \notin bad /\ s \ {e} \in SUBSET S
  BY <1>2, <1>3
<1>6. SumFunctionOnSet(f, s \ {e}) = 0
  BY <1>5
<1>7. SumFunctionOnSet(f, s) = f[e] + SumFunctionOnSet(f, s \ {e})
  BY <1>3, SumRemove
<1> QED  BY <1>3, <1>6, <1>7

(* The sums of two disjoint sets, and of their union.                      *)
LEMMA SumSplit ==
  ASSUME NEW f, NEW A, NEW B, IsFiniteSet(A), IsFiniteSet(B), A \cap B = {},
         \A x \in A \cup B : f[x] \in Int
  PROVE  SumFunctionOnSet(f, A \cup B) = SumFunctionOnSet(f, A) + SumFunctionOnSet(f, B)
<1> DEFINE Sum(s) == SumFunctionOnSet(f, s)
           bad == {s \in SUBSET B : Sum(A \cup s) # Sum(A) + Sum(s)}
<1> SUFFICES ASSUME bad # {} PROVE FALSE
  OBVIOUS
<1>1. \A s \in bad : IsFiniteSet(s)
  BY FS_Subset
<1>2. PICK s \in bad : \A r \in bad : r \subseteq s => r = s
  <2> HIDE DEF bad
  <2> QED  BY <1>1, LeastFiniteSet
<1>3. s \in SUBSET B /\ IsFiniteSet(s) /\ Sum(A \cup s) # Sum(A) + Sum(s)
  BY <1>1
<1>4. Sum(A) \in Int
  BY SumType
<1>5. s # {}
  <2>1. ASSUME s = {} PROVE FALSE
    <3>1. A \cup s = A /\ Sum(s) = 0
      BY <2>1, SumEmpty
    <3> HIDE DEF Sum
    <3> QED  BY <1>3, <1>4, <3>1
  <2> QED  BY <2>1
<1>6. PICK e \in s : TRUE
  BY <1>5
<1>7. Sum(A \cup (s \ {e})) = Sum(A) + Sum(s \ {e})
  <2>1. s \ {e} \notin bad /\ s \ {e} \in SUBSET B
    BY <1>2, <1>3
  <2> QED  BY <2>1
<1>8. Sum(s) = f[e] + Sum(s \ {e})
  BY <1>3, SumRemove
<1>9. Sum(A \cup s) = f[e] + Sum((A \cup s) \ {e})
  <2>1. IsFiniteSet(A \cup s)
    BY <1>3, FS_Union
  <2> QED  BY <1>3, <2>1, SumRemove
<1>10. (A \cup s) \ {e} = A \cup (s \ {e})
  BY <1>3
<1>11. f[e] \in Int /\ Sum(s \ {e}) \in Int
  <2>1. IsFiniteSet(s \ {e})
    BY <1>3, FS_RemoveElement
  <2> QED  BY <1>3, <2>1, SumType
<1>12. Sum(A \cup s) = f[e] + Sum(A \cup (s \ {e}))
  BY <1>9, <1>10
<1> HIDE DEF Sum, bad
<1> QED  BY <1>3, <1>4, <1>7, <1>8, <1>11, <1>12

(* Zeros add nothing.                                                      *)
LEMMA SumExtend ==
  ASSUME NEW f, NEW g, NEW S, NEW T, S \subseteq T, IsFiniteSet(T),
         \A x \in S : g[x] = f[x] /\ f[x] \in Int, \A x \in T \ S : g[x] = 0
  PROVE  SumFunctionOnSet(g, T) = SumFunctionOnSet(f, S)
<1> DEFINE R == T \ S
<1>1. IsFiniteSet(S) /\ IsFiniteSet(R) /\ S \cap R = {} /\ S \cup R = T
  BY FS_Subset
<1>2. \A x \in S \cup R : g[x] \in Int
  OBVIOUS
<1>3. \A x \in R : g[x] = 0
  OBVIOUS
<1> HIDE DEF R
<1>4. SumFunctionOnSet(g, S \cup R) = SumFunctionOnSet(g, S) + SumFunctionOnSet(g, R)
  BY <1>1, <1>2, SumSplit
<1>5. SumFunctionOnSet(g, R) = 0
  BY <1>1, <1>3, SumZero
<1>6. SumFunctionOnSet(g, S) = SumFunctionOnSet(f, S)
  BY <1>1, SumSame
<1>7. SumFunctionOnSet(f, S) \in Int
  BY <1>1, SumType
<1>8. SumFunctionOnSet(g, T) = SumFunctionOnSet(g, S) + SumFunctionOnSet(g, R)
  BY <1>1, <1>4
<1> QED  BY <1>5, <1>6, <1>7, <1>8

(* The sum of the sums.                                                    *)
LEMMA SumPlus ==
  ASSUME NEW f, NEW g, NEW h, NEW S, IsFiniteSet(S),
         \A x \in S : f[x] \in Int /\ g[x] \in Int /\ h[x] = f[x] + g[x]
  PROVE  SumFunctionOnSet(h, S) = SumFunctionOnSet(f, S) + SumFunctionOnSet(g, S)
<1> DEFINE bad == {s \in SUBSET S : SumFunctionOnSet(h, s) #
                                      SumFunctionOnSet(f, s) + SumFunctionOnSet(g, s)}
<1> SUFFICES ASSUME bad # {} PROVE FALSE
  OBVIOUS
<1>1. \A s \in bad : IsFiniteSet(s)
  BY FS_Subset
<1>2. PICK s \in bad : \A r \in bad : r \subseteq s => r = s
  <2> HIDE DEF bad
  <2> QED  BY <1>1, LeastFiniteSet
<1>3. /\ s \in SUBSET S /\ IsFiniteSet(s)
      /\ SumFunctionOnSet(h, s) # SumFunctionOnSet(f, s) + SumFunctionOnSet(g, s)
  BY <1>1
<1>4. s # {}
  <2>1. /\ SumFunctionOnSet(f, {}) = 0 /\ SumFunctionOnSet(g, {}) = 0
        /\ SumFunctionOnSet(h, {}) = 0
    BY SumEmpty
  <2> HIDE DEF bad
  <2> QED  BY <1>3, <2>1
<1>5. PICK e \in s : TRUE
  BY <1>4
<1>6. SumFunctionOnSet(h, s \ {e}) = SumFunctionOnSet(f, s \ {e}) + SumFunctionOnSet(g, s \ {e})
  <2>1. s \ {e} \notin bad /\ s \ {e} \in SUBSET S
    BY <1>2, <1>3
  <2> QED  BY <2>1
<1>7. \A x \in s : f[x] \in Int /\ g[x] \in Int /\ h[x] \in Int
  BY <1>3
<1>8. /\ SumFunctionOnSet(f, s) = f[e] + SumFunctionOnSet(f, s \ {e})
      /\ SumFunctionOnSet(g, s) = g[e] + SumFunctionOnSet(g, s \ {e})
      /\ SumFunctionOnSet(h, s) = h[e] + SumFunctionOnSet(h, s \ {e})
  BY <1>3, <1>7, SumRemove
<1>9. SumFunctionOnSet(f, s \ {e}) \in Int /\ SumFunctionOnSet(g, s \ {e}) \in Int
  <2>1. IsFiniteSet(s \ {e})
    BY <1>3, FS_RemoveElement
  <2> QED  BY <1>7, <2>1, SumType
<1>10. h[e] = f[e] + g[e] /\ f[e] \in Int /\ g[e] \in Int
  BY <1>3
<1> QED  BY <1>3, <1>6, <1>8, <1>9, <1>10

=============================================================================
