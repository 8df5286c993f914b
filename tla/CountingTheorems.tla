--------------------------- MODULE CountingTheorems ---------------------------
(***************************************************************************)
(* Sums over finite sets, folds, and ranks in an order.  The library has   *)
(* no theorem about the folds of the community modules; induction is by a  *)
(* least counterexample among the finite subsets, which are well-founded   *)
(* under inclusion.                                                        *)
(***************************************************************************)
EXTENDS Integers, Sequences, FiniteSets, FiniteSetsExt, Functions, FiniteSetTheorems,
        WellFoundedInduction, TLAPS

(* What a function makes of a finite set.                                  *)
LEMMA ImageFinite ==
  ASSUME NEW f, IsFiniteSet(DOMAIN f), f = [x \in DOMAIN f |-> f[x]]
  PROVE  IsFiniteSet({f[x] : x \in DOMAIN f})
<1> DEFINE T == {f[x] : x \in DOMAIN f}
<1>1. f \in Surjection(DOMAIN f, T)
  BY DEF Surjection
<1> HIDE DEF T
<1>2. IsFiniteSet(T)
  BY <1>1, FS_Surjection
<1>3. QED
  BY <1>2 DEF T

(* Induction over the subsets of a finite set: a collection that contains  *)
(* a subset whenever it contains all that lack one of its elements.        *)
LEMMA SubsetInduction ==
  ASSUME NEW S, IsFiniteSet(S), NEW A, {} \in A,
         \A T \in SUBSET S : T # {} /\ (\A x \in T : T \ {x} \in A) => T \in A
  PROVE  SUBSET S \subseteq A
<1> SUFFICES ASSUME NEW W \in SUBSET S, W \notin A PROVE FALSE
  OBVIOUS
<1> DEFINE F   == FiniteSubsetsOf(S)
           bad == {T \in F : T \notin A}
           R   == StrictSubsetOrdering(S)
<1>1. W \in bad
  <2>1. IsFiniteSet(W)
    BY FS_Subset
  <2>2. QED
    BY <2>1 DEF FiniteSubsetsOf
<1>2. IsWellFoundedOn(R, F)
  BY FS_StrictSubsetOrderingWellFounded
<1>3. \E T \in bad : \A U \in bad : <<U, T>> \notin R
  <2>1. bad \subseteq F /\ bad # {}
    BY <1>1
  <2> HIDE DEF F, R, bad
  <2>2. QED
    BY <1>2, <2>1, WFMin
<1>4. PICK T \in bad : \A U \in bad : <<U, T>> \notin R
  BY <1>3
<1>5. T \subseteq S /\ IsFiniteSet(T) /\ T \notin A /\ T # {}
  BY DEF FiniteSubsetsOf
<1>6. PICK x \in T : T \ {x} \notin A
  BY <1>5
<1>7. IsFiniteSet(T \ {x}) /\ T \ {x} \subseteq S
  BY <1>5, <1>6, FS_Subset
<1>8. T \ {x} \in bad /\ <<T \ {x}, T>> \in R
  BY <1>5, <1>6, <1>7 DEF FiniteSubsetsOf, StrictSubsetOrdering
<1>9. QED
  BY <1>4, <1>8

(***************************************************************************)
(* The fold.  Sums(f, S, g): g is the function on the subsets of S that the *)
(* definition of SumFunctionOnSet chooses.                                 *)
(***************************************************************************)
first(T) == CHOOSE x \in T : TRUE

Sums(f, S, g) ==
  g = [T \in SUBSET S |-> IF T = {} THEN 0 ELSE f[first(T)] + g[T \ {first(T)}]]

LEMMA FirstIn ==
  ASSUME NEW T, T # {}
  PROVE  first(T) \in T
  BY DEF first

(* There is such a function.                                               *)
LEMMA SumsExist ==
  ASSUME NEW S, IsFiniteSet(S), NEW f
  PROVE  \E g : Sums(f, S, g)
<1> DEFINE step(g, T) == IF T = {} THEN 0 ELSE f[first(T)] + g[T \ {first(T)}]
           upto(g, n) == \A T \in SUBSET S : Cardinality(T) <= n => g[T] = step(g, T)
           A == {U \in SUBSET S : \E g : DOMAIN g = SUBSET S /\ g = [T \in SUBSET S |-> g[T]] /\ upto(g, Cardinality(U))}
<1>1. \A T \in SUBSET S : /\ IsFiniteSet(T) /\ Cardinality(T) \in Nat
                          /\ Cardinality(T) = 0 <=> T = {}
  BY FS_Subset, FS_CardinalityType, FS_EmptySet
<1>2. \A T \in SUBSET S, x \in S : x \in T => Cardinality(T \ {x}) = Cardinality(T) - 1
  BY <1>1, FS_RemoveElement
<1>3. {} \in A
  <2> DEFINE g == [T \in SUBSET S |-> 0]
  <2>1. upto(g, Cardinality({}))
    BY <1>1, FS_EmptySet
  <2> HIDE DEF upto
  <2>2. DOMAIN g = SUBSET S /\ g = [T \in SUBSET S |-> g[T]]
    OBVIOUS
  <2>3. QED
    BY <2>1, <2>2
<1>4. ASSUME NEW U \in SUBSET S, U # {}, \A x \in U : U \ {x} \in A PROVE U \in A
  <2>1. PICK x \in U : TRUE
    BY <1>4
  <2> DEFINE n == Cardinality(U \ {x})
  <2>2. PICK g : DOMAIN g = SUBSET S /\ g = [T \in SUBSET S |-> g[T]] /\ upto(g, n)
    <3> HIDE DEF upto
    <3>1. QED
      BY <1>4, <2>1
  <2>3. n \in Nat /\ Cardinality(U) = n + 1
    BY <1>1, <1>2, <2>1
  <2> DEFINE h == [T \in SUBSET S |-> IF Cardinality(T) <= n THEN g[T] ELSE step(g, T)]
  <2> HIDE DEF n
  <2>4. ASSUME NEW T \in SUBSET S, Cardinality(T) <= n + 1 PROVE h[T] = step(h, T)
    <3>1. CASE T = {}
      <4>1. Cardinality(T) <= n
        BY <1>1, <2>3, <3>1
      <4>2. h[T] = g[T] /\ g[T] = 0
        BY <2>2, <3>1, <4>1
      <4>3. QED
        BY <3>1, <4>2
    <3>2. CASE T # {}
      <4> DEFINE V == T \ {first(T)}
      <4>1. first(T) \in T /\ V \in SUBSET S
        BY <3>2, FirstIn
      <4>2. Cardinality(V) <= n
        BY <1>1, <1>2, <2>3, <2>4, <4>1
      <4>3. h[V] = g[V]
        BY <4>1, <4>2
      <4>4. g[T] = step(g, T) \/ ~(Cardinality(T) <= n)
        BY <2>2
      <4>5. h[T] = step(g, T)
        BY <4>4
      <4>6. QED
        BY <3>2, <4>3, <4>5
    <3>3. QED
      BY <3>1, <3>2
  <2>5. upto(h, Cardinality(U))
    BY <2>3, <2>4
  <2>6. DOMAIN h = SUBSET S /\ h = [T \in SUBSET S |-> h[T]]
    OBVIOUS
  <2> HIDE DEF h, upto
  <2>7. QED
    BY <2>5, <2>6
<1>5. S \in A
  <2> HIDE DEF A
  <2>1. QED
    BY <1>3, <1>4, SubsetInduction
<1>6. PICK g : DOMAIN g = SUBSET S /\ g = [T \in SUBSET S |-> g[T]] /\ upto(g, Cardinality(S))
  BY <1>5
<1>7. \A T \in SUBSET S : Cardinality(T) <= Cardinality(S)
  BY FS_Subset
<1>8. \A T \in SUBSET S : g[T] = step(g, T)
  BY <1>6, <1>7
<1>9. g = [T \in SUBSET S |-> step(g, T)]
  BY <1>6, <1>8
<1>10. QED
  BY <1>9 DEF Sums

(* Any two agree where both are defined.                                   *)
LEMMA SumsAgree ==
  ASSUME NEW S, IsFiniteSet(S), NEW T \in SUBSET S, NEW f,
         NEW g, Sums(f, S, g), NEW h, Sums(f, T, h)
  PROVE  \A U \in SUBSET T : g[U] = h[U]
<1> DEFINE A == {U \in SUBSET T : g[U] = h[U]}
<1>1. IsFiniteSet(T)
  BY FS_Subset
<1>2. \A U \in SUBSET T :
        /\ g[U] = IF U = {} THEN 0 ELSE f[first(U)] + g[U \ {first(U)}]
        /\ h[U] = IF U = {} THEN 0 ELSE f[first(U)] + h[U \ {first(U)}]
  BY DEF Sums
<1>3. {} \in A
  BY <1>2
<1>4. ASSUME NEW U \in SUBSET T, U # {}, \A x \in U : U \ {x} \in A PROVE U \in A
  <2>1. g[U \ {first(U)}] = h[U \ {first(U)}]
    BY <1>4, FirstIn
  <2>2. QED
    BY <1>2, <1>4, <2>1
<1>5. SUBSET T \subseteq A
  <2> HIDE DEF A
  <2>1. QED
    BY <1>1, <1>3, <1>4, SubsetInduction
<1>6. QED
  BY <1>5

(* The sum is the value of any such function.                              *)
LEMMA SumIsValue ==
  ASSUME NEW S, IsFiniteSet(S), NEW T \in SUBSET S, NEW f, NEW g, Sums(f, S, g)
  PROVE  SumFunctionOnSet(f, T) = g[T]
<1> DEFINE h == CHOOSE h : Sums(f, T, h)
<1>1. SumFunctionOnSet(f, T) = h[T]
  BY DEF SumFunctionOnSet, FoldFunctionOnSet, MapThenFoldSet, Sums, first
<1>2. Sums(f, T, h)
  BY FS_Subset, SumsExist
<1> HIDE DEF h
<1>3. QED
  BY <1>1, <1>2, SumsAgree

(***************************************************************************)
(* What is used elsewhere.                                                 *)
(***************************************************************************)

(* The empty sum, and the sum over a set from which its first is taken.    *)
LEMMA SumFirst ==
  ASSUME NEW S, IsFiniteSet(S), NEW f
  PROVE  /\ SumFunctionOnSet(f, {}) = 0
         /\ S # {} => SumFunctionOnSet(f, S) = f[first(S)] + SumFunctionOnSet(f, S \ {first(S)})
<1>1. PICK g : Sums(f, S, g)
  BY SumsExist
<1>2. \A T \in SUBSET S : SumFunctionOnSet(f, T) = g[T]
  BY <1>1, SumIsValue
<1>3. \A T \in SUBSET S : g[T] = IF T = {} THEN 0 ELSE f[first(T)] + g[T \ {first(T)}]
  BY <1>1 DEF Sums
<1>4. QED
  BY <1>2, <1>3

LEMMA SumType ==
  ASSUME NEW S, IsFiniteSet(S), NEW f, \A x \in S : f[x] \in Nat
  PROVE  \A T \in SUBSET S : SumFunctionOnSet(f, T) \in Nat
<1> DEFINE A == {T \in SUBSET S : SumFunctionOnSet(f, T) \in Nat}
<1>1. {} \in A
  <2>1. SumFunctionOnSet(f, {}) = 0
    BY SumFirst
  <2>2. QED
    BY <2>1
<1>2. ASSUME NEW T \in SUBSET S, T # {}, \A x \in T : T \ {x} \in A PROVE T \in A
  <2>1. SumFunctionOnSet(f, T) = f[first(T)] + SumFunctionOnSet(f, T \ {first(T)})
    BY <1>2, FS_Subset, SumFirst
  <2>2. QED
    BY <1>2, <2>1, FirstIn
<1>3. SUBSET S \subseteq A
  <2> HIDE DEF A
  <2>1. QED
    BY <1>1, <1>2, SubsetInduction
<1>4. QED
  BY <1>3

(* Any element may be taken out first.                                     *)
LEMMA SumRemove ==
  ASSUME NEW S, IsFiniteSet(S), NEW f, \A x \in S : f[x] \in Nat, NEW x \in S
  PROVE  SumFunctionOnSet(f, S) = f[x] + SumFunctionOnSet(f, S \ {x})
<1> DEFINE sum(T) == SumFunctionOnSet(f, T)
           A == {T \in SUBSET S : \A y \in T : sum(T) = f[y] + sum(T \ {y})}
<1>1. {} \in A
  OBVIOUS
<1>2. ASSUME NEW T \in SUBSET S, T # {}, \A y \in T : T \ {y} \in A PROVE T \in A
  <2> SUFFICES ASSUME NEW y \in T PROVE sum(T) = f[y] + sum(T \ {y})
    OBVIOUS
  <2> DEFINE z == first(T)
  <2>1. z \in T /\ sum(T) = f[z] + sum(T \ {z})
    BY <1>2, FS_Subset, SumFirst, FirstIn
  <2>2. CASE y = z
    BY <2>1, <2>2
  <2>3. CASE y # z
    <3> DEFINE V == T \ {y, z}
    <3>1. T \ {z} \in A /\ T \ {y} \in A /\ y \in T \ {z} /\ z \in T \ {y}
      BY <1>2, <2>1, <2>3
    <3>2. (T \ {z}) \ {y} = V /\ (T \ {y}) \ {z} = V
      OBVIOUS
    <3>3. sum(T \ {z}) = f[y] + sum(V) /\ sum(T \ {y}) = f[z] + sum(V)
      <4> HIDE DEF V, sum, z
      <4>1. QED
        BY <3>1, <3>2
    <3>4. sum(V) \in Nat /\ f[y] \in Nat /\ f[z] \in Nat
      BY <2>1, SumType
    <3> HIDE DEF sum, V, z
    <3>5. QED
      BY <2>1, <3>3, <3>4
  <2>4. QED
    BY <2>2, <2>3
<1>3. SUBSET S \subseteq A
  <2> HIDE DEF A
  <2>1. QED
    BY <1>1, <1>2, SubsetInduction
<1>4. QED
  BY <1>3

(* A sum whose every term is covered by a term of its own of another sum   *)
(* is not larger than that.                                                *)
LEMMA SumCovered ==
  ASSUME NEW S, IsFiniteSet(S), NEW f, \A x \in S : f[x] \in Nat,
         NEW T, IsFiniteSet(T), NEW g, \A y \in T : g[y] \in Nat,
         NEW h \in [S -> T], \A x, y \in S : h[x] = h[y] => x = y,
         \A x \in S : f[x] <= g[h[x]]
  PROVE  SumFunctionOnSet(f, S) <= SumFunctionOnSet(g, T)
<1> DEFINE A == {U \in SUBSET S : \A V \in SUBSET T :
                   (\A x \in U : h[x] \in V) => SumFunctionOnSet(f, U) <= SumFunctionOnSet(g, V)}
<1>1. {} \in A
  <2>1. SumFunctionOnSet(f, {}) = 0
    BY SumFirst
  <2>2. \A V \in SUBSET T : SumFunctionOnSet(g, V) \in Nat
    BY SumType
  <2>3. QED
    BY <2>1, <2>2
<1>2. ASSUME NEW U \in SUBSET S, U # {}, \A x \in U : U \ {x} \in A PROVE U \in A
  <2> SUFFICES ASSUME NEW V \in SUBSET T, \A x \in U : h[x] \in V
               PROVE  SumFunctionOnSet(f, U) <= SumFunctionOnSet(g, V)
    OBVIOUS
  <2>1. PICK x \in U : TRUE
    BY <1>2
  <2>2. SumFunctionOnSet(f, U) = f[x] + SumFunctionOnSet(f, U \ {x})
    BY FS_Subset, SumRemove
  <2>3. SumFunctionOnSet(g, V) = g[h[x]] + SumFunctionOnSet(g, V \ {h[x]})
    <3>1. IsFiniteSet(V) /\ h[x] \in V /\ \A y \in V : g[y] \in Nat
      BY FS_Subset
    <3>2. QED
      BY <3>1, SumRemove
  <2>4. V \ {h[x]} \in SUBSET T /\ \A y \in U \ {x} : h[y] \in V \ {h[x]}
    OBVIOUS
  <2>5. SumFunctionOnSet(f, U \ {x}) <= SumFunctionOnSet(g, V \ {h[x]})
    BY <1>2, <2>4
  <2>6. /\ f[x] \in Nat /\ g[h[x]] \in Nat /\ f[x] <= g[h[x]]
        /\ SumFunctionOnSet(f, U \ {x}) \in Nat /\ SumFunctionOnSet(g, V \ {h[x]}) \in Nat
    BY SumType
  <2>7. QED
    BY <2>2, <2>3, <2>5, <2>6
<1>3. SUBSET S \subseteq A
  <2> HIDE DEF A
  <2>1. QED
    BY <1>1, <1>2, SubsetInduction
<1>4. S \in A /\ T \in SUBSET T /\ \A x \in S : h[x] \in T
  BY <1>3
<1>5. QED
  BY <1>4

(* A sum depends on its terms only.                                        *)
LEMMA SumSame ==
  ASSUME NEW S, IsFiniteSet(S), NEW f, NEW g, \A x \in S : f[x] \in Nat /\ g[x] = f[x]
  PROVE  SumFunctionOnSet(g, S) = SumFunctionOnSet(f, S)
<1> DEFINE h == [x \in S |-> x]
<1>1. /\ h \in [S -> S] /\ \A x, y \in S : h[x] = h[y] => x = y
      /\ \A x \in S : f[x] <= g[h[x]] /\ g[x] <= f[h[x]]
  OBVIOUS
<1> HIDE DEF h
<1>2. SumFunctionOnSet(f, S) <= SumFunctionOnSet(g, S)
  BY <1>1, SumCovered
<1>3. SumFunctionOnSet(g, S) <= SumFunctionOnSet(f, S)
  BY <1>1, SumCovered
<1>4. SumFunctionOnSet(f, S) \in Nat /\ SumFunctionOnSet(g, S) \in Nat
  BY SumType
<1>5. QED
  BY <1>2, <1>3, <1>4

(* The sums over two sets that have no term in common.                     *)
LEMMA SumUnion ==
  ASSUME NEW S, IsFiniteSet(S), NEW T, IsFiniteSet(T), S \cap T = {},
         NEW f, \A x \in S \cup T : f[x] \in Nat
  PROVE  SumFunctionOnSet(f, S \cup T) = SumFunctionOnSet(f, S) + SumFunctionOnSet(f, T)
<1> DEFINE sum(U) == SumFunctionOnSet(f, U)
           A == {U \in SUBSET S : sum(U \cup T) = sum(U) + sum(T)}
<1>1. IsFiniteSet(S \cup T) /\ \A U \in SUBSET (S \cup T) : IsFiniteSet(U) /\ sum(U) \in Nat
  <2>1. IsFiniteSet(S \cup T)
    BY FS_Union
  <2>2. QED
    BY <2>1, FS_Subset, SumType
<1>2. {} \in A
  <2>1. sum({}) = 0 /\ {} \cup T = T /\ sum(T) \in Nat
    BY <1>1, SumFirst
  <2> HIDE DEF sum
  <2>2. QED
    BY <2>1
<1>3. ASSUME NEW U \in SUBSET S, U # {}, \A x \in U : U \ {x} \in A PROVE U \in A
  <2>1. PICK x \in U : TRUE
    BY <1>3
  <2>2. sum((U \ {x}) \cup T) = sum(U \ {x}) + sum(T)
    BY <1>3
  <2>3. sum(U) = f[x] + sum(U \ {x})
    BY <1>1, SumRemove
  <2>4. sum(U \cup T) = f[x] + sum((U \cup T) \ {x})
    <3>1. U \cup T \in SUBSET (S \cup T) /\ x \in U \cup T
      OBVIOUS
    <3>2. QED
      BY <1>1, <3>1, SumRemove
  <2>5. (U \cup T) \ {x} = (U \ {x}) \cup T
    OBVIOUS
  <2>6. f[x] \in Nat /\ sum(U \ {x}) \in Nat /\ sum(T) \in Nat
    BY <1>1
  <2>7. sum(U \cup T) = f[x] + (sum(U \ {x}) + sum(T))
    BY <2>2, <2>4, <2>5
  <2>8. f[x] + (sum(U \ {x}) + sum(T)) = (f[x] + sum(U \ {x})) + sum(T)
    BY <2>6
  <2>9. sum(U \cup T) = sum(U) + sum(T)
    BY <2>3, <2>7, <2>8
  <2>10. QED
    BY <2>9
<1>4. SUBSET S \subseteq A
  <2> HIDE DEF A
  <2>1. QED
    BY <1>2, <1>3, SubsetInduction
<1>5. QED
  BY <1>4

(* Sums of differences.                                                    *)
LEMMA SumDifference ==
  ASSUME NEW S, IsFiniteSet(S), NEW f, NEW g, NEW h,
         \A x \in S : f[x] \in Int /\ g[x] \in Int /\ h[x] = f[x] - g[x]
  PROVE  /\ SumFunctionOnSet(f, S) \in Int /\ SumFunctionOnSet(g, S) \in Int
         /\ SumFunctionOnSet(h, S) = SumFunctionOnSet(f, S) - SumFunctionOnSet(g, S)
<1> DEFINE sum(k, T) == SumFunctionOnSet(k, T)
           A == {T \in SUBSET S : /\ sum(f, T) \in Int /\ sum(g, T) \in Int
                                  /\ sum(h, T) = sum(f, T) - sum(g, T)}
<1>1. {} \in A
  <2>1. sum(f, {}) = 0 /\ sum(g, {}) = 0 /\ sum(h, {}) = 0
    BY SumFirst
  <2> HIDE DEF sum
  <2>2. QED
    BY <2>1
<1>2. ASSUME NEW T \in SUBSET S, T # {}, \A x \in T : T \ {x} \in A PROVE T \in A
  <2> DEFINE x == first(T)
             U == T \ {x}
  <2>1. IsFiniteSet(T) /\ x \in T
    BY <1>2, FS_Subset, FirstIn
  <2>2. /\ sum(f, T) = f[x] + sum(f, U) /\ sum(g, T) = g[x] + sum(g, U)
        /\ sum(h, T) = h[x] + sum(h, U)
    BY <1>2, <2>1, SumFirst
  <2>3. sum(f, U) \in Int /\ sum(g, U) \in Int /\ sum(h, U) = sum(f, U) - sum(g, U)
    BY <1>2, <2>1
  <2>4. f[x] \in Int /\ g[x] \in Int /\ h[x] = f[x] - g[x]
    BY <2>1
  <2> HIDE DEF sum, U, x
  <2>5. sum(f, T) \in Int /\ sum(g, T) \in Int /\ sum(h, T) = sum(f, T) - sum(g, T)
    BY <2>2, <2>3, <2>4
  <2>6. QED
    BY <2>5
<1>3. SUBSET S \subseteq A
  <2> HIDE DEF A
  <2>1. QED
    BY <1>1, <1>2, SubsetInduction
<1>4. QED
  BY <1>3

(* A sum over what a set is mapped onto, one to one.                       *)
LEMMA SumImage ==
  ASSUME NEW S, IsFiniteSet(S), NEW f, \A x \in S : f[x] \in Nat,
         NEW T, IsFiniteSet(T), NEW g,
         NEW h \in [S -> T], \A x, y \in S : h[x] = h[y] => x = y,
         \A y \in T : \E x \in S : h[x] = y,
         \A x \in S : g[h[x]] = f[x]
  PROVE  SumFunctionOnSet(g, T) = SumFunctionOnSet(f, S)
<1>1. \A y \in T : g[y] \in Nat
  <2> SUFFICES ASSUME NEW y \in T PROVE g[y] \in Nat
    OBVIOUS
  <2>1. PICK x \in S : h[x] = y
    OBVIOUS
  <2>2. QED
    BY <2>1
<1>2. SumFunctionOnSet(f, S) <= SumFunctionOnSet(g, T)
  <2>1. \A x \in S : f[x] <= g[h[x]]
    OBVIOUS
  <2>2. QED
    BY <1>1, <2>1, SumCovered
<1> DEFINE k == [y \in T |-> CHOOSE x \in S : h[x] = y]
<1>3. k \in [T -> S] /\ \A y \in T : h[k[y]] = y
  OBVIOUS
<1> HIDE DEF k
<1>4. \A y, z \in T : k[y] = k[z] => y = z
  BY <1>3
<1>5. \A y \in T : g[y] <= f[k[y]]
  <2>1. \A y \in T : g[y] = f[k[y]]
    BY <1>3
  <2>2. QED
    BY <1>1, <2>1
<1>6. SumFunctionOnSet(g, T) <= SumFunctionOnSet(f, S)
  BY <1>1, <1>3, <1>4, <1>5, SumCovered
<1>7. SumFunctionOnSet(g, T) \in Nat /\ SumFunctionOnSet(f, S) \in Nat
  BY <1>1, SumType
<1>8. QED
  BY <1>2, <1>6, <1>7

(* A sum of equal terms, of any sign.                                      *)
LEMMA SumEqual ==
  ASSUME NEW S, IsFiniteSet(S), NEW f, NEW g, \A x \in S : f[x] \in Int /\ g[x] = f[x]
  PROVE  SumFunctionOnSet(g, S) = SumFunctionOnSet(f, S)
<1> DEFINE z == [x \in S |-> 0]
<1>1. \A x \in S : z[x] \in Int /\ g[x] = f[x] - z[x] /\ f[x] = f[x] - z[x]
  OBVIOUS
<1> HIDE DEF z
<1>2. SumFunctionOnSet(g, S) = SumFunctionOnSet(f, S) - SumFunctionOnSet(z, S)
  BY <1>1, SumDifference
<1>3. SumFunctionOnSet(f, S) = SumFunctionOnSet(f, S) - SumFunctionOnSet(z, S)
  BY <1>1, SumDifference
<1>4. QED
  BY <1>2, <1>3

(* Only terms that are not 0 count.                                        *)
LEMMA SumZero ==
  ASSUME NEW S, IsFiniteSet(S), NEW f, \A x \in S : f[x] = 0
  PROVE  SumFunctionOnSet(f, S) = 0
<1>1. \A x \in S : f[x] \in Int /\ f[x] = f[x] - f[x]
  OBVIOUS
<1>2. /\ SumFunctionOnSet(f, S) \in Int
      /\ SumFunctionOnSet(f, S) = SumFunctionOnSet(f, S) - SumFunctionOnSet(f, S)
  BY <1>1, SumDifference
<1>3. QED
  BY <1>2

(* A sum that counts or does not.                                          *)
LEMMA SumIf ==
  ASSUME NEW D, IsFiniteSet(D), NEW f, \A i \in D : f[i] \in Nat, NEW b \in BOOLEAN
  PROVE  SumFunctionOnSet([i \in D |-> IF b THEN f[i] ELSE 0], D) =
           IF b THEN SumFunctionOnSet(f, D) ELSE 0
<1> DEFINE g == [i \in D |-> IF b THEN f[i] ELSE 0]
<1>1. CASE b
  <2>1. \A i \in D : f[i] \in Int /\ g[i] = f[i]
    BY <1>1
  <2> HIDE DEF g
  <2>2. SumFunctionOnSet(g, D) = SumFunctionOnSet(f, D)
    BY <2>1, SumEqual
  <2>3. QED
    BY <1>1, <2>2 DEF g
<1>2. CASE ~b
  <2>1. \A i \in D : g[i] = 0
    BY <1>2
  <2> HIDE DEF g
  <2>2. SumFunctionOnSet(g, D) = 0
    BY <2>1, SumZero
  <2>3. QED
    BY <1>2, <2>2 DEF g
<1>3. QED
  BY <1>1, <1>2

----------------------------------------------------------------------------
(***************************************************************************)
(* Folds.  A function on the subsets of a finite set can be defined by     *)
(* recursion: on a set it is a step from what it is on the set without a   *)
(* member that c chooses.  The step is given as a function F on values V.  *)
(***************************************************************************)
Folds(g, S, base, c, F) ==
  g = [T \in SUBSET S |-> IF T = {} THEN base ELSE F[<<c[T], g[T \ {c[T]}]>>]]

LEMMA FoldsExist ==
  ASSUME NEW S, IsFiniteSet(S), NEW V, NEW base \in V, NEW F \in [S \X V -> V],
         NEW c, \A T \in SUBSET S : T # {} => c[T] \in T
  PROVE  \E g \in [SUBSET S -> V] : Folds(g, S, base, c, F)
<1> DEFINE step(g, T) == IF T = {} THEN base ELSE F[<<c[T], g[T \ {c[T]}]>>]
           upto(g, n) == \A T \in SUBSET S : Cardinality(T) <= n => g[T] = step(g, T)
           A == {U \in SUBSET S : \E g \in [SUBSET S -> V] : upto(g, Cardinality(U))}
<1>1. \A T \in SUBSET S : /\ IsFiniteSet(T) /\ Cardinality(T) \in Nat
                          /\ Cardinality(T) = 0 <=> T = {}
  BY FS_Subset, FS_CardinalityType, FS_EmptySet
<1>2. \A T \in SUBSET S, x \in S : x \in T => Cardinality(T \ {x}) = Cardinality(T) - 1
  BY <1>1, FS_RemoveElement
<1>3. \A g \in [SUBSET S -> V], T \in SUBSET S : step(g, T) \in V
  OBVIOUS
<1>4. {} \in A
  <2> DEFINE g == [T \in SUBSET S |-> base]
  <2>1. upto(g, Cardinality({}))
    BY <1>1, FS_EmptySet
  <2>2. g \in [SUBSET S -> V]
    OBVIOUS
  <2> HIDE DEF upto, g
  <2>3. QED
    BY <2>1, <2>2
<1>5. ASSUME NEW U \in SUBSET S, U # {}, \A x \in U : U \ {x} \in A PROVE U \in A
  <2>1. PICK x \in U : TRUE
    BY <1>5
  <2> DEFINE n == Cardinality(U \ {x})
  <2>2. PICK g \in [SUBSET S -> V] : upto(g, n)
    <3> HIDE DEF upto
    <3>1. QED
      BY <1>5, <2>1
  <2>3. n \in Nat /\ Cardinality(U) = n + 1
    BY <1>1, <1>2, <2>1
  <2> DEFINE h == [T \in SUBSET S |-> IF Cardinality(T) <= n THEN g[T] ELSE step(g, T)]
  <2> HIDE DEF n
  <2>4. ASSUME NEW T \in SUBSET S, Cardinality(T) <= n + 1 PROVE h[T] = step(h, T)
    <3>1. CASE T = {}
      <4>1. Cardinality(T) <= n
        BY <1>1, <2>3, <3>1
      <4>2. h[T] = g[T] /\ g[T] = base
        BY <2>2, <3>1, <4>1
      <4>3. QED
        BY <3>1, <4>2
    <3>2. CASE T # {}
      <4> DEFINE W == T \ {c[T]}
      <4>1. c[T] \in T /\ c[T] \in S /\ W \in SUBSET S
        BY <3>2
      <4>2. Cardinality(W) <= n
        <5>1. Cardinality(W) = Cardinality(T) - 1
          BY <1>2, <4>1
        <5>2. Cardinality(T) \in Nat
          BY <1>1
        <5>3. QED
          BY <2>3, <2>4, <5>1, <5>2
      <4>3. h[W] = g[W]
        BY <4>1, <4>2
      <4>4. g[T] = step(g, T) \/ ~(Cardinality(T) <= n)
        BY <2>2
      <4>5. h[T] = step(g, T)
        BY <4>4
      <4>6. QED
        BY <3>2, <4>3, <4>5
    <3>3. QED
      BY <3>1, <3>2
  <2>5. upto(h, Cardinality(U))
    <3> HIDE DEF h, step
    <3>1. QED
      BY <2>3, <2>4
  <2>6. h \in [SUBSET S -> V]
    <3> HIDE DEF step
    <3>1. QED
      BY <1>3
  <2> HIDE DEF h, upto
  <2>7. QED
    BY <2>5, <2>6
<1>6. S \in A
  <2> HIDE DEF A
  <2>1. QED
    BY <1>4, <1>5, SubsetInduction
<1>7. PICK g \in [SUBSET S -> V] : upto(g, Cardinality(S))
  BY <1>6
<1>8. \A T \in SUBSET S : Cardinality(T) <= Cardinality(S)
  BY FS_Subset
<1>9. \A T \in SUBSET S : g[T] = step(g, T)
  BY <1>7, <1>8
<1>10. g = [T \in SUBSET S |-> step(g, T)]
  BY <1>9
<1>11. QED
  BY <1>10 DEF Folds

----------------------------------------------------------------------------
(***************************************************************************)
(* Ranks: how many members of a finite set come before one, in an order of *)
(* the set that is given as a set of pairs.                                *)
(***************************************************************************)
TotallyOrders(R, S) ==
  /\ \A x \in S : <<x, x>> \notin R
  /\ \A x, y \in S : x # y => <<x, y>> \in R \/ <<y, x>> \in R
  /\ \A x, y, z \in S : <<x, y>> \in R /\ <<y, z>> \in R => <<x, z>> \in R

before(R, S, x) == {y \in S : <<y, x>> \in R}

LEMMA RanksIncrease ==
  ASSUME NEW S, IsFiniteSet(S), NEW R, TotallyOrders(R, S)
  PROVE  /\ \A x \in S : IsFiniteSet(before(R, S, x)) /\ Cardinality(before(R, S, x)) \in Nat
         /\ \A x, y \in S : <<x, y>> \in R =>
              Cardinality(before(R, S, x)) < Cardinality(before(R, S, y))
<1>1. \A x \in S : IsFiniteSet(before(R, S, x)) /\ Cardinality(before(R, S, x)) \in Nat
  BY FS_Subset, FS_CardinalityType DEF before
<1>2. ASSUME NEW x \in S, NEW y \in S, <<x, y>> \in R
      PROVE  Cardinality(before(R, S, x)) < Cardinality(before(R, S, y))
  <2>1. /\ before(R, S, x) \subseteq before(R, S, y)
        /\ x \in before(R, S, y) /\ x \notin before(R, S, x)
    BY <1>2 DEF before, TotallyOrders
  <2>2. /\ Cardinality(before(R, S, x)) <= Cardinality(before(R, S, y))
        /\ Cardinality(before(R, S, x)) # Cardinality(before(R, S, y))
    BY <1>1, <2>1, FS_Subset
  <2>3. QED
    BY <1>1, <2>2
<1>3. QED
  BY <1>1, <1>2

(* No two members have the same rank.                                      *)
LEMMA RanksDiffer ==
  ASSUME NEW S, IsFiniteSet(S), NEW R, TotallyOrders(R, S), NEW x \in S, NEW y \in S,
         Cardinality(before(R, S, x)) = Cardinality(before(R, S, y))
  PROVE  x = y
<1> SUFFICES ASSUME x # y PROVE FALSE
  OBVIOUS
<1>1. <<x, y>> \in R \/ <<y, x>> \in R
  BY DEF TotallyOrders
<1>2. QED
  BY <1>1, RanksIncrease

(* Every number below the size of the set is the rank of a member: there   *)
(* are as many ranks as members.                                           *)
LEMMA RanksFill ==
  ASSUME NEW S, IsFiniteSet(S), NEW R, TotallyOrders(R, S), NEW n \in Nat, n < Cardinality(S)
  PROVE  \E x \in S : Cardinality(before(R, S, x)) = n
<1> DEFINE rank == [x \in S |-> Cardinality(before(R, S, x))]
           T == 0..(Cardinality(S) - 1)
<1>1. Cardinality(S) \in Nat
  BY FS_CardinalityType
<1>2. ASSUME NEW x \in S PROVE rank[x] \in T
  <2>1. before(R, S, x) \subseteq S \ {x}
    BY DEF before, TotallyOrders
  <2>2. IsFiniteSet(S \ {x}) /\ Cardinality(S \ {x}) = Cardinality(S) - 1
    BY FS_RemoveElement
  <2>3. Cardinality(before(R, S, x)) <= Cardinality(S) - 1
    BY <2>1, <2>2, FS_Subset
  <2>4. QED
    BY <1>1, <2>3, RanksIncrease
<1>3. rank \in Injection(S, T)
  <2>1. rank \in [S -> T]
    BY <1>2
  <2>2. \A x, y \in S : rank[x] = rank[y] => x = y
    BY RanksDiffer
  <2> HIDE DEF rank
  <2>3. QED
    BY <2>1, <2>2 DEF Injection, IsInjective
<1>4. IsFiniteSet(T) /\ Cardinality(T) = Cardinality(S)
  <2>1. \A m \in Int : IsFiniteSet(0..m) /\ Cardinality(0..m) = IF 0 > m THEN 0 ELSE m + 1
    BY FS_Interval, 0 \in Int, \A m \in Int : m - 0 + 1 = m + 1
  <2>2. Cardinality(S) - 1 \in Int
    BY <1>1
  <2>3. IsFiniteSet(T) /\ Cardinality(T) = IF 0 > Cardinality(S) - 1
                                           THEN 0 ELSE (Cardinality(S) - 1) + 1
    BY <2>1, <2>2
  <2>4. QED
    BY <1>1, <2>3
<1>5. rank \in Surjection(S, T)
  <2> HIDE DEF rank, T
  <2>1. QED
    BY <1>3, <1>4, FS_Injection
<1>6. n \in T
  BY <1>1
<1>7. \E x \in S : rank[x] = n
  <2> HIDE DEF rank, T
  <2>1. QED
    BY <1>5, <1>6 DEF Surjection
<1>8. QED
  BY <1>7

(* Among numbers, by size.                                                 *)
LEMMA NumbersOrdered ==
  ASSUME NEW S, S \subseteq Int
  PROVE  /\ TotallyOrders({e \in Int \X Int : e[1] < e[2]}, S)
         /\ \A x \in S : before({e \in Int \X Int : e[1] < e[2]}, S, x) = {y \in S : y < x}
<1> DEFINE R == {e \in Int \X Int : e[1] < e[2]}
<1>1. \A x, y \in Int : <<x, y>> \in R <=> x < y
  OBVIOUS
<1> HIDE DEF R
<1>2. TotallyOrders(R, S)
  BY <1>1 DEF TotallyOrders
<1>3. \A x \in S : before(R, S, x) = {y \in S : y < x}
  BY <1>1 DEF before
<1>4. QED
  BY <1>2, <1>3 DEF R

----------------------------------------------------------------------------
(***************************************************************************)
(* Sets of numbers, and places of sequences.                               *)
(***************************************************************************)
LEMMA LargestIn ==
  ASSUME NEW S, S \subseteq Int, IsFiniteSet(S), S # {}
  PROVE  Max(S) \in S /\ \A x \in S : x <= Max(S)
<1> DEFINE A == {T \in SUBSET S : T = {} \/ \E x \in T : \A y \in T : x >= y}
<1>1. {} \in A
  OBVIOUS
<1>2. ASSUME NEW T \in SUBSET S, T # {}, \A x \in T : T \ {x} \in A PROVE T \in A
  <2>1. PICK z \in T : TRUE
    BY <1>2
  <2>2. CASE T \ {z} = {}
    <3>1. \A y \in T : z >= y
      BY <2>1, <2>2
    <3>2. QED
      BY <2>1, <3>1
  <2>3. CASE T \ {z} # {}
    <3>1. PICK x \in T \ {z} : \A y \in T \ {z} : x >= y
      BY <1>2, <2>3
    <3>2. x \in Int /\ z \in Int /\ \A y \in T : y \in Int
      BY <3>1
    <3>3. CASE x >= z
      BY <3>1, <3>2, <3>3
    <3>4. CASE ~(x >= z)
      BY <3>1, <3>2, <3>4
    <3>5. QED
      BY <3>3, <3>4
  <2>4. QED
    BY <2>2, <2>3
<1>3. S \in A
  <2> HIDE DEF A
  <2>1. QED
    BY <1>1, <1>2, SubsetInduction
<1>4. \E x \in S : \A y \in S : x >= y
  BY <1>3
<1>5. Max(S) \in S /\ \A y \in S : Max(S) >= y
  BY <1>4 DEF Max
<1>6. QED
  BY <1>5

LEMMA SmallestIn ==
  ASSUME NEW S, S \subseteq Int, IsFiniteSet(S), S # {}
  PROVE  Min(S) \in S /\ \A x \in S : Min(S) <= x
<1> DEFINE A == {T \in SUBSET S : T = {} \/ \E x \in T : \A y \in T : x <= y}
<1>1. {} \in A
  OBVIOUS
<1>2. ASSUME NEW T \in SUBSET S, T # {}, \A x \in T : T \ {x} \in A PROVE T \in A
  <2>1. PICK z \in T : TRUE
    BY <1>2
  <2>2. CASE T \ {z} = {}
    <3>1. \A y \in T : z <= y
      BY <2>1, <2>2
    <3>2. QED
      BY <2>1, <3>1
  <2>3. CASE T \ {z} # {}
    <3>1. PICK x \in T \ {z} : \A y \in T \ {z} : x <= y
      BY <1>2, <2>3
    <3>2. x \in Int /\ z \in Int /\ \A y \in T : y \in Int
      BY <3>1
    <3>3. CASE x <= z
      BY <3>1, <3>2, <3>3
    <3>4. CASE ~(x <= z)
      BY <3>1, <3>2, <3>4
    <3>5. QED
      BY <3>3, <3>4
  <2>4. QED
    BY <2>2, <2>3
<1>3. S \in A
  <2> HIDE DEF A
  <2>1. QED
    BY <1>1, <1>2, SubsetInduction
<1>4. \E x \in S : \A y \in S : x <= y
  BY <1>3
<1>5. QED
  BY <1>4 DEF Min

LEMMA PlacesFinite ==
  ASSUME NEW X, NEW s \in Seq(X), NEW I \in SUBSET (DOMAIN s)
  PROVE  IsFiniteSet(I) /\ Cardinality(I) \in Nat /\ I \subseteq Nat /\ DOMAIN s = 1..Len(s)
<1>1. DOMAIN s = 1..Len(s) /\ Len(s) \in Nat
  OBVIOUS
<1>2. IsFiniteSet(1..Len(s))
  BY <1>1, FS_Interval
<1>3. QED
  BY <1>1, <1>2, FS_Subset, FS_CardinalityType

(***************************************************************************)
(* A fold over a sequence: there is a function of the kind that FoldLeft   *)
(* chooses, if a step F from values V stays among them.                    *)
(***************************************************************************)
LeftFolds(g, s, base, V, F) ==
  /\ g \in [SUBSET (DOMAIN s) -> V]
  /\ \A T \in SUBSET (DOMAIN s) :
       g[T] = IF T = {} THEN base ELSE F[<<s[Max(T)], g[T \ {Max(T)}]>>]

LEMMA LeftFold ==
  ASSUME NEW X, NEW s \in Seq(X), NEW V, NEW base \in V, NEW F \in [X \X V -> V]
  PROVE  \E g : LeftFolds(g, s, base, V, F)
<1> DEFINE S == DOMAIN s
           c == [T \in SUBSET S |-> Max(T)]
           G == [e \in S \X V |-> F[<<s[e[1]], e[2]>>]]
<1>1. IsFiniteSet(S) /\ \A T \in SUBSET S : IsFiniteSet(T) /\ T \subseteq Int
  BY PlacesFinite
<1>2. \A T \in SUBSET S : T # {} => c[T] \in T
  BY <1>1, LargestIn
<1>3. G \in [S \X V -> V]
  OBVIOUS
<1>4. \E g \in [SUBSET S -> V] : Folds(g, S, base, c, G)
  <2> HIDE DEF S, c, G
  <2>1. QED
    BY <1>1, <1>2, <1>3, FoldsExist
<1>5. PICK g \in [SUBSET S -> V] : Folds(g, S, base, c, G)
  BY <1>4
<1>6. \A T \in SUBSET S : T # {} =>
        G[<<c[T], g[T \ {c[T]}]>>] = F[<<s[Max(T)], g[T \ {Max(T)}]>>]
  <2> SUFFICES ASSUME NEW T \in SUBSET S, T # {}
               PROVE  G[<<c[T], g[T \ {c[T]}]>>] = F[<<s[Max(T)], g[T \ {Max(T)}]>>]
    OBVIOUS
  <2>1. c[T] = Max(T) /\ Max(T) \in S /\ T \ {Max(T)} \in SUBSET S
    BY <1>2
  <2>2. g[T \ {Max(T)}] \in V
    BY <1>5, <2>1
  <2> HIDE DEF c
  <2>3. QED
    BY <2>1, <2>2
<1>7. g = [T \in SUBSET S |-> IF T = {} THEN base ELSE G[<<c[T], g[T \ {c[T]}]>>]]
  BY <1>5 DEF Folds
<1>8. \A T \in SUBSET S : g[T] = IF T = {} THEN base ELSE F[<<s[Max(T)], g[T \ {Max(T)}]>>]
  <2> HIDE DEF G, c, S
  <2>1. QED
    BY <1>6, <1>7
<1>9. QED
  BY <1>5, <1>8 DEF LeftFolds

(* The top of the first n numbers.                                         *)
LEMMA Segments ==
  ASSUME NEW n \in Nat, n > 0
  PROVE  1..n # {} /\ Max(1..n) = n /\ (1..n) \ {n} = 1..(n - 1)
<1>1. IsFiniteSet(1..n) /\ 1..n \subseteq Int /\ n \in 1..n
  BY FS_Interval
<1>2. Max(1..n) \in 1..n /\ n <= Max(1..n)
  BY <1>1, LargestIn
<1>3. QED
  BY <1>1, <1>2

(* The sum of a sequence, from its last term.                              *)
LeftSums(s, g) ==
  g = [T \in SUBSET (DOMAIN s) |-> IF T = {} THEN 0 ELSE g[T \ {Max(T)}] + s[Max(T)]]

LEMMA LeftSum ==
  ASSUME NEW s \in Seq(Nat)
  PROVE  /\ \E g : LeftSums(s, g)
         /\ \A g : LeftSums(s, g) => g[DOMAIN s] = SumFunctionOnSet(s, DOMAIN s)
<1> DEFINE D == DOMAIN s
           F == [e \in Nat \X Nat |-> e[2] + e[1]]
<1>1. IsFiniteSet(D) /\ (\A T \in SUBSET D : T # {} => Max(T) \in T) /\ \A i \in D : s[i] \in Nat
  BY PlacesFinite, LargestIn
<1>2. \E g : LeftSums(s, g)
  <2>1. F \in [Nat \X Nat -> Nat] /\ 0 \in Nat
    OBVIOUS
  <2>2. PICK g : LeftFolds(g, s, 0, Nat, F)
    <3> HIDE DEF F
    <3>1. QED
      BY <2>1, LeftFold
  <2>3. g \in [SUBSET D -> Nat]
        /\ \A T \in SUBSET D : g[T] = IF T = {} THEN 0 ELSE F[<<s[Max(T)], g[T \ {Max(T)}]>>]
    BY <2>2 DEF LeftFolds
  <2>4. \A T \in SUBSET D : T # {} =>
          F[<<s[Max(T)], g[T \ {Max(T)}]>>] = g[T \ {Max(T)}] + s[Max(T)]
    <3> SUFFICES ASSUME NEW T \in SUBSET D, T # {}
                 PROVE  F[<<s[Max(T)], g[T \ {Max(T)}]>>] = g[T \ {Max(T)}] + s[Max(T)]
      OBVIOUS
    <3>1. s[Max(T)] \in Nat /\ g[T \ {Max(T)}] \in Nat
      BY <1>1, <2>3
    <3>2. QED
      BY <3>1
  <2>5. g = [T \in SUBSET D |-> IF T = {} THEN 0 ELSE g[T \ {Max(T)}] + s[Max(T)]]
    <3> HIDE DEF F, D
    <3>1. QED
      BY <2>3, <2>4
  <2>6. QED
    BY <2>5 DEF LeftSums
<1>3. ASSUME NEW g, LeftSums(s, g) PROVE g[D] = SumFunctionOnSet(s, D)
  <2> DEFINE A == {T \in SUBSET D : g[T] = SumFunctionOnSet(s, T)}
  <2>1. \A T \in SUBSET D : g[T] = IF T = {} THEN 0 ELSE g[T \ {Max(T)}] + s[Max(T)]
    BY <1>3 DEF LeftSums
  <2>2. {} \in A
    BY <1>1, <2>1, SumFirst
  <2>3. ASSUME NEW T \in SUBSET D, T # {}, \A x \in T : T \ {x} \in A PROVE T \in A
    <3>1. Max(T) \in T
      BY <1>1, <2>3
    <3>2. SumFunctionOnSet(s, T) = s[Max(T)] + SumFunctionOnSet(s, T \ {Max(T)})
      <4>1. IsFiniteSet(T) /\ \A x \in T : s[x] \in Nat
        BY <1>1, FS_Subset
      <4>2. QED
        BY <3>1, <4>1, SumRemove
    <3>3. g[T] = g[T \ {Max(T)}] + s[Max(T)] /\ g[T \ {Max(T)}] = SumFunctionOnSet(s, T \ {Max(T)})
      BY <2>1, <2>3, <3>1
    <3>4. SumFunctionOnSet(s, T \ {Max(T)}) \in Nat /\ s[Max(T)] \in Nat
      BY <1>1, <3>1, SumType
    <3>5. QED
      BY <3>2, <3>3, <3>4
  <2>4. SUBSET D \subseteq A
    <3> HIDE DEF A, D
    <3>1. QED
      BY <1>1, <2>2, <2>3, SubsetInduction
  <2>5. QED
    BY <2>4
<1>4. QED
  BY <1>2, <1>3

----------------------------------------------------------------------------
(***************************************************************************)
(* Arithmetic.                                                             *)
(***************************************************************************)

(* Multiplying an inequality by a natural number, and cancelling one.       *)
LEMMA TimesMonotone ==
  ASSUME NEW x \in Int, NEW y \in Int, NEW z \in Nat, x <= y
  PROVE  z * x <= z * y
<1>1. y - x \in Nat
  OBVIOUS
<1>2. z * (y - x) \in Nat
  BY <1>1
<1>3. z * (y - x) = z * y - z * x
  OBVIOUS
<1>4. QED
  BY <1>2, <1>3

(* Cancelling a positive factor of an inequality.                           *)
LEMMA TimesCancel ==
  ASSUME NEW x \in Int, NEW y \in Int, NEW z \in Nat, z > 0, z * x <= z * y
  PROVE  x <= y
<1> SUFFICES ASSUME x > y PROVE FALSE
  OBVIOUS
<1>1. z * (y + 1) <= z * x
  BY TimesMonotone, y + 1 \in Int, y + 1 <= x
<1>2. z * (y + 1) = z * y + z
  OBVIOUS
<1>3. z * x \in Int /\ z * y \in Int
  OBVIOUS
<1>4. QED
  BY <1>1, <1>2, <1>3
=============================================================================
