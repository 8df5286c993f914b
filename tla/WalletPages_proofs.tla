-------------------------- MODULE WalletPages_proofs --------------------------
(***************************************************************************)
(* Proofs about WalletPages: a queue of claims is claimed one after the    *)
(* other, each order once, and goes on by itself only behind a claim; the  *)
(* row of a live order of the wallet can be cancelled; and what is sent to *)
(* be taken, a part of an order or a cycle, is accepted and pays, however  *)
(* old the rows it was made from.                                          *)
(***************************************************************************)
EXTENDS WalletPages, SmartFill_proofs

----------------------------------------------------------------------------
(***************************************************************************)
(* Positions.                                                              *)
(***************************************************************************)
(* kept lists what s has at the places I, one for each place.              *)
LEMMA KeptPlaces ==
  ASSUME NEW X, NEW s \in Seq(X), NEW I \in SUBSET (DOMAIN s)
  PROVE  /\ kept(s, I) \in Seq(X)
         /\ Len(kept(s, I)) = Cardinality(I)
         /\ \E at \in [1..Cardinality(I) -> I] :
              /\ IsInjective(at)
              /\ \A n \in 1..Cardinality(I) : kept(s, I)[n] = s[at[n]]
              /\ \A i \in I : \E n \in 1..Cardinality(I) : at[n] = i
<1> DEFINE R     == {e \in Int \X Int : e[1] < e[2]}
           at(n) == CHOOSE i \in I : Cardinality({j \in I : j < i}) = n - 1
           f     == [n \in 1..Cardinality(I) |-> at(n)]
<1>1. /\ IsFiniteSet(I) /\ Cardinality(I) \in Nat /\ I \subseteq Int
  BY PlacesFinite
<1>2. TotallyOrders(R, I) /\ \A i \in I : before(R, I, i) = {j \in I : j < i}
  BY <1>1, NumbersOrdered
<1> HIDE DEF R
<1>3. ASSUME NEW n \in 1..Cardinality(I)
      PROVE  at(n) \in I /\ Cardinality({j \in I : j < at(n)}) = n - 1
  <2>1. n - 1 \in Nat /\ n - 1 < Cardinality(I)
    BY <1>1
  <2>2. \E i \in I : Cardinality(before(R, I, i)) = n - 1
    BY <1>1, <1>2, <2>1, RanksFill
  <2>3. \E i \in I : Cardinality({j \in I : j < i}) = n - 1
    BY <1>2, <2>2
  <2>4. QED
    BY <2>3
<1>4. f \in [1..Cardinality(I) -> I]
  BY <1>3
<1>5. ASSUME NEW m \in 1..Cardinality(I), NEW n \in 1..Cardinality(I), f[m] = f[n] PROVE m = n
  <2>1. m - 1 = n - 1
    BY <1>3, <1>5
  <2>2. m \in Int /\ n \in Int
    BY <1>1
  <2>3. QED
    BY <2>1, <2>2
<1>6. IsInjective(f)
  <2> HIDE DEF f
  <2>1. QED
    BY <1>4, <1>5 DEF IsInjective
<1>7. kept(s, I) = [n \in 1..Cardinality(I) |-> s[f[n]]]
  BY DEF kept
<1>8. \A i \in I : s[i] \in X
  OBVIOUS
<1> HIDE DEF f
<1>9. kept(s, I) \in Seq(X) /\ Len(kept(s, I)) = Cardinality(I)
  <2>1. PICK m \in Nat : m = Cardinality(I)
    BY <1>1
  <2>2. \A n \in 1..m : s[f[n]] \in X
    BY <1>4, <1>8, <2>1
  <2>3. PICK t : t = [n \in 1..m |-> s[f[n]]]
    OBVIOUS
  <2>4. t \in Seq(X) /\ Len(t) = m
    BY <2>2, <2>3
  <2>5. QED
    BY <1>7, <2>1, <2>3, <2>4
<1>10. \A n \in 1..Cardinality(I) : kept(s, I)[n] = s[f[n]]
  BY <1>7
<1>11. f \in Injection(1..Cardinality(I), I)
  BY <1>4, <1>6 DEF Injection
<1>12. f \in Surjection(1..Cardinality(I), I)
  <2>1. IsFiniteSet(1..Cardinality(I)) /\ Cardinality(1..Cardinality(I)) = Cardinality(I)
    BY <1>1, FS_Interval
  <2>2. QED
    BY <1>1, <1>11, <2>1, FS_Injection
<1>13. \A i \in I : \E n \in 1..Cardinality(I) : f[n] = i
  BY <1>12 DEF Surjection
<1>14. QED
  BY <1>4, <1>6, <1>9, <1>10, <1>13

(* Each root of a row is listed once.                                      *)
LEMMA RootsListed ==
  ASSUME NEW X, NEW rows \in Seq(X)
  PROVE  /\ rootsOf(rows) \in Seq({rootOf(rows[i]) : i \in DOMAIN rows})
         /\ IsInjective(rootsOf(rows))
         /\ \A i \in DOMAIN rows : \E n \in DOMAIN rootsOf(rows) : rootsOf(rows)[n] = rootOf(rows[i])
<1> DEFINE D == DOMAIN rows
           R == {rootOf(rows[i]) : i \in D}
           Y == {rows[i] : i \in D}
           V == {w \in Seq(R) : IsInjective(w)}
           add(w, r) == IF Contains(w, rootOf(r)) THEN w ELSE Append(w, rootOf(r))
           F == [e \in Y \X V |-> add(e[2], e[1])]
           eq(g) == g = [T \in SUBSET D |->
                           IF T = {} THEN << >> ELSE add(g[T \ {Max(T)}], rows[Max(T)])]
           iter == CHOOSE g : eq(g)
<1>1. rootsOf(rows) = iter[D]
  BY DEF rootsOf, FoldLeft, MapThenFoldSet
<1>2. << >> \in V
  BY DEF IsInjective
<1>3. ASSUME NEW w \in V, NEW r \in Y PROVE add(w, r) \in V
  <2>1. rootOf(r) \in R /\ w \in Seq(R)
    OBVIOUS
  <2>2. CASE ~Contains(w, rootOf(r))
    <3> DEFINE a == rootOf(r)
               v == Append(w, a)
    <3> HIDE DEF a
    <3>1. a \in R /\ w \in Seq(R) /\ IsInjective(w) /\ \A i \in 1..Len(w) : w[i] # a
      BY <2>1, <2>2 DEF Contains, a
    <3> HIDE DEF R
    <3>2. v \in Seq(R) /\ DOMAIN v = 1..(Len(w) + 1) /\ v[Len(w) + 1] = a
          /\ \A i \in 1..Len(w) : v[i] = w[i]
      BY <3>1
    <3>3. Len(w) \in Nat /\ DOMAIN w = 1..Len(w)
      BY <3>1
    <3> HIDE DEF v
    <3>4. \A i, j \in DOMAIN v : v[i] = v[j] => i = j
      <4> SUFFICES ASSUME NEW i \in DOMAIN v, NEW j \in DOMAIN v, v[i] = v[j] PROVE i = j
        OBVIOUS
      <4>1. /\ i \in 1..Len(w) \/ i = Len(w) + 1
            /\ j \in 1..Len(w) \/ j = Len(w) + 1
        BY <3>2, <3>3
      <4>2. CASE i \in 1..Len(w) /\ j \in 1..Len(w)
        BY <3>1, <3>2, <3>3, <4>2 DEF IsInjective
      <4>3. CASE i = Len(w) + 1 \/ j = Len(w) + 1
        BY <3>1, <3>2, <4>1, <4>3
      <4>4. QED
        BY <4>1, <4>2, <4>3
    <3>5. IsInjective(v)
      BY <3>4 DEF IsInjective
    <3>6. QED
      BY <2>2, <3>2, <3>5 DEF a, v
  <2>3. QED
    BY <2>2
<1>4. F \in [Y \X V -> V]
  <2> HIDE DEF V, Y, add
  <2>1. QED
    BY <1>3
<1>5. rows \in Seq(Y) /\ D = 1..Len(rows) /\ Len(rows) \in Nat
  OBVIOUS
<1>6. PICK g : LeftFolds(g, rows, << >>, V, F)
  <2> HIDE DEF F, V, Y
  <2>1. QED
    BY <1>2, <1>4, <1>5, LeftFold
<1>7. \A T \in SUBSET D : T # {} => Max(T) \in D
  BY <1>5, PlacesFinite, LargestIn
<1>8. ASSUME NEW h \in [SUBSET D -> V], NEW T \in SUBSET D, T # {}
      PROVE  F[<<rows[Max(T)], h[T \ {Max(T)}]>>] = add(h[T \ {Max(T)}], rows[Max(T)])
  <2>1. rows[Max(T)] \in Y /\ h[T \ {Max(T)}] \in V
    BY <1>7, <1>8
  <2> HIDE DEF add, V, Y
  <2>2. QED
    BY <2>1
<1>9. eq(g)
  <2> HIDE DEF F, V, Y, add
  <2>1. g \in [SUBSET D -> V]
        /\ \A T \in SUBSET D : g[T] = IF T = {} THEN << >> ELSE F[<<rows[Max(T)], g[T \ {Max(T)}]>>]
    BY <1>6 DEF LeftFolds
  <2>2. QED
    BY <2>1, <1>8
<1>10. eq(iter)
  <2> HIDE DEF eq
  <2>1. QED
    BY <1>9
<1> HIDE DEF iter
<1>11. SUBSET D \subseteq {T \in SUBSET D : iter[T] \in V}
  <2> DEFINE A == {T \in SUBSET D : iter[T] \in V}
  <2>1. {} \in A
    BY <1>2, <1>10
  <2>2. ASSUME NEW T \in SUBSET D, T # {}, \A x \in T : T \ {x} \in A PROVE T \in A
    <3>1. Max(T) \in T
      BY <1>5, <2>2, PlacesFinite, LargestIn
    <3>2. iter[T] = add(iter[T \ {Max(T)}], rows[Max(T)])
      BY <1>10, <2>2
    <3>3. iter[T \ {Max(T)}] \in V /\ rows[Max(T)] \in Y
      BY <2>2, <3>1
    <3> HIDE DEF add, V, Y
    <3>4. QED
      BY <1>3, <3>2, <3>3
  <2>3. IsFiniteSet(D)
    BY <1>5, PlacesFinite
  <2> HIDE DEF A, D
  <2>4. SUBSET D \subseteq A
    BY <2>1, <2>2, <2>3, SubsetInduction
  <2>5. QED
    BY <2>4 DEF A
<1>12. ASSUME NEW w \in V, NEW r \in Y
       PROVE  /\ Contains(add(w, r), rootOf(r))
              /\ \A x : Contains(w, x) => Contains(add(w, r), x)
  <2> DEFINE a == rootOf(r)
             v == Append(w, a)
  <2>1. w \in Seq(R)
    OBVIOUS
  <2> HIDE DEF a, R, V, Y
  <2>2. a \in R
    BY DEF R, Y, a
  <2>3. /\ DOMAIN v = 1..(Len(w) + 1) /\ v[Len(w) + 1] = a /\ Len(v) = Len(w) + 1
        /\ \A i \in 1..Len(w) : v[i] = w[i]
        /\ Len(w) \in Nat
    BY <2>1, <2>2
  <2> HIDE DEF v
  <2>4. Contains(v, a) /\ \A x : Contains(w, x) => Contains(v, x)
    BY <2>3 DEF Contains
  <2>5. CASE Contains(w, a)
    BY <2>5 DEF a
  <2>6. CASE ~Contains(w, a)
    BY <2>4, <2>6 DEF a, v
  <2>7. QED
    BY <2>5, <2>6
<1>13. SUBSET D \subseteq {T \in SUBSET D : \A i \in T : Contains(iter[T], rootOf(rows[i]))}
  <2> DEFINE A == {T \in SUBSET D : \A i \in T : Contains(iter[T], rootOf(rows[i]))}
  <2>1. {} \in A
    OBVIOUS
  <2>2. ASSUME NEW T \in SUBSET D, T # {}, \A x \in T : T \ {x} \in A PROVE T \in A
    <3>1. Max(T) \in T
      BY <1>5, <2>2, PlacesFinite, LargestIn
    <3>2. iter[T] = add(iter[T \ {Max(T)}], rows[Max(T)])
      BY <1>10, <2>2
    <3>3. iter[T \ {Max(T)}] \in V /\ rows[Max(T)] \in Y
      BY <1>11, <3>1
    <3>4. \A i \in T \ {Max(T)} : Contains(iter[T \ {Max(T)}], rootOf(rows[i]))
      BY <2>2, <3>1
    <3> HIDE DEF add, V, Y
    <3>5. \A i \in T : Contains(iter[T], rootOf(rows[i]))
      BY <1>12, <3>2, <3>3, <3>4
    <3>6. QED
      BY <3>5
  <2>3. IsFiniteSet(D)
    BY <1>5, PlacesFinite
  <2> HIDE DEF A, D
  <2>4. SUBSET D \subseteq A
    BY <2>1, <2>2, <2>3, SubsetInduction
  <2>5. QED
    BY <2>4 DEF A
<1>14. iter[D] \in Seq(R) /\ IsInjective(iter[D])
  BY <1>11
<1>15. \A i \in D : Contains(iter[D], rootOf(rows[i]))
  BY <1>13
<1>16. DOMAIN iter[D] = 1..Len(iter[D])
  <2> HIDE DEF R
  <2>1. QED
    BY <1>14
<1>17. \A i \in D : \E n \in DOMAIN iter[D] : iter[D][n] = rootOf(rows[i])
  BY <1>15, <1>16 DEF Contains
<1>18. QED
  BY <1>1, <1>14, <1>17

(* The head of a position, and what extends its chain, are of its members. *)
LEMMA HeadIsMember ==
  ASSUME NEW X, NEW members \in Seq(X), members # << >>, NEW r
  PROVE  head(r, members) \in {members[i] : i \in DOMAIN members}
<1> DEFINE rooted == {i \in DOMAIN members : members[i].id = r}
           atop == {i \in DOMAIN members : members[i].parentOrderId \notin idsOf(members)}
           first_ == IF rooted # {} THEN Min(rooted) ELSE IF atop # {} THEN Min(atop) ELSE 1
<1>1. DOMAIN members = 1..Len(members) /\ Len(members) \in Nat /\ 1 \in DOMAIN members
  BY EmptySeq
<1>2. rooted \in SUBSET (DOMAIN members) /\ atop \in SUBSET (DOMAIN members)
      /\ rooted \subseteq Nat /\ atop \subseteq Nat
  BY <1>1
<1>3. first_ \in DOMAIN members
  <2> HIDE DEF rooted, atop
  <2>1. QED
    BY <1>1, <1>2, PlacesFinite, SmallestIn
<1>4. head(r, members) = members[first_]
  BY DEF head
<1>5. QED
  BY <1>3, <1>4

LEMMA ExtendedByMember ==
  ASSUME NEW X, NEW members \in Seq(X), NEW Y, Y = {members[i] : i \in DOMAIN members},
         NEW w \in Seq(Y), w # << >>
  PROVE  extended(members, w) \in Seq(Y) /\ extended(members, w) # << >>
<1> DEFINE children == {i \in DOMAIN members : members[i].parentOrderId = Last(w).id}
           m == members[Max(children)]
<1>1. children # {} => m \in Y
  <2>1. children \in SUBSET (DOMAIN members)
    OBVIOUS
  <2>2. children # {} => Max(children) \in children
    <3> HIDE DEF children
    <3>1. QED
      BY <2>1, PlacesFinite, LargestIn
  <2>3. QED
    BY <2>1, <2>2
<1>2. extended(members, w) = w \/ (children # {} /\ extended(members, w) = Append(w, m))
  BY DEF extended
<1> HIDE DEF m, children
<1>3. CASE extended(members, w) = w
  BY <1>3
<1>4. CASE children # {} /\ extended(members, w) = Append(w, m)
  <2>1. m \in Y
    BY <1>1, <1>4
  <2>2. Append(w, m) \in Seq(Y) /\ Append(w, m) # << >>
    BY <2>1
  <2>3. QED
    BY <1>4, <2>2
<1>5. QED
  BY <1>2, <1>3, <1>4

(* The links of a position are followed from its head, as often as it has  *)
(* members; the members that they do not reach come last.                  *)
Linked(links, r, members) ==
  LET Y == {members[i] : i \in DOMAIN members}
      V == {w \in Seq(Y) : w # << >>}
  IN
  /\ links \in [SUBSET (DOMAIN members) -> V]
  /\ links[{}] = <<head(r, members)>>
  /\ \A T \in SUBSET (DOMAIN members) :
       T # {} => links[T] = extended(members, links[T \ {Max(T)}])
  /\ orderChain(r, members) =
       links[DOMAIN members] \o
         kept(members, {i \in DOMAIN members : members[i].id \notin idsOf(links[DOMAIN members])})

LEMMA LinksFollowed ==
  ASSUME NEW X, NEW members \in Seq(X), members # << >>, NEW r
  PROVE  \E links : Linked(links, r, members)
<1> DEFINE D == DOMAIN members
           Y == {members[i] : i \in D}
           V == {w \in Seq(Y) : w # << >>}
           base == <<head(r, members)>>
           F == [e \in Y \X V |-> extended(members, e[2])]
           eq(g) == g = [T \in SUBSET D |->
                           IF T = {} THEN base ELSE extended(members, g[T \ {Max(T)}])]
           iter == CHOOSE g : eq(g)
           linked == iter[D]
           others == kept(members, {i \in D : members[i].id \notin idsOf(linked)})
<1>1. orderChain(r, members) = linked \o others
  BY DEF orderChain, FoldLeft, MapThenFoldSet
<1>2. base \in V
  BY HeadIsMember
<1>3. ASSUME NEW w \in V PROVE extended(members, w) \in V
  BY ExtendedByMember
<1>4. F \in [Y \X V -> V]
  <2> HIDE DEF V, Y
  <2>1. QED
    BY <1>3
<1>5. members \in Seq(Y)
  OBVIOUS
<1>6. PICK g : LeftFolds(g, members, base, V, F)
  <2> HIDE DEF F, V, Y, base
  <2>1. QED
    BY <1>2, <1>4, <1>5, LeftFold
<1>7. \A T \in SUBSET D : T # {} => Max(T) \in T
  BY <1>5, PlacesFinite, LargestIn
<1>8. ASSUME NEW h \in [SUBSET D -> V], NEW T \in SUBSET D, T # {}
      PROVE  F[<<members[Max(T)], h[T \ {Max(T)}]>>] = extended(members, h[T \ {Max(T)}])
  <2>1. members[Max(T)] \in Y /\ h[T \ {Max(T)}] \in V
    BY <1>7, <1>8
  <2> HIDE DEF V, Y
  <2>2. QED
    BY <2>1
<1>9. eq(g)
  <2> HIDE DEF F, V, Y, base
  <2>1. g \in [SUBSET D -> V]
        /\ \A T \in SUBSET D : g[T] = IF T = {} THEN base ELSE F[<<members[Max(T)], g[T \ {Max(T)}]>>]
    BY <1>6 DEF LeftFolds
  <2>2. QED
    BY <2>1, <1>8
<1>10. eq(iter)
  <2> HIDE DEF eq
  <2>1. QED
    BY <1>9
<1> HIDE DEF iter
<1>11. SUBSET D \subseteq {T \in SUBSET D : iter[T] \in V}
  <2> DEFINE A == {T \in SUBSET D : iter[T] \in V}
  <2>1. {} \in A
    BY <1>2, <1>10
  <2>2. ASSUME NEW T \in SUBSET D, T # {}, \A x \in T : T \ {x} \in A PROVE T \in A
    <3>1. iter[T] = extended(members, iter[T \ {Max(T)}])
      BY <1>10, <2>2
    <3>2. iter[T \ {Max(T)}] \in V
      BY <1>7, <2>2
    <3> HIDE DEF V, Y
    <3>3. QED
      BY <1>3, <3>1, <3>2
  <2>3. IsFiniteSet(D)
    BY <1>5, PlacesFinite
  <2> HIDE DEF A, D
  <2>4. SUBSET D \subseteq A
    BY <2>1, <2>2, <2>3, SubsetInduction
  <2>5. QED
    BY <2>4 DEF A
<1> HIDE DEF V, Y
<1>12. iter \in [SUBSET D -> V]
  BY <1>10, <1>11
<1>13. iter[{}] = base /\ \A T \in SUBSET D : T # {} => iter[T] = extended(members, iter[T \ {Max(T)}])
  BY <1>10
<1>14. Linked(iter, r, members)
  BY <1>1, <1>12, <1>13 DEF Linked, V, Y
<1>15. QED
  BY <1>14

(* The chain of a position has nothing but its members.                    *)
LEMMA ChainOfMembers ==
  ASSUME NEW X, NEW members \in Seq(X), members # << >>, NEW r
  PROVE  /\ orderChain(r, members) \in Seq({members[i] : i \in DOMAIN members})
         /\ orderChain(r, members) # << >>
<1> DEFINE D == DOMAIN members
           Y == {members[i] : i \in D}
<1>1. PICK links : Linked(links, r, members)
  BY LinksFollowed
<1> DEFINE linked == links[D]
           others == kept(members, {i \in D : members[i].id \notin idsOf(linked)})
<1>2. orderChain(r, members) = linked \o others /\ linked \in Seq(Y) /\ linked # << >>
  BY <1>1 DEF Linked
<1>3. members \in Seq(Y)
  OBVIOUS
<1>4. others \in Seq(Y)
  <2> HIDE DEF Y, linked
  <2>1. QED
    BY <1>3, KeptPlaces
<1> HIDE DEF linked, others, Y
<1>5. linked \o others \in Seq(Y) /\ linked \o others # << >>
  BY <1>2, <1>4
<1>6. QED
  BY <1>2, <1>5 DEF Y

(* The tip of the position of a root is a row of that root.                *)
LEMMA TipOfRoot ==
  ASSUME NEW X, NEW rows \in Seq(X), NEW r, NEW k \in DOMAIN rows, rootOf(rows[k]) = r
  PROVE  \E i \in DOMAIN rows : position(rows, r).tip = rows[i] /\ rootOf(rows[i]) = r
<1> DEFINE I == {i \in DOMAIN rows : rootOf(rows[i]) = r}
           members == kept(rows, I)
           Y == {members[i] : i \in DOMAIN members}
           links == orderChain(r, members)
<1>1. I \in SUBSET (DOMAIN rows) /\ IsFiniteSet(I) /\ I # {} /\ Cardinality(I) \in Nat
  BY PlacesFinite
<1>2. Cardinality(I) # 0
  BY <1>1, FS_EmptySet
<1>3. /\ members \in Seq(X) /\ Len(members) = Cardinality(I)
      /\ \E at \in [1..Cardinality(I) -> I] : \A n \in 1..Cardinality(I) : members[n] = rows[at[n]]
  <2> HIDE DEF I
  <2>1. QED
    BY <1>1, KeptPlaces
<1> HIDE DEF members
<1>4. members # << >> /\ DOMAIN members = 1..Cardinality(I)
  BY <1>1, <1>2, <1>3
<1>5. links \in Seq(Y) /\ links # << >>
  <2>1. members \in Seq(X) /\ members # << >>
    BY <1>3, <1>4
  <2>2. QED
    BY <2>1, ChainOfMembers, Zenon
<1>6. position(rows, r).tip = links[Len(links)]
  BY DEF position, Last, members, I
<1> HIDE DEF links
<1>7. links[Len(links)] \in Y
  <2> HIDE DEF Y
  <2>1. Len(links) \in DOMAIN links
    BY <1>5, EmptySeq
  <2>2. QED
    BY <1>5, <2>1
<1>8. PICK n \in 1..Cardinality(I) : position(rows, r).tip = members[n]
  BY <1>4, <1>6, <1>7
<1>9. PICK at \in [1..Cardinality(I) -> I] : members[n] = rows[at[n]]
  BY <1>3
<1>10. at[n] \in DOMAIN rows /\ rootOf(rows[at[n]]) = r
  BY <1>9
<1>11. QED
  BY <1>8, <1>9, <1>10

(* Rows as the page of the wallet's own orders shows them: no order twice. *)
DistinctRows(s) ==
  /\ s \in Seq({s[i] : i \in DOMAIN s})
  /\ \A i \in DOMAIN s : s[i].id \in Int
  /\ \A i, j \in DOMAIN s : s[i].id = s[j].id => i = j

(* No two positions end in the same order.                                 *)
LEMMA TipsDiffer ==
  ASSUME NEW s, DistinctRows(s)
  PROVE  LET ps == groupPositions(s) IN
         /\ ps \in Seq({ps[i] : i \in DOMAIN ps})
         /\ \A i \in DOMAIN ps : ps[i].tip.id \in Int
         /\ \A i, j \in DOMAIN ps : ps[i].tip.id = ps[j].tip.id => i = j
<1> DEFINE roots == rootsOf(s)
           R == {rootOf(s[i]) : i \in DOMAIN s}
           Y == {s[i] : i \in DOMAIN s}
           ps == groupPositions(s)
<1>1. s \in Seq(Y)
  BY DEF DistinctRows
<1>2. roots \in Seq(R) /\ IsInjective(roots)
  BY <1>1, RootsListed
<1>3. ps = [i \in DOMAIN roots |-> position(s, roots[i])]
  BY DEF groupPositions
<1> HIDE DEF roots, ps
<1>4. DOMAIN roots = 1..Len(roots) /\ Len(roots) \in Nat /\ \A i \in DOMAIN roots : roots[i] \in R
  <2> HIDE DEF R
  <2>1. QED
    BY <1>2
<1>5. ASSUME NEW i \in DOMAIN ps
      PROVE  \E k \in DOMAIN s : ps[i].tip = s[k] /\ rootOf(s[k]) = roots[i]
  <2>1. PICK k \in DOMAIN s : rootOf(s[k]) = roots[i]
    BY <1>3, <1>4
  <2>2. ps[i] = position(s, roots[i])
    BY <1>3
  <2> HIDE DEF Y
  <2>3. \E l \in DOMAIN s : position(s, roots[i]).tip = s[l] /\ rootOf(s[l]) = roots[i]
    BY <1>1, <2>1, TipOfRoot
  <2>4. QED
    BY <2>2, <2>3
<1>6. \A i \in DOMAIN ps : ps[i].tip.id \in Int
  BY <1>5 DEF DistinctRows
<1>7. ASSUME NEW i \in DOMAIN ps, NEW j \in DOMAIN ps, ps[i].tip.id = ps[j].tip.id PROVE i = j
  <2>1. PICK k \in DOMAIN s : ps[i].tip = s[k] /\ rootOf(s[k]) = roots[i]
    BY <1>5
  <2>2. PICK l \in DOMAIN s : ps[j].tip = s[l] /\ rootOf(s[l]) = roots[j]
    BY <1>5
  <2>3. k = l
    BY <1>7, <2>1, <2>2 DEF DistinctRows
  <2>4. roots[i] = roots[j] /\ i \in DOMAIN roots /\ j \in DOMAIN roots
    BY <1>3, <2>1, <2>2, <2>3
  <2>5. QED
    BY <1>2, <2>4 DEF IsInjective
<1>8. ps \in Seq({ps[i] : i \in DOMAIN ps})
  BY <1>3, <1>4
<1>9. QED
  BY <1>6, <1>7, <1>8 DEF ps

(* The claims of a click are of different orders.                          *)
LEMMA SelectedDiffer ==
  ASSUME DistinctRows(shown)
  PROVE  selectedTips \in Seq(Int) /\ IsInjective(selectedTips)
<1> DEFINE ps == groupPositions(shown)
           I == {i \in DOMAIN ps : positionStatus(ps[i], clock).expired}
           Z == {ps[i] : i \in DOMAIN ps}
           gone == kept(ps, I)
           tips == [i \in DOMAIN gone |-> gone[i].tip.id]
           J == {i \in DOMAIN tips : tips[i] \notin deselected}
<1>1. /\ ps \in Seq(Z) /\ \A i \in DOMAIN ps : ps[i].tip.id \in Int
      /\ \A i, j \in DOMAIN ps : ps[i].tip.id = ps[j].tip.id => i = j
  BY TipsDiffer
<1>2. expiredTips = tips /\ selectedTips = kept(tips, J)
  BY DEF expiredTips, selectedTips
<1> HIDE DEF ps, Z
<1>3. I \in SUBSET (DOMAIN ps) /\ Cardinality(I) \in Nat
  BY <1>1, PlacesFinite
<1> HIDE DEF I
<1>4. gone \in Seq(Z) /\ Len(gone) = Cardinality(I)
  BY <1>1, <1>3, KeptPlaces
<1>5. PICK at \in [1..Cardinality(I) -> I] :
        IsInjective(at) /\ \A n \in 1..Cardinality(I) : gone[n] = ps[at[n]]
  BY <1>1, <1>3, KeptPlaces
<1> HIDE DEF gone
<1>6. DOMAIN gone = 1..Cardinality(I)
  BY <1>4
<1>7. /\ DOMAIN tips = 1..Cardinality(I)
      /\ \A n \in 1..Cardinality(I) : tips[n] = ps[at[n]].tip.id /\ at[n] \in DOMAIN ps
  BY <1>3, <1>5, <1>6
<1>8. tips \in Seq(Int)
  <2>1. \A n \in 1..Cardinality(I) : tips[n] \in Int
    BY <1>1, <1>7
  <2>2. tips = [n \in 1..Cardinality(I) |-> tips[n]]
    BY <1>7
  <2> HIDE DEF tips
  <2>3. QED
    BY <1>3, <2>1, <2>2
<1>9. \A m, n \in DOMAIN tips : tips[m] = tips[n] => m = n
  BY <1>1, <1>5, <1>7 DEF IsInjective
<1>10. J \in SUBSET (DOMAIN tips)
  OBVIOUS
<1> HIDE DEF tips, J
<1>11. kept(tips, J) \in Seq(Int) /\ Len(kept(tips, J)) = Cardinality(J)
  BY <1>8, <1>10, KeptPlaces
<1>12. PICK a \in [1..Cardinality(J) -> J] :
         IsInjective(a) /\ \A n \in 1..Cardinality(J) : kept(tips, J)[n] = tips[a[n]]
  BY ONLY <1>8, <1>10, KeptPlaces
<1>13. DOMAIN kept(tips, J) = 1..Cardinality(J)
  BY <1>11
<1>14. \A m, n \in DOMAIN kept(tips, J) : kept(tips, J)[m] = kept(tips, J)[n] => m = n
  BY <1>9, <1>10, <1>12, <1>13 DEF IsInjective
<1>15. QED
  BY <1>2, <1>11, <1>14 DEF IsInjective

----------------------------------------------------------------------------
(***************************************************************************)
(* Chains along links.                                                     *)
(***************************************************************************)
(* Every row but the one that leads is linked to another of them.          *)
Leads(h, s) ==
  /\ h \in {s[i] : i \in DOMAIN s}
  /\ h.parentOrderId \in {None, h.id - RestId}
  /\ \A i \in DOMAIN s :
       s[i] # h => /\ s[i].parentOrderId = s[i].id - RestId
                   /\ \E j \in DOMAIN s : s[j].id = s[i].parentOrderId

(* The ids of a chain are RestId apart.                                    *)
InSteps(w, h) == \A k \in DOMAIN w : w[k].id = h.id + (k - 1) * RestId

Childless(row_, s) == \A i \in DOMAIN s : s[i].parentOrderId # row_.id

(* Each time that the links are followed the chain has one row more, until *)
(* its last has no child.                                                  *)
LEMMA ChainInSteps ==
  ASSUME NEW s, DistinctRows(s), s # << >>, NEW r, Leads(head(r, s), s),
         NEW links, Linked(links, r, s), NEW T \in SUBSET (DOMAIN s)
  PROVE  /\ InSteps(links[T], head(r, s))
         /\ Len(links[T]) = Cardinality(T) + 1 \/ Childless(Last(links[T]), s)
<1> DEFINE D == DOMAIN s
           Y == {s[i] : i \in D}
           h == head(r, s)
           good(U) == /\ InSteps(links[U], h)
                      /\ Len(links[U]) = Cardinality(U) + 1 \/ Childless(Last(links[U]), s)
           A == {U \in SUBSET D : good(U)}
<1>1. s \in Seq(Y)
  BY DEF DistinctRows
<1>2. h \in Y /\ h.id \in Int
  BY DEF Leads, DistinctRows
<1>3. \A U \in SUBSET D : links[U] \in Seq(Y) /\ links[U] # << >>
  BY DEF Linked
<1>4. links[{}] = <<h>> /\ \A U \in SUBSET D : U # {} => links[U] = extended(s, links[U \ {Max(U)}])
  BY DEF Linked
<1>5. ASSUME NEW i \in D, NEW w \in Seq(Y), w # << >>, InSteps(w, h),
             s[i].parentOrderId = Last(w).id
      PROVE  s[i].id = h.id + Len(w) * RestId
  <2>1. Len(w) \in Nat /\ Len(w) \in DOMAIN w /\ Last(w) = w[Len(w)]
    BY <1>5, EmptySeq DEF Last
  <2>2. Last(w).id = h.id + (Len(w) - 1) * RestId /\ Last(w).id \in Int
    BY <1>2, <1>5, <2>1 DEF InSteps, RestId
  <2>3. s[i].parentOrderId # None
    BY <1>5, <2>2, NoneAssumption
  <2>4. s[i].parentOrderId = s[i].id - RestId /\ s[i].id \in Int
    BY <2>3 DEF Leads, DistinctRows
  <2>5. QED
    BY <1>2, <1>5, <2>1, <2>2, <2>4 DEF RestId
<1> HIDE DEF h, Y
<1>6. {} \in A
  <2>1. InSteps(<<h>>, h)
    BY <1>2 DEF InSteps, RestId
  <2>2. Len(<<h>>) = 1 /\ Cardinality({}) = 0
    BY FS_EmptySet
  <2>3. good({})
    BY <1>4, <2>1, <2>2
  <2>4. QED
    BY <2>3
<1>7. ASSUME NEW U \in SUBSET D, U # {}, \A x \in U : U \ {x} \in A PROVE U \in A
  <2> DEFINE w == links[U \ {Max(U)}]
             children == {i \in D : s[i].parentOrderId = Last(w).id}
             m == s[Max(children)]
  <2>1. Max(U) \in U /\ IsFiniteSet(U)
    BY <1>1, <1>7, PlacesFinite, LargestIn
  <2>2. good(U \ {Max(U)}) /\ links[U] = extended(s, w)
    BY <1>4, <1>7, <2>1
  <2>3. Cardinality(U) \in Nat /\ Cardinality(U \ {Max(U)}) = Cardinality(U) - 1
    BY <2>1, FS_RemoveElement, FS_CardinalityType
  <2>4. w \in Seq(Y) /\ w # << >> /\ Len(w) \in Nat /\ DOMAIN w = 1..Len(w)
    <3>1. U \ {Max(U)} \in SUBSET D
      OBVIOUS
    <3>2. w \in Seq(Y) /\ w # << >>
      BY <1>3, <3>1
    <3> HIDE DEF w
    <3>3. QED
      BY <3>2
  <2>5. extended(s, w) = IF children = {} THEN w ELSE IF m.id \in idsOf(w) THEN w ELSE Append(w, m)
    BY DEF extended
  <2>6. InSteps(w, h) /\ (Len(w) = Cardinality(U) \/ Childless(Last(w), s))
    BY <2>2, <2>3
  <2>7. children = {} <=> Childless(Last(w), s)
    BY DEF Childless
  <2>8. ASSUME children # {}
        PROVE  m \in Y /\ m.id = h.id + Len(w) * RestId
    <3>1. Max(children) \in D /\ s[Max(children)].parentOrderId = Last(w).id
      <4>1. children \in SUBSET D
        OBVIOUS
      <4>2. IsFiniteSet(children) /\ children \subseteq Int
        <5> HIDE DEF children
        <5>1. QED
          BY <1>1, <4>1, PlacesFinite
      <4>3. Max(children) \in children
        <5> HIDE DEF children
        <5>1. QED
          BY <2>8, <4>2, LargestIn
      <4>4. QED
        BY <4>3
    <3> HIDE DEF children, w
    <3>2. QED
      BY <1>5, <2>4, <2>6, <3>1 DEF Y
  <2> HIDE DEF w, m, children
  <2>9. CASE children = {}
    <3>1. links[U] = w /\ Childless(Last(w), s)
      BY <2>2, <2>5, <2>7, <2>9
    <3>2. QED
      BY <2>6, <3>1
  <2>10. CASE children # {}
    <3>1. m.id \notin idsOf(w)
      <4> SUFFICES ASSUME NEW k \in DOMAIN w, w[k].id = m.id PROVE FALSE
        BY DEF idsOf
      <4>1. k \in 1..Len(w) /\ h.id + (k - 1) * RestId = h.id + Len(w) * RestId
        BY <2>4, <2>6, <2>8, <2>10 DEF InSteps
      <4>2. QED
        BY <1>2, <2>4, <4>1 DEF RestId
    <3>2. links[U] = Append(w, m)
      BY <2>2, <2>5, <2>10, <3>1
    <3>3. Len(w) = Cardinality(U)
      BY <2>6, <2>7, <2>10
    <3> DEFINE v == Append(w, m)
    <3>4. /\ DOMAIN v = 1..(Len(w) + 1) /\ Len(v) = Len(w) + 1 /\ v[Len(w) + 1] = m
          /\ \A k \in 1..Len(w) : v[k] = w[k]
      BY <2>4, <2>8, <2>10
    <3> HIDE DEF v
    <3>5. InSteps(v, h)
      <4> SUFFICES ASSUME NEW k \in DOMAIN v PROVE v[k].id = h.id + (k - 1) * RestId
        BY DEF InSteps
      <4>1. CASE k \in 1..Len(w)
        BY <2>4, <2>6, <3>4, <4>1 DEF InSteps
      <4>2. CASE k = Len(w) + 1
        <5>1. k - 1 = Len(w)
          BY <2>4, <4>2
        <5>2. QED
          BY <2>8, <2>10, <3>4, <4>2, <5>1
      <4>3. QED
        BY <2>4, <3>4, <4>1, <4>2
    <3>6. good(U)
      BY <3>2, <3>3, <3>4, <3>5 DEF v
    <3>7. QED
      BY <3>6
  <2>11. QED
    BY <2>9, <2>10
<1>8. IsFiniteSet(D)
  BY <1>1, PlacesFinite
<1> HIDE DEF good
<1>9. SUBSET D \subseteq A
  <2> HIDE DEF A, D
  <2>1. QED
    BY <1>6, <1>7, <1>8, SubsetInduction
<1>10. QED
  BY <1>9 DEF good, h

(* When the rows of a position are linked, all from one, the one that has  *)
(* no child is the tip.                                                    *)
LEMMA ChildlessIsTip ==
  ASSUME NEW s, DistinctRows(s), s # << >>, NEW r, Leads(head(r, s), s),
         NEW n \in DOMAIN s, Childless(s[n], s)
  PROVE  Last(orderChain(r, s)) = s[n]
<1> DEFINE D == DOMAIN s
           Y == {s[i] : i \in D}
           h == head(r, s)
<1>1. s \in Seq(Y) /\ D = 1..Len(s) /\ Len(s) \in Nat
  BY DEF DistinctRows
<1>2. PICK links : Linked(links, r, s)
  BY <1>1, LinksFollowed
<1> DEFINE w == links[D]
<1>3. w \in Seq(Y) /\ w # << >>
      /\ orderChain(r, s) = w \o kept(s, {i \in D : s[i].id \notin idsOf(w)})
  BY <1>2 DEF Linked
<1>4. InSteps(w, h) /\ (Len(w) = Cardinality(D) + 1 \/ Childless(Last(w), s))
  BY <1>2, ChainInSteps
<1>5. h \in Y /\ h.id \in Int
  BY DEF Leads, DistinctRows
<1>6. Cardinality(D) = Len(s) /\ IsFiniteSet(D)
  <2>1. \A m \in Nat : IsFiniteSet(1..m) /\ Cardinality(1..m) = m
    <3> TAKE m \in Nat
    <3>1. IsFiniteSet(1..m) /\ Cardinality(1..m) = IF 1 > m THEN 0 ELSE m - 1 + 1
      BY FS_Interval
    <3>2. QED
      BY <3>1
  <2>2. QED
    BY <1>1, <2>1
<1> HIDE DEF w, h
<1>7. Len(w) \in Nat /\ Len(w) \in DOMAIN w /\ DOMAIN w = 1..Len(w) /\ Last(w) = w[Len(w)]
  <2> HIDE DEF Y
  <2>1. QED
    BY <1>3, EmptySeq DEF Last
<1>8. \A k \in DOMAIN w : \E i \in D : w[k] = s[i]
  BY <1>3, <1>7
<1>9. ASSUME NEW k \in DOMAIN w, NEW l \in DOMAIN w, w[k].id = w[l].id PROVE k = l
  <2>1. h.id + (k - 1) * RestId = h.id + (l - 1) * RestId
    BY <1>4, <1>9 DEF InSteps
  <2>2. QED
    BY <1>5, <1>7, <2>1 DEF RestId
<1>10. Childless(Last(w), s)
  <2> SUFFICES ASSUME Len(w) = Cardinality(D) + 1 PROVE FALSE
    BY <1>4
  <2> DEFINE f == [k \in DOMAIN w |-> CHOOSE i \in D : w[k] = s[i]]
  <2>1. f \in [DOMAIN w -> D] /\ \A k \in DOMAIN w : w[k] = s[f[k]]
    BY <1>8
  <2> HIDE DEF f
  <2>2. IsFiniteSet(DOMAIN w) /\ Cardinality(DOMAIN w) = Len(w)
    BY <1>7, FS_Interval
  <2>3. Cardinality(D) < Cardinality(DOMAIN w)
    BY <1>1, <1>6, <2>2
  <2> HIDE DEF D
  <2>4. PICK k \in DOMAIN w, l \in DOMAIN w : k # l /\ f[k] = f[l]
    BY <1>6, <2>1, <2>2, <2>3, FS_PigeonHole
  <2>5. QED
    BY <1>9, <2>1, <2>4
<1>11. w[1] = h
  <2>1. 1 \in DOMAIN w
    BY <1>7
  <2>2. w[1].id = h.id + (1 - 1) * RestId
    BY <1>4, <2>1 DEF InSteps
  <2>3. w[1].id = h.id
    BY <1>5, <2>2 DEF RestId
  <2>4. QED
    BY <1>5, <1>8, <2>1, <2>3 DEF DistinctRows
<1>12. ASSUME NEW i \in D, s[i] # h
       PROVE  s[i].id \in Int /\ s[i].parentOrderId = s[i].id - RestId
              /\ \E j \in D : s[j].id = s[i].id - RestId
  BY <1>12 DEF Leads, DistinctRows, h
<1>13. \A i \in D : s[i].id \in idsOf(w)
  <2> DEFINE missing == {i \in D : s[i].id \notin idsOf(w)}
             f == [i \in missing |-> s[i].id]
             left == {f[i] : i \in DOMAIN f}
  <2> SUFFICES ASSUME missing # {} PROVE FALSE
    OBVIOUS
  <2>1. IsFiniteSet(missing)
    BY <1>6, FS_Subset
  <2>2. DOMAIN f = missing /\ f = [i \in DOMAIN f |-> f[i]]
    OBVIOUS
  <2>3. /\ \A i \in missing : s[i].id \in left /\ s[i].id \in Int
        /\ \A x \in left : \E i \in missing : x = s[i].id
    <3>1. \A i \in missing : f[i] = s[i].id /\ s[i].id \in Int
      BY DEF DistinctRows
    <3> HIDE DEF missing
    <3>2. QED
      BY <2>2, <3>1
  <2>31. left # {} /\ left \subseteq Int
    <3> HIDE DEF left, missing
    <3>1. QED
      BY <2>3
  <2>4. IsFiniteSet(left)
    <3> HIDE DEF f, missing
    <3>1. QED
      BY <2>1, <2>2, ImageFinite
  <2> HIDE DEF left
  <2>5. PICK i \in missing : s[i].id = Min(left)
    BY <2>3, <2>31, <2>4, SmallestIn
  <2>6. s[i] # h
    BY <1>7, <1>11 DEF idsOf
  <2>7. PICK j \in D : s[j].id = s[i].id - RestId
    BY <1>12, <2>6
  <2>8. j \notin missing
    <3>1. j \in missing => Min(left) <= s[j].id
      BY <2>3, <2>31, <2>4, SmallestIn
    <3>2. s[i].id \in Int
      BY <1>12, <2>6
    <3>3. QED
      BY <2>5, <2>7, <3>1, <3>2 DEF RestId
  <2>9. PICK k \in DOMAIN w : w[k].id = s[j].id
    BY <2>8 DEF idsOf
  <2>10. CASE k = Len(w)
    <3>1. s[i].parentOrderId = Last(w).id
      BY <1>7, <1>12, <2>6, <2>7, <2>9, <2>10
    <3>2. QED
      BY <1>10, <3>1 DEF Childless
  <2>11. CASE k # Len(w)
    <3>1. k + 1 \in DOMAIN w
      BY <1>7, <2>11
    <3>2. w[k + 1].id = h.id + k * RestId /\ w[k].id = h.id + (k - 1) * RestId
      BY <1>4, <1>7, <3>1 DEF InSteps
    <3>3. w[k + 1].id = s[i].id
      <4>1. s[i].id \in Int /\ k \in Int
        BY <1>7, <1>12, <2>6
      <4>2. QED
        BY <1>5, <2>7, <2>9, <3>2, <4>1 DEF RestId
    <3>4. QED
      BY <3>1, <3>3 DEF idsOf
  <2>12. QED
    BY <2>10, <2>11
<1>14. {i \in D : s[i].id \notin idsOf(w)} = {}
  BY <1>13
<1>15. kept(s, {}) = << >>
  <2>1. Cardinality({}) = 0
    BY FS_EmptySet
  <2>2. kept(s, {}) \in Seq(Y) /\ Len(kept(s, {})) = 0
    <3> HIDE DEF Y
    <3>1. QED
      BY <1>1, <2>1, KeptPlaces
  <2>3. QED
    BY <2>2, EmptySeq
<1>16. orderChain(r, s) = w
  <2>1. orderChain(r, s) = w \o << >>
    BY <1>3, <1>14, <1>15
  <2> HIDE DEF Y
  <2>2. QED
    BY <1>3, <2>1
<1>17. PICK k \in DOMAIN w : w[k] = s[n]
  <2>1. PICK k \in DOMAIN w : w[k].id = s[n].id
    BY <1>13 DEF idsOf
  <2>2. PICK i \in D : w[k] = s[i]
    BY <1>8
  <2>3. i = n
    BY <2>1, <2>2 DEF DistinctRows
  <2>4. QED
    BY <2>2, <2>3
<1>18. k = Len(w)
  <2> SUFFICES ASSUME k # Len(w) PROVE FALSE
    OBVIOUS
  <2>1. k + 1 \in DOMAIN w /\ k \in Nat \ {0}
    BY <1>7
  <2>2. w[k + 1].id = h.id + k * RestId /\ w[k].id = h.id + (k - 1) * RestId
    BY <1>4, <1>7, <2>1 DEF InSteps
  <2>3. PICK i \in D : w[k + 1] = s[i]
    BY <1>8, <2>1
  <2>4. w[k + 1].id # h.id /\ w[k + 1].id - RestId = w[k].id
    BY <1>5, <2>1, <2>2 DEF RestId
  <2>5. s[i].parentOrderId = s[n].id
    BY <1>12, <1>17, <2>3, <2>4
  <2>6. QED
    BY <2>5 DEF Childless
<1>19. QED
  BY <1>7, <1>16, <1>17, <1>18

(* Rows of which each is that of an order, or linked to its parent's: its  *)
(* root is then the parent, or the root of the parent's row.               *)
LinkedRows(s) ==
  \A i \in DOMAIN s :
    \/ s[i].parentOrderId = None /\ s[i].rootOrderId = None
    \/ /\ s[i].parentOrderId = s[i].id - RestId /\ s[i].rootOrderId \in Int
       /\ \E j \in DOMAIN s : /\ s[j].id = s[i].parentOrderId
                              /\ s[i].rootOrderId \in {s[j].id, s[j].rootOrderId}

membersOf(s, r) == kept(s, {i \in DOMAIN s : rootOf(s[i]) = r})

(* The rows of a root have one that leads.                                 *)
LEMMA RootLeads ==
  ASSUME NEW s, DistinctRows(s), LinkedRows(s), NEW k \in DOMAIN s,
         NEW r, r = rootOf(s[k]),
         NEW members, members = membersOf(s, r)
  PROVE  /\ members # << >> /\ DistinctRows(members) /\ Leads(head(r, members), members)
         /\ \A i \in DOMAIN members : \E j \in DOMAIN s : members[i] = s[j]
         /\ \E i \in DOMAIN members : members[i] = s[k]
<1> DEFINE X == {s[i] : i \in DOMAIN s}
           I == {i \in DOMAIN s : rootOf(s[i]) = r}
           D == DOMAIN members
           h == head(r, members)
<1>1. s \in Seq(X) /\ I \in SUBSET (DOMAIN s) /\ k \in I /\ members = kept(s, I)
  BY DEF DistinctRows, membersOf
<1> HIDE DEF X, I
<1>2. /\ members \in Seq(X) /\ Len(members) = Cardinality(I) /\ Cardinality(I) \in Nat
  BY <1>1, KeptPlaces, PlacesFinite
<1>3. PICK at \in [1..Cardinality(I) -> I] :
        /\ IsInjective(at)
        /\ \A n \in 1..Cardinality(I) : kept(s, I)[n] = s[at[n]]
        /\ \A i \in I : \E n \in 1..Cardinality(I) : at[n] = i
  BY <1>1, KeptPlaces
<1>4. D = 1..Cardinality(I) /\ \A n \in 1..Cardinality(I) : members[n] = s[at[n]]
  BY <1>1, <1>2, <1>3
<1>5. \A n \in D : at[n] \in DOMAIN s /\ members[n] = s[at[n]] /\ rootOf(members[n]) = r
  <2>1. \A i \in I : i \in DOMAIN s /\ rootOf(s[i]) = r
    BY DEF I
  <2>2. \A n \in D : at[n] \in I /\ members[n] = s[at[n]]
    BY <1>3, <1>4
  <2>3. QED
    BY <2>1, <2>2
<1>6. \A i \in I : \E n \in D : members[n] = s[i]
  BY <1>3, <1>4
<1>7. members # << >>
  BY <1>1, <1>6
<1>8. DistinctRows(members)
  <2>1. \A i \in D : members[i].id \in Int
    BY <1>5 DEF DistinctRows
  <2>2. \A i, j \in D : members[i].id = members[j].id => i = j
    BY <1>3, <1>4, <1>5 DEF DistinctRows, IsInjective
  <2>3. members \in Seq({members[i] : i \in D})
    BY <1>2
  <2>4. QED
    BY <2>1, <2>2, <2>3 DEF DistinctRows
(* A member has the id of the root, or its parent is the root or a member. *)
<1>9. ASSUME NEW n \in D, members[n].id # r
      PROVE  /\ members[n].parentOrderId = members[n].id - RestId
             /\ \/ members[n].parentOrderId = r
                \/ \E j \in D : members[j].id = members[n].parentOrderId
  <2>1. members[n].rootOrderId # None
    BY <1>5, <1>9 DEF rootOf
  <2>2. /\ members[n].parentOrderId = members[n].id - RestId /\ members[n].rootOrderId \in Int
        /\ \E j \in DOMAIN s : /\ s[j].id = members[n].parentOrderId
                               /\ members[n].rootOrderId \in {s[j].id, s[j].rootOrderId}
    BY <1>5, <2>1 DEF LinkedRows
  <2>3. members[n].rootOrderId = r
    BY <1>5, <2>1 DEF rootOf
  <2>4. PICK j \in DOMAIN s : s[j].id = members[n].parentOrderId /\ r \in {s[j].id, s[j].rootOrderId}
    BY <2>2, <2>3
  <2>5. CASE r = s[j].id
    BY <2>2, <2>4, <2>5
  <2>6. CASE r = s[j].rootOrderId
    <3>1. rootOf(s[j]) = r
      BY <2>2, <2>3, <2>6, NoneAssumption DEF rootOf
    <3>2. j \in I
      BY <3>1 DEF I
    <3>3. QED
      BY <1>6, <2>2, <2>4, <3>2
  <2>7. QED
    BY <2>4, <2>5, <2>6
<1> DEFINE rooted == {i \in D : members[i].id = r}
           atop == {i \in D : members[i].parentOrderId \notin idsOf(members)}
           first_ == IF rooted # {} THEN Min(rooted) ELSE IF atop # {} THEN Min(atop) ELSE 1
<1>10. h = members[first_]
  BY DEF head
<1>11. /\ rooted # {} => Min(rooted) \in rooted
       /\ atop # {} => Min(atop) \in atop
       /\ 1 \in D
  <2>1. rooted \in SUBSET D /\ atop \in SUBSET D
    OBVIOUS
  <2>2. IsFiniteSet(rooted) /\ IsFiniteSet(atop) /\ rooted \subseteq Int /\ atop \subseteq Int
    <3> HIDE DEF rooted, atop
    <3>1. \A i \in D : i \in Int
      BY <1>4
    <3>2. QED
      BY <1>2, <2>1, <3>1, PlacesFinite
  <2>3. 1 \in D
    BY <1>2, <1>4, <1>7, EmptySeq
  <2> HIDE DEF rooted, atop
  <2>4. rooted # {} => Min(rooted) \in rooted
    BY <2>2, SmallestIn
  <2>5. atop # {} => Min(atop) \in atop
    BY <2>2, SmallestIn
  <2>6. QED
    BY <2>3, <2>4, <2>5
<1>12. first_ \in D
  BY <1>11
<1> HIDE DEF first_, h
<1>13. h \in {members[i] : i \in D}
  BY <1>10, <1>12
<1>14. h.parentOrderId \in {None, h.id - RestId}
  BY <1>5, <1>10, <1>12 DEF LinkedRows
<1>15. ASSUME NEW n \in D, members[n] # h
       PROVE  /\ members[n].parentOrderId = members[n].id - RestId
              /\ \E j \in D : members[j].id = members[n].parentOrderId
  <2>1. CASE rooted # {}
    <3>1. h.id = r
      BY <1>10, <1>11, <2>1 DEF first_
    <3>2. members[n].id # r
      BY <1>8, <1>10, <1>12, <1>15, <3>1 DEF DistinctRows
    <3>3. QED
      BY <1>9, <1>13, <3>1, <3>2
  <2>2. CASE rooted = {}
    <3>1. \A i \in D : members[i].id # r
      BY <2>2
    <3>2. CASE n \notin atop
      BY <1>9, <3>1, <3>2 DEF idsOf
    <3>3. CASE n \in atop
      <4>1. h.parentOrderId \notin idsOf(members)
        BY <1>10, <1>11, <2>2, <3>3 DEF first_
      <4>2. h.parentOrderId = r /\ h.parentOrderId = h.id - RestId
        BY <1>9, <1>10, <1>12, <3>1, <4>1 DEF idsOf
      <4>3. members[n].parentOrderId = r /\ members[n].parentOrderId = members[n].id - RestId
        BY <1>9, <3>1, <3>3 DEF idsOf
      <4>4. members[n].id \in Int /\ h.id \in Int
        BY <1>8, <1>10, <1>12 DEF DistinctRows
      <4>5. members[n].id = h.id
        BY <4>2, <4>3, <4>4 DEF RestId
      <4>6. QED
        BY <1>8, <1>10, <1>12, <1>15, <4>5 DEF DistinctRows
    <3>4. QED
      BY <3>2, <3>3
  <2>3. QED
    BY <2>1, <2>2
<1>16. Leads(h, members)
  BY <1>13, <1>14, <1>15 DEF Leads
<1>17. \E i \in D : members[i] = s[k]
  BY <1>1, <1>6
<1>18. QED
  BY <1>5, <1>7, <1>8, <1>16, <1>17 DEF h

(* A row without a child is the tip of the position of its root.           *)
LEMMA ChildlessEnds ==
  ASSUME NEW s, DistinctRows(s), LinkedRows(s), NEW k \in DOMAIN s, Childless(s[k], s)
  PROVE  \E n \in DOMAIN groupPositions(s) : groupPositions(s)[n].tip = s[k]
<1>0. PICK r : r = rootOf(s[k])
  OBVIOUS
<1>01. PICK members : members = membersOf(s, r)
  OBVIOUS
<1> DEFINE X == {s[i] : i \in DOMAIN s}
<1>1. /\ members # << >> /\ DistinctRows(members) /\ Leads(head(r, members), members)
      /\ \A i \in DOMAIN members : \E j \in DOMAIN s : members[i] = s[j]
      /\ \E i \in DOMAIN members : members[i] = s[k]
  BY <1>0, <1>01, RootLeads
<1>2. position(s, r).tip = Last(orderChain(r, members))
  BY <1>01 DEF position, membersOf
<1>3. PICK n \in DOMAIN members : members[n] = s[k]
  BY <1>1
<1>4. Childless(members[n], members)
  BY <1>1, <1>3 DEF Childless
<1>5. position(s, r).tip = s[k]
  BY <1>1, <1>2, <1>3, <1>4, ChildlessIsTip
<1>6. s \in Seq(X)
  BY DEF DistinctRows
<1> HIDE DEF X
<1>7. PICK n_ \in DOMAIN rootsOf(s) : rootsOf(s)[n_] = r
  BY <1>0, <1>6, RootsListed
<1>8. groupPositions(s) = [i \in DOMAIN rootsOf(s) |-> position(s, rootsOf(s)[i])]
  BY DEF groupPositions
<1>9. QED
  BY <1>5, <1>7, <1>8

----------------------------------------------------------------------------
(***************************************************************************)
(* The chain, the rows and what a page shows of them.                      *)
(***************************************************************************)
Identified(o) == "id" \in DOMAIN o /\ o.id \in Int

BookInv == IsFiniteSet(book) /\ \A o \in book : Identified(o)

LedgerInv ==
  /\ IsFiniteSet(DOMAIN ledger)
  /\ \A id \in DOMAIN ledger : id \in Int /\ "id" \in DOMAIN ledger[id] /\ ledger[id].id = id

ShownInv == page = "orders" /\ shown # None => DistinctRows(shown)

RowsInv == BookInv /\ LedgerInv /\ ShownInv

(* What a partial fill leaves has an id, as the order has.                 *)
LEMMA RestIdentified ==
  ASSUME NEW o, Identified(o), NEW leg
  PROVE  Identified(rest(o, leg))
<1> DEFINE a == [o EXCEPT !.id = o.id + RestId]
           b == [a EXCEPT !.offeredAmount = @ - leg.receive]
<1>1. "id" \in DOMAIN a /\ a.id = o.id + 10
  BY DEF Identified, RestId
<1>2. rest(o, leg) = [b EXCEPT !.requestedAmount = @ - leg.spend]
  BY DEF rest
<1> HIDE DEF a
<1>3. "id" \in DOMAIN b /\ b.id = o.id + 10
  BY <1>1
<1> HIDE DEF b
<1>4. "id" \in DOMAIN rest(o, leg) /\ rest(o, leg).id = o.id + 10
  BY <1>2, <1>3
<1>5. QED
  BY <1>4 DEF Identified

(* The rows after a step of the chain.                                     *)
LEMMA RecordedKeeps ==
  ASSUME BookInv', LedgerInv, NEW closed, Recorded(closed)
  PROVE  LedgerInv'
<1> DEFINE new == {o \in book' : o.id \notin DOMAIN ledger}
           ids_ == {o.id : o \in new}
           status(id) == IF ledger[id].status # "open" \/ id \in {o.id : o \in book'}
                         THEN ledger[id].status
                         ELSE IF id + RestId \in {o.id : o \in book'} THEN "partially_filled"
                              ELSE closed
           added(id) == row(CHOOSE o \in new : o.id = id, id - RestId, trueRoot(id - RestId))
<1>1. ledger' = [id \in DOMAIN ledger \cup ids_ |->
                   IF id \in DOMAIN ledger THEN [ledger[id] EXCEPT !.status = status(id)]
                   ELSE added(id)]
  BY DEF Recorded
<1>2. IsFiniteSet(new) /\ \A o \in new : o.id \in Int
  BY FS_Subset DEF BookInv, Identified
<1>3. IsFiniteSet(ids_)
  <2> DEFINE f == [o \in new |-> o.id]
  <2> HIDE DEF new
  <2>1. DOMAIN f = new /\ f = [o \in DOMAIN f |-> f[o]] /\ ids_ = {f[o] : o \in DOMAIN f}
    OBVIOUS
  <2> HIDE DEF f, ids_
  <2>2. QED
    BY <1>2, <2>1, ImageFinite
<1>4. IsFiniteSet(DOMAIN ledger \cup ids_)
  BY <1>3, FS_Union DEF LedgerInv
<1>5. \A id \in ids_ : id \in Int /\ "id" \in DOMAIN added(id) /\ added(id).id = id
  BY <1>2 DEF row
<1>6. \A id \in DOMAIN ledger :
        LET r == [ledger[id] EXCEPT !.status = status(id)] IN
        id \in Int /\ "id" \in DOMAIN r /\ r.id = id
  <2> HIDE DEF status
  <2>1. QED
    BY DEF LedgerInv
<1> HIDE DEF status, added, ids_
<1>7. DOMAIN ledger' = DOMAIN ledger \cup ids_
  BY <1>1
<1>8. ASSUME NEW id \in DOMAIN ledger'
      PROVE  id \in Int /\ "id" \in DOMAIN ledger'[id] /\ ledger'[id].id = id
  <2>1. CASE id \in DOMAIN ledger
    BY <1>1, <1>6, <1>7, <2>1
  <2>2. CASE id \notin DOMAIN ledger
    <3>1. ledger'[id] = added(id) /\ id \in ids_
      BY <1>1, <1>7, <1>8, <2>2
    <3>2. QED
      BY <1>5, <3>1
  <2>3. QED
    BY <2>1, <2>2
<1>9. QED
  BY <1>4, <1>7, <1>8 DEF LedgerInv

(* The book after a step of the chain.                                     *)
LEMMA SettleKeepsBook ==
  ASSUME BookInv, NEW tx, Settle(tx)
  PROVE  BookInv'
<1> DEFINE partly == {o \in book : o.id \in taken(tx) /\ legOn(tx, o).takeAmount # None}
           stay == {o \in book : o.id \notin taken(tx)}
           after(o) == rest(o, legOn(tx, o))
           left == {after(o) : o \in partly}
<1>1. book' = stay \cup left
  BY DEF Settle, remainders
<1>2. IsFiniteSet(partly) /\ IsFiniteSet(stay) /\ (\A o \in partly : Identified(o))
      /\ \A o \in stay : Identified(o)
  BY FS_Subset DEF BookInv
<1>3. \A o \in partly : Identified(after(o))
  <2> HIDE DEF partly
  <2>1. QED
    BY <1>2, RestIdentified
<1>4. IsFiniteSet(left)
  <2> DEFINE f == [o \in partly |-> after(o)]
  <2> HIDE DEF partly, after
  <2>1. DOMAIN f = partly /\ f = [o \in DOMAIN f |-> f[o]] /\ left = {f[o] : o \in DOMAIN f}
    OBVIOUS
  <2> HIDE DEF f, left
  <2>2. QED
    BY <1>2, <2>1, ImageFinite
<1>5. IsFiniteSet(stay \cup left)
  BY <1>2, <1>4, FS_Union
<1> HIDE DEF stay, partly, after
<1>6. QED
  BY <1>1, <1>2, <1>3, <1>5 DEF BookInv

LEMMA FillKeepsBook ==
  ASSUME BookInv, NEW o \in book, SomeoneCloses(o) \/ SomeoneFills(o)
  PROVE  BookInv'
<1>1. CASE SomeoneCloses(o)
  <2>1. book' = book \ {o}
    BY <1>1 DEF SomeoneCloses, SomeoneTakes
  <2>2. QED
    BY <2>1, FS_Subset DEF BookInv
<1>2. CASE SomeoneFills(o)
  <2>1. PICK t \in Fillable(o) : book' = (book \ {o}) \cup {rest(o, partialLeg(o, t))}
    BY <1>2 DEF SomeoneFills
  <2>2. Identified(rest(o, partialLeg(o, t)))
    BY RestIdentified DEF BookInv
  <2>3. IsFiniteSet(book \ {o}) /\ IsFiniteSet({rest(o, partialLeg(o, t))})
    BY FS_Subset, FS_Singleton DEF BookInv
  <2>4. IsFiniteSet((book \ {o}) \cup {rest(o, partialLeg(o, t))})
    BY <2>3, FS_Union
  <2>5. QED
    BY <2>1, <2>2, <2>4 DEF BookInv
<1>3. QED
  BY <1>1, <1>2

(* Rows of different orders are listed once each.                          *)
LEMMA ListedOnce ==
  ASSUME NEW rows, IsFiniteSet(rows), \A r \in rows : r.id \in Int,
         \A q, r \in rows : q.id = r.id => q = r, NEW owner
  PROVE  LET list == listByOwner(rows, owner) IN
         /\ DistinctRows(list)
         /\ {list[i] : i \in DOMAIN list} = {r \in rows : r.owner = owner}
<1> DEFINE mine == {r \in rows : r.owner = owner}
           newer(r) == {q \in mine : q.id > r.id}
           R == {e \in mine \X mine : e[1].id > e[2].id}
           at(n) == CHOOSE r \in mine : Cardinality(newer(r)) = n - 1
           list == listByOwner(rows, owner)
<1>1. IsFiniteSet(mine) /\ Cardinality(mine) \in Nat /\ (\A r \in mine : r.id \in Int)
      /\ \A q, r \in mine : q.id = r.id => q = r
  BY FS_Subset, FS_CardinalityType
<1>2. list = [n \in 1..Cardinality(mine) |-> at(n)]
  BY DEF listByOwner
<1> HIDE DEF mine, list
<1>3. \A q, r \in mine : <<q, r>> \in R <=> q.id > r.id
  OBVIOUS
<1>4. \A r \in mine : before(R, mine, r) = newer(r)
  <2> HIDE DEF R
  <2>1. QED
    BY <1>3 DEF before
<1>5. TotallyOrders(R, mine)
  <2> HIDE DEF R
  <2>1. QED
    BY <1>1, <1>3 DEF TotallyOrders
<1> HIDE DEF R
<1>6. ASSUME NEW n \in 1..Cardinality(mine)
      PROVE  at(n) \in mine /\ Cardinality(newer(at(n))) = n - 1
  <2>1. n - 1 \in Nat /\ n - 1 < Cardinality(mine)
    BY <1>1
  <2>2. \E r \in mine : Cardinality(before(R, mine, r)) = n - 1
    BY <1>1, <1>5, <2>1, RanksFill
  <2>3. \E r \in mine : Cardinality(newer(r)) = n - 1
    BY <1>4, <2>2
  <2>4. QED
    BY <2>3
<1>7. ASSUME NEW m \in 1..Cardinality(mine), NEW n \in 1..Cardinality(mine), at(m) = at(n)
      PROVE  m = n
  <2>1. m - 1 = n - 1
    BY <1>6, <1>7
  <2>2. m \in Int /\ n \in Int
    BY <1>1
  <2>3. QED
    BY <2>1, <2>2
<1> HIDE DEF at
<1>8. DOMAIN list = 1..Cardinality(mine) /\ \A n \in 1..Cardinality(mine) : list[n] = at(n)
  BY <1>2
<1>9. list \in Seq({list[i] : i \in DOMAIN list})
  BY <1>1, <1>2, <1>8
<1>10. \A i \in DOMAIN list : list[i].id \in Int
  BY <1>1, <1>6, <1>8
<1>11. \A i, j \in DOMAIN list : list[i].id = list[j].id => i = j
  <2> SUFFICES ASSUME NEW i \in DOMAIN list, NEW j \in DOMAIN list, list[i].id = list[j].id
               PROVE  i = j
    OBVIOUS
  <2> HIDE DEF newer
  <2>1. i \in 1..Cardinality(mine) /\ j \in 1..Cardinality(mine)
    BY <1>8
  <2>2. at(i) \in mine /\ at(j) \in mine /\ at(i).id = at(j).id
    BY <1>6, <1>8, <2>1
  <2>3. at(i) = at(j)
    BY <1>1, <2>2
  <2>4. QED
    BY <1>7, <2>1, <2>3
<1>12. \A i \in DOMAIN list : list[i] \in mine
  BY <1>6, <1>8
<1>13. ASSUME NEW r \in mine PROVE \E n \in DOMAIN list : list[n] = r
  <2>1. newer(r) \in SUBSET (mine \ {r}) /\ r.id \in Int
    BY <1>1
  <2>2. IsFiniteSet(mine \ {r}) /\ Cardinality(mine \ {r}) = Cardinality(mine) - 1
    BY <1>1, FS_RemoveElement
  <2>3. Cardinality(newer(r)) \in Nat /\ Cardinality(newer(r)) <= Cardinality(mine) - 1
    <3> HIDE DEF newer
    <3>1. QED
      BY <2>1, <2>2, FS_Subset, FS_CardinalityType
  <2>4. PICK n \in 1..Cardinality(mine) : n - 1 = Cardinality(newer(r))
    <3> HIDE DEF newer
    <3>1. Cardinality(newer(r)) + 1 \in 1..Cardinality(mine)
      BY <1>1, <2>3
    <3>2. QED
      BY <2>3, <3>1
  <2>5. at(n) \in mine /\ Cardinality(newer(at(n))) = Cardinality(newer(r))
    BY <1>6, <2>4
  <2> HIDE DEF newer
  <2>6. at(n) = r
    BY <1>1, <1>4, <1>5, <2>5, RanksDiffer
  <2>7. QED
    BY <1>8, <2>4, <2>6
<1>14. {list[i] : i \in DOMAIN list} = mine
  BY <1>12, <1>13
<1>15. QED
  BY <1>9, <1>10, <1>11, <1>14 DEF DistinctRows, list, mine

(* What the page of the own orders is answered is such a list.             *)
LEMMA AnswersListed ==
  ASSUME LedgerInv, NEW answer \in Answers("orders")
  PROVE  DistinctRows(answer)
<1>1. PICK rows \in caches : answer = listByOwner(rows, Me)
  BY DEF Answers
<1>2. PICK ids_, lag : ids_ \subseteq DOMAIN ledger /\ rows = view(ids_, lag)
  <2>1. PICK missing : rows \in views(DOMAIN ledger \ missing)
    BY <1>1 DEF caches
  <2>2. PICK lag \in lags(DOMAIN ledger \ missing) : rows = view(DOMAIN ledger \ missing, lag)
    BY <2>1, Zenon DEF views
  <2>3. DOMAIN ledger \ missing \subseteq DOMAIN ledger
    OBVIOUS
  <2>4. QED
    BY <2>2, <2>3, Zenon
<1> DEFINE row_(id) ==
             cached(id, statusIn(lag, id), id \in linkable(ids_) /\ lag.link[id] # "lacking",
                    {a \in ids_ : a \in linkable(ids_) => lag.link[a] # "in time"})
           f == [id \in ids_ |-> row_(id)]
<1>3. \A id \in ids_ : id \in Int /\ row_(id).id = id
  BY <1>2 DEF LedgerInv, cached
<1>4. IsFiniteSet(ids_)
  BY <1>2, FS_Subset DEF LedgerInv
<1>31. rows = {row_(id) : id \in ids_}
  BY <1>2 DEF view, row_
<1> HIDE DEF row_
<1>5. DOMAIN f = ids_ /\ f = [id \in DOMAIN f |-> f[id]] /\ rows = {f[id] : id \in DOMAIN f}
  BY <1>31
<1>6. \A id \in ids_ : f[id].id = id
  BY <1>3
<1> HIDE DEF f
<1>7. IsFiniteSet(rows)
  BY <1>4, <1>5, ImageFinite
<1>8. (\A r \in rows : r.id \in Int) /\ (\A q, r \in rows : q.id = r.id => q = r)
  BY <1>3, <1>5, <1>6
<1>9. QED
  BY <1>1, <1>7, <1>8, ListedOnce

LEMMA RowsInit ==
  ASSUME Init
  PROVE  RowsInv
<1>1. BookInv
  BY WalletAssumption DEF Init, FlowInit, BookInv, Identified
<1>2. LedgerInv
  <2> DEFINE ids_ == {o.id : o \in book}
             f == [o \in book |-> o.id]
             rowOf(id) == row(CHOOSE o \in book : o.id = id, None, None)
  <2>1. ledger = [id \in ids_ |-> rowOf(id)]
    BY DEF Init
  <2>2. DOMAIN f = book /\ f = [o \in DOMAIN f |-> f[o]] /\ ids_ = {f[o] : o \in DOMAIN f}
    OBVIOUS
  <2>3. IsFiniteSet(ids_)
    <3> HIDE DEF f, ids_
    <3>1. QED
      BY <1>1, <2>2, ImageFinite DEF BookInv
  <2>4. \A id \in ids_ : id \in Int /\ "id" \in DOMAIN rowOf(id) /\ rowOf(id).id = id
    BY <1>1 DEF row, BookInv, Identified
  <2> HIDE DEF ids_, rowOf
  <2>5. QED
    BY <2>1, <2>3, <2>4 DEF LedgerInv
<1>3. ShownInv
  BY DEF Init, ShownInv
<1>4. QED
  BY <1>1, <1>2, <1>3 DEF RowsInv

(* What a step does to the chain, the rows and what is shown.              *)
LEMMA StepKinds ==
  ASSUME [Next]_vars
  PROVE  \/ ChainStep
         \/ /\ UNCHANGED <<book, ledger>>
            /\ \/ UNCHANGED <<page, shown>>
               \/ shown' = None
               \/ page' = page /\ shown' \in Answers(page)
<1> DEFINE still == UNCHANGED <<book, ledger, page, shown>>
<1>1. UNCHANGED vars => still
  BY DEF vars, chain, display
<1>2. Tick \/ FetchFails \/ Reindexed \/ hardRefresh \/ Confirm \/ Reject => still
  BY DEF Tick, FetchFails, Reindexed, hardRefresh, Confirm, Reject, chain, display, WhileFlowing
<1>3. onDismiss \/ onSettled \/ (\E id \in DOMAIN ledger : ToggleSelect(id)) => still
  BY DEF onDismiss, onSettled, ToggleSelect, chain
<1>4. ClaimSelected \/ CancelRow \/ (\E o \in shown : Take(o))
      \/ (\E op \in shown : Execute(op)) => Asking
  BY DEF ClaimSelected, CancelRow, Take, take, Execute
<1>5. Asking => still
  BY DEF Asking, chain
<1>6. (\E tx \in builds : BuildReturns(tx)) \/ (\E tx \in signings : WalletReturns(tx)) => still
  BY DEF BuildReturns, WalletReturns, WhileFlowing, chain
<1>7. Answered => /\ UNCHANGED <<book, ledger>>
                  /\ page' = page /\ shown' \in Answers(page)
  BY DEF Answered, chain
<1>8. (\E p \in Pages : Open(p)) => UNCHANGED <<book, ledger>> /\ shown' = None
  BY DEF Open, chain
<1> HIDE DEF still
<1>9. ChainStep \/ Answered \/ still \/ \E p \in Pages : Open(p)
  BY <1>1, <1>2, <1>3, <1>4, <1>5, <1>6 DEF Next
<1>10. QED
  BY <1>7, <1>8, <1>9 DEF still

LEMMA RowsKept ==
  ASSUME RowsInv, [Next]_vars
  PROVE  RowsInv'
<1> USE DEF RowsInv
<1>1. CASE ChainStep
  <2>1. UNCHANGED <<page, shown>>
    BY <1>1 DEF ChainStep, display
  <2>2. CASE \E tx \in pending : SettleTx(tx)
    <3>1. PICK tx \in pending : SettleTx(tx)
      BY <2>2
    <3>2. BookInv'
      BY <3>1, SettleKeepsBook DEF SettleTx
    <3>3. LedgerInv'
      BY <3>1, <3>2, RecordedKeeps DEF SettleTx
    <3>4. QED
      BY <2>1, <3>2, <3>3 DEF ShownInv
  <2>3. CASE \E o \in book : SomeoneCloses(o) \/ SomeoneFills(o)
    <3>1. PICK o \in book : SomeoneCloses(o) \/ SomeoneFills(o)
      BY <2>3
    <3>2. BookInv'
      BY <3>1, FillKeepsBook
    <3>3. Recorded("cancelled") \/ Recorded("taken")
      BY <3>1 DEF SomeoneCloses, SomeoneFills
    <3>4. LedgerInv'
      BY <3>2, <3>3, RecordedKeeps
    <3>5. QED
      BY <2>1, <3>2, <3>4 DEF ShownInv
  <2>4. QED
    BY <1>1, <2>2, <2>3 DEF ChainStep
<1>2. CASE UNCHANGED <<book, ledger>>
  <2>1. BookInv' /\ LedgerInv'
    BY <1>2 DEF BookInv, LedgerInv
  <2>2. CASE UNCHANGED <<page, shown>>
    BY <2>1, <2>2 DEF ShownInv
  <2>3. CASE shown' = None
    BY <2>1, <2>3 DEF ShownInv
  <2>4. CASE page' = page /\ shown' \in Answers(page)
    <3>1. page = "orders" => DistinctRows(shown')
      BY <2>4, AnswersListed
    <3>2. QED
      BY <2>1, <2>4, <3>1 DEF ShownInv
  <2>5. QED
    BY <1>1, <2>2, <2>3, <2>4, StepKinds
<1>3. QED
  BY <1>1, <1>2, StepKinds

----------------------------------------------------------------------------
(***************************************************************************)
(* Orders and their continuations: a line of orders has ids RestId apart,  *)
(* and only the last of a line is open.                                    *)
(***************************************************************************)
OrderFields == {"id", "owner", "offer", "ask", "offeredAmount", "requestedAmount",
                "allowPartialFill", "expiration"}

RowFields == OrderFields \cup {"status", "parentOrderId", "rootOrderId"}

OpenRow(id) == id \in DOMAIN ledger /\ ledger[id].status = "open"

(* What is on the chain has an open row.                                   *)
Booked ==
  /\ \A o \in book : /\ DOMAIN o = OrderFields /\ o.id \in Int
                     /\ OpenRow(o.id) /\ ledger[o.id].owner = o.owner
  /\ \A o, p \in book : o.id = p.id => o = p

LastOfLine ==
  \A x, y \in DOMAIN ledger : OpenRow(x) /\ x % RestId = y % RestId => y <= x

(* A row is that of a root, or linked to the one before.                   *)
RootRow(id) == ledger[id].parentOrderId = None /\ ledger[id].rootOrderId = None

NextRow(id) ==
  /\ ledger[id].parentOrderId = id - RestId
  /\ id - RestId \in DOMAIN ledger /\ ~OpenRow(id - RestId)
  /\ ledger[id].owner = ledger[id - RestId].owner
  /\ ledger[id].rootOrderId = trueRoot(id - RestId)

Lined ==
  \A id \in DOMAIN ledger :
    /\ id \in Int /\ DOMAIN ledger[id] = RowFields /\ ledger[id].id = id
    /\ trueRoot(id) \in DOMAIN ledger /\ RootRow(trueRoot(id))
    /\ trueRoot(id) \in Int /\ trueRoot(id) <= id /\ trueRoot(id) % RestId = id % RestId
    /\ RootRow(id) \/ NextRow(id)

LineInv == Booked /\ LastOfLine /\ Lined

(* The order o is what a fill leaves of p.                                 *)
Continues(o, p) ==
  /\ DOMAIN o = OrderFields /\ o.id = p.id + RestId
  /\ o.owner = p.owner

(* What a step of the chain does to the orders.                            *)
Moved ==
  /\ \A o \in book' : \/ o \in book
                      \/ \E p \in book : Continues(o, p) /\ \A q \in book' : q.id # p.id
  /\ \A o, p \in book' : o.id = p.id => o = p

LEMMA LinesBegin ==
  ASSUME Init
  PROVE  LineInv
<1> DEFINE at(id) == CHOOSE o \in book : o.id = id
<1>1. book \in InitialBook
  BY DEF Init, FlowInit
<1>2. \A o \in book : DOMAIN o = OrderFields /\ o.id \in Int
  BY <1>1, WalletAssumption DEF OrderFields
<1>3. \A o, p \in book : o.id % RestId = p.id % RestId => o = p
  BY <1>1, WalletAssumption
<1>4. /\ DOMAIN ledger = {o.id : o \in book}
      /\ \A id \in DOMAIN ledger : ledger[id] = row(at(id), None, None)
  BY DEF Init
<1>5. \A o \in book : at(o.id) = o
  <2> SUFFICES ASSUME NEW o \in book PROVE at(o.id) = o
    OBVIOUS
  <2>1. at(o.id) \in book /\ at(o.id).id = o.id
    OBVIOUS
  <2> HIDE DEF at
  <2>2. QED
    BY <1>3, <2>1
<1> HIDE DEF at
<1>6. ASSUME NEW id \in DOMAIN ledger
      PROVE  \E o \in book : o.id = id /\ ledger[id] = row(o, None, None)
  BY <1>4, <1>5
<1>7. ASSUME NEW id \in DOMAIN ledger
      PROVE  /\ id \in Int /\ DOMAIN ledger[id] = RowFields /\ ledger[id].id = id
             /\ RootRow(id) /\ trueRoot(id) = id
  <2>1. PICK o \in book : o.id = id /\ ledger[id] = row(o, None, None)
    BY <1>6
  <2>2. PICK r : r = row(o, None, None)
    OBVIOUS
  <2>3. DOMAIN r = RowFields /\ r.id = id /\ r.parentOrderId = None /\ r.rootOrderId = None
    BY <2>1, <2>2 DEF row, RowFields, OrderFields
  <2>4. QED
    BY <1>2, <2>1, <2>2, <2>3 DEF RootRow, trueRoot
<1>8. Booked
  <2>1. ASSUME NEW o \in book PROVE OpenRow(o.id) /\ ledger[o.id].owner = o.owner
    <3>1. o.id \in DOMAIN ledger /\ ledger[o.id] = row(o, None, None)
      BY <1>4, <1>5
    <3>2. QED
      BY <3>1 DEF OpenRow, row
  <2>2. QED
    BY <1>2, <1>3, <2>1 DEF Booked
<1>9. LastOfLine
  <2> SUFFICES ASSUME NEW x \in DOMAIN ledger, NEW y \in DOMAIN ledger, x % RestId = y % RestId
               PROVE  y <= x
    BY DEF LastOfLine
  <2>1. PICK o \in book, p \in book : o.id = x /\ p.id = y
    BY <1>4
  <2>2. x = y /\ x \in Int
    BY <1>2, <1>3, <2>1
  <2>3. QED
    BY <2>2
<1>10. Lined
  <2>1. \A id \in DOMAIN ledger : id <= id
    BY <1>7
  <2>2. QED
    BY <1>7, <2>1 DEF Lined
<1>11. QED
  BY <1>8, <1>9, <1>10 DEF LineInv

(* The rows after a step of the chain are lines again.                     *)
LEMMA LinesRecorded ==
  ASSUME LineInv, Moved, NEW closed, closed # "open", Recorded(closed)
  PROVE  LineInv'
<1> DEFINE new == {o \in book' : o.id \notin DOMAIN ledger}
           ids_ == {o.id : o \in new}
           left == {o.id : o \in book'}
           status(id) == IF ledger[id].status # "open" \/ id \in left THEN ledger[id].status
                         ELSE IF id + RestId \in left THEN "partially_filled" ELSE closed
           at(id) == CHOOSE o \in new : o.id = id
<1> USE DEF LineInv
<1>1. /\ DOMAIN ledger' = DOMAIN ledger \cup ids_
      /\ \A id \in DOMAIN ledger : ledger'[id] = [ledger[id] EXCEPT !.status = status(id)]
      /\ \A id \in ids_ : ledger'[id] = row(at(id), id - RestId, trueRoot(id - RestId))
  <2>1. ledger' = [id \in DOMAIN ledger \cup ids_ |->
                     IF id \in DOMAIN ledger THEN [ledger[id] EXCEPT !.status = status(id)]
                     ELSE row(at(id), id - RestId, trueRoot(id - RestId))]
    BY DEF Recorded
  <2>2. \A id \in ids_ : id \notin DOMAIN ledger
    OBVIOUS
  <2> HIDE DEF ids_, at, status
  <2>3. QED
    BY <2>1, <2>2
<1>2. ASSUME NEW id \in DOMAIN ledger
      PROVE  /\ DOMAIN ledger'[id] = RowFields
             /\ \A f \in RowFields \ {"status"} : ledger'[id][f] = ledger[id][f]
             /\ ledger'[id].status = "open" <=> ledger[id].status = "open" /\ id \in left
  <2>1. DOMAIN ledger[id] = RowFields /\ "status" \in RowFields
    BY DEF Lined, RowFields
  <2>2. ledger'[id] = [ledger[id] EXCEPT !.status = status(id)]
    BY <1>1
  <2>3. status(id) = "open" <=> ledger[id].status = "open" /\ id \in left
    <3> HIDE DEF left
    <3>1. QED
      OBVIOUS
  <2> HIDE DEF status, left
  <2>4. QED
    BY <2>1, <2>2, <2>3
<1>3. ASSUME NEW id \in ids_
      PROVE  /\ id \notin DOMAIN ledger /\ at(id) \in book' /\ at(id).id = id
             /\ \E p \in book : Continues(at(id), p) /\ p.id \notin left
  <2>1. at(id) \in new /\ at(id).id = id
    OBVIOUS
  <2> HIDE DEF at
  <2>2. at(id) \notin book
    BY <2>1 DEF Booked, OpenRow
  <2>3. QED
    BY <2>1, <2>2 DEF Moved
<1>4. ASSUME NEW id \in ids_
      PROVE  /\ id \in Int /\ id - RestId \in DOMAIN ledger
             /\ OpenRow(id - RestId) /\ id - RestId \notin left
             /\ \A x \in DOMAIN ledger : x % RestId = id % RestId => x <= id - RestId
             /\ at(id).owner = ledger[id - RestId].owner
  <2>1. PICK p \in book : Continues(at(id), p) /\ p.id \notin left
    BY <1>3
  <2>2. p.id \in Int /\ OpenRow(p.id) /\ ledger[p.id].owner = p.owner
    BY DEF Booked
  <2>3. id = p.id + RestId
    BY <1>3, <2>1 DEF Continues
  <2>4. id \in Int /\ id - RestId = p.id /\ p.id % RestId = id % RestId
    BY <2>2, <2>3 DEF RestId
  <2>5. \A x \in DOMAIN ledger : x % RestId = id % RestId => x <= p.id
    BY <2>2, <2>4 DEF LastOfLine, OpenRow
  <2>6. QED
    BY <2>1, <2>2, <2>4, <2>5 DEF Continues, OpenRow
<1> HIDE DEF at, new, left, status
<1>5. ASSUME NEW id \in ids_
      PROVE  /\ DOMAIN ledger'[id] = RowFields
             /\ ledger'[id].id = id /\ ledger'[id].owner = ledger[id - RestId].owner
             /\ ledger'[id].status = "open"
             /\ ledger'[id].parentOrderId = id - RestId
             /\ ledger'[id].rootOrderId = trueRoot(id - RestId)
  <2>1. PICK r : r = row(at(id), id - RestId, trueRoot(id - RestId))
    OBVIOUS
  <2>2. /\ DOMAIN r = RowFields /\ r.id = at(id).id /\ r.owner = at(id).owner /\ r.status = "open"
        /\ r.parentOrderId = id - RestId /\ r.rootOrderId = trueRoot(id - RestId)
    BY <2>1 DEF row, RowFields, OrderFields
  <2>3. QED
    BY <1>1, <1>3, <1>4, <2>1, <2>2
<1> HIDE DEF ids_
<1>6. \A id \in DOMAIN ledger : trueRoot(id)' = trueRoot(id)
  <2> SUFFICES ASSUME NEW id \in DOMAIN ledger PROVE trueRoot(id)' = trueRoot(id)
    OBVIOUS
  <2>1. ledger'[id].rootOrderId = ledger[id].rootOrderId
    BY <1>2 DEF RowFields
  <2>2. QED
    BY <2>1 DEF trueRoot
<1>61. ASSUME NEW t \in DOMAIN ledger, RootRow(t)
       PROVE  t \in DOMAIN ledger' /\ ledger'[t].parentOrderId = None /\ ledger'[t].rootOrderId = None
  <2>1. "parentOrderId" \in RowFields \ {"status"} /\ "rootOrderId" \in RowFields \ {"status"}
    BY DEF RowFields
  <2>2. QED
    BY <1>1, <1>2, <1>61, <2>1 DEF RootRow
<1>62. ASSUME NEW id \in DOMAIN ledger
       PROVE  trueRoot(id)' \in DOMAIN ledger' /\ RootRow(trueRoot(id))'
  <2>1. PICK t : t = trueRoot(id)
    OBVIOUS
  <2>2. t \in DOMAIN ledger /\ RootRow(t)
    BY <2>1 DEF Lined
  <2>3. t \in DOMAIN ledger' /\ ledger'[t].parentOrderId = None /\ ledger'[t].rootOrderId = None
    BY <1>61, <2>2
  <2>4. trueRoot(id)' = t
    BY <1>6, <2>1
  <2>5. QED
    BY <2>3, <2>4 DEF RootRow
<1>7. Lined'
  <2> SUFFICES ASSUME NEW id \in DOMAIN ledger'
               PROVE  /\ id \in Int /\ DOMAIN ledger'[id] = RowFields /\ ledger'[id].id = id
                      /\ trueRoot(id)' \in DOMAIN ledger' /\ RootRow(trueRoot(id))'
                      /\ trueRoot(id)' \in Int /\ trueRoot(id)' <= id
                      /\ trueRoot(id)' % RestId = id % RestId
                      /\ RootRow(id)' \/ NextRow(id)'
    BY DEF Lined
  <2>1. CASE id \in DOMAIN ledger
    <3>1. /\ ledger'[id].id = ledger[id].id /\ ledger'[id].owner = ledger[id].owner
          /\ ledger'[id].parentOrderId = ledger[id].parentOrderId
          /\ ledger'[id].rootOrderId = ledger[id].rootOrderId
      BY <1>2, <2>1 DEF RowFields, OrderFields
    <3>2. RootRow(id) => RootRow(id)'
      BY <3>1 DEF RootRow
    <3>3. ASSUME NextRow(id) PROVE NextRow(id)'
      <4>1. /\ id - RestId \in DOMAIN ledger /\ ~OpenRow(id - RestId)
            /\ ledger[id].owner = ledger[id - RestId].owner
        BY <3>3 DEF NextRow
      <4>2. /\ id - RestId \in DOMAIN ledger' /\ ~OpenRow(id - RestId)'
            /\ ledger'[id - RestId].owner = ledger[id - RestId].owner
        BY <1>1, <1>2, <4>1 DEF OpenRow, RowFields, OrderFields
      <4>3. trueRoot(id - RestId)' = trueRoot(id - RestId)
        BY <1>6, <4>1
      <4>4. QED
        BY <3>1, <3>3, <4>1, <4>2, <4>3 DEF NextRow
    <3>4. QED
      BY <1>2, <1>6, <1>62, <2>1, <3>1, <3>2, <3>3 DEF Lined
  <2>2. CASE id \in ids_
    <3>1. id - RestId \in DOMAIN ledger' /\ ~OpenRow(id - RestId)'
          /\ ledger'[id - RestId].owner = ledger[id - RestId].owner
      BY <1>1, <1>2, <1>4, <2>2 DEF OpenRow, RowFields, OrderFields
    <3>2. trueRoot(id - RestId)' = trueRoot(id - RestId) /\ trueRoot(id - RestId) \in Int
          /\ trueRoot(id - RestId) <= id - RestId
      BY <1>4, <1>6, <2>2 DEF Lined
    <3>3. NextRow(id)'
      BY <1>5, <2>2, <3>1, <3>2 DEF NextRow
    <3>4. trueRoot(id)' = trueRoot(id - RestId)
      BY <1>5, <2>2, <3>2, NoneAssumption DEF trueRoot
    <3>5. id \in Int /\ id - RestId <= id /\ (id - RestId) % RestId = id % RestId
      BY <1>4, <2>2 DEF RestId
    <3>6. trueRoot(id - RestId) % RestId = (id - RestId) % RestId
      BY <1>4, <2>2 DEF Lined
    <3>7. trueRoot(id)' \in DOMAIN ledger' /\ RootRow(trueRoot(id))'
      <4>1. trueRoot(id - RestId)' \in DOMAIN ledger' /\ RootRow(trueRoot(id - RestId))'
        BY <1>4, <1>62, <2>2
      <4>2. trueRoot(id)' = trueRoot(id - RestId)'
        BY <3>2, <3>4
      <4>3. QED
        BY <4>1, <4>2 DEF RootRow
    <3>8. DOMAIN ledger'[id] = RowFields /\ ledger'[id].id = id
      BY <1>5, <2>2
    <3>9. trueRoot(id)' \in Int /\ trueRoot(id)' <= id /\ trueRoot(id)' % RestId = id % RestId
      <4>1. PICK t : t = trueRoot(id - RestId)
        OBVIOUS
      <4>2. t \in Int /\ t <= id - RestId /\ t % RestId = id % RestId /\ id \in Int
        BY <3>2, <3>5, <3>6, <4>1
      <4>3. t <= id
        BY <4>2 DEF RestId
      <4>4. QED
        BY <3>4, <4>1, <4>2, <4>3
    <3>10. QED
      BY <3>3, <3>5, <3>7, <3>8, <3>9
  <2>3. QED
    BY <1>1, <2>1, <2>2
<1>8. LastOfLine'
  <2> SUFFICES ASSUME NEW x \in DOMAIN ledger', NEW y \in DOMAIN ledger',
                      OpenRow(x)', x % RestId = y % RestId
               PROVE  y <= x
    BY DEF LastOfLine
  <2>1. x \in Int /\ y \in Int
    BY <1>7 DEF Lined
  <2>2. CASE x \in DOMAIN ledger /\ y \in DOMAIN ledger
    BY <1>2, <2>2 DEF LastOfLine, OpenRow
  <2>3. CASE x \in ids_ /\ y \in DOMAIN ledger
    <3>1. y <= x - RestId
      BY <1>4, <2>3
    <3>2. QED
      BY <2>1, <3>1 DEF RestId
  <2>4. CASE x \in DOMAIN ledger /\ y \in ids_
    <3>1. x <= y - RestId /\ OpenRow(y - RestId) /\ y - RestId \notin left
      BY <1>4, <2>4
    <3>2. OpenRow(x) /\ x \in left
      BY <1>2, <2>4 DEF OpenRow
    <3>3. (y - RestId) % RestId = x % RestId
      BY <2>1 DEF RestId
    <3>4. y - RestId <= x
      BY <2>4, <3>1, <3>2, <3>3 DEF LastOfLine, OpenRow
    <3>5. y - RestId = x
      BY <2>1, <3>1, <3>4 DEF RestId
    <3>6. QED
      BY <3>1, <3>2, <3>5
  <2>5. CASE x \in ids_ /\ y \in ids_
    <3>1. /\ x - RestId \in DOMAIN ledger /\ y - RestId \in DOMAIN ledger
          /\ OpenRow(x - RestId)
      BY <1>4, <2>5
    <3>2. (x - RestId) % RestId = x % RestId /\ (y - RestId) % RestId = y % RestId
      BY <2>1 DEF RestId
    <3>3. y - RestId <= x - RestId
      BY <3>1, <3>2 DEF LastOfLine
    <3>4. QED
      BY <2>1, <3>3 DEF RestId
  <2>6. QED
    BY <1>1, <2>2, <2>3, <2>4, <2>5
<1>9. Booked'
  <2>1. ASSUME NEW o \in book'
        PROVE  /\ DOMAIN o = OrderFields /\ o.id \in Int
               /\ OpenRow(o.id)' /\ ledger'[o.id].owner = o.owner
    <3>1. o.id \in left
      BY DEF left
    <3>2. CASE o \in book
      <4>1. DOMAIN o = OrderFields /\ o.id \in Int /\ OpenRow(o.id) /\ ledger[o.id].owner = o.owner
        BY <3>2 DEF Booked
      <4>2. QED
        BY <1>1, <1>2, <3>1, <4>1 DEF OpenRow, RowFields, OrderFields
    <3>3. CASE o \notin book
      <4>1. PICK p \in book : Continues(o, p)
        BY <3>3 DEF Moved
      <4>2. p.id \in Int /\ OpenRow(p.id) /\ o.id = p.id + RestId
        BY <4>1 DEF Booked, Continues
      <4>3. o.id \notin DOMAIN ledger
        <5>1. o.id \in Int /\ p.id % RestId = o.id % RestId /\ ~(o.id <= p.id)
          BY <4>2 DEF RestId
        <5>2. QED
          BY <4>2, <5>1 DEF LastOfLine, OpenRow
      <4>4. o.id \in ids_
        BY <4>3 DEF ids_, new
      <4>5. at(o.id) = o
        BY <1>3, <4>4 DEF Moved
      <4>6. ledger'[o.id].owner = o.owner /\ OpenRow(o.id)'
        BY <1>1, <1>4, <1>5, <4>4, <4>5 DEF OpenRow
      <4>7. QED
        BY <4>1, <4>2, <4>6 DEF Continues, RestId
    <3>4. QED
      BY <3>2, <3>3
  <2>2. QED
    BY <2>1 DEF Moved, Booked
<1>10. QED
  BY <1>7, <1>8, <1>9

LEMMA RestContinues ==
  ASSUME NEW o, DOMAIN o = OrderFields, NEW leg
  PROVE  Continues(rest(o, leg), o)
<1> DEFINE a == [o EXCEPT !.id = o.id + RestId]
           b == [a EXCEPT !.offeredAmount = @ - leg.receive]
<1>1. DOMAIN a = OrderFields /\ a.id = o.id + RestId /\ a.owner = o.owner
  BY DEF OrderFields
<1>2. rest(o, leg) = [b EXCEPT !.requestedAmount = @ - leg.spend]
  BY DEF rest
<1> HIDE DEF a
<1>3. DOMAIN b = OrderFields /\ b.id = o.id + RestId /\ b.owner = o.owner
  BY <1>1 DEF OrderFields
<1> HIDE DEF b
<1>4. QED
  BY <1>2, <1>3 DEF Continues, OrderFields

(* What a fill leaves is of the same line as its order, and after all of   *)
(* the line.                                                               *)
LEMMA NextInLine ==
  ASSUME LineInv, NEW p \in book, NEW q \in book
  PROVE  q.id # p.id + RestId
<1>1. p.id \in Int /\ q.id \in Int /\ OpenRow(p.id) /\ q.id \in DOMAIN ledger /\ p.id \in DOMAIN ledger
  BY DEF LineInv, Booked, OpenRow
<1>2. q.id % RestId = p.id % RestId => q.id <= p.id
  BY <1>1 DEF LineInv, LastOfLine
<1>3. QED
  BY <1>1, <1>2 DEF RestId

(* Some orders leave the book, and what is left of others enters it.       *)
LEMMA PartsMove ==
  ASSUME LineInv, NEW gone \in SUBSET book, NEW partly \in SUBSET gone, NEW leg,
         book' = (book \ gone) \cup {rest(o, leg[o]) : o \in partly}
  PROVE  Moved
<1>1. \A o \in partly : Continues(rest(o, leg[o]), o) /\ o.id \in Int
  BY RestContinues DEF LineInv, Booked
<1>2. ASSUME NEW o \in gone, NEW q \in book' PROVE q.id # o.id
  <2>1. CASE q \in book \ gone
    BY <2>1 DEF LineInv, Booked
  <2>2. CASE q \in {rest(p, leg[p]) : p \in partly}
    <3>1. PICK p \in partly : q.id = p.id + RestId
      BY <1>1, <2>2 DEF Continues
    <3>2. QED
      BY <3>1, NextInLine
  <2>3. QED
    BY <2>1, <2>2
<1>3. ASSUME NEW o \in book' PROVE o \in book \/ \E p \in book : Continues(o, p) /\ \A q \in book' : q.id # p.id
  BY <1>1, <1>2
<1>4. ASSUME NEW o \in book', NEW p \in book', o.id = p.id PROVE o = p
  <2>1. CASE o \in book \ gone /\ p \in book \ gone
    BY <1>4, <2>1 DEF LineInv, Booked
  <2>2. CASE o \in book \ gone /\ p \notin book \ gone
    <3>1. PICK r \in partly : p = rest(r, leg[r])
      BY <2>2
    <3>2. p.id = r.id + RestId
      BY <1>1, <3>1 DEF Continues
    <3>3. QED
      BY <1>4, <2>2, <3>2, NextInLine
  <2>3. CASE o \notin book \ gone /\ p \in book \ gone
    <3>1. PICK r \in partly : o = rest(r, leg[r])
      BY <2>3
    <3>2. o.id = r.id + RestId
      BY <1>1, <3>1 DEF Continues
    <3>3. QED
      BY <1>4, <2>3, <3>2, NextInLine
  <2>4. CASE o \notin book \ gone /\ p \notin book \ gone
    <3>1. PICK r \in partly, t \in partly : o = rest(r, leg[r]) /\ p = rest(t, leg[t])
      BY <2>4
    <3>2. r.id + RestId = t.id + RestId /\ r.id \in Int /\ t.id \in Int
      BY <1>1, <1>4, <3>1 DEF Continues
    <3>3. r = t
      BY <3>2 DEF LineInv, Booked, RestId
    <3>4. QED
      BY <3>1, <3>3
  <2>5. QED
    BY <2>1, <2>2, <2>3, <2>4
<1>5. QED
  BY <1>3, <1>4 DEF Moved

LEMMA ChainMoves ==
  ASSUME LineInv, ChainStep
  PROVE  Moved /\ \E closed : closed # "open" /\ Recorded(closed)
<1>1. CASE \E tx \in pending : SettleTx(tx)
  <2>1. PICK tx \in pending : SettleTx(tx)
    BY <1>1
  <2> DEFINE gone == {o \in book : o.id \in taken(tx)}
             leg == [o \in book |-> legOn(tx, o)]
             partly == {o \in gone : legOn(tx, o).takeAmount # None}
  <2>2. book' = (book \ gone) \cup {rest(o, leg[o]) : o \in partly}
    BY <2>1 DEF SettleTx, Settle, remainders
  <2>3. gone \in SUBSET book /\ partly \in SUBSET gone
    OBVIOUS
  <2> HIDE DEF gone, partly, leg
  <2>4. Moved
    BY <2>2, <2>3, PartsMove
  <2>5. QED
    BY <2>1, <2>4 DEF SettleTx
<1>2. CASE \E o \in book : SomeoneCloses(o) \/ SomeoneFills(o)
  <2>1. PICK o \in book : SomeoneCloses(o) \/ SomeoneFills(o)
    BY <1>2
  <2>2. CASE SomeoneCloses(o)
    <3> DEFINE gone == {o}
               partly == {}
               leg == [q \in book |-> q]
    <3>1. book' = (book \ gone) \cup {rest(q, leg[q]) : q \in partly}
      BY <2>2 DEF SomeoneCloses, SomeoneTakes
    <3>11. gone \in SUBSET book /\ partly \in SUBSET gone
      OBVIOUS
    <3> HIDE DEF gone, partly, leg
    <3>2. Moved
      BY <3>1, <3>11, PartsMove
    <3>3. QED
      BY <2>2, <3>2 DEF SomeoneCloses
  <2>3. CASE SomeoneFills(o)
    <3>1. PICK t : book' = (book \ {o}) \cup {rest(o, partialLeg(o, t))}
      BY <2>3 DEF SomeoneFills
    <3> DEFINE gone == {o}
               partly == {o}
               leg == [q \in book |-> partialLeg(q, t)]
    <3>2. book' = (book \ gone) \cup {rest(q, leg[q]) : q \in partly}
      BY <3>1
    <3>21. gone \in SUBSET book /\ partly \in SUBSET gone
      OBVIOUS
    <3> HIDE DEF gone, partly, leg
    <3>3. Moved
      BY <3>2, <3>21, PartsMove
    <3>4. QED
      BY <2>3, <3>3 DEF SomeoneFills
  <2>4. QED
    BY <2>1, <2>2, <2>3
<1>3. QED
  BY <1>1, <1>2 DEF ChainStep

----------------------------------------------------------------------------
(***************************************************************************)
(* What the page of the own orders shows is linked and, of what is open,   *)
(* true.                                                                   *)
(***************************************************************************)
(* The nearest order above one of a line that is in a set: the one before  *)
(* it, or else the nearest above that.                                     *)
LEMMA NearestAbove ==
  ASSUME LedgerInv, Lined, NEW U, U \subseteq DOMAIN ledger,
         NEW id \in DOMAIN ledger, NextRow(id), trueRoot(id) \in U
  PROVE  /\ cachedRoot(id, U) \in Int
         /\ id - RestId \in U => cachedRoot(id, U) = id - RestId
         /\ id - RestId \notin U => cachedRoot(id, U) = cachedRoot(id - RestId, U)
<1> DEFINE p == id - RestId
           above(x) == {a \in U : a < x /\ trueRoot(a) = trueRoot(x)}
<1>1. id \in Int /\ p \in DOMAIN ledger /\ p \in Int /\ p < id /\ trueRoot(id) = trueRoot(p)
  <2>1. id \in Int /\ p \in DOMAIN ledger /\ p \in Int /\ ledger[id].rootOrderId = trueRoot(p)
        /\ trueRoot(p) \in Int
    BY DEF Lined, NextRow
  <2>2. trueRoot(id) = trueRoot(p)
    BY <2>1, NoneAssumption DEF trueRoot
  <2>3. QED
    BY <2>1, <2>2 DEF RestId
<1>2. \A a \in U : a \in Int /\ trueRoot(a) % RestId = a % RestId
  BY DEF Lined
<1>3. \A a \in U : a < id /\ trueRoot(a) = trueRoot(id) => a <= p
  <2> SUFFICES ASSUME NEW a \in U, a < id, trueRoot(a) = trueRoot(id) PROVE a <= p
    OBVIOUS
  <2>1. a \in Int /\ a % RestId = id % RestId
    BY <1>2 DEF Lined
  <2>2. QED
    BY <1>1, <2>1 DEF RestId
<1>4. above(id) \subseteq Int /\ IsFiniteSet(above(id))
  <2>1. above(id) \subseteq DOMAIN ledger
    OBVIOUS
  <2> HIDE DEF above
  <2>2. QED
    BY <2>1, FS_Subset DEF LedgerInv
<1>5. trueRoot(id) \in above(id)
  <2>1. trueRoot(id) <= p /\ trueRoot(id) \in Int
    BY <1>1 DEF Lined
  <2>2. trueRoot(trueRoot(id)) = trueRoot(id)
    <3>1. RootRow(trueRoot(id))
      BY DEF Lined
    <3>2. PICK t : t = trueRoot(id)
      OBVIOUS
    <3>3. ledger[t].rootOrderId = None
      BY <3>1, <3>2 DEF RootRow
    <3>4. trueRoot(t) = t
      BY <3>3 DEF trueRoot
    <3>5. QED
      BY <3>2, <3>4
  <2>3. QED
    BY <1>1, <2>1, <2>2
<1>6. cachedRoot(id, U) = Max(above(id)) /\ cachedRoot(p, U) = Max(above(p))
  BY DEF cachedRoot
<1>7. Max(above(id)) \in above(id) /\ \A x \in above(id) : x <= Max(above(id))
  <2> HIDE DEF above
  <2>1. QED
    BY <1>4, <1>5, LargestIn
<1>8. cachedRoot(id, U) \in Int
  BY <1>2, <1>6, <1>7
<1>9. CASE p \in U
  <2>1. p \in above(id)
    BY <1>1, <1>9
  <2>2. p <= Max(above(id)) /\ Max(above(id)) <= p /\ Max(above(id)) \in Int
    BY <1>2, <1>3, <1>7, <2>1
  <2> HIDE DEF above
  <2>3. Max(above(id)) = p
    BY <1>1, <2>2
  <2>4. QED
    BY <1>6, <1>8, <1>9, <2>3
<1>10. CASE p \notin U
  <2>1. above(id) = above(p)
    <3>1. ASSUME NEW a \in U PROVE a < id /\ trueRoot(a) = trueRoot(id) <=> a < p /\ trueRoot(a) = trueRoot(p)
      BY <1>1, <1>2, <1>3, <1>10
    <3>2. QED
      BY <3>1
  <2>2. QED
    BY <1>6, <1>8, <1>10, <2>1
<1>11. QED
  BY <1>9, <1>10

(* An order is shown if it is or was on the chain, and none that is open   *)
(* there as the parent of another.                                         *)
TrueRows(s) ==
  \A i \in DOMAIN s :
    /\ s[i].id \in DOMAIN ledger
    /\ s[i].parentOrderId # None =>
         s[i].parentOrderId \in DOMAIN ledger /\ ~OpenRow(s[i].parentOrderId)

LEMMA AnswersTrue ==
  ASSUME LedgerInv, Lined, NEW answer \in Answers("orders")
  PROVE  LinkedRows(answer) /\ TrueRows(answer)
<1>1. PICK rows \in caches : answer = listByOwner(rows, Me)
  BY DEF Answers
<1>2. PICK ids_, lag :
        /\ ids_ \subseteq DOMAIN ledger /\ rows = view(ids_, lag)
        /\ \A id \in DOMAIN ledger : ledger[id].parentOrderId = None => id \in ids_
  <2>1. PICK missing \in SUBSET {id \in DOMAIN ledger : ledger[id].parentOrderId # None} :
          rows \in views(DOMAIN ledger \ missing)
    BY <1>1 DEF caches
  <2>2. PICK ids_ : ids_ = DOMAIN ledger \ missing
    OBVIOUS
  <2>3. PICK lag \in lags(ids_) : rows = view(ids_, lag)
    BY <2>1, <2>2, Zenon DEF views
  <2>4. ids_ \subseteq DOMAIN ledger
        /\ \A id \in DOMAIN ledger : ledger[id].parentOrderId = None => id \in ids_
    BY <2>1, <2>2
  <2>5. QED
    BY <2>3, <2>4, Zenon
<1> DEFINE U == {a \in ids_ : a \in linkable(ids_) => lag.link[a] # "in time"}
           has(id) == id \in linkable(ids_) /\ lag.link[id] # "lacking"
           row_(id) == cached(id, statusIn(lag, id), has(id), U)
<1>3. rows = {row_(id) : id \in ids_}
  BY <1>2 DEF view, row_
<1>4. \A id \in ids_ : id \in DOMAIN ledger /\ id \in Int
  BY <1>2 DEF LedgerInv
<1>5. ASSUME NEW id \in ids_
      PROVE  /\ row_(id).id = id /\ row_(id).owner = ledger[id].owner
             /\ row_(id).parentOrderId = IF has(id) THEN ledger[id].parentOrderId ELSE None
             /\ row_(id).rootOrderId = IF has(id) THEN cachedRoot(id, U) ELSE None
  <2>1. DOMAIN ledger[id] = RowFields /\ ledger[id].id = id
    BY <1>4 DEF Lined
  <2> HIDE DEF U, has
  <2>2. QED
    BY <2>1 DEF cached, RowFields, OrderFields
<1> HIDE DEF row_
<1>6. ASSUME NEW id \in ids_, has(id)
      PROVE  /\ NextRow(id) /\ id - RestId \in ids_ /\ trueRoot(id) \in U
  <2>1. ledger[id].parentOrderId \in ids_
    BY <1>6 DEF linkable
  <2>2. ledger[id].parentOrderId # None
    BY <1>4, <2>1, NoneAssumption
  <2>3. NextRow(id)
    BY <1>4, <2>2 DEF Lined, RootRow
  <2>4. trueRoot(id) \in DOMAIN ledger /\ RootRow(trueRoot(id))
    BY <1>4 DEF Lined
  <2>5. PICK t : t = trueRoot(id)
    OBVIOUS
  <2>6. t \in ids_ /\ ledger[t].parentOrderId = None
    BY <1>2, <2>4, <2>5 DEF RootRow
  <2>7. t \notin linkable(ids_)
    BY <1>4, <2>6, NoneAssumption DEF linkable
  <2>8. QED
    BY <2>1, <2>3, <2>5, <2>6, <2>7 DEF NextRow
<1>7. U \subseteq DOMAIN ledger
  BY <1>4
<1>8. ASSUME NEW id \in ids_, has(id)
      PROVE  /\ cachedRoot(id, U) \in Int
             /\ cachedRoot(id, U) \in {id - RestId, row_(id - RestId).rootOrderId}
  <2> DEFINE p == id - RestId
  <2>1. /\ cachedRoot(id, U) \in Int
        /\ p \in U => cachedRoot(id, U) = p
        /\ p \notin U => cachedRoot(id, U) = cachedRoot(p, U)
    <3> HIDE DEF U, has
    <3>1. NextRow(id) /\ trueRoot(id) \in U /\ id \in DOMAIN ledger
      BY <1>4, <1>6, <1>8
    <3>2. QED
      BY <1>7, <3>1, NearestAbove
  <2>2. p \notin U => has(p)
    BY <1>6, <1>8
  <2> HIDE DEF U, has
  <2>3. p \in ids_
    BY <1>6, <1>8
  <2>4. QED
    BY <1>5, <2>1, <2>2, <2>3
<1>9. DistinctRows(answer) /\ {answer[i] : i \in DOMAIN answer} = {r \in rows : r.owner = Me}
  <2> DEFINE f == [id \in ids_ |-> row_(id)]
  <2>1. IsFiniteSet(ids_)
    BY <1>2, FS_Subset DEF LedgerInv
  <2>2. DOMAIN f = ids_ /\ f = [id \in DOMAIN f |-> f[id]] /\ rows = {f[id] : id \in DOMAIN f}
    BY <1>3
  <2>3. \A id \in ids_ : f[id].id = id /\ id \in Int
    BY <1>4, <1>5
  <2> HIDE DEF f
  <2>4. IsFiniteSet(rows)
    BY <2>1, <2>2, ImageFinite
  <2>5. (\A r \in rows : r.id \in Int) /\ (\A q, r \in rows : q.id = r.id => q = r)
    BY <2>2, <2>3
  <2>6. QED
    BY <1>1, <2>4, <2>5, ListedOnce
<1> HIDE DEF U, has
<1>10. ASSUME NEW i \in DOMAIN answer
       PROVE  answer[i].id \in ids_ /\ answer[i] = row_(answer[i].id) /\ ledger[answer[i].id].owner = Me
  <2>1. answer[i] \in rows /\ answer[i].owner = Me
    BY <1>9
  <2>2. PICK id \in ids_ : answer[i] = row_(id)
    BY <1>3, <2>1
  <2>3. QED
    BY <1>5, <2>1, <2>2
<1>11. ASSUME NEW id \in ids_, ledger[id].owner = Me
       PROVE  \E j \in DOMAIN answer : answer[j] = row_(id)
  <2>1. row_(id) \in rows /\ row_(id).owner = Me
    BY <1>3, <1>5, <1>11
  <2>2. QED
    BY <1>9, <2>1
<1>12. LinkedRows(answer)
  <2> SUFFICES ASSUME NEW i \in DOMAIN answer, answer[i].parentOrderId # None \/ answer[i].rootOrderId # None
               PROVE  /\ answer[i].parentOrderId = answer[i].id - RestId /\ answer[i].rootOrderId \in Int
                      /\ \E j \in DOMAIN answer :
                           /\ answer[j].id = answer[i].parentOrderId
                           /\ answer[i].rootOrderId \in {answer[j].id, answer[j].rootOrderId}
    BY DEF LinkedRows
  <2>1. PICK id \in ids_ : id = answer[i].id /\ answer[i] = row_(id) /\ ledger[id].owner = Me
    BY <1>10
  <2>2. has(id)
    BY <1>5, <2>1
  <2>3. NextRow(id) /\ id - RestId \in ids_
    BY <1>6, <2>2
  <2>4. answer[i].parentOrderId = id - RestId /\ answer[i].rootOrderId = cachedRoot(id, U)
    BY <1>5, <2>1, <2>2, <2>3 DEF NextRow
  <2>5. ledger[id - RestId].owner = Me
    BY <2>1, <2>3 DEF NextRow
  <2>6. PICK j \in DOMAIN answer : answer[j] = row_(id - RestId)
    BY <1>11, <2>3, <2>5
  <2>7. answer[j].id = id - RestId
    BY <1>5, <2>3, <2>6
  <2>8. QED
    BY <1>8, <2>1, <2>2, <2>4, <2>6, <2>7
<1>13. TrueRows(answer)
  <2> SUFFICES ASSUME NEW i \in DOMAIN answer
               PROVE  /\ answer[i].id \in DOMAIN ledger
                      /\ answer[i].parentOrderId # None =>
                           answer[i].parentOrderId \in DOMAIN ledger /\ ~OpenRow(answer[i].parentOrderId)
    BY DEF TrueRows
  <2>1. PICK id \in ids_ : id = answer[i].id /\ answer[i] = row_(id)
    BY <1>10
  <2>2. id \in DOMAIN ledger
    BY <1>4
  <2>3. answer[i].parentOrderId # None =>
          answer[i].parentOrderId \in DOMAIN ledger /\ ~OpenRow(answer[i].parentOrderId)
    BY <1>5, <1>6, <2>1 DEF NextRow
  <2>4. QED
    BY <2>1, <2>2, <2>3
<1>14. QED
  BY <1>12, <1>13

(* What is shown stays true, since what is closed stays closed.            *)
LEMMA TruthStays ==
  ASSUME LineInv, NEW closed, closed # "open", Recorded(closed), NEW s, TrueRows(s)
  PROVE  TrueRows(s)'
<1> DEFINE left == {o.id : o \in book'}
           new == {o \in book' : o.id \notin DOMAIN ledger}
           status(id) == IF ledger[id].status # "open" \/ id \in left THEN ledger[id].status
                         ELSE IF id + RestId \in left THEN "partially_filled" ELSE closed
           at(id) == CHOOSE o \in new : o.id = id
<1>1. ledger' = [id \in DOMAIN ledger \cup {o.id : o \in new} |->
                   IF id \in DOMAIN ledger THEN [ledger[id] EXCEPT !.status = status(id)]
                   ELSE row(at(id), id - RestId, trueRoot(id - RestId))]
  BY DEF Recorded
<1> HIDE DEF at, new, left
<1>2. DOMAIN ledger \subseteq DOMAIN ledger'
  BY <1>1
<1>3. ASSUME NEW id \in DOMAIN ledger, OpenRow(id)' PROVE OpenRow(id)
  <2>1. DOMAIN ledger[id] = RowFields /\ "status" \in RowFields
    BY DEF LineInv, Lined, RowFields
  <2>2. ledger'[id] = [ledger[id] EXCEPT !.status = status(id)]
    BY <1>1
  <2>3. ledger'[id].status = status(id)
    BY <2>1, <2>2
  <2>4. QED
    BY <1>3, <2>3 DEF OpenRow
<1>4. QED
  BY <1>2, <1>3 DEF TrueRows

LEMMA LinesKept ==
  ASSUME LineInv, [Next]_vars
  PROVE  LineInv'
<1>1. CASE ChainStep
  BY <1>1, ChainMoves, LinesRecorded
<1>2. CASE UNCHANGED <<book, ledger>>
  BY <1>2 DEF LineInv, Booked, LastOfLine, Lined, RootRow, NextRow, OpenRow, trueRoot
<1>3. QED
  BY <1>1, <1>2, StepKinds

TruthInv == page = "orders" /\ shown # None => LinkedRows(shown) /\ TrueRows(shown)

LEMMA TruthKept ==
  ASSUME LedgerInv, LineInv, TruthInv, [Next]_vars
  PROVE  TruthInv'
<1>1. CASE ChainStep
  <2>1. UNCHANGED <<page, shown>>
    BY <1>1 DEF ChainStep, display
  <2>2. PICK closed : closed # "open" /\ Recorded(closed)
    BY <1>1, ChainMoves
  <2>3. \A s : TrueRows(s) => TrueRows(s)'
    BY <2>2, TruthStays
  <2>4. QED
    BY <2>1, <2>3 DEF TruthInv
<1>2. CASE UNCHANGED <<book, ledger>>
  <2>1. \A s : TrueRows(s)' <=> TrueRows(s)
    BY <1>2 DEF TrueRows, OpenRow
  <2>2. CASE UNCHANGED <<page, shown>>
    BY <2>1, <2>2 DEF TruthInv
  <2>3. CASE shown' = None
    BY <2>3 DEF TruthInv
  <2>4. CASE page' = page /\ shown' \in Answers(page)
    <3>1. page = "orders" => LinkedRows(shown') /\ TrueRows(shown')
      BY <2>4, AnswersTrue DEF LineInv
    <3>2. QED
      BY <2>1, <2>4, <3>1 DEF TruthInv
  <2>5. QED
    BY <1>1, <2>2, <2>3, <2>4, StepKinds
<1>3. QED
  BY <1>1, <1>2, StepKinds

LEMMA TrueRowsCancellable ==
  ASSUME LineInv, ShownInv, TruthInv
  PROVE  LiveRowsCancellable
<1> SUFFICES ASSUME page = "orders", shown # None, NEW k \in DOMAIN shown,
                    shown[k].status = "open", ledger[shown[k].id].status = "open"
             PROVE  LET ps == ToSet(groupPositions(shown)) IN
                    /\ \E p \in ps : p.tip.id = shown[k].id /\ positionStatus(p, clock).canCancel
                    /\ \A p, q \in ps : p.tip.id = shown[k].id /\ q.tip.id = shown[k].id => p = q
  BY DEF LiveRowsCancellable
<1> DEFINE ps == groupPositions(shown)
<1>1. DistinctRows(shown) /\ LinkedRows(shown) /\ TrueRows(shown)
  BY DEF ShownInv, TruthInv
<1>2. OpenRow(shown[k].id) /\ shown[k].id \in Int
  BY <1>1 DEF TrueRows, OpenRow, DistinctRows
<1>3. Childless(shown[k], shown)
  <2> SUFFICES ASSUME NEW i \in DOMAIN shown, shown[i].parentOrderId = shown[k].id PROVE FALSE
    BY DEF Childless
  <2>1. shown[i].parentOrderId # None
    BY <1>2, NoneAssumption
  <2>2. ~OpenRow(shown[i].parentOrderId)
    BY <1>1, <2>1 DEF TrueRows
  <2>3. QED
    BY <1>2, <2>2
<1>4. PICK n \in DOMAIN ps : ps[n].tip = shown[k]
  BY <1>1, <1>3, ChildlessEnds
<1>5. positionStatus(ps[n], clock).canCancel
  BY <1>2, <1>4 DEF positionStatus
<1>6. \A i, j \in DOMAIN ps : ps[i].tip.id = ps[j].tip.id => i = j
  BY <1>1, TipsDiffer
<1> HIDE DEF ps
<1>7. ToSet(ps) = {ps[i] : i \in DOMAIN ps}
  BY DEF ToSet, Range
<1>8. QED
  BY <1>4, <1>5, <1>6, <1>7 DEF ps

----------------------------------------------------------------------------
(***************************************************************************)
(* Requests, on their way from the builder to the chain.                   *)
(***************************************************************************)
UnderWay == builds \cup signings \cup pending

Previewed == {tx \in {flow.tx} : flow.step = "preview"}

All == Requests \cup Previewed

(* The page waits for it.                                                  *)
Busy(tx) ==
  \/ tx \in builds /\ tx.mount = mount
  \/ flow.step \in {"preview", "signing", "submitted"} /\ tx = flow.tx

(* Mounts and clicks of the requests have been.                            *)
Numbered ==
  /\ mount \in Nat /\ clicks \in Nat
  /\ \A tx \in All : tx.mount \in Nat /\ tx.mount <= mount /\ tx.click \in Nat /\ tx.click <= clicks

(* A request is at one place.                                              *)
Placed ==
  /\ builds \cap signings = {} /\ builds \cap pending = {} /\ builds \cap settled = {}
  /\ signings \cap pending = {} /\ signings \cap settled = {} /\ pending \cap settled = {}
  /\ flow.step = "preview" => flow.tx \notin Requests

(* The step of the flow tells where the request of the page is.            *)
OnPage ==
  /\ \A tx \in builds : tx.mount = mount => flow.step = "building"
  /\ \A t, u \in builds : t.mount = mount /\ u.mount = mount => t = u
  /\ \A tx \in signings : tx.mount = mount => flow.step = "signing" /\ tx = flow.tx
  /\ flow.step \in {"preview", "signing", "submitted"} => flow.tx.mount = mount
  /\ flow.step = "signing" => flow.tx \in signings
  /\ flow.step = "submitted" => flow.tx \in pending \cup settled

(* Of a click one request is under way, and after it has settled none      *)
(* until the page has gone on.                                             *)
OneOfAClick ==
  /\ \A t, u \in UnderWay : t.click = u.click => t = u
  /\ flow.step = "preview" => \A tx \in UnderWay : tx.click # flow.tx.click
  /\ flow.step = "submitted" => \A tx \in UnderWay : tx.click = flow.tx.click => tx = flow.tx

(* Requests of a click take different orders, and others than the queue of *)
(* the request that the page is busy with.                                 *)
OrdersDiffer ==
  /\ claimQueue \in Seq(Int) /\ IsInjective(claimQueue)
  /\ \A t, u \in All : t # u /\ t.click = u.click => taken(t) \cap taken(u) = {}
  /\ \A a, tx \in All :
       Busy(a) /\ tx.click = a.click => taken(tx) \cap ToSet(claimQueue) = {}

FlowInv ==
  /\ QueueOnlyBehindClaim
  /\ Numbered /\ Placed /\ OnPage /\ OneOfAClick /\ OrdersDiffer

(***************************************************************************)
(* A new request.                                                          *)
(***************************************************************************)
(* A request of a new click, when the page is not busy.                    *)
LEMMA FreshKeeps ==
  ASSUME FlowInv, NEW tx, tx.mount = mount, tx.click = clicks + 1,
         flow.step \in {"idle", "error"},
         build(tx), clicks' = clicks + 1, UNCHANGED <<signings, pending, settled, mount, page>>,
         claimQueue' \in Seq(Int), IsInjective(claimQueue'),
         claimQueue' # << >> => page = "orders" /\ taken(tx) \cap ToSet(claimQueue') = {}
  PROVE  FlowInv'
<1> USE DEF FlowInv
<1>1. flow'.step = "building" /\ builds' = builds \cup {tx}
  BY DEF build, At
<1>2. All' = All \cup {tx} /\ UnderWay' = UnderWay \cup {tx} /\ Requests' = Requests \cup {tx}
  BY <1>1 DEF All, UnderWay, Requests, Previewed
<1>3. tx.mount \in Nat /\ tx.click \in Nat /\ clicks \in Nat /\ clicks' \in Nat
      /\ \A u \in All : u.click \in Nat /\ u.click <= clicks /\ u.click # tx.click
  BY DEF Numbered
<1>4. tx \notin All
  BY <1>3
<1>5. Numbered'
  BY <1>2, <1>3 DEF Numbered
<1>6. Placed'
  BY <1>1, <1>4 DEF Placed, All, Requests
<1>7. \A u \in builds : u.mount # mount
  BY DEF OnPage
<1>8. \A u \in signings : u.mount # mount
  BY DEF OnPage
<1>9. OnPage'
  BY <1>1, <1>7, <1>8 DEF OnPage
<1>10. UnderWay \subseteq All
  BY DEF All, Requests, UnderWay
<1>11. OneOfAClick'
  BY <1>1, <1>2, <1>3, <1>10 DEF OneOfAClick
<1>12. QueueOnlyBehindClaim'
  BY <1>1 DEF QueueOnlyBehindClaim
<1>13. \A a \in All' : Busy(a)' => a = tx
  BY <1>1, <1>7 DEF Busy
<1>14. \A t, u \in All' : t # u /\ t.click = u.click => taken(t) \cap taken(u) = {}
  BY <1>2, <1>3 DEF OrdersDiffer
<1>15. claimQueue' = << >> => ToSet(claimQueue') = {}
  BY DEF ToSet
<1>16. \A a, u \in All' :
         Busy(a)' /\ u.click = a.click => taken(u) \cap ToSet(claimQueue') = {}
  BY <1>2, <1>3, <1>13, <1>15
<1>17. OrdersDiffer'
  BY <1>14, <1>16 DEF OrdersDiffer, taken
<1>18. QED
  BY <1>5, <1>6, <1>9, <1>11, <1>12, <1>17

(* The tail of a sequence without repetitions has all but its head.        *)
LEMMA TailDiffers ==
  ASSUME NEW s \in Seq(Int), s # << >>, IsInjective(s)
  PROVE  /\ Tail(s) \in Seq(Int) /\ IsInjective(Tail(s))
         /\ Head(s) \in ToSet(s) /\ ToSet(Tail(s)) \subseteq ToSet(s) \ {Head(s)}
<1>1. DOMAIN s = 1..Len(s) /\ Len(s) \in Nat /\ Len(s) > 0 /\ Head(s) = s[1]
  BY EmptySeq
<1>2. Tail(s) \in Seq(Int) /\ DOMAIN Tail(s) = 1..(Len(s) - 1)
      /\ \A i \in 1..(Len(s) - 1) : Tail(s)[i] = s[i + 1]
  OBVIOUS
<1>3. \A i, j \in 1..Len(s) : s[i] = s[j] => i = j
  BY <1>1 DEF IsInjective
<1>4. \A i \in 1..(Len(s) - 1) : i + 1 \in 1..Len(s) /\ i + 1 # 1
  BY <1>1
<1>5. \A i, j \in 1..(Len(s) - 1) : Tail(s)[i] = Tail(s)[j] => i = j
  <2> SUFFICES ASSUME NEW i \in 1..(Len(s) - 1), NEW j \in 1..(Len(s) - 1),
                      Tail(s)[i] = Tail(s)[j]
               PROVE  i = j
    OBVIOUS
  <2>1. i + 1 = j + 1
    BY <1>2, <1>3, <1>4
  <2>2. QED
    BY <1>1, <2>1
<1>6. 1 \in 1..Len(s)
  BY <1>1
<1>7. \A i \in 1..(Len(s) - 1) : Tail(s)[i] \in ToSet(s) /\ Tail(s)[i] # Head(s)
  BY <1>1, <1>2, <1>3, <1>4, <1>6 DEF ToSet
<1>8. IsInjective(Tail(s))
  BY <1>2, <1>5 DEF IsInjective
<1>9. Head(s) \in ToSet(s)
  BY <1>1, <1>6 DEF ToSet
<1>10. ToSet(Tail(s)) = {Tail(s)[i] : i \in 1..(Len(s) - 1)}
  BY <1>2 DEF ToSet
<1>11. ToSet(Tail(s)) \subseteq ToSet(s) \ {Head(s)}
  BY <1>7, <1>10
<1>12. QED
  BY <1>2, <1>8, <1>9, <1>11

(* The next claim of the queue, when the one before it has settled.        *)
LEMMA NextKeeps ==
  ASSUME FlowInv, flow.step = "submitted", flow.tx \in settled, claimQueue # << >>,
         claimAll(claimQueue, flow.tx.click),
         UNCHANGED <<signings, pending, settled, mount, page, clicks>>
  PROVE  FlowInv'
<1> USE DEF FlowInv
<1> DEFINE id == Head(claimQueue)
           tx == request("cancel", flow.tx.click, <<cancelLeg(id)>>)
<1>1. flow'.step = "building" /\ builds' = builds \cup {tx} /\ claimQueue' = Tail(claimQueue)
  BY DEF claimAll, buildClaim, build, At
<1>2. tx.mount = mount /\ tx.click = flow.tx.click /\ taken(tx) = {id}
  BY DEF request, taken, selected, cancelLeg
<1> HIDE DEF tx
<1>3. claimQueue \in Seq(Int) /\ claimQueue # << >> /\ IsInjective(claimQueue)
  BY DEF OrdersDiffer
<1> HIDE DEF id
<1>4. id \in ToSet(claimQueue) /\ ToSet(Tail(claimQueue)) \subseteq ToSet(claimQueue) \ {id}
      /\ Tail(claimQueue) \in Seq(Int) /\ IsInjective(Tail(claimQueue))
  BY <1>3, TailDiffers DEF id
<1>5. Busy(flow.tx) /\ flow.tx \in All /\ flow.tx \in Requests
  BY DEF Busy, All, Requests
<1>6. ASSUME NEW u \in All, u.click = flow.tx.click
      PROVE  u # tx /\ taken(u) \cap taken(tx) = {} /\ taken(u) \cap ToSet(Tail(claimQueue)) = {}
  <2>1. taken(u) \cap ToSet(claimQueue) = {}
    BY <1>5, <1>6 DEF OrdersDiffer
  <2>2. QED
    BY <1>2, <1>4, <2>1
<1>7. tx \notin All /\ Previewed = {} /\ Previewed' = {}
  BY <1>1, <1>2, <1>6 DEF Previewed
<1>8. All' = All \cup {tx} /\ UnderWay' = UnderWay \cup {tx} /\ Requests' = Requests \cup {tx}
  BY <1>1, <1>7 DEF All, UnderWay, Requests
<1>9. Numbered'
  BY <1>2, <1>5, <1>8 DEF Numbered
<1>10. Placed'
  BY <1>1, <1>7 DEF Placed, All, Requests
<1>11. (\A u \in builds : u.mount # mount) /\ (\A u \in signings : u.mount # mount)
  BY DEF OnPage
<1>12. OnPage'
  BY <1>1, <1>2, <1>11 DEF OnPage
<1>13. \A u \in UnderWay : u.click # flow.tx.click
  BY DEF OneOfAClick, Placed, UnderWay
<1>14. OneOfAClick'
  BY <1>1, <1>2, <1>8, <1>13 DEF OneOfAClick
<1>15. QueueOnlyBehindClaim'
  BY <1>1 DEF QueueOnlyBehindClaim
<1>16. \A a \in All' : Busy(a)' => a = tx
  BY <1>1, <1>11 DEF Busy
<1>17. \A t, u \in All' : t # u /\ t.click = u.click => taken(t) \cap taken(u) = {}
  <2>1. \A t, u \in All : t # u /\ t.click = u.click => taken(t) \cap taken(u) = {}
    BY DEF OrdersDiffer
  <2>2. QED
    BY <1>2, <1>6, <1>8, <2>1
<1>18. taken(tx) \cap ToSet(Tail(claimQueue)) = {}
  BY <1>2, <1>4
<1>19. \A a, u \in All' :
         Busy(a)' /\ u.click = a.click => taken(u) \cap ToSet(claimQueue') = {}
  BY <1>1, <1>2, <1>6, <1>8, <1>16, <1>18
<1>20. OrdersDiffer'
  BY <1>1, <1>4, <1>17, <1>19 DEF OrdersDiffer, taken
<1>21. QED
  BY <1>9, <1>10, <1>12, <1>14, <1>15, <1>20

(* The page stops waiting.                                                 *)
LEMMA LeavingKeeps ==
  ASSUME FlowInv, flow.step \in {"preview", "submitted"}, reset, claimQueue' = << >>,
         UNCHANGED <<builds, signings, pending, settled, mount, page, clicks>>
  PROVE  FlowInv'
<1> USE DEF FlowInv
<1>1. flow'.step = "idle"
  BY DEF reset, Idle
<1>2. All' \subseteq All /\ UnderWay' = UnderWay /\ Requests' = Requests
  BY <1>1 DEF All, UnderWay, Requests, Previewed
<1>3. Numbered' /\ Placed' /\ OnPage' /\ OneOfAClick' /\ QueueOnlyBehindClaim'
  BY <1>1, <1>2 DEF Numbered, Placed, OnPage, OneOfAClick, QueueOnlyBehindClaim
<1>4. claimQueue' \in Seq(Int) /\ IsInjective(claimQueue') /\ ToSet(claimQueue') = {}
  BY DEF IsInjective, ToSet
<1>5. \A t, u \in All' : t # u /\ t.click = u.click => taken(t) \cap taken(u) = {}
  BY <1>2 DEF OrdersDiffer
<1>6. OrdersDiffer'
  BY <1>4, <1>5 DEF OrdersDiffer, taken
<1>7. QED
  BY <1>3, <1>6

(* Another page is opened.                                                 *)
LEMMA OpenKeeps ==
  ASSUME FlowInv, NEW p, Open(p)
  PROVE  FlowInv'
<1> USE DEF FlowInv
<1>1. /\ flow'.step = "idle" /\ claimQueue' = << >> /\ mount' = mount + 1
      /\ UNCHANGED <<builds, signings, pending, settled, clicks>>
  BY DEF Open, Idle, chain
<1>2. All' \subseteq All /\ UnderWay' = UnderWay /\ Requests' = Requests
  BY <1>1 DEF All, UnderWay, Requests, Previewed
<1>3. mount' \in Nat /\ clicks' \in Nat
      /\ \A u \in All : u.mount \in Nat /\ u.mount <= mount' /\ u.mount # mount'
                        /\ u.click \in Nat /\ u.click <= clicks'
  BY <1>1 DEF Numbered
<1>4. Numbered'
  BY <1>2, <1>3 DEF Numbered
<1>5. builds \subseteq All /\ signings \subseteq All
  BY DEF All, Requests
<1>6. OnPage'
  BY <1>1, <1>3, <1>5 DEF OnPage
<1>7. Placed' /\ OneOfAClick' /\ QueueOnlyBehindClaim'
  BY <1>1, <1>2 DEF Placed, OneOfAClick, QueueOnlyBehindClaim
<1>8. claimQueue' \in Seq(Int) /\ IsInjective(claimQueue') /\ ToSet(claimQueue') = {}
  BY <1>1 DEF IsInjective, ToSet
<1>9. \A t, u \in All' : t # u /\ t.click = u.click => taken(t) \cap taken(u) = {}
  BY <1>2 DEF OrdersDiffer
<1>10. OrdersDiffer'
  BY <1>8, <1>9 DEF OrdersDiffer, taken
<1>11. QED
  BY <1>4, <1>6, <1>7, <1>10

(***************************************************************************)
(* A request moves on.                                                     *)
(***************************************************************************)
(* What a step leaves of the invariant when no request is added, none is   *)
(* busy that was not, and the queue stays or is dropped.                   *)
LEMMA MovesKeep ==
  ASSUME FlowInv, UNCHANGED <<mount, page, clicks>>, All' \subseteq All,
         \A a \in All' : Busy(a)' => Busy(a),
         claimQueue' = claimQueue \/ claimQueue' = << >>
  PROVE  Numbered' /\ OrdersDiffer'
<1> USE DEF FlowInv
<1>1. Numbered'
  BY DEF Numbered
<1>2. claimQueue' \in Seq(Int) /\ IsInjective(claimQueue')
      /\ ToSet(claimQueue') \subseteq ToSet(claimQueue)
  <2>1. CASE claimQueue' = claimQueue
    BY <2>1 DEF OrdersDiffer
  <2>2. CASE claimQueue' = << >>
    BY <2>2 DEF IsInjective, ToSet
  <2>3. QED
    BY <2>1, <2>2
<1>3. \A t, u \in All' : t # u /\ t.click = u.click => taken(t) \cap taken(u) = {}
  BY DEF OrdersDiffer
<1>4. \A a, u \in All' :
        Busy(a)' /\ u.click = a.click => taken(u) \cap ToSet(claimQueue') = {}
  BY <1>2 DEF OrdersDiffer
<1>5. OrdersDiffer'
  BY <1>2, <1>3, <1>4 DEF OrdersDiffer, taken
<1>6. QED
  BY <1>1, <1>5

LEMMA BuildKeeps ==
  ASSUME FlowInv, NEW tx \in builds, BuildReturns(tx)
  PROVE  FlowInv'
<1> USE DEF FlowInv
<1>1. UNCHANGED <<signings, pending, settled, mount, page, clicks>> /\ builds' = builds \ {tx}
  BY DEF BuildReturns, WhileFlowing, chain, Built, BuildFails
<1>2. tx \in All /\ tx \in UnderWay /\ tx \notin signings \cup pending \cup settled
  BY DEF All, UnderWay, Requests, Placed
<1>3. CASE tx.mount # mount
  <2>1. flow' = flow /\ claimQueue' = claimQueue
    BY <1>3 DEF BuildReturns, Built, BuildFails, ErrorEffect, mounted
  <2>2. All' \subseteq All /\ UnderWay' \subseteq UnderWay /\ Requests' \subseteq Requests
    BY <1>1, <2>1 DEF All, UnderWay, Requests, Previewed
  <2>3. \A a \in All' : Busy(a)' => Busy(a)
    BY <1>1, <2>1 DEF Busy
  <2>4. Numbered' /\ OrdersDiffer'
    BY <1>1, <2>1, <2>2, <2>3, MovesKeep
  <2>5. Placed' /\ OnPage' /\ OneOfAClick' /\ QueueOnlyBehindClaim'
    BY <1>1, <2>1, <2>2 DEF Placed, OnPage, OneOfAClick, QueueOnlyBehindClaim
  <2>6. QED
    BY <2>4, <2>5
<1>4. CASE tx.mount = mount
  <2>1. /\ flow.step = "building"
        /\ \A u \in builds' : u.mount # mount
        /\ \A u \in signings : u.mount # mount
    BY <1>1, <1>4 DEF OnPage
  <2>2. CASE Built(tx, mounted(tx))
    <3>1. flow'.step = "preview" /\ flow'.tx = tx /\ claimQueue' = claimQueue
      BY <1>4, <2>2 DEF Built, BuildReturns, ErrorEffect, mounted, At
    <3>2. All' \subseteq All /\ UnderWay' = UnderWay \ {tx} /\ Requests' = Requests \ {tx}
      BY <1>1, <1>2, <3>1 DEF All, UnderWay, Requests, Previewed
    <3>3. \A a \in All' : Busy(a)' => Busy(a)
      BY <1>1, <1>4, <2>1, <3>1 DEF Busy
    <3>4. Numbered' /\ OrdersDiffer'
      BY <1>1, <3>1, <3>2, <3>3, MovesKeep
    <3>5. Placed' /\ OnPage'
      BY <1>1, <1>2, <1>4, <2>1, <3>1, <3>2 DEF Placed, OnPage
    <3>6. OneOfAClick' /\ QueueOnlyBehindClaim'
      BY <1>1, <1>2, <2>1, <3>1, <3>2 DEF OneOfAClick, QueueOnlyBehindClaim
    <3>7. QED
      BY <3>4, <3>5, <3>6
  <2>3. CASE BuildFails(tx, mounted(tx))
    <3>1. flow'.step = "error" /\ claimQueue' = << >>
      BY <1>4, <2>1, <2>3 DEF BuildFails, BuildReturns, ErrorEffect, mounted, At
    <3>2. All' \subseteq All /\ UnderWay' = UnderWay \ {tx} /\ Requests' = Requests \ {tx}
      BY <1>1, <1>2, <3>1 DEF All, UnderWay, Requests, Previewed
    <3>3. \A a \in All' : Busy(a)' => Busy(a)
      BY <1>1, <2>1, <3>1 DEF Busy
    <3>4. Numbered' /\ OrdersDiffer'
      BY <1>1, <3>1, <3>2, <3>3, MovesKeep
    <3>5. Placed' /\ OnPage' /\ OneOfAClick' /\ QueueOnlyBehindClaim'
      BY <1>1, <2>1, <3>1, <3>2 DEF Placed, OnPage, OneOfAClick, QueueOnlyBehindClaim
    <3>6. QED
      BY <3>4, <3>5
  <2>4. QED
    BY <2>2, <2>3 DEF BuildReturns
<1>5. QED
  BY <1>3, <1>4

LEMMA ConfirmKeeps ==
  ASSUME FlowInv, Confirm
  PROVE  FlowInv'
<1> USE DEF FlowInv
<1>1. /\ UNCHANGED <<builds, pending, settled, mount, page, clicks, claimQueue>>
      /\ flow.step = "preview" /\ flow'.step = "signing" /\ flow'.tx = flow.tx
      /\ signings' = signings \cup {flow.tx}
  BY DEF Confirm, confirmAndSign, WhileFlowing, chain, At
<1>2. flow.tx \notin Requests /\ flow.tx.mount = mount
  BY <1>1 DEF Placed, OnPage
<1>3. Previewed = {flow.tx} /\ Previewed' = {}
  BY <1>1 DEF Previewed
<1>4. All' = All /\ UnderWay' = UnderWay \cup {flow.tx}
  BY <1>1, <1>3 DEF All, UnderWay, Requests
<1>5. \A a \in All' : Busy(a)' => Busy(a)
  BY <1>1 DEF Busy
<1>6. Numbered' /\ OrdersDiffer'
  BY <1>1, <1>4, <1>5, MovesKeep
<1>7. Placed'
  BY <1>1, <1>2 DEF Placed, Requests
<1>8. OnPage'
  BY <1>1, <1>2 DEF OnPage
<1>9. OneOfAClick' /\ QueueOnlyBehindClaim'
  BY <1>1, <1>4 DEF OneOfAClick, QueueOnlyBehindClaim
<1>10. QED
  BY <1>6, <1>7, <1>8, <1>9

LEMMA SigningKeeps ==
  ASSUME FlowInv, NEW tx \in signings, WalletReturns(tx)
  PROVE  FlowInv'
<1> USE DEF FlowInv
<1>1. /\ UNCHANGED <<builds, settled, mount, page, clicks>> /\ signings' = signings \ {tx}
      /\ pending' = pending \/ pending' = pending \cup {tx}
  BY DEF WalletReturns, WhileFlowing, Submitted, SigningFails
<1>2. tx \in All /\ tx \in UnderWay /\ tx \in Requests /\ tx \notin builds \cup pending \cup settled
  BY DEF All, UnderWay, Requests, Placed
<1>3. All' \subseteq All \cup Previewed' /\ UnderWay' \subseteq UnderWay /\ Requests' \subseteq Requests
  BY <1>1, <1>2 DEF All, UnderWay, Requests
<1>4. CASE tx.mount # mount
  <2>1. flow' = flow /\ claimQueue' = claimQueue
    BY <1>4 DEF WalletReturns, Submitted, SigningFails, ErrorEffect, mounted
  <2>2. All' \subseteq All
    BY <1>3, <2>1 DEF All, Previewed
  <2>3. \A a \in All' : Busy(a)' => Busy(a)
    BY <1>1, <2>1 DEF Busy
  <2>4. Numbered' /\ OrdersDiffer'
    BY <1>1, <2>1, <2>2, <2>3, MovesKeep
  <2>5. Placed'
    BY <1>1, <1>2, <1>3, <2>1 DEF Placed
  <2>6. OnPage'
    BY <1>1, <1>4, <2>1 DEF OnPage
  <2>7. OneOfAClick' /\ QueueOnlyBehindClaim'
    BY <1>1, <1>3, <2>1 DEF OneOfAClick, QueueOnlyBehindClaim
  <2>8. QED
    BY <2>4, <2>5, <2>6, <2>7
<1>5. CASE tx.mount = mount
  <2>1. /\ flow.step = "signing" /\ flow.tx = tx
        /\ \A u \in builds : u.mount # mount
        /\ \A u \in signings' : u.mount # mount
    BY <1>1, <1>5 DEF OnPage
  <2>2. CASE Submitted(tx, mounted(tx))
    <3>1. flow'.step = "submitted" /\ flow'.tx = tx /\ claimQueue' = claimQueue
          /\ pending' = pending \cup {tx}
      BY <1>5, <2>2 DEF Submitted, WalletReturns, ErrorEffect, mounted, At
    <3>2. All' \subseteq All
      BY <1>3, <3>1 DEF Previewed
    <3>3. \A a \in All' : Busy(a)' => Busy(a)
      BY <1>1, <2>1, <3>1 DEF Busy
    <3>4. Numbered' /\ OrdersDiffer'
      BY <1>1, <3>1, <3>2, <3>3, MovesKeep
    <3>5. Placed'
      BY <1>1, <1>2, <3>1 DEF Placed
    <3>6. OnPage'
      BY <1>1, <1>5, <2>1, <3>1 DEF OnPage
    <3>7. OneOfAClick' /\ QueueOnlyBehindClaim'
      BY <1>1, <1>2, <1>3, <2>1, <3>1 DEF OneOfAClick, QueueOnlyBehindClaim
    <3>8. QED
      BY <3>4, <3>5, <3>6, <3>7
  <2>3. CASE SigningFails(tx, mounted(tx)) /\ UNCHANGED pending
    <3>1. flow'.step = "error" /\ claimQueue' = << >>
      BY <1>5, <2>1, <2>3 DEF SigningFails, WalletReturns, ErrorEffect, mounted, At
    <3>2. All' \subseteq All
      BY <1>3, <3>1 DEF Previewed
    <3>3. \A a \in All' : Busy(a)' => Busy(a)
      BY <1>1, <2>1, <3>1 DEF Busy
    <3>4. Numbered' /\ OrdersDiffer'
      BY <1>1, <3>1, <3>2, <3>3, MovesKeep
    <3>5. Placed' /\ OnPage'
      BY <1>1, <2>1, <2>3, <3>1 DEF Placed, OnPage
    <3>6. OneOfAClick' /\ QueueOnlyBehindClaim'
      BY <1>3, <3>1 DEF OneOfAClick, QueueOnlyBehindClaim
    <3>7. QED
      BY <3>4, <3>5, <3>6
  <2>4. QED
    BY <2>2, <2>3 DEF WalletReturns
<1>6. QED
  BY <1>4, <1>5

LEMMA SettleKeeps ==
  ASSUME FlowInv, NEW tx \in pending, Settle(tx),
         UNCHANGED <<flow, builds, signings, mount, page, clicks, claimQueue>>
  PROVE  FlowInv'
<1> USE DEF FlowInv
<1>1. pending' = pending \ {tx} /\ settled' = settled \cup {tx}
  BY DEF Settle
<1>2. All' = All /\ UnderWay' \subseteq UnderWay /\ Requests' = Requests
  BY <1>1 DEF All, UnderWay, Requests, Previewed
<1>3. \A a \in All' : Busy(a)' => Busy(a)
  BY DEF Busy
<1>4. Numbered' /\ OrdersDiffer'
  BY <1>2, <1>3, MovesKeep
<1>5. Placed'
  BY <1>1, <1>2 DEF Placed
<1>6. OnPage' /\ OneOfAClick' /\ QueueOnlyBehindClaim'
  BY <1>1, <1>2 DEF OnPage, OneOfAClick, QueueOnlyBehindClaim
<1>7. QED
  BY <1>4, <1>5, <1>6

(***************************************************************************)
(* All steps.                                                              *)
(***************************************************************************)
LEMMA FlowBegins ==
  ASSUME Init
  PROVE  FlowInv
<1>1. /\ flow.step = "idle" /\ claimQueue = << >>
      /\ builds = {} /\ signings = {} /\ pending = {} /\ settled = {}
      /\ mount \in Nat /\ clicks \in Nat
  BY WalletAssumption DEF Init, FlowInit, Idle
<1>2. All = {} /\ UnderWay = {} /\ Requests = {}
  BY <1>1 DEF All, UnderWay, Requests, Previewed
<1>3. claimQueue \in Seq(Int) /\ IsInjective(claimQueue)
  BY <1>1 DEF IsInjective
<1>4. QED
  BY <1>1, <1>2, <1>3 DEF FlowInv, Numbered, Placed, OnPage, OneOfAClick, OrdersDiffer,
                          QueueOnlyBehindClaim

flowVars == <<flow, builds, signings, pending, settled, mount, page, claimQueue>>

LEMMA RestingKeeps ==
  ASSUME FlowInv, UNCHANGED flowVars, clicks' = clicks \/ clicks' = clicks + 1
  PROVE  FlowInv'
<1> USE DEF FlowInv, flowVars
<1>1. All' = All /\ UnderWay' = UnderWay /\ Requests' = Requests
  BY DEF All, UnderWay, Requests, Previewed
<1>2. Numbered'
  BY <1>1 DEF Numbered
<1>3. Placed' /\ OnPage' /\ OneOfAClick' /\ QueueOnlyBehindClaim'
  BY <1>1 DEF Placed, OnPage, OneOfAClick, QueueOnlyBehindClaim
<1>4. \A a \in All : Busy(a)' <=> Busy(a)
  BY DEF Busy
<1>5. OrdersDiffer'
  BY <1>1, <1>4 DEF OrdersDiffer, taken
<1>6. QED
  BY <1>2, <1>3, <1>5

(* The claims of a click start with the first that is selected.            *)
LEMMA ClaimKeeps ==
  ASSUME FlowInv, ShownInv, ClaimSelected
  PROVE  FlowInv'
<1> DEFINE tips == selectedTips
           tx == request("cancel", clicks + 1, <<cancelLeg(Head(tips))>>)
<1>1. /\ page = "orders" /\ flow.step \in {"idle", "error"} /\ tips # << >>
      /\ build(tx) /\ claimQueue' = Tail(tips)
      /\ clicks' = clicks + 1 /\ UNCHANGED <<signings, pending, settled, mount, page>>
  BY DEF ClaimSelected, enabled, listed, claimAll, buildClaim, Asking, chain
<1>2. tips \in Seq(Int) /\ IsInjective(tips)
  <2>1. DistinctRows(shown)
    BY DEF ClaimSelected, enabled, ShownInv
  <2>2. QED
    BY <2>1, SelectedDiffer
<1>3. tx.mount = mount /\ tx.click = clicks + 1 /\ taken(tx) = {Head(tips)}
  BY DEF request, taken, selected, cancelLeg
<1> HIDE DEF tips, tx
<1>4. /\ Tail(tips) \in Seq(Int) /\ IsInjective(Tail(tips))
      /\ ToSet(Tail(tips)) \subseteq ToSet(tips) \ {Head(tips)}
  BY <1>1, <1>2, TailDiffers
<1>5. claimQueue' \in Seq(Int) /\ IsInjective(claimQueue')
      /\ taken(tx) \cap ToSet(claimQueue') = {}
  BY <1>1, <1>3, <1>4
<1>6. QED
  BY <1>1, <1>3, <1>5, FreshKeeps

(* Other requests leave no queue.                                          *)
LEMMA AskKeeps ==
  ASSUME FlowInv, NEW kind, NEW legs, build(request(kind, clicks + 1, legs)),
         enabled, Asking, UNCHANGED claimQueue
  PROVE  FlowInv'
<1> DEFINE tx == request(kind, clicks + 1, legs)
<1>1. /\ flow.step \in {"idle", "error"} /\ build(tx)
      /\ clicks' = clicks + 1 /\ UNCHANGED <<signings, pending, settled, mount, page>>
  BY DEF enabled, listed, Asking, chain
<1>2. tx.mount = mount /\ tx.click = clicks + 1
  BY DEF request
<1>3. claimQueue' = << >>
  BY <1>1 DEF FlowInv, QueueOnlyBehindClaim
<1>4. claimQueue' \in Seq(Int) /\ IsInjective(claimQueue')
  BY <1>3 DEF IsInjective
<1> HIDE DEF tx
<1>5. QED
  BY <1>1, <1>2, <1>3, <1>4, FreshKeeps

LEMMA OnSettledKeeps ==
  ASSUME FlowInv, onSettled
  PROVE  FlowInv'
<1>1. /\ flow.step = "submitted" /\ flow.tx \in settled /\ NextClaim
      /\ UNCHANGED <<signings, pending, settled, mount, page, clicks>>
  BY DEF onSettled, chain
<1>2. CASE claimQueue # << >>
  BY <1>1, <1>2, NextKeeps DEF NextClaim
<1>3. CASE claimQueue = << >>
  BY <1>1, <1>3, LeavingKeeps DEF NextClaim
<1>4. QED
  BY <1>2, <1>3

LEMMA FlowKept ==
  ASSUME FlowInv, ShownInv, [Next]_vars
  PROVE  FlowInv'
<1>1. ASSUME ChainStep PROVE FlowInv'
  <2>1. UNCHANGED <<flow, builds, signings, mount, page, clicks, claimQueue>>
    BY <1>1 DEF ChainStep, display
  <2>2. CASE \E tx \in pending : SettleTx(tx)
    BY <2>1, <2>2, SettleKeeps DEF SettleTx
  <2>3. CASE \E o \in book : SomeoneCloses(o) \/ SomeoneFills(o)
    <3>1. UNCHANGED <<pending, settled>>
      BY <2>3 DEF SomeoneCloses, SomeoneFills, SomeoneTakes
    <3>2. QED
      BY <2>1, <3>1, RestingKeeps DEF flowVars
  <2>4. QED
    BY <1>1, <2>2, <2>3 DEF ChainStep
<1>2. ASSUME Tick \/ Answered \/ FetchFails \/ Reindexed \/ hardRefresh
             \/ (\E id \in DOMAIN ledger : ToggleSelect(id)) \/ UNCHANGED vars
      PROVE  FlowInv'
  <2>1. UNCHANGED flowVars /\ (clicks' = clicks \/ clicks' = clicks + 1)
    BY <1>2 DEF Tick, Answered, FetchFails, Reindexed, hardRefresh, ToggleSelect, chain, display,
                vars, flowVars
  <2>2. QED
    BY <2>1, RestingKeeps
<1>3. ASSUME NEW p \in Pages, Open(p) PROVE FlowInv'
  BY <1>3, OpenKeeps
<1>4. ASSUME ClaimSelected PROVE FlowInv'
  BY <1>4, ClaimKeeps
<1>5. ASSUME CancelRow PROVE FlowInv'
  <2>1. PICK p \in ToSet(groupPositions(shown)) :
          build(request("cancel", clicks + 1, <<cancelLeg(p.tip.id)>>))
    BY <1>5 DEF CancelRow, buildClaim
  <2>2. enabled /\ Asking /\ UNCHANGED claimQueue
    BY <1>5 DEF CancelRow
  <2>3. QED
    BY <2>1, <2>2, AskKeeps
<1>6. ASSUME NEW o \in shown, Take(o) PROVE FlowInv'
  <2>1. PICK leg : take(leg)
    BY <1>6 DEF Take
  <2>2. build(request("take", clicks + 1, <<leg>>)) /\ UNCHANGED claimQueue /\ Asking
    BY <2>1 DEF take
  <2>3. enabled
    BY <1>6 DEF Take
  <2>4. QED
    BY <2>2, <2>3, AskKeeps
<1>7. ASSUME NEW op \in shown, Execute(op) PROVE FlowInv'
  <2>1. /\ build(request("take", clicks + 1, takeMany(op.legs)))
        /\ UNCHANGED claimQueue /\ Asking /\ enabled
    BY <1>7 DEF Execute
  <2>2. QED
    BY <2>1, AskKeeps
<1>8. ASSUME NEW tx \in builds, BuildReturns(tx) PROVE FlowInv'
  BY <1>8, BuildKeeps
<1>9. ASSUME Confirm PROVE FlowInv'
  BY <1>9, ConfirmKeeps
<1>10. ASSUME NEW tx \in signings, WalletReturns(tx) PROVE FlowInv'
  BY <1>10, SigningKeeps
<1>11. ASSUME Reject PROVE FlowInv'
  BY <1>11, LeavingKeeps DEF Reject, WhileFlowing, chain
<1>12. ASSUME onDismiss PROVE FlowInv'
  BY <1>12, LeavingKeeps DEF onDismiss, Leave, chain
<1>13. ASSUME onSettled PROVE FlowInv'
  BY <1>13, OnSettledKeeps
<1>14. QED
  BY <1>1, <1>2, <1>3, <1>4, <1>5, <1>6, <1>7, <1>8, <1>9, <1>10, <1>11, <1>12, <1>13 DEF Next

(***************************************************************************)
(* The theorems.                                                           *)
(***************************************************************************)
(* There is a queue of claims only on the page of the own orders, behind   *)
(* one that is being built, previewed, signed or waited for: after an      *)
(* error, a refusal, an early leave or another page nothing goes on by     *)
(* itself (MyOrders.tsx, claimAll and the effects on the flow).            *)
THEOREM QueueAlwaysBehindClaim == Spec => []QueueOnlyBehindClaim
<1> DEFINE Inv == RowsInv /\ FlowInv
<1>1. Init => Inv
  BY RowsInit, FlowBegins
<1>2. Inv /\ [Next]_vars => Inv'
  BY RowsKept, FlowKept DEF RowsInv
<1>3. Inv => QueueOnlyBehindClaim
  BY DEF FlowInv
<1>4. QED
  BY <1>1, <1>2, <1>3, PTL DEF Spec

(* The invariant says what the page promises of its claims.                *)
LEMMA FlowImpliesTurns ==
  ASSUME FlowInv
  PROVE  ClaimsInTurn
<1> USE DEF FlowInv
<1>1. OneClaimAtATime
  <2> SUFFICES ASSUME NEW c \in 1..clicks
               PROVE  Cardinality({tx \in UnderWay : tx.click = c}) <= 1
    BY DEF OneClaimAtATime, UnderWay
  <2> DEFINE S == {tx \in UnderWay : tx.click = c}
  <2>1. \A t, u \in S : t = u
    BY DEF OneOfAClick
  <2>2. S = {} \/ \E t : S = {t}
    <3> HIDE DEF S
    <3>1. QED
      BY <2>1
  <2>3. Cardinality(S) = 0 \/ Cardinality(S) = 1
    <3> HIDE DEF S
    <3>1. QED
      BY <2>2, FS_EmptySet, FS_Singleton
  <2>4. QED
    BY <2>3
<1>2. Requests \subseteq All
  BY DEF All
<1>3. \A tx \in Requests : InProgress(tx) => Busy(tx)
  BY DEF InProgress, Busy
<1>4. ClaimedOnce
  BY <1>2, <1>3 DEF ClaimedOnce, OrdersDiffer
<1>5. QED
  BY <1>1, <1>4 DEF ClaimsInTurn

(* The orders that one click claims are claimed one after the other, each  *)
(* once: of a click one transaction at most is being built, signed or      *)
(* waited for, no two take the same order, and what the page is busy with  *)
(* takes none that is still in the queue.                                  *)
THEOREM ClaimsAlwaysInTurn == Spec => []ClaimsInTurn
<1> DEFINE Inv == RowsInv /\ FlowInv
<1>1. Init => Inv
  BY RowsInit, FlowBegins
<1>2. Inv /\ [Next]_vars => Inv'
  BY RowsKept, FlowKept DEF RowsInv
<1>3. Inv => ClaimsInTurn
  BY FlowImpliesTurns
<1>4. QED
  BY <1>1, <1>2, <1>3, PTL DEF Spec

(* The owner of a live order whose row on display is open can cancel it,   *)
(* whatever became of the rows of the others, be they stale, missing,      *)
(* closed by a failed read or a rolled-back spend, or linked late: the row *)
(* ends a position, and one only (positions.ts, groupPositions;            *)
(* MyOrders.tsx, the button of a row).                                     *)
THEOREM LiveRowsAlwaysCancellable == Spec => []LiveRowsCancellable
<1> DEFINE Inv == RowsInv /\ LineInv /\ TruthInv
<1>1. Init => Inv
  <2>1. Init => TruthInv
    BY DEF Init, TruthInv
  <2>2. QED
    BY <2>1, RowsInit, LinesBegin
<1>2. Inv /\ [Next]_vars => Inv'
  BY RowsKept, LinesKept, TruthKept DEF RowsInv
<1>3. Inv => LiveRowsCancellable
  BY TrueRowsCancellable DEF RowsInv
<1>4. QED
  BY <1>1, <1>2, <1>3, PTL DEF Spec

----------------------------------------------------------------------------
(***************************************************************************)
(* What is sent to be taken.                                               *)
(***************************************************************************)
(* The same order on the same terms, whatever has become of it.            *)
SameTerms(o, p) ==
  /\ o.id = p.id /\ o.offer = p.offer /\ o.ask = p.ask
  /\ o.offeredAmount = p.offeredAmount /\ o.requestedAmount = p.requestedAmount
  /\ o.allowPartialFill = p.allowPartialFill

(* An order that is or was on the chain, on its terms there.               *)
Listed(o) == o.id \in DOMAIN ledger /\ SameTerms(o, ledger[o.id])

(* A cycle of such orders that pays.                                       *)
Pays(cycle, legs) ==
  /\ Around(cycle) /\ DOMAIN cycle = 1..Len(cycle)
  /\ Sized(cycle, Len(cycle), legs) /\ isRiskless(cycle, legs)
  /\ \A i \in DOMAIN cycle : Listed(cycle[i])

(* The script accepts the partial take, whenever the order is still open.  *)
SoundLeg(leg) ==
  /\ leg.spend \in Int /\ leg.receive \in Int
  /\ leg.takeAmount # None =>
       /\ leg.orderId \in DOMAIN ledger
       /\ leg.receive \in Fillable(ledger[leg.orderId])
       /\ ledger[leg.orderId].allowPartialFill

SoundRequest(tx) ==
  /\ \A i \in DOMAIN tx.legs : SoundLeg(tx.legs[i])
  /\ tx.page = "arbitrage" => \E cycle : Pays(cycle, tx.legs)

Amounts ==
  /\ \A o \in book : o.offeredAmount \in Int /\ o.requestedAmount \in Int
  /\ \A id \in DOMAIN ledger : /\ ledger[id].offeredAmount \in Int
                               /\ ledger[id].requestedAmount \in Int

ShownSound ==
  /\ page = "book" /\ shown # None => \A o \in shown : Listed(o)
  /\ page = "arbitrage" /\ shown # None => \A op \in shown : Pays(op.cycle, op.legs)

RequestsSound == \A tx \in All : SoundRequest(tx)

TradesInv == Amounts /\ ShownSound /\ RequestsSound

(* Terms never change.                                                     *)
TermsStay ==
  /\ DOMAIN ledger \subseteq DOMAIN ledger'
  /\ \A id \in DOMAIN ledger : SameTerms(ledger'[id], ledger[id])

LEMMA TermsKept ==
  ASSUME LineInv, [Next]_vars
  PROVE  TermsStay
<1>1. CASE ChainStep
  <2>1. PICK closed : Recorded(closed)
    BY <1>1, ChainMoves
  <2> DEFINE left == {o.id : o \in book'}
             new == {o \in book' : o.id \notin DOMAIN ledger}
             status(id) == IF ledger[id].status # "open" \/ id \in left THEN ledger[id].status
                           ELSE IF id + RestId \in left THEN "partially_filled" ELSE closed
             at(id) == CHOOSE o \in new : o.id = id
  <2>2. ledger' = [id \in DOMAIN ledger \cup {o.id : o \in new} |->
                     IF id \in DOMAIN ledger THEN [ledger[id] EXCEPT !.status = status(id)]
                     ELSE row(at(id), id - RestId, trueRoot(id - RestId))]
    BY <2>1 DEF Recorded
  <2> HIDE DEF at, new, left, status
  <2>3. DOMAIN ledger \subseteq DOMAIN ledger'
    BY <2>2
  <2>4. ASSUME NEW id \in DOMAIN ledger PROVE SameTerms(ledger'[id], ledger[id])
    <3>1. DOMAIN ledger[id] = RowFields
      BY DEF LineInv, Lined
    <3>2. ledger'[id] = [ledger[id] EXCEPT !.status = status(id)]
      BY <2>2
    <3>3. QED
      BY <3>1, <3>2 DEF SameTerms, RowFields, OrderFields
  <2>5. QED
    BY <2>3, <2>4 DEF TermsStay
<1>2. CASE UNCHANGED <<book, ledger>>
  BY <1>2 DEF TermsStay, SameTerms
<1>3. QED
  BY <1>1, <1>2, StepKinds

(* So what was listed stays listed, and what was sound stays sound.        *)
LEMMA SoundStays ==
  ASSUME TermsStay
  PROVE  /\ \A o : Listed(o) => Listed(o)'
         /\ \A cycle, legs : Pays(cycle, legs) => Pays(cycle, legs)'
         /\ \A tx : SoundRequest(tx) => SoundRequest(tx)'
<1>1. ASSUME NEW o, Listed(o) PROVE Listed(o)'
  BY <1>1 DEF TermsStay, Listed, SameTerms
<1>2. ASSUME NEW cycle, NEW legs, Pays(cycle, legs) PROVE Pays(cycle, legs)'
  BY <1>1, <1>2 DEF Pays
<1>3. ASSUME NEW leg, SoundLeg(leg) PROVE SoundLeg(leg)'
  BY <1>3 DEF TermsStay, SoundLeg, SameTerms, Fillable, requiredPayment
<1>4. ASSUME NEW tx, SoundRequest(tx) PROVE SoundRequest(tx)'
  BY <1>2, <1>3, <1>4 DEF SoundRequest
<1>5. QED
  BY <1>1, <1>2, <1>4

(***************************************************************************)
(* What the backend answers.                                               *)
(***************************************************************************)
LEMMA OpenOrdersListed ==
  ASSUME LedgerInv, LineInv, Amounts, NEW orders \in openOrders
  PROVE  Orders(orders) /\ \A o \in orders : Listed(o)
<1>1. PICK known \in SUBSET DOMAIN ledger :
        orders = {[ledger[id] EXCEPT !.status = "open"] : id \in known}
  BY DEF openOrders
<1> DEFINE f == [id \in known |-> [ledger[id] EXCEPT !.status = "open"]]
<1>2. \A id \in known : /\ f[id].id = id /\ id \in Int /\ SameTerms(f[id], ledger[id])
                        /\ f[id].offeredAmount \in Int /\ f[id].requestedAmount \in Int
  <2> SUFFICES ASSUME NEW id \in known
               PROVE  /\ f[id].id = id /\ id \in Int /\ SameTerms(f[id], ledger[id])
                      /\ f[id].offeredAmount \in Int /\ f[id].requestedAmount \in Int
    OBVIOUS
  <2>1. id \in DOMAIN ledger /\ id \in Int /\ ledger[id].id = id /\ DOMAIN ledger[id] = RowFields
        /\ ledger[id].offeredAmount \in Int /\ ledger[id].requestedAmount \in Int
    BY DEF LedgerInv, LineInv, Lined, Amounts
  <2>2. f[id] = [ledger[id] EXCEPT !.status = "open"]
    OBVIOUS
  <2>3. SameTerms(f[id], ledger[id])
    BY <2>1, <2>2 DEF SameTerms, RowFields, OrderFields
  <2>4. QED
    BY <2>1, <2>3 DEF SameTerms
<1>3. IsFiniteSet(known)
  BY FS_Subset DEF LedgerInv
<1>4. DOMAIN f = known /\ f = [id \in DOMAIN f |-> f[id]] /\ orders = {f[id] : id \in DOMAIN f}
  BY <1>1
<1> HIDE DEF f
<1>5. IsFiniteSet(orders)
  BY <1>3, <1>4, ImageFinite
<1>6. \A o \in orders : o.id \in Int /\ o.offeredAmount \in Int /\ o.requestedAmount \in Int /\ Listed(o)
  BY <1>2, <1>4 DEF Listed
<1>7. \A o, p \in orders : o.id = p.id => o = p
  BY <1>2, <1>4
<1>8. QED
  BY <1>5, <1>6, <1>7 DEF Orders

LEMMA AnswersSound ==
  ASSUME LedgerInv, LineInv, Amounts
  PROVE  /\ \A s \in Answers("book") : \A o \in s : Listed(o)
         /\ \A s \in Answers("arbitrage") : \A op \in s : Pays(op.cycle, op.legs)
<1>1. ASSUME NEW s \in Answers("book"), NEW o \in s PROVE Listed(o)
  <2>1. PICK orders \in openOrders : \E now \in 0..clock : s = orderbook(orders, now)
    BY DEF Answers
  <2>2. o \in orders
    BY <2>1 DEF orderbook
  <2>3. QED
    BY <2>2, OpenOrdersListed
<1>2. ASSUME NEW s \in Answers("arbitrage"), NEW op \in s PROVE Pays(op.cycle, op.legs)
  <2>1. PICK orders \in openOrders : \E now \in 0..clock : s = findArbitrage(orders, now)
    BY DEF Answers
  <2>2. PICK now \in 0..clock : op \in findArbitrage(orders, now)
    BY <2>1
  <2>3. Orders(orders) /\ \A o \in orders : Listed(o)
    BY OpenOrdersListed
  <2>4. Riskless(orders, now, op)
    BY <2>2, <2>3, ReportedRiskless
  <2>5. \A o \in open(orders, now) : o \in orders
    BY DEF open
  <2>6. op.cycle \in Seq(open(orders, now))
    BY <2>4 DEF Riskless
  <2>7. DOMAIN op.cycle = 1..Len(op.cycle) /\ \A i \in DOMAIN op.cycle : op.cycle[i] \in orders
    BY <2>5, <2>6
  <2>8. QED
    BY <2>3, <2>4, <2>7 DEF Pays, Riskless
<1>3. QED
  BY <1>1, <1>2

LEMMA ShownStaysSound ==
  ASSUME LedgerInv, LineInv, Amounts, ShownSound, [Next]_vars
  PROVE  ShownSound'
<1>1. TermsStay
  BY TermsKept
<1>2. (\A o : Listed(o) => Listed(o)') /\ (\A cycle, legs : Pays(cycle, legs) => Pays(cycle, legs)')
  BY <1>1, SoundStays
<1>3. CASE UNCHANGED <<page, shown>>
  BY <1>2, <1>3 DEF ShownSound
<1>4. CASE shown' = None
  BY <1>4 DEF ShownSound
<1>5. CASE page' = page /\ shown' \in Answers(page)
  <2>1. page = "book" => \A o \in shown' : Listed(o)
    BY <1>5, AnswersSound
  <2>2. page = "arbitrage" => \A op \in shown' : Pays(op.cycle, op.legs)
    BY <1>5, AnswersSound
  <2>3. QED
    BY <1>2, <1>5, <2>1, <2>2 DEF ShownSound
<1>6. ChainStep => UNCHANGED <<page, shown>>
  BY DEF ChainStep, display
<1>7. QED
  BY <1>3, <1>4, <1>5, <1>6, StepKinds

(***************************************************************************)
(* What is sent.                                                           *)
(***************************************************************************)
(* The larger and the smaller of two numbers.                              *)
LEMMA OfTwo ==
  ASSUME NEW x \in Int, NEW y \in Int
  PROVE  /\ Min({x, y}) = IF x <= y THEN x ELSE y
         /\ Max({x, y}) = IF x >= y THEN x ELSE y
<1>1. Min({x, y}) = IF x <= y THEN x ELSE y
  <2> DEFINE m == IF x <= y THEN x ELSE y
             least(z) == z \in {x, y} /\ \A u \in {x, y} : z <= u
  <2>1. least(m) /\ \A z : least(z) => z = m
    OBVIOUS
  <2>2. Min({x, y}) = CHOOSE z : least(z)
    BY DEF Min
  <2> HIDE DEF least, m
  <2>3. Min({x, y}) = m
    BY <2>1, <2>2
  <2>4. QED
    BY <2>3 DEF m
<1>2. Max({x, y}) = IF x >= y THEN x ELSE y
  <2> DEFINE m == IF x >= y THEN x ELSE y
             largest(z) == z \in {x, y} /\ \A u \in {x, y} : z >= u
  <2>1. largest(m) /\ \A z : largest(z) => z = m
    OBVIOUS
  <2>2. Max({x, y}) = CHOOSE z : largest(z)
    BY DEF Max
  <2> HIDE DEF largest, m
  <2>3. Max({x, y}) = m
    BY <2>1, <2>2
  <2>4. QED
    BY <2>3 DEF m
<1>3. QED
  BY <1>1, <1>2

(* The editor of a partial take sends what leaves something of the offer   *)
(* and of the ask.                                                         *)
LEMMA EditorSends ==
  ASSUME NEW o, o.id \in Int, o.offeredAmount \in Int, o.requestedAmount \in Int,
         NEW amount \in PartialTakes(o)
  PROVE  amount \in Fillable(o) /\ requiredPayment(amount, o) \in Int
<1> DEFINE most == maxTakeForSpend(o.requestedAmount - 1, o)
           m == Min({amount, most})
<1>1. /\ amount \in 1..o.offeredAmount /\ amount < o.offeredAmount
      /\ clampTake(amount, o) # 0 /\ clampTake(amount, o) = amount
  BY DEF PartialTakes
<1>2. o.offeredAmount > 1 /\ o.requestedAmount > 1
  BY <1>1 DEF clampTake
<1>3. Priced(o)
  BY <1>2 DEF Priced
<1>4. PICK spend \in Int : spend = o.requestedAmount - 1
  OBVIOUS
<1>5. /\ maxTakeForSpend(spend, o) \in Nat
      /\ maxTakeForSpend(spend, o) > 0 =>
           /\ maxTakeForSpend(spend, o) < o.offeredAmount
           /\ requiredPayment(maxTakeForSpend(spend, o), o) < o.requestedAmount
  BY <1>3, LargestTake
<1>6. most > 0 /\ amount = Max({1, m})
  <2>1. most \in Nat
    BY <1>4, <1>5
  <2>2. clampTake(amount, o) = IF most <= 0 THEN 0 ELSE Max({1, m})
    BY <1>2 DEF clampTake
  <2> HIDE DEF most, m
  <2>3. QED
    BY <1>1, <2>1, <2>2
<1>7. /\ most \in Nat /\ most < o.offeredAmount
      /\ requiredPayment(most, o) < o.requestedAmount
  BY <1>4, <1>5, <1>6
<1> HIDE DEF most
<1>8. amount \in Nat /\ amount > 0
  BY <1>1
<1>9. amount <= most
  <2>1. m = IF amount <= most THEN amount ELSE most
    BY <1>7, <1>8, OfTwo
  <2> HIDE DEF m
  <2>2. m \in Int
    BY <1>7, <1>8, <2>1
  <2>3. Max({1, m}) = IF 1 >= m THEN 1 ELSE m
    BY <2>2, OfTwo
  <2>4. QED
    BY <1>6, <1>7, <1>8, <2>1, <2>3
<1>10. requiredPayment(amount, o) <= requiredPayment(most, o)
  BY <1>3, <1>7, <1>8, <1>9, PaymentGrows
<1>11. requiredPayment(amount, o) \in Nat /\ requiredPayment(most, o) \in Nat
  BY <1>3, <1>7, <1>8, LeastPayment
<1>12. requiredPayment(amount, o) < o.requestedAmount
  BY <1>7, <1>10, <1>11
<1>13. amount \in 1..(o.offeredAmount - 1)
  BY <1>1
<1>14. QED
  BY <1>11, <1>12, <1>13 DEF Fillable

(* One order of the book is taken, whole or in part.                       *)
LEMMA TakeSound ==
  ASSUME LedgerInv, Amounts, ShownSound, NEW o \in shown, Take(o)
  PROVE  \E leg : take(leg) /\ SoundLeg(leg)
<1>1. Listed(o)
  BY DEF Take, enabled, ShownSound
<1>2. o.id \in Int /\ o.offeredAmount \in Int /\ o.requestedAmount \in Int
  BY <1>1 DEF Listed, SameTerms, LedgerInv, Amounts
<1>3. CASE take(wholeLeg(o))
  <2>1. SoundLeg(wholeLeg(o))
    BY <1>2 DEF SoundLeg, wholeLeg
  <2>2. QED
    BY <1>3, <2>1
<1>4. CASE o.allowPartialFill /\ \E amount \in PartialTakes(o) : take(partialLeg(o, amount))
  <2>1. PICK amount \in PartialTakes(o) : take(partialLeg(o, amount))
    BY <1>4
  <2>2. amount \in Fillable(o) /\ requiredPayment(amount, o) \in Int
    BY <1>2, EditorSends
  <2>3. amount \in Fillable(ledger[o.id])
    BY <1>1, <2>2 DEF Listed, SameTerms, Fillable, requiredPayment
  <2>4. amount \in Int
    BY <1>2, <2>2 DEF Fillable
  <2>5. ledger[o.id].allowPartialFill /\ o.id \in DOMAIN ledger
    BY <1>1, <1>4 DEF Listed, SameTerms
  <2>6. SoundLeg(partialLeg(o, amount))
    BY <2>2, <2>3, <2>4, <2>5 DEF SoundLeg, partialLeg
  <2>7. QED
    BY <2>1, <2>6
<1>5. QED
  BY <1>3, <1>4 DEF Take

(* The legs of a cycle are sent as they were shown.                        *)
LEMMA CycleSent ==
  ASSUME Amounts, NEW cycle, NEW legs, Pays(cycle, legs)
  PROVE  /\ takeMany(legs) = legs
         /\ \A i \in DOMAIN legs : SoundLeg(legs[i])
<1> DEFINE n == Len(cycle)
<1>1. /\ legs \in Seq(Legs) /\ DOMAIN legs = 1..n /\ DOMAIN cycle = 1..n
      /\ \A i \in 1..n : /\ legs[i] \in Legs /\ legs[i].orderId = cycle[i].id
                         /\ fillable(cycle[i], legs[i]) /\ atPrice(cycle[i], legs[i])
                         /\ Listed(cycle[i])
  BY DEF Pays, Sized
<1> HIDE DEF n
<1>2. ASSUME NEW i \in 1..n
      PROVE  legs[i] = IF legs[i].takeAmount = None THEN wholeLeg(ledger[legs[i].orderId])
                       ELSE partialLeg(ledger[legs[i].orderId], legs[i].takeAmount)
  <2> DEFINE o == cycle[i]
             leg == legs[i]
             p == ledger[leg.orderId]
  <2>1. leg.orderId = o.id /\ atPrice(o, leg) /\ SameTerms(o, p)
    BY <1>1 DEF Listed
  <2> HIDE DEF o, leg, p
  <2>2. wholeLeg(o) = wholeLeg(p)
    BY <2>1 DEF SameTerms, wholeLeg
  <2>3. partialLeg(o, leg.takeAmount) = partialLeg(p, leg.takeAmount)
    BY <2>1 DEF SameTerms, partialLeg, requiredPayment
  <2>4. leg = IF leg.takeAmount = None THEN wholeLeg(p) ELSE partialLeg(p, leg.takeAmount)
    BY <2>1, <2>2, <2>3 DEF atPrice
  <2>5. QED
    BY <2>4 DEF leg, p
<1>3. takeMany(legs) = legs
  <2>1. takeMany(legs) = [i \in 1..n |-> legs[i]]
    BY <1>1, <1>2 DEF takeMany
  <2>2. legs = [i \in 1..n |-> legs[i]]
    BY <1>1
  <2>3. QED
    BY <2>1, <2>2
<1>4. ASSUME NEW i \in 1..n PROVE SoundLeg(legs[i])
  <2> DEFINE o == cycle[i]
             leg == legs[i]
  <2>1. /\ leg \in Legs /\ leg.orderId = o.id /\ fillable(o, leg) /\ atPrice(o, leg) /\ Listed(o)
    BY <1>1
  <2> HIDE DEF o, leg
  <2>2. leg.spend \in Int /\ leg.receive \in Int
    BY <2>1 DEF Legs
  <2>3. ASSUME leg.takeAmount # None
        PROVE  /\ leg.orderId \in DOMAIN ledger /\ leg.receive \in Fillable(ledger[leg.orderId])
               /\ ledger[leg.orderId].allowPartialFill
    <3>1. /\ o.allowPartialFill
          /\ leg.takeAmount \in 1..(o.offeredAmount - 1)
          /\ leg.spend \in 1..(o.requestedAmount - 1)
      BY <2>1, <2>3 DEF fillable
    <3>2. leg.receive = leg.takeAmount /\ leg.spend = requiredPayment(leg.takeAmount, o)
      <4>1. leg = partialLeg(o, leg.takeAmount)
        BY <2>1, <2>3 DEF atPrice
      <4>2. QED
        BY <4>1 DEF partialLeg
    <3>3. o.requestedAmount \in Int
      BY <2>1 DEF Listed, SameTerms, Amounts
    <3>4. requiredPayment(leg.receive, o) < o.requestedAmount
      BY <3>1, <3>2, <3>3
    <3>5. leg.receive \in Fillable(o)
      BY <3>1, <3>2, <3>4 DEF Fillable
    <3>6. QED
      BY <2>1, <3>1, <3>5 DEF Listed, SameTerms, Fillable, requiredPayment
  <2>4. SoundLeg(leg)
    BY <2>2, <2>3 DEF SoundLeg
  <2>5. QED
    BY <2>4 DEF leg
<1>5. QED
  BY <1>1, <1>3, <1>4

(* The claims of a queue pay nothing.                                      *)
LEMMA ClaimSound ==
  ASSUME NEW id, NEW click, page # "arbitrage"
  PROVE  SoundRequest(request("cancel", click, <<cancelLeg(id)>>))
<1> DEFINE tx == request("cancel", click, <<cancelLeg(id)>>)
<1>1. tx.legs = <<cancelLeg(id)>> /\ tx.page = page
  BY DEF request
<1>2. SoundLeg(cancelLeg(id))
  BY DEF SoundLeg, cancelLeg
<1> HIDE DEF tx
<1>3. \A i \in DOMAIN tx.legs : tx.legs[i] = cancelLeg(id)
  BY <1>1
<1>4. SoundRequest(tx)
  BY <1>1, <1>2, <1>3 DEF SoundRequest
<1>5. QED
  BY <1>4 DEF tx

(* What the step adds to the requests, if anything.                        *)
Adds(tx) == All' \subseteq All \cup {tx}

LEMMA BuildAdds ==
  ASSUME NEW tx, build(tx), UNCHANGED <<signings, pending, settled>>
  PROVE  Adds(tx)
<1>1. flow'.step = "building" /\ builds' = builds \cup {tx}
  BY DEF build, At
<1>2. QED
  BY <1>1 DEF Adds, All, Requests, Previewed

(* Every request of a page is sound when it is made.                       *)
LEMMA RequestsAdded ==
  ASSUME FlowInv, LedgerInv, Amounts, ShownSound, [Next]_vars
  PROVE  All' \subseteq All \/ \E tx : SoundRequest(tx) /\ Adds(tx)
<1> DEFINE none == All' \subseteq All
           one  == \E tx : SoundRequest(tx) /\ Adds(tx)
<1>1. Asking => UNCHANGED <<signings, pending, settled>>
  BY DEF Asking, chain
<1>2. ASSUME ChainStep PROVE none
  <2>1. UNCHANGED <<flow, builds, signings>>
    BY <1>2 DEF ChainStep
  <2>2. pending' \cup settled' \subseteq pending \cup settled
    BY <1>2 DEF ChainStep, SettleTx, Settle, SomeoneCloses, SomeoneFills, SomeoneTakes
  <2>3. QED
    BY <2>1, <2>2 DEF All, Requests, Previewed
<1>3. ASSUME Tick \/ Answered \/ FetchFails \/ Reindexed \/ hardRefresh
             \/ (\E id \in DOMAIN ledger : ToggleSelect(id)) \/ UNCHANGED vars
      PROVE  none
  <2>1. UNCHANGED <<flow, builds, signings, pending, settled>>
    BY <1>3 DEF Tick, Answered, FetchFails, Reindexed, hardRefresh, ToggleSelect, chain, display,
                vars
  <2>2. QED
    BY <2>1 DEF All, Requests, Previewed
<1>4. ASSUME (\E p \in Pages : Open(p)) \/ Reject \/ onDismiss PROVE none
  <2>1. flow'.step = "idle" /\ UNCHANGED <<builds, signings, pending, settled>>
    BY <1>4 DEF Open, Reject, onDismiss, Leave, reset, Idle, chain
  <2>2. QED
    BY <2>1 DEF All, Requests, Previewed
<1>5. ASSUME ClaimSelected PROVE one
  <2>1. PICK id : build(request("cancel", clicks + 1, <<cancelLeg(id)>>))
    BY <1>5 DEF ClaimSelected, claimAll, buildClaim
  <2>2. page # "arbitrage" /\ Asking
    BY <1>5 DEF ClaimSelected
  <2>3. QED
    BY <1>1, <2>1, <2>2, ClaimSound, BuildAdds
<1>6. ASSUME CancelRow PROVE one
  <2>1. PICK id : build(request("cancel", clicks + 1, <<cancelLeg(id)>>))
    BY <1>6 DEF CancelRow, buildClaim
  <2>2. page # "arbitrage" /\ Asking
    BY <1>6 DEF CancelRow
  <2>3. QED
    BY <1>1, <2>1, <2>2, ClaimSound, BuildAdds
<1>7. ASSUME NEW o \in shown, Take(o) PROVE one
  <2>1. PICK leg : take(leg) /\ SoundLeg(leg)
    BY <1>7, TakeSound
  <2>2. page = "book"
    BY <1>7 DEF Take
  <2> DEFINE tx == request("take", clicks + 1, <<leg>>)
  <2>3. build(tx) /\ UNCHANGED <<signings, pending, settled>>
    BY <1>1, <2>1 DEF take
  <2>4. tx.legs = <<leg>> /\ tx.page = "book"
    BY <2>2 DEF request
  <2> HIDE DEF tx
  <2>5. SoundRequest(tx)
    <3>1. \A i \in DOMAIN tx.legs : tx.legs[i] = leg
      BY <2>4
    <3>2. QED
      BY <2>1, <2>4, <3>1 DEF SoundRequest
  <2>6. QED
    BY <2>3, <2>5, BuildAdds
<1>8. ASSUME NEW op \in shown, Execute(op) PROVE one
  <2> DEFINE tx == request("take", clicks + 1, takeMany(op.legs))
  <2>1. build(tx) /\ UNCHANGED <<signings, pending, settled>>
    BY <1>1, <1>8 DEF Execute
  <2>2. Pays(op.cycle, op.legs)
    BY <1>8 DEF Execute, enabled, ShownSound
  <2>3. takeMany(op.legs) = op.legs /\ \A i \in DOMAIN op.legs : SoundLeg(op.legs[i])
    BY <2>2, CycleSent
  <2>4. tx.legs = op.legs
    BY <2>3 DEF request
  <2> HIDE DEF tx
  <2>5. SoundRequest(tx)
    BY <2>2, <2>3, <2>4 DEF SoundRequest
  <2>6. QED
    BY <2>1, <2>5, BuildAdds
<1>9. ASSUME NEW tx \in builds, BuildReturns(tx) PROVE none
  <2>1. /\ UNCHANGED <<signings, pending, settled>> /\ builds' \subseteq builds
        /\ flow' = flow \/ flow'.step = "error" \/ (flow'.step = "preview" /\ flow'.tx = tx)
    BY <1>9 DEF BuildReturns, Built, BuildFails, WhileFlowing, chain, At
  <2>2. QED
    BY <2>1 DEF All, Requests, Previewed
<1>10. ASSUME Confirm PROVE none
  <2>1. /\ UNCHANGED <<builds, pending, settled>> /\ signings' = signings \cup {flow.tx}
        /\ flow.step = "preview" /\ flow'.step = "signing"
    BY <1>10 DEF Confirm, confirmAndSign, chain, At
  <2>2. QED
    BY <2>1 DEF All, Requests, Previewed
<1>11. ASSUME NEW tx \in signings, WalletReturns(tx) PROVE none
  <2>1. /\ UNCHANGED <<builds, settled>> /\ signings' \subseteq signings
        /\ pending' \subseteq pending \cup {tx}
        /\ flow' = flow \/ flow'.step = "error" \/ flow'.step = "submitted"
    BY <1>11 DEF WalletReturns, Submitted, SigningFails, At
  <2>2. QED
    BY <2>1 DEF All, Requests, Previewed
<1>12. ASSUME onSettled PROVE none \/ one
  <2>1. NextClaim /\ UNCHANGED <<signings, pending, settled>>
    BY <1>12 DEF onSettled, chain
  <2>2. CASE claimQueue # << >>
    <3>1. PICK id, click : build(request("cancel", click, <<cancelLeg(id)>>))
      BY <2>1, <2>2 DEF NextClaim, claimAll, buildClaim
    <3>2. page # "arbitrage"
      BY <2>2 DEF FlowInv, QueueOnlyBehindClaim
    <3>3. QED
      BY <2>1, <3>1, <3>2, ClaimSound, BuildAdds
  <2>3. CASE claimQueue = << >>
    <3>1. flow'.step = "idle" /\ builds' = builds
      BY <2>1, <2>3 DEF NextClaim, reset, Idle
    <3>2. QED
      BY <2>1, <3>1 DEF All, Requests, Previewed
  <2>4. QED
    BY <2>2, <2>3
<1> HIDE DEF none, one
<1>13. none \/ one
  BY <1>2, <1>3, <1>4, <1>5, <1>6, <1>7, <1>8, <1>9, <1>10, <1>11, <1>12 DEF Next
<1>14. QED
  BY <1>13 DEF none, one

LEMMA RequestsStaySound ==
  ASSUME FlowInv, LedgerInv, LineInv, TradesInv, [Next]_vars
  PROVE  RequestsSound'
<1>1. TermsStay
  BY TermsKept
<1>2. \A tx : SoundRequest(tx) => SoundRequest(tx)'
  BY <1>1, SoundStays
<1>3. All' \subseteq All \/ \E tx : SoundRequest(tx) /\ All' \subseteq All \cup {tx}
  BY RequestsAdded DEF TradesInv, Adds
<1>4. QED
  BY <1>2, <1>3 DEF TradesInv, RequestsSound

(***************************************************************************)
(* Amounts stay whole numbers.                                             *)
(***************************************************************************)
LEMMA RestAmounts ==
  ASSUME NEW o, DOMAIN o = OrderFields, o.offeredAmount \in Int, o.requestedAmount \in Int,
         NEW leg, leg.receive \in Int, leg.spend \in Int
  PROVE  rest(o, leg).offeredAmount \in Int /\ rest(o, leg).requestedAmount \in Int
<1> DEFINE a == [o EXCEPT !.id = o.id + RestId]
           b == [a EXCEPT !.offeredAmount = @ - leg.receive]
<1>1. DOMAIN a = OrderFields /\ a.offeredAmount \in Int /\ a.requestedAmount \in Int
  BY DEF OrderFields
<1>2. rest(o, leg) = [b EXCEPT !.requestedAmount = @ - leg.spend]
  BY DEF rest
<1> HIDE DEF a
<1>3. DOMAIN b = OrderFields /\ b.offeredAmount \in Int /\ b.requestedAmount \in Int
  BY <1>1 DEF OrderFields
<1> HIDE DEF b
<1>4. QED
  BY <1>2, <1>3 DEF OrderFields

WholeAmounts(o) == o.offeredAmount \in Int /\ o.requestedAmount \in Int

LEMMA BookAmounts ==
  ASSUME LineInv, Amounts, RequestsSound, ChainStep
  PROVE  \A o \in book' : WholeAmounts(o)
<1>1. \A o \in book : DOMAIN o = OrderFields /\ WholeAmounts(o)
  BY DEF LineInv, Booked, Amounts, WholeAmounts
<1>2. CASE \E tx \in pending : SettleTx(tx)
  <2>1. PICK tx \in pending : SettleTx(tx)
    BY <1>2
  <2>2. \A i \in DOMAIN tx.legs : tx.legs[i].spend \in Int /\ tx.legs[i].receive \in Int
    BY DEF RequestsSound, SoundRequest, SoundLeg, All, Requests
  <2>3. ASSUME NEW p \in book, p.id \in taken(tx)
        PROVE  WholeAmounts(rest(p, legOn(tx, p)))
    <3>1. \E i \in DOMAIN tx.legs : tx.legs[i].orderId = p.id
      BY <2>3 DEF taken, selected
    <3>2. PICK i \in DOMAIN tx.legs : legOn(tx, p) = tx.legs[i]
      BY <3>1 DEF legOn
    <3>3. legOn(tx, p).spend \in Int /\ legOn(tx, p).receive \in Int
      BY <2>2, <3>2
    <3>4. DOMAIN p = OrderFields /\ p.offeredAmount \in Int /\ p.requestedAmount \in Int
      BY <1>1 DEF WholeAmounts
    <3>5. QED
      BY <3>3, <3>4, RestAmounts DEF WholeAmounts
  <2>4. \A o \in book' : \/ o \in book
                         \/ \E p \in book : p.id \in taken(tx) /\ o = rest(p, legOn(tx, p))
    BY <2>1 DEF SettleTx, Settle, remainders
  <2>5. QED
    BY <1>1, <2>3, <2>4
<1>3. CASE \E o \in book : SomeoneCloses(o) \/ SomeoneFills(o)
  <2>1. PICK o \in book : SomeoneCloses(o) \/ SomeoneFills(o)
    BY <1>3
  <2>2. CASE SomeoneCloses(o)
    BY <1>1, <2>2 DEF SomeoneCloses, SomeoneTakes
  <2>3. CASE SomeoneFills(o)
    <3>1. PICK t \in Fillable(o) : book' = (book \ {o}) \cup {rest(o, partialLeg(o, t))}
      BY <2>3 DEF SomeoneFills
    <3>2. DOMAIN o = OrderFields /\ o.offeredAmount \in Int /\ o.requestedAmount \in Int
      BY <1>1 DEF WholeAmounts
    <3>3. t \in 1..(o.offeredAmount - 1)
      BY DEF Fillable
    <3>4. o.offeredAmount \in Nat /\ o.offeredAmount > 0 /\ t \in Int
      BY <3>2, <3>3
    <3>5. requiredPayment(t, o) \in Int
      <4>1. PICK m \in Int : m = t * o.requestedAmount + o.offeredAmount - 1
        BY <3>2, <3>4
      <4>2. QED
        BY <3>4, <4>1 DEF requiredPayment
    <3>6. partialLeg(o, t).receive \in Int /\ partialLeg(o, t).spend \in Int
      BY <3>4, <3>5 DEF partialLeg
    <3>7. WholeAmounts(rest(o, partialLeg(o, t)))
      BY <3>2, <3>6, RestAmounts DEF WholeAmounts
    <3>8. QED
      BY <1>1, <3>1, <3>7
  <2>4. QED
    BY <2>1, <2>2, <2>3
<1>4. QED
  BY <1>2, <1>3 DEF ChainStep

LEMMA AmountsKept ==
  ASSUME LineInv, TradesInv, [Next]_vars
  PROVE  Amounts'
<1>1. CASE ChainStep
  <2>1. \A o \in book' : WholeAmounts(o)
    BY <1>1, BookAmounts DEF TradesInv
  <2>2. PICK closed : Recorded(closed)
    BY <1>1, ChainMoves
  <2> DEFINE left == {o.id : o \in book'}
             new == {o \in book' : o.id \notin DOMAIN ledger}
             status(id) == IF ledger[id].status # "open" \/ id \in left THEN ledger[id].status
                           ELSE IF id + RestId \in left THEN "partially_filled" ELSE closed
             at(id) == CHOOSE o \in new : o.id = id
  <2>3. ledger' = [id \in DOMAIN ledger \cup {o.id : o \in new} |->
                     IF id \in DOMAIN ledger THEN [ledger[id] EXCEPT !.status = status(id)]
                     ELSE row(at(id), id - RestId, trueRoot(id - RestId))]
    BY <2>2 DEF Recorded
  <2>4. \A id \in {o.id : o \in new} : WholeAmounts(at(id))
    BY <2>1
  <2>5. \A id \in DOMAIN ledger : WholeAmounts(ledger'[id])
    BY TermsKept DEF TermsStay, SameTerms, TradesInv, Amounts, WholeAmounts
  <2> HIDE DEF at, new, left, status
  <2>6. ASSUME NEW id \in DOMAIN ledger', id \notin DOMAIN ledger PROVE WholeAmounts(ledger'[id])
    <3>1. id \in {o.id : o \in new}
      BY <2>3, <2>6
    <3>2. ledger'[id] = row(at(id), id - RestId, trueRoot(id - RestId))
      BY <2>3, <2>6
    <3>3. QED
      BY <2>4, <3>1, <3>2 DEF row, WholeAmounts
  <2>7. QED
    BY <2>1, <2>5, <2>6 DEF Amounts, WholeAmounts
<1>2. CASE UNCHANGED <<book, ledger>>
  BY <1>2 DEF TradesInv, Amounts
<1>3. QED
  BY <1>1, <1>2, StepKinds

LEMMA TradesBegin ==
  ASSUME Init
  PROVE  TradesInv
<1>1. All = {}
  BY DEF Init, FlowInit, Idle, All, Requests, Previewed
<1>2. \A o \in book : o.offeredAmount \in Int /\ o.requestedAmount \in Int
  BY WalletAssumption DEF Init, FlowInit
<1>3. ASSUME NEW id \in DOMAIN ledger
      PROVE  ledger[id].offeredAmount \in Int /\ ledger[id].requestedAmount \in Int
  <2> DEFINE o == CHOOSE p \in book : p.id = id
  <2>1. id \in {p.id : p \in book} /\ ledger[id] = row(o, None, None)
    BY DEF Init
  <2>2. o \in book
    BY <2>1
  <2> HIDE DEF o
  <2>3. QED
    BY <1>2, <2>1, <2>2 DEF row
<1>4. shown = None
  BY DEF Init
<1>5. QED
  BY <1>1, <1>2, <1>3, <1>4 DEF TradesInv, Amounts, ShownSound, RequestsSound

(* All of what the proofs about requests rest on.                          *)
PagesInv == RowsInv /\ LineInv /\ FlowInv /\ TradesInv

LEMMA PagesBegin == Init => PagesInv
BY RowsInit, LinesBegin, FlowBegins, TradesBegin DEF PagesInv

LEMMA PagesKept == PagesInv /\ [Next]_vars => PagesInv'
<1> SUFFICES ASSUME PagesInv, [Next]_vars
             PROVE  PagesInv'
  OBVIOUS
<1>1. RowsInv' /\ LineInv' /\ FlowInv'
  BY RowsKept, LinesKept, FlowKept DEF PagesInv, RowsInv
<1>2. Amounts'
  BY AmountsKept DEF PagesInv
<1>3. ShownSound'
  BY ShownStaysSound DEF PagesInv, RowsInv, TradesInv
<1>4. RequestsSound'
  BY RequestsStaySound DEF PagesInv, RowsInv
<1>5. QED
  BY <1>1, <1>2, <1>3, <1>4 DEF PagesInv, TradesInv

(* A cycle that pays leaves no asset short, of all there are.              *)
LEMMA PaysInAll ==
  ASSUME NEW cycle, NEW legs, Pays(cycle, legs)
  PROVE  LET net(asset) == netOf([i \in DOMAIN legs |-> ledger[legs[i].orderId]], legs, asset)
         IN  /\ \A asset \in Assets(Range(ledger)) : net(asset) >= 0
             /\ \E asset \in Assets(Range(ledger)) : net(asset) > 0
<1> DEFINE n == Len(cycle)
           c == [i \in DOMAIN legs |-> ledger[legs[i].orderId]]
           net(asset) == netOf(c, legs, asset)
<1>1. /\ legs \in Seq(Legs) /\ Len(legs) = n /\ DOMAIN legs = 1..n /\ DOMAIN cycle = 1..n
      /\ n = 2 \/ n = 3
      /\ \A i \in 1..n : legs[i].orderId = cycle[i].id /\ Listed(cycle[i])
  BY DEF Pays, Sized, Around
<1>2. /\ \A i \in 1..n : netOf(cycle, legs, cycle[i].ask) >= 0
      /\ \E i \in 1..n : netOf(cycle, legs, cycle[i].ask) > 0
  BY <1>1 DEF Pays, isRiskless
<1>3. \A i \in 1..n : c[i].ask = cycle[i].ask /\ c[i].offer = cycle[i].offer
  BY <1>1 DEF Listed, SameTerms
<1>4. \A i \in 1..n : cycle[i].ask \in Assets(Range(ledger))
  BY <1>1 DEF Listed, SameTerms, Assets, Range
<1> HIDE DEF c
<1>5. ASSUME NEW asset PROVE net(asset) = netOf(cycle, legs, asset)
  <2>1. \A i \in 1..n : Gain(c, legs, asset, i) = Gain(cycle, legs, asset, i)
    BY <1>3 DEF Gain
  <2>2. CASE n = 2
    <3>1. 1 \in 1..n /\ 2 \in 1..n
      BY <2>2
    <3>2. net(asset) = Gain(c, legs, asset, 1) + Gain(c, legs, asset, 2)
      BY <1>1, <2>2, NetIsGains
    <3>3. netOf(cycle, legs, asset) = Gain(cycle, legs, asset, 1) + Gain(cycle, legs, asset, 2)
      BY <1>1, <2>2, NetIsGains
    <3>4. QED
      BY <2>1, <3>1, <3>2, <3>3
  <2>3. CASE n = 3
    <3>1. 1 \in 1..n /\ 2 \in 1..n /\ 3 \in 1..n
      BY <2>3
    <3>2. net(asset) = Gain(c, legs, asset, 1) + Gain(c, legs, asset, 2) + Gain(c, legs, asset, 3)
      BY <1>1, <2>3, NetIsGains
    <3>3. netOf(cycle, legs, asset) = Gain(cycle, legs, asset, 1) + Gain(cycle, legs, asset, 2)
                                        + Gain(cycle, legs, asset, 3)
      BY <1>1, <2>3, NetIsGains
    <3>4. QED
      BY <2>1, <3>1, <3>2, <3>3
  <2>4. QED
    BY <1>1, <2>2, <2>3
<1>6. ASSUME NEW asset PROVE netOf(cycle, legs, asset) >= 0
  <2>1. CASE \E i \in 1..n : asset = cycle[i].ask
    BY <1>2, <2>1
  <2>2. CASE \A i \in 1..n : asset # cycle[i].ask
    <3>1. CASE n = 2
      <4>1. 1 \in 1..n /\ 2 \in 1..n
        BY <3>1
      <4>2. cycle[1].offer = cycle[2].ask /\ cycle[2].offer = cycle[1].ask
        BY <3>1 DEF Pays, Around
      <4>3. Gain(cycle, legs, asset, 1) = 0 /\ Gain(cycle, legs, asset, 2) = 0
        BY <2>2, <4>1, <4>2 DEF Gain
      <4>4. netOf(cycle, legs, asset) = Gain(cycle, legs, asset, 1) + Gain(cycle, legs, asset, 2)
        BY <1>1, <3>1, NetIsGains
      <4>5. QED
        BY <4>3, <4>4
    <3>2. CASE n = 3
      <4>1. 1 \in 1..n /\ 2 \in 1..n /\ 3 \in 1..n
        BY <3>2
      <4>2. /\ cycle[1].offer = cycle[2].ask /\ cycle[2].offer = cycle[3].ask
            /\ cycle[3].offer = cycle[1].ask
        BY <3>2 DEF Pays, Around
      <4>3. /\ Gain(cycle, legs, asset, 1) = 0 /\ Gain(cycle, legs, asset, 2) = 0
            /\ Gain(cycle, legs, asset, 3) = 0
        BY <2>2, <4>1, <4>2 DEF Gain
      <4>4. netOf(cycle, legs, asset) = Gain(cycle, legs, asset, 1) + Gain(cycle, legs, asset, 2)
                                          + Gain(cycle, legs, asset, 3)
        BY <1>1, <3>2, NetIsGains
      <4>5. QED
        BY <4>3, <4>4
    <3>3. QED
      BY <1>1, <3>1, <3>2
  <2>3. QED
    BY <2>1, <2>2
<1> HIDE DEF net
<1>7. /\ \A asset \in Assets(Range(ledger)) : net(asset) >= 0
      /\ \E asset \in Assets(Range(ledger)) : net(asset) > 0
  BY <1>2, <1>4, <1>5, <1>6
<1>8. QED
  BY <1>7 DEF net, c

(* The editor of partial takes and the arbitrage scanner send no partial   *)
(* take that the script would refuse while the order is open, however old  *)
(* the rows it was typed against (OrderBook.tsx, clampTake;                *)
(* ArbitragePanel.tsx, execute).                                           *)
THEOREM PartialTakesAlwaysFillable == Spec => []PartialTakesFillable
<1>1. PagesInv => PartialTakesFillable
  BY DEF PagesInv, TradesInv, RequestsSound, SoundRequest, SoundLeg, All, PartialTakesFillable
<1>2. QED
  BY PagesBegin, PagesKept, <1>1, PTL DEF Spec

(* A cycle that is executed loses in no asset and gains in one, however    *)
(* old the scan that found it and whatever has happened to its orders:     *)
(* what settles is what was shown (ArbitragePanel.tsx, execute).           *)
THEOREM ExecutedCyclesAlwaysPay == Spec => []ExecutedCyclesPay
<1>1. PagesInv => ExecutedCyclesPay
  <2> SUFFICES ASSUME PagesInv, NEW tx \in settled, tx.page = "arbitrage"
               PROVE  LET net(asset) == netOf([i \in DOMAIN tx.legs |-> ledger[tx.legs[i].orderId]],
                                              tx.legs, asset)
                      IN  /\ \A asset \in Assets(Range(ledger)) : net(asset) >= 0
                          /\ \E asset \in Assets(Range(ledger)) : net(asset) > 0
    BY DEF ExecutedCyclesPay
  <2>1. PICK cycle : Pays(cycle, tx.legs)
    BY DEF PagesInv, TradesInv, RequestsSound, SoundRequest, All, Requests
  <2>2. PICK legs : legs = tx.legs
    OBVIOUS
  <2>3. QED
    BY <2>1, <2>2, PaysInAll
<1>2. QED
  BY PagesBegin, PagesKept, <1>1, PTL DEF Spec
=============================================================================
