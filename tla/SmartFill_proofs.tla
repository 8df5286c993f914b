---------------------------- MODULE SmartFill_proofs ----------------------------
(***************************************************************************)
(* What the two planners promise for every book, wish and limit.  A route  *)
(* can be settled, keeps within the budget, leaves no budget of use, and   *)
(* meets a target at the least cost; the cycles of a scan fund themselves. *)
(***************************************************************************)
EXTENDS Arbitrage, CountingTheorems, SequenceTheorems

(* Orders have distinct ids; their amounts are numbers.                    *)
Orders(orders) ==
  /\ IsFiniteSet(orders)
  /\ \A o \in orders : o.id \in Int /\ o.offeredAmount \in Int /\ o.requestedAmount \in Int
  /\ \A o, p \in orders : o.id = p.id => o = p

Priced(o) ==
  /\ o.id \in Int
  /\ o.offeredAmount \in Nat /\ o.offeredAmount > 0
  /\ o.requestedAmount \in Nat /\ o.requestedAmount > 0

LEMMA CandidatesPriced ==
  ASSUME NEW orders, Orders(orders), NEW wish, NEW now
  PROVE  /\ candidates(orders, wish, now) \subseteq orders
         /\ IsFiniteSet(candidates(orders, wish, now))
         /\ \A o \in candidates(orders, wish, now) : Priced(o)
<1>1. candidates(orders, wish, now) \subseteq orders
  BY DEF candidates
<1>2. \A o \in candidates(orders, wish, now) : Priced(o)
  BY DEF candidates, Orders, Priced
<1>3. QED
  BY <1>1, <1>2, FS_Subset DEF Orders

----------------------------------------------------------------------------
(***************************************************************************)
(* Prices.                                                                 *)
(***************************************************************************)

(* The least payment that is not below the price of the order.             *)
LEMMA LeastPayment ==
  ASSUME NEW o, Priced(o), NEW take \in Nat
  PROVE  /\ requiredPayment(take, o) \in Nat
         /\ requiredPayment(take, o) * o.offeredAmount >= take * o.requestedAmount
         /\ \A c \in Nat : c * o.offeredAmount >= take * o.requestedAmount =>
                             requiredPayment(take, o) <= c
         /\ take > 0 => requiredPayment(take, o) > 0
<1>0. PICK f \in Nat, a \in Nat : f = o.offeredAmount /\ a = o.requestedAmount /\ f > 0 /\ a > 0
  BY DEF Priced
<1>1. PICK p \in Nat : p = take * a
  OBVIOUS
<1>2. PICK n \in Nat : n = p + f - 1
  BY <1>0
<1>3. PICK q \in Nat : q = n \div f /\ f * q <= n /\ n < f * q + f
  BY <1>0
<1>4. requiredPayment(take, o) = q
  BY <1>0, <1>1, <1>2, <1>3 DEF requiredPayment
<1>5. f * q \in Nat /\ q * f = f * q
  OBVIOUS
<1>6. q * f >= p
  BY <1>0, <1>2, <1>3, <1>5
<1>7. ASSUME NEW c \in Nat, c * f >= p PROVE q <= c
  <2>1. f * c \in Nat /\ f * c = c * f
    OBVIOUS
  <2>2. f * q < f * c + f
    BY <1>0, <1>2, <1>3, <1>5, <1>7, <2>1
  <2>3. f * (c + 1) = f * c + f
    OBVIOUS
  <2> SUFFICES ASSUME c + 1 <= q PROVE FALSE
    OBVIOUS
  <2>4. f * (c + 1) <= f * q
    BY TimesMonotone, c + 1 \in Int
  <2>5. QED
    BY <1>5, <2>1, <2>2, <2>3, <2>4
<1>8. ASSUME take > 0 PROVE q > 0
  <2>1. a * 1 <= a * take
    BY <1>8, TimesMonotone
  <2>2. a * take = p /\ a * 1 = a
    BY <1>1
  <2>3. p > 0
    BY <1>0, <2>1, <2>2
  <2>4. q # 0
    BY <1>0, <1>2, <1>3, <2>3
  <2>5. QED
    BY <2>4
<1>9. QED
  BY <1>0, <1>1, <1>4, <1>6, <1>7, <1>8

(* More costs no less.                                                     *)
LEMMA PaymentGrows ==
  ASSUME NEW o, Priced(o), NEW s \in Nat, NEW t \in Nat, s <= t
  PROVE  requiredPayment(s, o) <= requiredPayment(t, o)
<1>0. PICK f \in Nat, a \in Nat : f = o.offeredAmount /\ a = o.requestedAmount
  BY DEF Priced
<1>1. a * s <= a * t /\ a * s = s * a /\ a * t = t * a
  BY TimesMonotone
<1>2. requiredPayment(t, o) \in Nat /\ requiredPayment(t, o) * f >= t * a
  BY <1>0, LeastPayment
<1>3. requiredPayment(t, o) * f \in Nat /\ s * a \in Nat /\ t * a \in Nat
  BY <1>2
<1>4. requiredPayment(t, o) * f >= s * a
  BY <1>1, <1>2, <1>3
<1>5. QED
  BY <1>0, <1>2, <1>4, LeastPayment

(* The largest take that a spend pays for, among those that leave          *)
(* something of the offer and of the ask.                                  *)
LEMMA LargestTake ==
  ASSUME NEW o, Priced(o), NEW spend \in Int
  PROVE  /\ maxTakeForSpend(spend, o) \in Nat
         /\ maxTakeForSpend(spend, o) > 0 =>
              /\ maxTakeForSpend(spend, o) < o.offeredAmount
              /\ requiredPayment(maxTakeForSpend(spend, o), o) <= spend
              /\ requiredPayment(maxTakeForSpend(spend, o), o) < o.requestedAmount
         /\ \A take \in 1..(o.offeredAmount - 1) :
              requiredPayment(take, o) <= spend /\ requiredPayment(take, o) < o.requestedAmount
                => take <= maxTakeForSpend(spend, o)
<1>0. PICK f \in Nat, a \in Nat : f = o.offeredAmount /\ a = o.requestedAmount /\ f > 0 /\ a > 0
  BY DEF Priced
<1>1. CASE spend <= 0
  <2>1. maxTakeForSpend(spend, o) = 0
    BY <1>1 DEF maxTakeForSpend
  <2>2. ASSUME NEW take \in 1..(f - 1) PROVE requiredPayment(take, o) > spend
    <3>1. take \in Nat /\ take > 0
      OBVIOUS
    <3>2. requiredPayment(take, o) \in Nat /\ requiredPayment(take, o) > 0
      BY <3>1, LeastPayment
    <3>3. QED
      BY <1>1, <3>2
  <2>3. \A take \in 1..(f - 1) : requiredPayment(take, o) \in Nat
    BY LeastPayment
  <2>4. QED
    BY <1>0, <2>1, <2>2, <2>3
<1>2. CASE spend > 0
  (* A take costs no more than c exactly when it is below the quotient.    *)
  <2>1. ASSUME NEW c \in Nat
        PROVE  /\ (c * f) \div a \in Nat
               /\ \A take \in Nat : take <= (c * f) \div a <=> requiredPayment(take, o) <= c
    <3>1. PICK m \in Nat : m = c * f
      OBVIOUS
    <3>2. PICK q \in Nat : q = m \div a /\ a * q <= m /\ m < a * q + a
      BY <1>0
    <3>3. ASSUME NEW take \in Nat, take <= q PROVE requiredPayment(take, o) <= c
      <4>1. a * take <= a * q
        BY <3>3, TimesMonotone
      <4>2. a * take = take * a /\ take * a \in Nat /\ a * q \in Nat
        OBVIOUS
      <4>3. c * f >= take * a
        BY <3>1, <3>2, <4>1, <4>2
      <4>4. QED
        BY <1>0, <4>3, LeastPayment
    <3>4. ASSUME NEW take \in Nat, requiredPayment(take, o) <= c PROVE take <= q
      <4>1. PICK r \in Nat : r = requiredPayment(take, o) /\ r * f >= take * a /\ r <= c
        BY <1>0, <3>4, LeastPayment
      <4>2. f * r <= f * c /\ f * r = r * f /\ f * c = m
        BY <3>1, <4>1, TimesMonotone
      <4>3. take * a \in Nat /\ a * q \in Nat /\ r * f \in Nat /\ a * take = take * a
        OBVIOUS
      <4>4. a * take < a * q + a
        BY <3>2, <4>1, <4>2, <4>3
      <4>5. a * (q + 1) = a * q + a
        OBVIOUS
      <4> SUFFICES ASSUME q + 1 <= take PROVE FALSE
        OBVIOUS
      <4>6. a * (q + 1) <= a * take
        BY TimesMonotone, q + 1 \in Int
      <4>7. QED
        BY <4>3, <4>4, <4>5, <4>6
    <3>5. QED
      BY <3>1, <3>2, <3>3, <3>4
  <2> DEFINE Pays(c) == \E x \in Nat : /\ x = (c * f) \div a
                                         /\ \A take \in Nat :
                                              take <= x <=> requiredPayment(take, o) <= c
  <2>2. ASSUME NEW c \in Nat PROVE Pays(c)
    <3>1. PICK x : x = (c * f) \div a
      OBVIOUS
    <3>2. x \in Nat /\ \A take \in Nat : take <= x <=> requiredPayment(take, o) <= c
      BY <2>1, <3>1
    <3>3. QED
      BY <3>1, <3>2
  <2> HIDE DEF Pays
  <2>3. Pays(spend) /\ Pays(a - 1)
    <3>1. spend \in Nat /\ a - 1 \in Nat
      BY <1>0, <1>2
    <3>2. QED
      BY <2>2, <3>1
  <2>4. PICK x \in Nat : /\ x = (spend * f) \div a
                         /\ \A take \in Nat : take <= x <=> requiredPayment(take, o) <= spend
    BY <2>3 DEF Pays
  <2>5. PICK y \in Nat : /\ y = ((a - 1) * f) \div a
                         /\ \A take \in Nat : take <= y <=> requiredPayment(take, o) <= a - 1
    BY <2>3 DEF Pays
  <2>6. PICK z \in Nat : z = f - 1
    BY <1>0
  <2>7. maxTakeForSpend(spend, o) = Min({x, y, z})
    BY <1>0, <1>2, <2>4, <2>5, <2>6 DEF maxTakeForSpend
  <2>8. PICK m \in {x, y, z} : m <= x /\ m <= y /\ m <= z
    OBVIOUS
  <2>9. Min({x, y, z}) = m
    BY <2>8 DEF Min
  <2>10. m \in Nat /\ requiredPayment(m, o) \in Nat
    BY <2>8, LeastPayment
  <2>11. m <= f - 1 /\ requiredPayment(m, o) <= spend /\ requiredPayment(m, o) <= a - 1
    BY <2>4, <2>5, <2>6, <2>8, <2>10
  <2>12. ASSUME NEW take \in 1..(f - 1), requiredPayment(take, o) <= spend,
                requiredPayment(take, o) < a
         PROVE  take <= m
    <3>1. take \in Nat /\ take <= z /\ requiredPayment(take, o) \in Nat
      BY <2>6, LeastPayment
    <3>2. requiredPayment(take, o) <= a - 1
      BY <2>12, <3>1
    <3>3. take <= x /\ take <= y
      BY <2>4, <2>5, <2>12, <3>1, <3>2
    <3>4. QED
      BY <2>8, <3>1, <3>3
  <2>13. QED
    BY <1>0, <2>7, <2>9, <2>10, <2>11, <2>12
<1>3. QED
  BY <1>1, <1>2

----------------------------------------------------------------------------
(***************************************************************************)
(* The ranking.                                                            *)
(***************************************************************************)

(* Comparing prices by cross-multiplication is transitive.                 *)
LEMMA CrossMultiplied ==
  ASSUME NEW p1 \in Nat, NEW p2 \in Nat, NEW p3 \in Nat,
         NEW q1 \in Nat, NEW q2 \in Nat, NEW q3 \in Nat,
         q1 > 0, q2 > 0, q3 > 0, p1 * q2 <= p2 * q1, p2 * q3 <= p3 * q2
  PROVE  /\ p1 * q3 <= p3 * q1
         /\ p1 * q2 < p2 * q1 \/ p2 * q3 < p3 * q2 => p1 * q3 < p3 * q1
<1>1. PICK a \in Nat, b \in Nat, c \in Nat, d \in Nat, e \in Nat, f \in Nat :
        a = p1 * q2 /\ b = p2 * q1 /\ c = p2 * q3 /\ d = p3 * q2 /\ e = p1 * q3 /\ f = p3 * q1
  OBVIOUS
<1>2. q3 * a <= q3 * b /\ q1 * c <= q1 * d
  BY <1>1, TimesMonotone
<1>3. q3 * a = q2 * e /\ q1 * d = q2 * f /\ q3 * b = q1 * c
  BY <1>1
<1>4. /\ q3 * a \in Nat /\ q3 * b \in Nat /\ q1 * c \in Nat /\ q1 * d \in Nat
      /\ q2 * e \in Nat /\ q2 * f \in Nat
  OBVIOUS
<1>5. q2 * e <= q2 * f
  BY <1>2, <1>3, <1>4
<1>6. e <= f
  BY <1>5, TimesCancel
<1>7. ASSUME a < b \/ c < d PROVE e < f
  <2> SUFFICES ASSUME f <= e PROVE FALSE
    OBVIOUS
  <2>1. q2 * f <= q2 * e
    BY TimesMonotone
  <2>2. q3 * b <= q3 * a /\ q1 * d <= q1 * c
    BY <1>2, <1>3, <1>4, <2>1
  <2>3. b <= a /\ d <= c
    BY <2>2, TimesCancel
  <2>4. QED
    BY <1>7, <2>3
<1>8. QED
  BY <1>1, <1>6, <1>7

(* The order of ranking, as a set of pairs.                                *)
Before(orders) == {e \in orders \X orders : ranks_before(e[1], e[2])}

LEMMA Ranking ==
  ASSUME NEW orders, Orders(orders), \A o \in orders : Priced(o)
  PROVE  TotallyOrders(Before(orders), orders)
<1> DEFINE R == Before(orders)
<1>1. \A a, b \in orders : <<a, b>> \in R <=> ranks_before(a, b)
  BY DEF Before
<1>2. \A a \in orders : ~ranks_before(a, a)
  BY DEF ranks_before, cheaper, Priced
<1>3. ASSUME NEW a \in orders, NEW b \in orders, a # b
      PROVE  ranks_before(a, b) \/ ranks_before(b, a)
  <2>1. a.id # b.id /\ a.id \in Int /\ b.id \in Int
    BY <1>3 DEF Orders
  <2>2. a.offeredAmount \in Nat /\ b.offeredAmount \in Nat
    BY DEF Priced
  <2>3. QED
    BY <2>1, <2>2 DEF ranks_before
<1>4. ASSUME NEW a \in orders, NEW b \in orders, NEW c \in orders,
             ranks_before(a, b), ranks_before(b, c)
      PROVE  ranks_before(a, c)
  <2>1. PICK p1 \in Nat, p2 \in Nat, p3 \in Nat, q1 \in Nat, q2 \in Nat, q3 \in Nat :
          /\ p1 = a.requestedAmount /\ p2 = b.requestedAmount /\ p3 = c.requestedAmount
          /\ q1 = a.offeredAmount /\ q2 = b.offeredAmount /\ q3 = c.offeredAmount
          /\ q1 > 0 /\ q2 > 0 /\ q3 > 0
    BY DEF Priced
  <2>2. PICK ab \in Nat, ba \in Nat, bc \in Nat, cb \in Nat, ac \in Nat, ca \in Nat :
          /\ ab = p1 * q2 /\ ba = p2 * q1 /\ bc = p2 * q3 /\ cb = p3 * q2
          /\ ac = p1 * q3 /\ ca = p3 * q1
    OBVIOUS
  <2>3. /\ cheaper(a, b) <=> ab < ba
        /\ cheaper(b, a) <=> ba < ab
        /\ cheaper(b, c) <=> bc < cb
        /\ cheaper(c, b) <=> cb < bc
        /\ cheaper(a, c) <=> ac < ca
        /\ cheaper(c, a) <=> ca < ac
    BY <2>1, <2>2 DEF cheaper
  <2>4. ab <= ba /\ bc <= cb
    BY <1>4, <2>2, <2>3 DEF ranks_before
  <2>5. ac <= ca /\ (ab < ba \/ bc < cb => ac < ca)
    BY <2>1, <2>2, <2>4, CrossMultiplied
  <2>6. CASE ac < ca
    BY <2>3, <2>6 DEF ranks_before
  <2>7. CASE ~(ac < ca)
    <3>1. ~cheaper(a, b) /\ ~cheaper(b, c) /\ ~cheaper(c, a)
      BY <2>2, <2>3, <2>5, <2>7
    <3>2. /\ q1 > q2 \/ (q1 = q2 /\ a.id < b.id)
          /\ q2 > q3 \/ (q2 = q3 /\ b.id < c.id)
      BY <1>4, <2>1, <3>1 DEF ranks_before
    <3>3. a.id \in Int /\ b.id \in Int /\ c.id \in Int
      BY DEF Priced
    <3>4. q1 > q3 \/ (q1 = q3 /\ a.id < c.id)
      BY <3>2, <3>3
    <3>5. QED
      BY <2>1, <3>1, <3>4 DEF ranks_before
  <2>8. QED
    BY <2>6, <2>7
<1> HIDE DEF R
<1>5. QED
  BY <1>1, <1>2, <1>3, <1>4 DEF TotallyOrders, R

(* Every candidate has one place in the ranking.                           *)
LEMMA Ranked ==
  ASSUME NEW orders, Orders(orders), NEW wish, NEW now
  PROVE  LET s == ranked(orders, wish, now)
             C == candidates(orders, wish, now)
         IN  /\ s \in Seq(C)
             /\ \A i, j \in DOMAIN s : s[i] = s[j] => i = j
             /\ \A o \in C : \E i \in DOMAIN s : s[i] = o
             /\ \A i, j \in DOMAIN s : i < j => ranks_before(s[i], s[j])
<1> DEFINE C == candidates(orders, wish, now)
           rank(o) == Cardinality(before(Before(C), C, o))
           at(n) == CHOOSE o \in C : rank(o) = n - 1
           N == Cardinality(C)
           s == [n \in 1..N |-> at(n)]
<1>1. IsFiniteSet(C) /\ Orders(C) /\ \A o \in C : Priced(o)
  <2>1. C \subseteq orders /\ IsFiniteSet(C) /\ \A o \in C : Priced(o)
    BY CandidatesPriced
  <2> HIDE DEF C
  <2>2. QED
    BY <2>1 DEF Orders
<1>2. TotallyOrders(Before(C), C) /\ N \in Nat
  BY <1>1, Ranking, FS_CardinalityType
<1>3. \A o \in C : before(Before(C), C, o) = {p \in C : ranks_before(p, o)}
  BY DEF before, Before
<1>4. ranked(orders, wish, now) = s
  <2>1. ranked(orders, wish, now) =
          [n \in 1..N |-> CHOOSE o \in C : Cardinality({p \in C : ranks_before(p, o)}) = n - 1]
    BY DEF ranked
  <2>2. \A n : at(n) = CHOOSE o \in C : Cardinality({p \in C : ranks_before(p, o)}) = n - 1
    <3> HIDE DEF C
    <3>1. QED
      BY <1>3
  <2>3. QED
    BY <2>1, <2>2
<1>5. ASSUME NEW n \in 1..N PROVE at(n) \in C /\ rank(at(n)) = n - 1
  <2>1. n - 1 \in Nat /\ n - 1 < N
    BY <1>2
  <2>2. \E o \in C : rank(o) = n - 1
    <3> HIDE DEF C
    <3>1. QED
      BY <1>1, <1>2, <2>1, RanksFill
  <2>3. QED
    BY <2>2
<1>6. s \in Seq(C) /\ DOMAIN s = 1..N
  BY <1>2, <1>5
<1>7. ASSUME NEW i \in 1..N, NEW j \in 1..N, at(i) = at(j) PROVE i = j
  <2>1. i - 1 = j - 1
    BY <1>5, <1>7
  <2>2. QED
    BY <2>1
<1>8. ASSUME NEW o \in C PROVE \E i \in 1..N : at(i) = o
  <2>1. rank(o) \in Nat /\ rank(o) < N
    <3>1. before(Before(C), C, o) \subseteq C \ {o}
      BY <1>2 DEF before, TotallyOrders
    <3>2. IsFiniteSet(C \ {o}) /\ Cardinality(C \ {o}) = N - 1
      BY <1>1, FS_RemoveElement
    <3>3. rank(o) <= N - 1 /\ rank(o) \in Nat
      BY <3>1, <3>2, FS_Subset, FS_CardinalityType
    <3>4. QED
      BY <1>2, <3>3
  <2>2. rank(o) + 1 \in 1..N
    BY <1>2, <2>1
  <2>3. at(rank(o) + 1) \in C /\ rank(at(rank(o) + 1)) = rank(o)
    BY <1>5, <2>1, <2>2
  <2>4. at(rank(o) + 1) = o
    <3> HIDE DEF at, C
    <3>1. QED
      BY <1>1, <1>2, <2>3, RanksDiffer
  <2>5. QED
    BY <2>2, <2>4
<1>9. ASSUME NEW i \in 1..N, NEW j \in 1..N, i < j PROVE ranks_before(at(i), at(j))
  <2>1. /\ at(i) \in C /\ at(j) \in C /\ rank(at(i)) = i - 1 /\ rank(at(j)) = j - 1
    BY <1>5
  <2>2. at(i) # at(j)
    BY <1>7, <1>9
  <2>3. ~(rank(at(j)) < rank(at(i)))
    BY <1>9, <2>1
  <2> HIDE DEF at, C
  <2>4. <<at(j), at(i)>> \notin Before(C)
    BY <1>1, <1>2, <2>1, <2>3, RanksIncrease
  <2>5. <<at(i), at(j)>> \in Before(C)
    BY <1>2, <2>1, <2>2, <2>4 DEF TotallyOrders
  <2>6. QED
    BY <2>1, <2>5 DEF Before
<1> HIDE DEF at
<1>10. QED
  BY <1>4, <1>6, <1>7, <1>8, <1>9

----------------------------------------------------------------------------
(***************************************************************************)
(* Legs and what they come to.                                             *)
(***************************************************************************)
Legs == [orderId : Int, spend : Nat, receive : Nat, takeAmount : Int \cup {None}]

spends(legs)   == [i \in DOMAIN legs |-> legs[i].spend]
receipts(legs) == [i \in DOMAIN legs |-> legs[i].receive]

LEMMA LegsTyped ==
  ASSUME NEW legs \in Seq(Legs)
  PROVE  /\ DOMAIN legs = 1..Len(legs) /\ Len(legs) \in Nat /\ IsFiniteSet(DOMAIN legs)
         /\ \A i \in DOMAIN legs : legs[i] \in Legs
         /\ spends(legs) \in Seq(Nat) /\ receipts(legs) \in Seq(Nat)
         /\ DOMAIN spends(legs) = DOMAIN legs /\ DOMAIN receipts(legs) = DOMAIN legs
<1>1. DOMAIN legs = 1..Len(legs) /\ Len(legs) \in Nat /\ \A i \in DOMAIN legs : legs[i] \in Legs
  OBVIOUS
<1>2. IsFiniteSet(DOMAIN legs)
  BY PlacesFinite
<1>3. \A i \in DOMAIN legs : legs[i].spend \in Nat /\ legs[i].receive \in Nat
  BY <1>1 DEF Legs
<1>4. spends(legs) \in Seq(Nat) /\ receipts(legs) \in Seq(Nat)
  BY <1>1, <1>3 DEF spends, receipts
<1>5. QED
  BY <1>1, <1>2, <1>4 DEF spends, receipts

(* The totals are sums.                                                    *)
LEMMA TotalsAreSums ==
  ASSUME NEW legs \in Seq(Legs)
  PROVE  /\ totalSpend(legs) = SumFunctionOnSet(spends(legs), DOMAIN legs)
         /\ totalReceive(legs) = SumFunctionOnSet(receipts(legs), DOMAIN legs)
         /\ totalSpend(legs) \in Nat /\ totalReceive(legs) \in Nat
<1> DEFINE D == DOMAIN legs
           eqS(g) == g = [T \in SUBSET D |->
                            IF T = {} THEN 0 ELSE g[T \ {Max(T)}] + legs[Max(T)].spend]
           eqR(g) == g = [T \in SUBSET D |->
                            IF T = {} THEN 0 ELSE g[T \ {Max(T)}] + legs[Max(T)].receive]
           iterS == CHOOSE g : eqS(g)
           iterR == CHOOSE g : eqR(g)
<1>1. totalSpend(legs) = iterS[D] /\ totalReceive(legs) = iterR[D]
  BY DEF totalSpend, totalReceive, FoldLeft, MapThenFoldSet
<1>2. \A T \in SUBSET D : T # {} => Max(T) \in D
  BY PlacesFinite, LargestIn
<1>3. \A g : (eqS(g) <=> LeftSums(spends(legs), g)) /\ (eqR(g) <=> LeftSums(receipts(legs), g))
  <2>1. DOMAIN spends(legs) = D /\ DOMAIN receipts(legs) = D
    BY DEF spends, receipts
  <2>2. \A T \in SUBSET D : T # {} => /\ legs[Max(T)].spend = spends(legs)[Max(T)]
                                      /\ legs[Max(T)].receive = receipts(legs)[Max(T)]
    BY <1>2 DEF spends, receipts
  <2> HIDE DEF D
  <2> TAKE g
  <2>3. [T \in SUBSET D |-> IF T = {} THEN 0 ELSE g[T \ {Max(T)}] + legs[Max(T)].spend]
          = [T \in SUBSET D |-> IF T = {} THEN 0 ELSE g[T \ {Max(T)}] + spends(legs)[Max(T)]]
    BY <2>2
  <2>4. [T \in SUBSET D |-> IF T = {} THEN 0 ELSE g[T \ {Max(T)}] + legs[Max(T)].receive]
          = [T \in SUBSET D |-> IF T = {} THEN 0 ELSE g[T \ {Max(T)}] + receipts(legs)[Max(T)]]
    BY <2>2
  <2>5. QED
    BY <2>1, <2>3, <2>4 DEF LeftSums
<1> HIDE DEF eqS, eqR
<1>4. spends(legs) \in Seq(Nat) /\ receipts(legs) \in Seq(Nat) /\ IsFiniteSet(D)
      /\ DOMAIN spends(legs) = D /\ DOMAIN receipts(legs) = D
  BY LegsTyped
<1>5. eqS(iterS) /\ eqR(iterR)
  BY <1>3, <1>4, LeftSum
<1>6. /\ iterS[D] = SumFunctionOnSet(spends(legs), D)
      /\ iterR[D] = SumFunctionOnSet(receipts(legs), D)
  BY <1>3, <1>4, <1>5, LeftSum
<1>7. /\ \A i \in D : spends(legs)[i] \in Nat /\ receipts(legs)[i] \in Nat
  BY <1>4
<1>8. SumFunctionOnSet(spends(legs), D) \in Nat /\ SumFunctionOnSet(receipts(legs), D) \in Nat
  BY <1>4, <1>7, SumType
<1>9. QED
  BY <1>1, <1>6, <1>8

(* One more leg.                                                           *)
LEMMA TotalsOfMore ==
  ASSUME NEW legs \in Seq(Legs), NEW leg \in Legs
  PROVE  /\ Append(legs, leg) \in Seq(Legs)
         /\ totalSpend(Append(legs, leg)) = totalSpend(legs) + leg.spend
         /\ totalReceive(Append(legs, leg)) = totalReceive(legs) + leg.receive
<1> DEFINE more == Append(legs, leg)
           n == Len(legs)
<1>1. /\ more \in Seq(Legs) /\ n \in Nat /\ DOMAIN legs = 1..n /\ DOMAIN more = 1..(n + 1)
      /\ more[n + 1] = leg /\ \A i \in 1..n : more[i] = legs[i]
  OBVIOUS
<1>2. (1..(n + 1)) \ {n + 1} = 1..n /\ n + 1 \in 1..(n + 1)
  BY <1>1
<1> HIDE DEF more, n
<1>3. /\ spends(more) \in Seq(Nat) /\ receipts(more) \in Seq(Nat) /\ IsFiniteSet(1..(n + 1))
      /\ DOMAIN spends(more) = 1..(n + 1) /\ DOMAIN receipts(more) = 1..(n + 1)
      /\ spends(legs) \in Seq(Nat) /\ receipts(legs) \in Seq(Nat) /\ IsFiniteSet(1..n)
      /\ DOMAIN spends(legs) = 1..n /\ DOMAIN receipts(legs) = 1..n
  BY <1>1, LegsTyped
<1>4. /\ spends(more)[n + 1] = leg.spend /\ receipts(more)[n + 1] = leg.receive
      /\ \A i \in 1..n : /\ spends(more)[i] = spends(legs)[i]
                         /\ receipts(more)[i] = receipts(legs)[i]
  BY <1>1, <1>2 DEF spends, receipts
<1>5. /\ \A i \in 1..(n + 1) : spends(more)[i] \in Nat /\ receipts(more)[i] \in Nat
      /\ \A i \in 1..n : spends(legs)[i] \in Nat /\ receipts(legs)[i] \in Nat
  <2>1. \A s \in Seq(Nat) : \A i \in DOMAIN s : s[i] \in Nat
    OBVIOUS
  <2>2. QED
    BY <1>3, <2>1
<1>6. /\ SumFunctionOnSet(spends(more), 1..(n + 1))
           = spends(more)[n + 1] + SumFunctionOnSet(spends(more), (1..(n + 1)) \ {n + 1})
      /\ SumFunctionOnSet(receipts(more), 1..(n + 1))
           = receipts(more)[n + 1] + SumFunctionOnSet(receipts(more), (1..(n + 1)) \ {n + 1})
  <2> DEFINE S == 1..(n + 1)
             sp == spends(more)
             re == receipts(more)
  <2>1. /\ IsFiniteSet(S) /\ n + 1 \in S
        /\ \A i \in S : sp[i] \in Nat /\ re[i] \in Nat
    BY <1>2, <1>3, <1>5
  <2> HIDE DEF S, sp, re
  <2>2. SumFunctionOnSet(sp, S) = sp[n + 1] + SumFunctionOnSet(sp, S \ {n + 1})
    BY <2>1, SumRemove
  <2>3. SumFunctionOnSet(re, S) = re[n + 1] + SumFunctionOnSet(re, S \ {n + 1})
    BY <2>1, SumRemove
  <2>4. QED
    BY <2>2, <2>3 DEF S, sp, re
<1>7. /\ SumFunctionOnSet(spends(more), 1..n) = SumFunctionOnSet(spends(legs), 1..n)
      /\ SumFunctionOnSet(receipts(more), 1..n) = SumFunctionOnSet(receipts(legs), 1..n)
  BY <1>3, <1>4, <1>5, SumSame
<1>8. /\ totalSpend(more) = SumFunctionOnSet(spends(more), 1..(n + 1))
      /\ totalReceive(more) = SumFunctionOnSet(receipts(more), 1..(n + 1))
      /\ totalSpend(legs) = SumFunctionOnSet(spends(legs), 1..n) /\ totalSpend(legs) \in Nat
      /\ totalReceive(legs) = SumFunctionOnSet(receipts(legs), 1..n) /\ totalReceive(legs) \in Nat
  BY <1>1, TotalsAreSums
<1>9. leg.spend \in Nat /\ leg.receive \in Nat
  BY DEF Legs
<1>10. /\ totalSpend(more) = leg.spend + totalSpend(legs)
       /\ totalReceive(more) = leg.receive + totalReceive(legs)
  BY <1>2, <1>4, <1>6, <1>7, <1>8
<1>11. QED
  BY <1>1, <1>8, <1>9, <1>10 DEF more

LEMMA TotalsOfNothing ==
  /\ << >> \in Seq(Legs) /\ totalSpend(<< >>) = 0 /\ totalReceive(<< >>) = 0
<1>1. << >> \in Seq(Legs) /\ DOMAIN << >> = {}
  OBVIOUS
<1>2. \A f : SumFunctionOnSet(f, {}) = 0
  BY FS_EmptySet, SumFirst
<1>3. QED
  BY <1>1, <1>2, TotalsAreSums

(***************************************************************************)
(* Legs on orders of s at the places T, of each one at most, on terms that *)
(* the validator accepts.                                                  *)
(***************************************************************************)
LegsOf(s, T, legs) ==
  /\ legs \in Seq(Legs)
  /\ \A i \in DOMAIN legs :
       \E j \in T : legs[i].orderId = s[j].id /\ fillable(s[j], legs[i])
  /\ \A i, k \in DOMAIN legs : legs[i].orderId = legs[k].orderId => i = k

(* The orders of s are priced and distinct.                                *)
Listing(s) ==
  /\ s \in Seq({s[i] : i \in DOMAIN s})
  /\ \A i \in DOMAIN s : Priced(s[i])
  /\ \A i, j \in DOMAIN s : s[i].id = s[j].id => i = j

LEMMA ListingOf ==
  ASSUME NEW s, Listing(s)
  PROVE  /\ DOMAIN s = 1..Len(s) /\ Len(s) \in Nat /\ IsFiniteSet(DOMAIN s)
         /\ \A T \in SUBSET (DOMAIN s) : T # {} => Max(T) \in T
<1> DEFINE X == {s[i] : i \in DOMAIN s}
<1>1. s \in Seq(X)
  BY DEF Listing
<1> HIDE DEF X
<1>2. DOMAIN s = 1..Len(s) /\ Len(s) \in Nat
  BY <1>1
<1>3. \A T \in SUBSET (DOMAIN s) : IsFiniteSet(T) /\ T \subseteq Int
  BY <1>1, PlacesFinite
<1>4. QED
  BY <1>2, <1>3, LargestIn

LEMMA NoLegs == \A s : LegsOf(s, {}, << >>)
  BY DEF LegsOf

LEMMA FewerLegs ==
  ASSUME NEW s, NEW T, NEW U \in SUBSET T, NEW legs, LegsOf(s, U, legs)
  PROVE  LegsOf(s, T, legs)
  BY DEF LegsOf

(* A leg on an order that has none yet.                                    *)
LEMMA OneMoreLeg ==
  ASSUME NEW s, NEW T, NEW m \in T, NEW legs, LegsOf(s, T, legs),
         s[m].id \notin selected(legs),
         NEW leg \in Legs, leg.orderId = s[m].id, fillable(s[m], leg)
  PROVE  /\ LegsOf(s, T, Append(legs, leg))
         /\ selected(Append(legs, leg)) = selected(legs) \cup {s[m].id}
<1> DEFINE more == Append(legs, leg)
           n == Len(legs)
<1>0. legs \in Seq(Legs)
  BY DEF LegsOf
<1>1. /\ more \in Seq(Legs) /\ n \in Nat /\ DOMAIN legs = 1..n /\ DOMAIN more = 1..(n + 1)
      /\ more[n + 1] = leg /\ \A i \in 1..n : more[i] = legs[i]
  BY <1>0
<1> HIDE DEF more, n
<1>2. \A i \in DOMAIN more : i \in 1..n \/ i = n + 1
  BY <1>1
<1>3. \A i \in 1..n : legs[i].orderId # s[m].id
  BY <1>1 DEF selected
<1>4. \A i \in DOMAIN more :
        \E j \in T : more[i].orderId = s[j].id /\ fillable(s[j], more[i])
  BY <1>1, <1>2 DEF LegsOf
<1>5. \A i, k \in DOMAIN more : more[i].orderId = more[k].orderId => i = k
  <2> SUFFICES ASSUME NEW i \in DOMAIN more, NEW k \in DOMAIN more,
                      more[i].orderId = more[k].orderId
               PROVE  i = k
    OBVIOUS
  <2>1. CASE i \in 1..n /\ k \in 1..n
    BY <1>1, <2>1 DEF LegsOf
  <2>2. CASE i = n + 1 \/ k = n + 1
    BY <1>1, <1>2, <1>3, <2>2
  <2>3. QED
    BY <1>2, <2>1, <2>2
<1>6. selected(more) = selected(legs) \cup {s[m].id}
  <2>1. selected(more) = {more[i].orderId : i \in 1..(n + 1)}
        /\ selected(legs) = {legs[i].orderId : i \in 1..n}
    BY <1>1 DEF selected
  <2>2. 1..(n + 1) = (1..n) \cup {n + 1}
    BY <1>1
  <2>3. QED
    BY <1>1, <2>1, <2>2
<1>7. QED
  BY <1>1, <1>4, <1>5, <1>6 DEF LegsOf, more

(* Nobody has a leg on an order that was not looked at.                    *)
LEMMA NotSelectedYet ==
  ASSUME NEW s, Listing(s), NEW T \in SUBSET (DOMAIN s), NEW m \in DOMAIN s, m \notin T,
         NEW legs, LegsOf(s, T, legs)
  PROVE  s[m].id \notin selected(legs)
  BY DEF Listing, LegsOf, selected

(* The two kinds of legs.                                                  *)
LEMMA LegKinds ==
  ASSUME NEW o, Priced(o)
  PROVE  /\ wholeLeg(o) \in Legs /\ wholeLeg(o).orderId = o.id /\ fillable(o, wholeLeg(o))
         /\ wholeLeg(o).spend = o.requestedAmount /\ wholeLeg(o).receive = o.offeredAmount
         /\ wholeLeg(o).takeAmount = None
         /\ \A take \in Nat : /\ partialLeg(o, take) \in Legs
                              /\ partialLeg(o, take).orderId = o.id
                              /\ partialLeg(o, take).spend = requiredPayment(take, o)
                              /\ partialLeg(o, take).receive = take
                              /\ partialLeg(o, take).takeAmount = take
         /\ \A take \in 1..(o.offeredAmount - 1) :
              o.allowPartialFill /\ requiredPayment(take, o) < o.requestedAmount =>
                fillable(o, partialLeg(o, take))
<1>1. /\ wholeLeg(o) \in Legs /\ wholeLeg(o).orderId = o.id /\ fillable(o, wholeLeg(o))
      /\ wholeLeg(o).spend = o.requestedAmount /\ wholeLeg(o).receive = o.offeredAmount
      /\ wholeLeg(o).takeAmount = None
  BY DEF wholeLeg, Legs, fillable, Priced
<1>2. ASSUME NEW take \in Nat
      PROVE  /\ partialLeg(o, take) \in Legs
             /\ partialLeg(o, take).orderId = o.id
             /\ partialLeg(o, take).spend = requiredPayment(take, o)
             /\ partialLeg(o, take).receive = take
             /\ partialLeg(o, take).takeAmount = take
  <2>1. requiredPayment(take, o) \in Nat
    BY LeastPayment
  <2>2. QED
    BY <2>1 DEF partialLeg, Legs, Priced
<1>3. ASSUME NEW take \in 1..(o.offeredAmount - 1), o.allowPartialFill,
             requiredPayment(take, o) < o.requestedAmount
      PROVE  fillable(o, partialLeg(o, take))
  <2>1. take \in Nat /\ take > 0 /\ take # None
    BY NoneAssumption DEF Priced
  <2>2. /\ requiredPayment(take, o) \in Nat /\ requiredPayment(take, o) > 0
        /\ requiredPayment(take, o) * o.offeredAmount >= take * o.requestedAmount
    BY <2>1, LeastPayment
  <2>3. /\ partialLeg(o, take).spend = requiredPayment(take, o)
        /\ partialLeg(o, take).takeAmount = take
    BY DEF partialLeg
  <2>4. requiredPayment(take, o) \in 1..(o.requestedAmount - 1)
    BY <1>3, <2>2 DEF Priced
  <2>5. QED
    BY <1>3, <2>1, <2>2, <2>3, <2>4 DEF fillable
<1>4. QED
  BY <1>1, <1>2, <1>3

----------------------------------------------------------------------------
(***************************************************************************)
(* Mode "spend": every order that still fits, whole.                       *)
(***************************************************************************)
Filled(limit, s) == FoldLeft(LAMBDA legs, o : within_budget(limit, legs, o), << >>, s)

(* No order at the places T that was passed over fits what is left.        *)
Budgeted(limit, s, T, legs) ==
  /\ LegsOf(s, T, legs)
  /\ totalSpend(legs) <= limit
  /\ \A i \in DOMAIN legs : legs[i].takeAmount = None
  /\ \A j \in T : s[j].id \in selected(legs) \/ s[j].requestedAmount > limit - totalSpend(legs)

LEMMA BudgetedStep ==
  ASSUME NEW limit \in Nat, NEW s, Listing(s), NEW T \in SUBSET (DOMAIN s), NEW m \in T,
         NEW legs, Budgeted(limit, s, T \ {m}, legs)
  PROVE  Budgeted(limit, s, T, within_budget(limit, legs, s[m]))
<1> DEFINE o == s[m]
           U == T \ {m}
<1>1. Priced(o)
  BY DEF Listing
<1>2. PICK a \in Nat, t \in Nat : a = o.requestedAmount /\ a > 0 /\ t = totalSpend(legs)
  <2>1. legs \in Seq(Legs)
    BY DEF Budgeted, LegsOf
  <2>2. QED
    BY <1>1, <2>1, TotalsAreSums DEF Priced
<1>3. CASE a > limit - t
  <2>1. within_budget(limit, legs, o) = legs
    BY <1>2, <1>3 DEF within_budget
  <2>2. LegsOf(s, T, legs)
    BY FewerLegs DEF Budgeted
  <2>3. QED
    BY <1>2, <1>3, <2>1, <2>2 DEF Budgeted
<1>4. CASE ~(a > limit - t)
  <2> DEFINE leg == wholeLeg(o)
             more == Append(legs, leg)
  <2>1. within_budget(limit, legs, o) = more
    BY <1>2, <1>4 DEF within_budget
  <2>2. /\ leg \in Legs /\ leg.orderId = o.id /\ fillable(o, leg) /\ leg.spend = a
        /\ leg.takeAmount = None
    BY <1>1, <1>2, LegKinds
  <2>3. o.id \notin selected(legs)
    BY NotSelectedYet DEF Budgeted
  <2>4. LegsOf(s, T, legs) /\ legs \in Seq(Legs)
    BY FewerLegs DEF Budgeted, LegsOf
  <2> HIDE DEF leg
  <2>5. LegsOf(s, T, more) /\ selected(more) = selected(legs) \cup {o.id}
    BY <2>2, <2>3, <2>4, OneMoreLeg
  <2>6. totalSpend(more) = t + a
    BY <1>2, <2>2, <2>4, TotalsOfMore
  <2>7. \A i \in DOMAIN more : more[i].takeAmount = None
    <3>1. \A i \in DOMAIN more : more[i] = leg \/ (i \in DOMAIN legs /\ more[i] = legs[i])
      BY <2>2, <2>4
    <3>2. QED
      BY <2>2, <3>1 DEF Budgeted
  <2>8. ASSUME NEW j \in T
        PROVE  s[j].id \in selected(more) \/ s[j].requestedAmount > limit - (t + a)
    <3>1. CASE j = m
      BY <2>5, <3>1
    <3>2. CASE j # m
      <4>1. s[j].id \in selected(legs) \/ s[j].requestedAmount > limit - t
        BY <1>2, <3>2 DEF Budgeted
      <4>2. s[j].requestedAmount \in Nat
        BY DEF Listing, Priced
      <4>3. s[j].requestedAmount > limit - t => s[j].requestedAmount > limit - (t + a)
        BY <1>2, <4>2
      <4>4. QED
        BY <2>5, <4>1, <4>3
    <3>3. QED
      BY <3>1, <3>2
  <2>9. t + a <= limit
    BY <1>2, <1>4
  <2> HIDE DEF more
  <2>10. QED
    BY <2>1, <2>5, <2>6, <2>7, <2>8, <2>9 DEF Budgeted
<1>5. QED
  BY <1>3, <1>4

LEMMA BudgetedFold ==
  ASSUME NEW limit \in Nat, NEW s, Listing(s)
  PROVE  Budgeted(limit, s, DOMAIN s, Filled(limit, s))
<1> DEFINE D == DOMAIN s
           Y == {s[i] : i \in D}
           V == Seq(Legs)
           F == [e \in Y \X V |-> within_budget(limit, e[2], e[1])]
           eq(g) == g = [T \in SUBSET D |->
                           IF T = {} THEN << >>
                           ELSE within_budget(limit, g[T \ {Max(T)}], s[Max(T)])]
           iter == CHOOSE g : eq(g)
<1>1. Filled(limit, s) = iter[D]
  BY DEF Filled, FoldLeft, MapThenFoldSet
<1>2. D = 1..Len(s) /\ IsFiniteSet(D) /\ s \in Seq(Y) /\ \A T \in SUBSET D : T # {} => Max(T) \in T
  BY ListingOf DEF Listing
<1>3. << >> \in V
  OBVIOUS
<1>4. ASSUME NEW w \in V, NEW o \in Y PROVE within_budget(limit, w, o) \in V
  <2>1. wholeLeg(o) \in Legs
    BY LegKinds DEF Listing
  <2>2. QED
    BY <2>1 DEF within_budget
<1>5. F \in [Y \X V -> V]
  <2> HIDE DEF V, Y
  <2>1. QED
    BY <1>4
<1>6. PICK g : LeftFolds(g, s, << >>, V, F)
  <2> HIDE DEF F, V, Y
  <2>1. QED
    BY <1>2, <1>3, <1>5, LeftFold
<1>7. \A T \in SUBSET D : T # {} =>
        F[<<s[Max(T)], g[T \ {Max(T)}]>>] = within_budget(limit, g[T \ {Max(T)}], s[Max(T)])
  <2> SUFFICES ASSUME NEW T \in SUBSET D, T # {}
               PROVE  F[<<s[Max(T)], g[T \ {Max(T)}]>>]
                        = within_budget(limit, g[T \ {Max(T)}], s[Max(T)])
    OBVIOUS
  <2>1. s[Max(T)] \in Y /\ g[T \ {Max(T)}] \in V
    BY <1>2, <1>6 DEF LeftFolds
  <2> HIDE DEF V, Y
  <2>2. QED
    BY <2>1
<1>8. eq(g)
  <2> HIDE DEF F, V, Y
  <2>1. g \in [SUBSET D -> V]
        /\ \A T \in SUBSET D : g[T] = IF T = {} THEN << >> ELSE F[<<s[Max(T)], g[T \ {Max(T)}]>>]
    BY <1>6 DEF LeftFolds
  <2>2. QED
    BY <1>7, <2>1
<1>9. eq(iter)
  <2> HIDE DEF eq
  <2>1. QED
    BY <1>8
<1> HIDE DEF iter
<1>10. SUBSET D \subseteq {T \in SUBSET D : Budgeted(limit, s, T, iter[T])}
  <2> DEFINE A == {T \in SUBSET D : Budgeted(limit, s, T, iter[T])}
  <2>1. {} \in A
    <3>1. iter[{}] = << >>
      BY <1>9
    <3>2. Budgeted(limit, s, {}, << >>)
      BY NoLegs, TotalsOfNothing DEF Budgeted
    <3>3. QED
      BY <3>1, <3>2
  <2>2. ASSUME NEW T \in SUBSET D, T # {}, \A x \in T : T \ {x} \in A PROVE T \in A
    <3>1. Max(T) \in T
      BY <1>2, <2>2
    <3>2. iter[T] = within_budget(limit, iter[T \ {Max(T)}], s[Max(T)])
      BY <1>9, <2>2
    <3>3. Budgeted(limit, s, T \ {Max(T)}, iter[T \ {Max(T)}])
      BY <2>2, <3>1
    <3>4. Budgeted(limit, s, T, iter[T])
      BY <3>1, <3>2, <3>3, BudgetedStep
    <3>5. QED
      BY <3>4
  <2>3. IsFiniteSet(D)
    BY <1>2
  <2> HIDE DEF A, D
  <2>4. SUBSET D \subseteq A
    BY <2>1, <2>2, <2>3, SubsetInduction
  <2>5. QED
    BY <2>4 DEF A
<1>11. QED
  BY <1>1, <1>10

----------------------------------------------------------------------------
(***************************************************************************)
(* Mode "receive": order after order until the target is met.              *)
(***************************************************************************)
Collected(limit, s) == FoldLeft(LAMBDA legs, o : towards_target(limit, legs, o), << >>, s)

(* The last leg cannot be made smaller: the target cannot be met exactly.  *)
Overshot(limit, o, last, got) ==
  LET rest_ == limit - (got - last.receive) IN
  /\ last.orderId = o.id
  /\ rest_ > 0
  /\ ~o.allowPartialFill \/ requiredPayment(rest_, o) >= o.requestedAmount

Targeted(limit, s, T, legs) ==
  /\ LegsOf(s, T, legs)
  /\ totalReceive(legs) < limit => \A j \in T : \E i \in DOMAIN legs : legs[i] = wholeLeg(s[j])
  /\ totalReceive(legs) > limit =>
       \E j \in T : Overshot(limit, s[j], legs[Len(legs)], totalReceive(legs))

LEMMA TargetedStep ==
  ASSUME NEW limit \in Nat, NEW s, Listing(s), NEW T \in SUBSET (DOMAIN s), NEW m \in T,
         NEW legs, Targeted(limit, s, T \ {m}, legs)
  PROVE  Targeted(limit, s, T, towards_target(limit, legs, s[m]))
<1> DEFINE o == s[m]
<1>1. Priced(o) /\ LegsOf(s, T \ {m}, legs)
  BY DEF Listing, Targeted
<1>2. LegsOf(s, T, legs) /\ legs \in Seq(Legs) /\ o.id \notin selected(legs)
  BY <1>1, FewerLegs, NotSelectedYet DEF LegsOf
<1>3. PICK f \in Nat, t \in Nat : f = o.offeredAmount /\ f > 0 /\ t = totalReceive(legs)
  BY <1>1, <1>2, TotalsAreSums DEF Priced
<1>4. CASE limit <= t
  <2>1. towards_target(limit, legs, o) = legs
    BY <1>3, <1>4 DEF towards_target
  <2>2. QED
    BY <1>2, <1>3, <1>4, <2>1 DEF Targeted
<1>5. CASE t < limit
  <2>0. PICK needed \in Nat : needed = limit - t /\ needed > 0
    BY <1>5
  <2> DEFINE fits == /\ needed < f
                     /\ o.allowPartialFill
                     /\ requiredPayment(needed, o) < o.requestedAmount
  <2>1. CASE fits
    <3> DEFINE leg == partialLeg(o, needed)
               more == Append(legs, leg)
    <3>1. towards_target(limit, legs, o) = more
      BY <1>3, <2>0, <2>1 DEF towards_target
    <3>2. leg \in Legs /\ leg.orderId = o.id /\ leg.receive = needed
      BY <1>1, LegKinds
    <3>3. fillable(o, leg)
      <4>1. needed \in 1..(o.offeredAmount - 1)
        BY <1>3, <2>0, <2>1
      <4>2. QED
        BY <1>1, <2>1, <4>1, LegKinds
    <3> HIDE DEF leg
    <3>4. LegsOf(s, T, more)
      BY <1>2, <3>2, <3>3, OneMoreLeg
    <3>5. totalReceive(more) = limit
      <4>1. totalReceive(more) = t + needed
        BY <1>2, <1>3, <3>2, TotalsOfMore
      <4>2. QED
        BY <2>0, <4>1
    <3> HIDE DEF more
    <3>6. QED
      BY <3>1, <3>4, <3>5 DEF Targeted
  <2>2. CASE ~fits
    <3> DEFINE leg == wholeLeg(o)
               more == Append(legs, leg)
    <3>1. towards_target(limit, legs, o) = more
      BY <1>3, <2>0, <2>2 DEF towards_target
    <3>2. leg \in Legs /\ leg.orderId = o.id /\ leg.receive = f /\ fillable(o, leg)
      BY <1>1, <1>3, LegKinds
    <3>3. leg = wholeLeg(o)
      OBVIOUS
    <3> HIDE DEF leg
    <3>4. LegsOf(s, T, more)
      BY <1>2, <3>2, OneMoreLeg
    <3>5. totalReceive(more) = t + f
      BY <1>2, <1>3, <3>2, TotalsOfMore
    <3>6. /\ more[Len(more)] = leg
          /\ \E i \in DOMAIN more : more[i] = leg
          /\ \A i \in DOMAIN legs : \E k \in DOMAIN more : more[k] = legs[i]
      <4>1. /\ Len(more) = Len(legs) + 1 /\ DOMAIN more = 1..(Len(legs) + 1)
            /\ DOMAIN legs = 1..Len(legs) /\ Len(legs) \in Nat
            /\ more[Len(legs) + 1] = leg /\ \A i \in 1..Len(legs) : more[i] = legs[i]
        BY <1>2, <3>2
      <4> HIDE DEF more
      <4>2. Len(legs) + 1 \in DOMAIN more /\ \A i \in DOMAIN legs : i \in DOMAIN more
        BY <4>1
      <4>3. QED
        BY <4>1, <4>2
    <3> HIDE DEF more
    <3>7. ASSUME t + f < limit, NEW j \in T
          PROVE  \E i \in DOMAIN more : more[i] = wholeLeg(s[j])
      <4>1. CASE j = m
        BY <3>3, <3>6, <4>1
      <4>2. CASE j # m
        <5>1. \E i \in DOMAIN legs : legs[i] = wholeLeg(s[j])
          BY <1>3, <1>5, <4>2 DEF Targeted
        <5>2. QED
          BY <3>6, <5>1
      <4>3. QED
        BY <4>1, <4>2
    <3>8. ASSUME t + f > limit
          PROVE  Overshot(limit, o, leg, t + f)
      <4>1. limit - ((t + f) - leg.receive) = needed /\ needed < f
        BY <2>0, <3>2, <3>8
      <4>2. ~o.allowPartialFill \/ requiredPayment(needed, o) >= o.requestedAmount
        <5>1. requiredPayment(needed, o) \in Nat /\ o.requestedAmount \in Nat
          BY <1>1, LeastPayment DEF Priced
        <5>2. QED
          BY <2>2, <4>1, <5>1
      <4>3. QED
        BY <2>0, <3>2, <4>1, <4>2 DEF Overshot
    <3>9. QED
      BY <3>1, <3>4, <3>5, <3>6, <3>7, <3>8 DEF Targeted
  <2>3. QED
    BY <2>1, <2>2
<1>6. QED
  BY <1>4, <1>5, <1>3

(***************************************************************************)
(* What a route costs where every order may be filled in part.             *)
(***************************************************************************)
AtLeast(S, c, g, f, x, y) == \A j \in S : y * c[j] + g[j] >= x * f[j]

Equal(S, c, g, f, x, y) == \A j \in S : y * c[j] + g[j] = x * f[j]

(* Terms that compare one by one compare in sum.                           *)
LEMMA SumsAbove ==
  ASSUME NEW S, IsFiniteSet(S), NEW c, NEW g, NEW f, NEW x \in Nat, NEW y \in Nat,
         \A j \in S : c[j] \in Nat /\ g[j] \in Nat /\ f[j] \in Nat,
         AtLeast(S, c, g, f, x, y)
  PROVE  y * SumFunctionOnSet(c, S) + SumFunctionOnSet(g, S) >= x * SumFunctionOnSet(f, S)
<1> DEFINE C(T) == SumFunctionOnSet(c, T)
           G(T) == SumFunctionOnSet(g, T)
           F(T) == SumFunctionOnSet(f, T)
           A == {T \in SUBSET S : y * C(T) + G(T) >= x * F(T)}
<1>1. C({}) = 0 /\ G({}) = 0 /\ F({}) = 0
  BY SumFirst
<1>2. \A T \in SUBSET S : C(T) \in Nat /\ G(T) \in Nat /\ F(T) \in Nat
  BY SumType
<1>3. \A T \in SUBSET S : \A j \in T :
        C(T) = c[j] + C(T \ {j}) /\ G(T) = g[j] + G(T \ {j}) /\ F(T) = f[j] + F(T \ {j})
  <2> SUFFICES ASSUME NEW T \in SUBSET S, NEW j \in T
               PROVE  C(T) = c[j] + C(T \ {j}) /\ G(T) = g[j] + G(T \ {j})
                      /\ F(T) = f[j] + F(T \ {j})
    OBVIOUS
  <2>1. IsFiniteSet(T)
    BY FS_Subset
  <2>2. QED
    BY <2>1, SumRemove
<1> HIDE DEF C, G, F
<1>4. {} \in A
  BY <1>1
<1>5. ASSUME NEW T \in SUBSET S, T # {}, \A j \in T : T \ {j} \in A PROVE T \in A
  <2>1. PICK j \in T : TRUE
    BY <1>5
  <2>2. C(T) = c[j] + C(T \ {j}) /\ G(T) = g[j] + G(T \ {j}) /\ F(T) = f[j] + F(T \ {j})
    BY <1>3
  <2>3. PICK a \in Nat, b \in Nat, d \in Nat, a1 \in Nat, b1 \in Nat, d1 \in Nat :
          a = c[j] /\ b = g[j] /\ d = f[j] /\ a1 = C(T \ {j}) /\ b1 = G(T \ {j}) /\ d1 = F(T \ {j})
    BY <1>2
  <2>4. y * (a + a1) = y * a + y * a1 /\ x * (d + d1) = x * d + x * d1
    OBVIOUS
  <2>5. y * a1 + b1 >= x * d1 /\ y * a + b >= x * d
    BY <1>5, <2>3 DEF AtLeast
  <2>6. PICK p \in Nat, q \in Nat, p1 \in Nat, q1 \in Nat :
          p = y * a /\ q = x * d /\ p1 = y * a1 /\ q1 = x * d1
    OBVIOUS
  <2>7. y * (a + a1) + (b + b1) >= x * (d + d1)
    BY <2>4, <2>5, <2>6
  <2>8. QED
    BY <2>2, <2>3, <2>7
<1>6. S \in A
  <2> HIDE DEF A
  <2>1. QED
    BY <1>4, <1>5, SubsetInduction
<1>7. QED
  BY <1>6 DEF C, G, F

LEMMA SumsEqual ==
  ASSUME NEW S, IsFiniteSet(S), NEW c, NEW g, NEW f, NEW x \in Nat, NEW y \in Nat,
         \A j \in S : c[j] \in Nat /\ g[j] \in Nat /\ f[j] \in Nat,
         Equal(S, c, g, f, x, y)
  PROVE  y * SumFunctionOnSet(c, S) + SumFunctionOnSet(g, S) = x * SumFunctionOnSet(f, S)
<1> DEFINE C(T) == SumFunctionOnSet(c, T)
           G(T) == SumFunctionOnSet(g, T)
           F(T) == SumFunctionOnSet(f, T)
           A == {T \in SUBSET S : y * C(T) + G(T) = x * F(T)}
<1>1. C({}) = 0 /\ G({}) = 0 /\ F({}) = 0
  BY SumFirst
<1>2. \A T \in SUBSET S : C(T) \in Nat /\ G(T) \in Nat /\ F(T) \in Nat
  BY SumType
<1>3. \A T \in SUBSET S : \A j \in T :
        C(T) = c[j] + C(T \ {j}) /\ G(T) = g[j] + G(T \ {j}) /\ F(T) = f[j] + F(T \ {j})
  <2> SUFFICES ASSUME NEW T \in SUBSET S, NEW j \in T
               PROVE  C(T) = c[j] + C(T \ {j}) /\ G(T) = g[j] + G(T \ {j})
                      /\ F(T) = f[j] + F(T \ {j})
    OBVIOUS
  <2>1. IsFiniteSet(T)
    BY FS_Subset
  <2>2. QED
    BY <2>1, SumRemove
<1> HIDE DEF C, G, F
<1>4. {} \in A
  BY <1>1
<1>5. ASSUME NEW T \in SUBSET S, T # {}, \A j \in T : T \ {j} \in A PROVE T \in A
  <2>1. PICK j \in T : TRUE
    BY <1>5
  <2>2. C(T) = c[j] + C(T \ {j}) /\ G(T) = g[j] + G(T \ {j}) /\ F(T) = f[j] + F(T \ {j})
    BY <1>3
  <2>3. PICK a \in Nat, b \in Nat, d \in Nat, a1 \in Nat, b1 \in Nat, d1 \in Nat :
          a = c[j] /\ b = g[j] /\ d = f[j] /\ a1 = C(T \ {j}) /\ b1 = G(T \ {j}) /\ d1 = F(T \ {j})
    BY <1>2
  <2>4. y * (a + a1) = y * a + y * a1 /\ x * (d + d1) = x * d + x * d1
    OBVIOUS
  <2>5. y * a1 + b1 = x * d1 /\ y * a + b = x * d
    BY <1>5, <2>3 DEF Equal
  <2>6. PICK p \in Nat, q \in Nat, p1 \in Nat, q1 \in Nat :
          p = y * a /\ q = x * d /\ p1 = y * a1 /\ q1 = x * d1
    OBVIOUS
  <2>7. y * (a + a1) + (b + b1) = x * (d + d1)
    BY <2>4, <2>5, <2>6
  <2>8. QED
    BY <2>2, <2>3, <2>7
<1>6. S \in A
  <2> HIDE DEF A
  <2>1. QED
    BY <1>4, <1>5, SubsetInduction
<1>7. QED
  BY <1>6 DEF C, G, F

asksOf(s)   == [j \in DOMAIN s |-> s[j].requestedAmount]
offersOf(s) == [j \in DOMAIN s |-> s[j].offeredAmount]

(* What all of an order of s costs less than at the price of s[k], times   *)
(* the offer of that.                                                      *)
gains(s, k) ==
  [j \in DOMAIN s |->
     IF cheaper(s[j], s[k])
     THEN s[k].requestedAmount * s[j].offeredAmount - s[j].requestedAmount * s[k].offeredAmount
     ELSE 0]

(* No way to get the limit out of the orders at T costs less than spend.   *)
Least(limit, s, T, k, spend) ==
  \A c \in Int :
    c * s[k].offeredAmount + SumFunctionOnSet(gains(s, k), T) >= s[k].requestedAmount * limit
      => spend <= c

Cheap(limit, s, T, legs) ==
  IF totalReceive(legs) < limit
  THEN /\ totalSpend(legs) = SumFunctionOnSet(asksOf(s), T)
       /\ totalReceive(legs) = SumFunctionOnSet(offersOf(s), T)
  ELSE totalSpend(legs) = 0 \/ \E k \in T : Least(limit, s, T, k, totalSpend(legs))

Sorted(s) == \A i, j \in DOMAIN s : i < j => ~cheaper(s[j], s[i])

LEMMA AmountsOf ==
  ASSUME NEW s, Listing(s), NEW k \in DOMAIN s
  PROVE  /\ \A j \in DOMAIN s : /\ asksOf(s)[j] = s[j].requestedAmount /\ asksOf(s)[j] \in Nat
                                /\ offersOf(s)[j] = s[j].offeredAmount /\ offersOf(s)[j] \in Nat
                                /\ gains(s, k)[j] \in Nat
                                /\ cheaper(s[j], s[k]) =>
                                     s[k].offeredAmount * asksOf(s)[j] + gains(s, k)[j]
                                       = s[k].requestedAmount * offersOf(s)[j]
                                /\ ~cheaper(s[j], s[k]) => gains(s, k)[j] = 0
         /\ \A T \in SUBSET (DOMAIN s) :
              /\ IsFiniteSet(T)
              /\ SumFunctionOnSet(asksOf(s), T) \in Nat /\ SumFunctionOnSet(offersOf(s), T) \in Nat
              /\ SumFunctionOnSet(gains(s, k), T) \in Nat
<1>1. ASSUME NEW j \in DOMAIN s
      PROVE  /\ asksOf(s)[j] = s[j].requestedAmount /\ asksOf(s)[j] \in Nat
             /\ offersOf(s)[j] = s[j].offeredAmount /\ offersOf(s)[j] \in Nat
             /\ gains(s, k)[j] \in Nat
             /\ cheaper(s[j], s[k]) => s[k].offeredAmount * asksOf(s)[j] + gains(s, k)[j]
                                         = s[k].requestedAmount * offersOf(s)[j]
             /\ ~cheaper(s[j], s[k]) => gains(s, k)[j] = 0
  <2>1. PICK a \in Nat, b \in Nat, d \in Nat, e \in Nat :
          a = s[j].requestedAmount /\ b = s[j].offeredAmount
          /\ d = s[k].requestedAmount /\ e = s[k].offeredAmount
    BY DEF Listing, Priced
  <2>2. PICK p \in Nat, q \in Nat : p = a * e /\ q = d * b
    OBVIOUS
  <2>3. e * a = p
    BY <2>2
  <2>4. cheaper(s[j], s[k]) <=> p < q
    BY <2>1, <2>2 DEF cheaper
  <2>5. gains(s, k)[j] = IF p < q THEN q - p ELSE 0
    BY <2>1, <2>2, <2>4 DEF gains
  <2>6. asksOf(s)[j] = a /\ offersOf(s)[j] = b
    BY <2>1 DEF asksOf, offersOf
  <2>7. QED
    BY <2>1, <2>2, <2>3, <2>4, <2>5, <2>6
<1>2. ASSUME NEW T \in SUBSET (DOMAIN s)
      PROVE  /\ IsFiniteSet(T)
             /\ SumFunctionOnSet(asksOf(s), T) \in Nat /\ SumFunctionOnSet(offersOf(s), T) \in Nat
             /\ SumFunctionOnSet(gains(s, k), T) \in Nat
  <2>1. IsFiniteSet(T)
    BY ListingOf, FS_Subset
  <2>2. QED
    BY <1>1, <2>1, SumType
<1>3. QED
  BY <1>1, <1>2

(* Orders that do not rank before s[k] change nothing.                     *)
LEMMA GainsOfMore ==
  ASSUME NEW s, Listing(s), NEW T \in SUBSET (DOMAIN s), NEW m \in T,
         NEW k \in DOMAIN s, ~cheaper(s[m], s[k])
  PROVE  SumFunctionOnSet(gains(s, k), T) = SumFunctionOnSet(gains(s, k), T \ {m})
<1>1. SumFunctionOnSet(gains(s, k), T) = gains(s, k)[m] + SumFunctionOnSet(gains(s, k), T \ {m})
  <2> DEFINE g == gains(s, k)
  <2>1. IsFiniteSet(T) /\ \A j \in T : g[j] \in Nat
    BY AmountsOf
  <2> HIDE DEF g
  <2>2. QED
    BY <2>1, SumRemove DEF g
<1>2. gains(s, k)[m] = 0 /\ SumFunctionOnSet(gains(s, k), T \ {m}) \in Nat
  BY AmountsOf
<1>3. QED
  BY <1>1, <1>2

LEMMA LeastOfMore ==
  ASSUME NEW limit \in Nat, NEW s, Listing(s), NEW T \in SUBSET (DOMAIN s), NEW m \in T,
         NEW k \in DOMAIN s, ~cheaper(s[m], s[k]),
         NEW spend, Least(limit, s, T \ {m}, k, spend)
  PROVE  Least(limit, s, T, k, spend)
<1>1. SumFunctionOnSet(gains(s, k), T) = SumFunctionOnSet(gains(s, k), T \ {m})
  BY GainsOfMore
<1>2. QED
  BY <1>1 DEF Least

(* The leg with which the target is met costs no more than the price of    *)
(* what was needed.                                                        *)
LEMMA LeastWhenMet ==
  ASSUME NEW limit \in Nat, NEW s, Listing(s), Sorted(s), NEW T \in SUBSET (DOMAIN s), NEW m \in T,
         \A j \in T : j <= m,
         NEW legs \in Seq(Legs), totalReceive(legs) < limit, Cheap(limit, s, T \ {m}, legs),
         NEW spend \in Nat, spend <= requiredPayment(limit - totalReceive(legs), s[m])
  PROVE  Least(limit, s, T, m, totalSpend(legs) + spend)
<1> DEFINE o == s[m]
           U == T \ {m}
           R == SumFunctionOnSet(asksOf(s), U)
           O == SumFunctionOnSet(offersOf(s), U)
           G == SumFunctionOnSet(gains(s, m), U)
<1>1. /\ m \in DOMAIN s /\ U \in SUBSET (DOMAIN s) /\ IsFiniteSet(U) /\ Priced(o)
      /\ R \in Nat /\ O \in Nat /\ G \in Nat
  BY AmountsOf DEF Listing
<1>2. totalSpend(legs) = R /\ totalReceive(legs) = O
  BY DEF Cheap
<1>3. PICK f \in Nat, a \in Nat, needed \in Nat :
        f = o.offeredAmount /\ a = o.requestedAmount /\ f > 0 /\ needed = limit - O /\ needed > 0
  BY <1>1, <1>2 DEF Priced
<1>4. f * R + G = a * O
  <2>1. \A j \in U : f * asksOf(s)[j] + gains(s, m)[j] = a * offersOf(s)[j]
    <3> SUFFICES ASSUME NEW j \in U
                 PROVE  f * asksOf(s)[j] + gains(s, m)[j] = a * offersOf(s)[j]
      OBVIOUS
    <3>1. CASE cheaper(s[j], s[m])
      BY <1>3, <3>1, AmountsOf
    <3>2. CASE ~cheaper(s[j], s[m])
      <4>1. j < m
        <5>1. j \in Int /\ m \in Int /\ j <= m /\ j # m
          BY <1>1, ListingOf
        <5>2. QED
          BY <5>1
      <4>2. ~cheaper(s[m], s[j])
        BY <4>1 DEF Sorted
      <4>3. PICK b \in Nat, d \in Nat : b = s[j].requestedAmount /\ d = s[j].offeredAmount
        BY DEF Listing, Priced
      <4>4. PICK p \in Nat, q \in Nat : p = b * f /\ q = a * d
        OBVIOUS
      <4>5. p = q
        BY <1>3, <3>2, <4>2, <4>3, <4>4 DEF cheaper
      <4>6. f * b = p
        BY <4>4
      <4>7. gains(s, m)[j] = 0 /\ asksOf(s)[j] = b /\ offersOf(s)[j] = d
        BY <3>2, <4>3, AmountsOf
      <4>8. QED
        BY <4>4, <4>5, <4>6, <4>7
    <3>3. QED
      BY <3>1, <3>2
  <2> DEFINE c == asksOf(s)
             g == gains(s, m)
             h == offersOf(s)
  <2>2. \A j \in U : c[j] \in Nat /\ g[j] \in Nat /\ h[j] \in Nat
    BY AmountsOf
  <2>5. Equal(U, c, g, h, a, f)
    BY <2>1 DEF Equal
  <2>6. IsFiniteSet(U)
    BY <1>1
  <2> HIDE DEF c, g, h, U
  <2>3. f * SumFunctionOnSet(c, U) + SumFunctionOnSet(g, U) = a * SumFunctionOnSet(h, U)
    BY <2>2, <2>5, <2>6, SumsEqual
  <2>4. QED
    BY <2>3 DEF c, g, h
<1>5. SumFunctionOnSet(gains(s, m), T) = G
  <2>1. ~cheaper(s[m], s[m])
    BY <1>1 DEF cheaper, Priced
  <2>2. m \in DOMAIN s
    BY <1>1
  <2> HIDE DEF U, G, R, O
  <2>3. SumFunctionOnSet(gains(s, m), T) = SumFunctionOnSet(gains(s, m), T \ {m})
    BY <2>1, <2>2, GainsOfMore
  <2>4. QED
    BY <2>3 DEF G, U
<1> HIDE DEF R, O, G, U
<1>6. ASSUME NEW c \in Int, c * f + G >= a * limit PROVE R + spend <= c
  <2>1. a * limit = a * O + a * needed
    <3>1. limit = O + needed
      BY <1>1, <1>3
    <3>2. QED
      BY <1>1, <3>1
  <2>2. PICK x \in Int, y \in Int, z \in Nat : x = f * c /\ y = f * R /\ z = a * needed
    BY <1>1
  <2>3. a * O \in Int /\ c * f = x
    BY <1>1, <2>2
  <2>4. x - y >= z
    BY <1>1, <1>4, <1>6, <2>1, <2>2, <2>3
  <2>5. PICK d \in Int : d = c - R
    BY <1>1
  <2>6. f * d = x - y /\ d * f = f * d
    BY <1>1, <2>2, <2>5
  <2>7. d >= 0
    <3> SUFFICES ASSUME d <= -1 PROVE FALSE
      BY <2>5
    <3>1. f * d <= f * (-1) /\ f * (-1) = -f
      BY TimesMonotone
    <3>2. PICK w \in Int : w = x - y
      BY <2>2
    <3>3. w <= -f /\ w >= z /\ f > 0
      BY <1>3, <2>4, <2>6, <3>1, <3>2
    <3>4. QED
      BY <3>3
  <2>8. d \in Nat /\ d * o.offeredAmount >= needed * o.requestedAmount
    <3>1. needed * a = z
      BY <2>2
    <3>2. QED
      BY <1>3, <2>2, <2>4, <2>5, <2>6, <2>7, <3>1
  <2>9. requiredPayment(needed, o) <= d /\ requiredPayment(needed, o) \in Nat
    BY <1>1, <2>8, LeastPayment
  <2>10. spend <= requiredPayment(needed, o)
    BY <1>2, <1>3
  <2>11. QED
    BY <1>1, <2>5, <2>9, <2>10
<1>7. QED
  BY <1>2, <1>3, <1>5, <1>6 DEF Least

LEMMA CheapStep ==
  ASSUME NEW limit \in Nat, NEW s, Listing(s), Sorted(s),
         \A j \in DOMAIN s : s[j].allowPartialFill,
         NEW T \in SUBSET (DOMAIN s), NEW m \in T, \A j \in T : j <= m,
         NEW legs \in Seq(Legs), Cheap(limit, s, T \ {m}, legs)
  PROVE  Cheap(limit, s, T, towards_target(limit, legs, s[m]))
<1> DEFINE o == s[m]
<1>1. Priced(o) /\ o.allowPartialFill /\ m \in DOMAIN s
  BY DEF Listing
<1>2. PICK f \in Nat, a \in Nat, t \in Nat, u \in Nat :
        f = o.offeredAmount /\ f > 0 /\ a = o.requestedAmount
        /\ t = totalReceive(legs) /\ u = totalSpend(legs)
  BY <1>1, TotalsAreSums DEF Priced
<1>3. CASE limit <= t
  <2>1. towards_target(limit, legs, o) = legs
    BY <1>2, <1>3 DEF towards_target
  <2>5. ~(totalReceive(legs) < limit) /\ totalSpend(legs) = u
    BY <1>2, <1>3
  <2>2. u = 0 \/ \E k \in T \ {m} : Least(limit, s, T \ {m}, k, u)
    BY <2>5, Zenon DEF Cheap
  <2>3. ASSUME NEW k \in T \ {m}, Least(limit, s, T \ {m}, k, u) PROVE Least(limit, s, T, k, u)
    <3>1. k \in DOMAIN s /\ ~cheaper(s[m], s[k])
      <4>1. k \in Int /\ m \in Int /\ k <= m /\ k # m
        BY <1>1, ListingOf
      <4>2. QED
        BY <1>1, <4>1 DEF Sorted
    <3>2. QED
      BY <2>3, <3>1, LeastOfMore
  <2>6. u = 0 \/ \E k \in T : Least(limit, s, T, k, u)
    BY <2>2, <2>3
  <2>4. QED
    BY <2>1, <2>5, <2>6, Zenon DEF Cheap
<1>4. CASE t < limit
  <2>0. PICK needed \in Nat : needed = limit - t /\ needed > 0
    BY <1>4
  <2>1. requiredPayment(needed, o) \in Nat /\ requiredPayment(needed, o) * f >= needed * a
    BY <1>1, <1>2, LeastPayment
  <2> DEFINE fits == needed < f /\ requiredPayment(needed, o) < a
             leg  == IF fits THEN partialLeg(o, needed) ELSE wholeLeg(o)
             more == Append(legs, leg)
  <2>2. towards_target(limit, legs, o) = more
    BY <1>1, <1>2, <2>0 DEF towards_target
  <2>3. /\ leg \in Legs
        /\ fits => leg.spend = requiredPayment(needed, o) /\ leg.receive = needed
        /\ ~fits => leg.spend = a /\ leg.receive = f
    BY <1>1, <1>2, LegKinds
  <2> HIDE DEF leg
  <2>4. /\ totalSpend(more) = u + leg.spend /\ totalReceive(more) = t + leg.receive
        /\ leg.spend \in Nat /\ leg.receive \in Nat
    BY <1>2, <2>3, TotalsOfMore DEF Legs
  <2> HIDE DEF more
  <2>5. CASE leg.receive < needed
    <3>1. ~fits /\ leg.spend = a /\ leg.receive = f /\ t + f < limit
      BY <2>0, <2>3, <2>5
    <3>2. u = SumFunctionOnSet(asksOf(s), T \ {m}) /\ t = SumFunctionOnSet(offersOf(s), T \ {m})
      BY <1>2, <1>4 DEF Cheap
    <3>3. SumFunctionOnSet(asksOf(s), T) = a + u /\ SumFunctionOnSet(offersOf(s), T) = f + t
      <4> DEFINE c == asksOf(s)
                 h == offersOf(s)
      <4>1. IsFiniteSet(T) /\ (\A j \in T : c[j] \in Nat /\ h[j] \in Nat) /\ c[m] = a /\ h[m] = f
        BY <1>1, <1>2, AmountsOf
      <4> HIDE DEF c, h
      <4>2. /\ SumFunctionOnSet(c, T) = c[m] + SumFunctionOnSet(c, T \ {m})
            /\ SumFunctionOnSet(h, T) = h[m] + SumFunctionOnSet(h, T \ {m})
        BY <4>1, SumRemove
      <4>3. QED
        BY <3>2, <4>1, <4>2 DEF c, h
    <3>4. QED
      BY <2>2, <2>4, <3>1, <3>3 DEF Cheap
  <2>6. CASE ~(leg.receive < needed)
    <3>1. leg.spend <= requiredPayment(needed, o)
      <4>1. CASE fits
        BY <2>1, <2>3, <4>1
      <4>2. CASE ~fits
        <5>1. leg.spend = a /\ f >= needed
          BY <2>0, <2>3, <2>6, <4>2
        <5>2. CASE needed = f
          <6>1. PICK p \in Nat : p = requiredPayment(needed, o)
            BY <2>1
          <6>2. p * f = f * p /\ f * p >= f * a
            BY <2>1, <5>2, <6>1
          <6>3. a <= p
            BY <1>2, <6>2, TimesCancel
          <6>4. QED
            BY <5>1, <6>1, <6>3
        <5>3. CASE needed < f
          BY <2>1, <4>2, <5>1, <5>3
        <5>4. QED
          BY <5>1, <5>2, <5>3
      <4>3. QED
        BY <4>1, <4>2
    <3>2. needed = limit - totalReceive(legs) /\ totalReceive(legs) < limit
      BY <1>2, <1>4, <2>0
    <3>3. Least(limit, s, T, m, u + leg.spend)
      BY <1>2, <2>4, <3>1, <3>2, LeastWhenMet
    <3>4. ~(t + leg.receive < limit)
      BY <2>0, <2>4, <2>6
    <3>5. QED
      BY <2>2, <2>4, <3>3, <3>4 DEF Cheap
  <2>7. QED
    BY <2>5, <2>6
<1>5. QED
  BY <1>2, <1>3, <1>4

CheapThere(limit, s, T, legs) ==
  (\A j \in DOMAIN s : s[j].allowPartialFill) /\ Sorted(s) => Cheap(limit, s, T, legs)

----------------------------------------------------------------------------
LEMMA TargetedFold ==
  ASSUME NEW limit \in Nat, NEW s, Listing(s)
  PROVE  /\ Targeted(limit, s, DOMAIN s, Collected(limit, s))
         /\ CheapThere(limit, s, DOMAIN s, Collected(limit, s))
<1> DEFINE D == DOMAIN s
           Y == {s[i] : i \in D}
           V == Seq(Legs)
           F == [e \in Y \X V |-> towards_target(limit, e[2], e[1])]
           eq(g) == g = [T \in SUBSET D |->
                           IF T = {} THEN << >>
                           ELSE towards_target(limit, g[T \ {Max(T)}], s[Max(T)])]
           iter == CHOOSE g : eq(g)
<1>1. Collected(limit, s) = iter[D]
  BY DEF Collected, FoldLeft, MapThenFoldSet
<1>2. D = 1..Len(s) /\ IsFiniteSet(D) /\ s \in Seq(Y) /\ \A T \in SUBSET D : T # {} => Max(T) \in T
  BY ListingOf DEF Listing
<1>3. << >> \in V
  OBVIOUS
<1>4. ASSUME NEW w \in V, NEW o \in Y PROVE towards_target(limit, w, o) \in V
  <2>1. Priced(o) /\ wholeLeg(o) \in Legs
    BY LegKinds DEF Listing
  <2>2. limit - totalReceive(w) \in Int
    BY TotalsAreSums
  <2>3. limit - totalReceive(w) > 0 => partialLeg(o, limit - totalReceive(w)) \in Legs
    <3>1. limit - totalReceive(w) > 0 => limit - totalReceive(w) \in Nat
      BY <2>2
    <3>2. QED
      BY <2>1, <3>1, LegKinds
  <2> DEFINE needed == limit - totalReceive(w)
  <2>4. towards_target(limit, w, o) \in {w, Append(w, partialLeg(o, needed)), Append(w, wholeLeg(o))}
        /\ (needed <= 0 => towards_target(limit, w, o) = w)
    BY DEF towards_target
  <2> HIDE DEF needed
  <2>5. needed \in Int /\ (needed > 0 => partialLeg(o, needed) \in Legs)
    BY <2>2, <2>3 DEF needed
  <2>6. \A l \in Legs : Append(w, l) \in V
    OBVIOUS
  <2>7. w \in V /\ (needed > 0 => Append(w, partialLeg(o, needed)) \in V)
        /\ Append(w, wholeLeg(o)) \in V
    BY <2>1, <2>5, <2>6
  <2> HIDE DEF V
  <2>8. CASE needed <= 0
    BY <2>4, <2>7, <2>8
  <2>9. CASE needed > 0
    BY <2>4, <2>7, <2>9
  <2>10. QED
    BY <2>5, <2>8, <2>9
<1>5. F \in [Y \X V -> V]
  <2> HIDE DEF V, Y
  <2>1. QED
    BY <1>4
<1>6. PICK g : LeftFolds(g, s, << >>, V, F)
  <2> HIDE DEF F, V, Y
  <2>1. QED
    BY <1>2, <1>3, <1>5, LeftFold
<1>7. \A T \in SUBSET D : T # {} =>
        F[<<s[Max(T)], g[T \ {Max(T)}]>>] = towards_target(limit, g[T \ {Max(T)}], s[Max(T)])
  <2> SUFFICES ASSUME NEW T \in SUBSET D, T # {}
               PROVE  F[<<s[Max(T)], g[T \ {Max(T)}]>>]
                        = towards_target(limit, g[T \ {Max(T)}], s[Max(T)])
    OBVIOUS
  <2>1. s[Max(T)] \in Y /\ g[T \ {Max(T)}] \in V
    BY <1>2, <1>6 DEF LeftFolds
  <2> HIDE DEF V, Y
  <2>2. QED
    BY <2>1
<1>8. eq(g)
  <2> HIDE DEF F, V, Y
  <2>1. g \in [SUBSET D -> V]
        /\ \A T \in SUBSET D : g[T] = IF T = {} THEN << >> ELSE F[<<s[Max(T)], g[T \ {Max(T)}]>>]
    BY <1>6 DEF LeftFolds
  <2>2. QED
    BY <1>7, <2>1
<1>9. eq(iter)
  <2> HIDE DEF eq
  <2>1. QED
    BY <1>8
<1> HIDE DEF iter
<1>10. SUBSET D \subseteq {T \in SUBSET D : /\ Targeted(limit, s, T, iter[T])
                                           /\ CheapThere(limit, s, T, iter[T])}
  <2> DEFINE A == {T \in SUBSET D : /\ Targeted(limit, s, T, iter[T])
                                    /\ CheapThere(limit, s, T, iter[T])}
  <2>1. {} \in A
    <3>1. iter[{}] = << >>
      BY <1>9
    <3>2. totalReceive(<< >>) = 0 /\ totalSpend(<< >>) = 0 /\ ~(0 > limit)
      BY TotalsOfNothing
    <3>3. Targeted(limit, s, {}, << >>)
      BY <3>2, NoLegs DEF Targeted
    <3>4. SumFunctionOnSet(asksOf(s), {}) = 0 /\ SumFunctionOnSet(offersOf(s), {}) = 0
      BY FS_EmptySet, SumFirst
    <3>5. CheapThere(limit, s, {}, << >>)
      BY <3>2, <3>4 DEF CheapThere, Cheap
    <3>6. QED
      BY <3>1, <3>3, <3>5
  <2>2. ASSUME NEW T \in SUBSET D, T # {}, \A x \in T : T \ {x} \in A PROVE T \in A
    <3>1. Max(T) \in T /\ \A j \in T : j <= Max(T)
      <4>1. T \subseteq Int /\ IsFiniteSet(T)
        BY <1>2, FS_Subset
      <4>2. QED
        BY <2>2, <4>1, LargestIn
    <3>2. iter[T] = towards_target(limit, iter[T \ {Max(T)}], s[Max(T)])
      BY <1>9, <2>2
    <3>3. /\ Targeted(limit, s, T \ {Max(T)}, iter[T \ {Max(T)}])
          /\ CheapThere(limit, s, T \ {Max(T)}, iter[T \ {Max(T)}])
      BY <2>2, <3>1
    <3>4. Targeted(limit, s, T, iter[T])
      BY <3>1, <3>2, <3>3, TargetedStep
    <3>5. iter[T \ {Max(T)}] \in Seq(Legs)
      BY <3>3 DEF Targeted, LegsOf
    <3>6. CheapThere(limit, s, T, iter[T])
      <4> DEFINE m    == Max(T)
                 legs == iter[T \ {m}]
      <4> SUFFICES ASSUME \A j \in DOMAIN s : s[j].allowPartialFill, Sorted(s)
                   PROVE  Cheap(limit, s, T, towards_target(limit, legs, s[m]))
        BY <3>2 DEF CheapThere
      <4>1. legs \in Seq(Legs) /\ Cheap(limit, s, T \ {m}, legs)
        BY <3>3, <3>5 DEF CheapThere
      <4>2. m \in T /\ \A j \in T : j <= m
        BY <3>1
      <4> HIDE DEF m, legs
      <4>3. QED
        BY <4>1, <4>2, CheapStep
    <3>7. QED
      BY <3>4, <3>6
  <2>3. IsFiniteSet(D)
    BY <1>2
  <2> HIDE DEF A, D
  <2>4. SUBSET D \subseteq A
    BY <2>1, <2>2, <2>3, SubsetInduction
  <2>5. QED
    BY <2>4 DEF A
<1>11. QED
  BY <1>1, <1>10

----------------------------------------------------------------------------
(***************************************************************************)
(* What is left of a budget goes into one partial leg.                     *)
(***************************************************************************)
Partial(legs) == \E i \in DOMAIN legs : legs[i].takeAmount # None

(* No part of o is of use: every take costs more than left, or the whole   *)
(* ask, or less than the dust threshold.                                   *)
NoPart(left, minPartialSpend, o) ==
  \A take \in 1..(o.offeredAmount - 1) :
    \/ requiredPayment(take, o) > left
    \/ requiredPayment(take, o) >= o.requestedAmount
    \/ requiredPayment(take, o) < minPartialSpend

UsedUp(limit, minPartialSpend, s, legs) ==
  \A j \in DOMAIN s :
    s[j].id \notin selected(legs) =>
      /\ s[j].requestedAmount > limit - totalSpend(legs)
      /\ ~Partial(legs) /\ s[j].allowPartialFill =>
           NoPart(limit - totalSpend(legs), minPartialSpend, s[j])

LEMMA ResidualLeg ==
  ASSUME NEW limit \in Nat, NEW minPartialSpend \in Int, NEW s, Listing(s),
         NEW legs, Budgeted(limit, s, DOMAIN s, legs)
  PROVE  /\ LegsOf(s, DOMAIN s, residual(limit, minPartialSpend, s, legs))
         /\ totalSpend(residual(limit, minPartialSpend, s, legs)) <= limit
         /\ UsedUp(limit, minPartialSpend, s, residual(limit, minPartialSpend, s, legs))
<1>1. PICK left \in Nat, t \in Nat : t = totalSpend(legs) /\ left = limit - t
  <2>1. legs \in Seq(Legs)
    BY DEF Budgeted, LegsOf
  <2>2. totalSpend(legs) \in Nat /\ totalSpend(legs) <= limit
    BY <2>1, TotalsAreSums DEF Budgeted
  <2>3. limit - totalSpend(legs) \in Nat
    BY <2>2
  <2>4. QED
    BY <2>2, <2>3
<1> DEFINE most(o) == maxTakeForSpend(left, o)
           absorbs(o) == /\ o.id \notin selected(legs)
                         /\ o.allowPartialFill
                         /\ most(o) > 0
                         /\ requiredPayment(most(o), o) >= minPartialSpend
           I == {i \in 1..Len(s) : absorbs(s[i])}
           k == IF I # {} THEN Min(I) ELSE 0
<1>2. residual(limit, minPartialSpend, s, legs)
        = IF k = 0 THEN legs ELSE Append(legs, partialLeg(s[k], most(s[k])))
  BY <1>1 DEF residual, SelectInSeq
<1>3. DOMAIN s = 1..Len(s) /\ Len(s) \in Nat
  BY ListingOf
<1>4. LegsOf(s, DOMAIN s, legs) /\ legs \in Seq(Legs) /\ ~Partial(legs)
  BY DEF Budgeted, LegsOf, Partial
<1>5. CASE I = {}
  <2>1. residual(limit, minPartialSpend, s, legs) = legs
    BY <1>2, <1>5
  <2>2. ASSUME NEW j \in DOMAIN s, s[j].id \notin selected(legs), s[j].allowPartialFill,
               NEW take \in 1..(s[j].offeredAmount - 1),
               requiredPayment(take, s[j]) <= left,
               requiredPayment(take, s[j]) < s[j].requestedAmount
        PROVE  requiredPayment(take, s[j]) < minPartialSpend
    <3> DEFINE o == s[j]
    <3>1. Priced(o) /\ ~absorbs(o)
      BY <1>3, <1>5 DEF Listing
    <3>2. most(o) \in Nat /\ take <= most(o) /\ take \in Nat /\ take > 0
      BY <2>2, <3>1, LargestTake
    <3>3. requiredPayment(most(o), o) < minPartialSpend
      <4>1. requiredPayment(most(o), o) \in Nat
        BY <3>1, <3>2, LeastPayment
      <4>2. most(o) > 0
        BY <3>2
      <4>3. QED
        BY <2>2, <3>1, <4>1, <4>2
    <3>4. requiredPayment(take, o) \in Nat /\ requiredPayment(most(o), o) \in Nat
          /\ requiredPayment(take, o) <= requiredPayment(most(o), o)
      BY <3>1, <3>2, LeastPayment, PaymentGrows
    <3>5. QED
      BY <3>3, <3>4
  <2>3. \A j \in DOMAIN s : \A take \in 1..(s[j].offeredAmount - 1) :
          requiredPayment(take, s[j]) \in Nat /\ s[j].requestedAmount \in Nat
    <3> SUFFICES ASSUME NEW j \in DOMAIN s, NEW take \in 1..(s[j].offeredAmount - 1)
                 PROVE  requiredPayment(take, s[j]) \in Nat /\ s[j].requestedAmount \in Nat
      OBVIOUS
    <3>1. Priced(s[j]) /\ take \in Nat
      BY DEF Listing
    <3>2. QED
      BY <3>1, LeastPayment DEF Priced
  <2>4. UsedUp(limit, minPartialSpend, s, legs)
    <3> SUFFICES ASSUME NEW j \in DOMAIN s, s[j].id \notin selected(legs)
                 PROVE  /\ s[j].requestedAmount > left
                        /\ s[j].allowPartialFill => NoPart(left, minPartialSpend, s[j])
      BY <1>1 DEF UsedUp
    <3>1. s[j].requestedAmount > left
      BY <1>1 DEF Budgeted
    <3>2. ASSUME s[j].allowPartialFill, NEW take \in 1..(s[j].offeredAmount - 1)
          PROVE  \/ requiredPayment(take, s[j]) > left
                 \/ requiredPayment(take, s[j]) >= s[j].requestedAmount
                 \/ requiredPayment(take, s[j]) < minPartialSpend
      BY <2>2, <2>3, <3>2
    <3>3. QED
      BY <3>1, <3>2 DEF NoPart
  <2>5. QED
    BY <1>4, <2>1, <2>4 DEF Budgeted
<1>6. CASE I # {}
  <2>1. k \in I
    <3>1. I \subseteq Int /\ IsFiniteSet(I)
      <4>1. I \subseteq 1..Len(s)
        OBVIOUS
      <4>2. IsFiniteSet(1..Len(s))
        BY <1>3, FS_Interval
      <4>3. I \subseteq Int
        BY <1>3, <4>1
      <4> HIDE DEF I
      <4>4. QED
        BY <4>1, <4>2, <4>3, FS_Subset
    <3> HIDE DEF I
    <3>2. QED
      BY <1>6, <3>1, SmallestIn
  <2>2. k \in DOMAIN s /\ absorbs(s[k]) /\ k # 0
    BY <1>3, <2>1
  <2> HIDE DEF k
  <2> DEFINE o == s[k]
             take == most(o)
             leg == partialLeg(o, take)
             more == Append(legs, leg)
  <2>3. Priced(o)
    BY <2>2 DEF Listing
  <2>4. /\ take \in Nat /\ take > 0 /\ take < o.offeredAmount
        /\ requiredPayment(take, o) <= left /\ requiredPayment(take, o) < o.requestedAmount
    BY <2>2, <2>3, LargestTake
  <2>5. requiredPayment(take, o) \in Nat /\ requiredPayment(take, o) > 0
    BY <2>3, <2>4, LeastPayment
  <2>6. /\ leg \in Legs /\ leg.orderId = o.id /\ leg.spend = requiredPayment(take, o)
        /\ leg.takeAmount = take
    BY <2>3, <2>4, LegKinds
  <2>7. fillable(o, leg)
    <3>1. take \in 1..(o.offeredAmount - 1)
      BY <2>3, <2>4 DEF Priced
    <3>2. QED
      BY <2>2, <2>3, <2>4, <3>1, LegKinds
  <2>8. residual(limit, minPartialSpend, s, legs) = more
    BY <1>2, <2>2
  <2> HIDE DEF leg, take
  <2>9. LegsOf(s, DOMAIN s, more) /\ selected(more) = selected(legs) \cup {o.id}
    BY <1>4, <2>2, <2>6, <2>7, OneMoreLeg
  <2>10. totalSpend(more) = t + leg.spend
    BY <1>1, <1>4, <2>6, TotalsOfMore
  <2>11. totalSpend(more) <= limit
    BY <1>1, <2>4, <2>5, <2>6, <2>10
  <2>12. Partial(more)
    <3>1. Len(legs) + 1 \in DOMAIN more /\ more[Len(legs) + 1] = leg
      BY <1>4, <2>6
    <3>2. take # None
      BY <2>4, NoneAssumption
    <3> HIDE DEF more
    <3>3. QED
      BY <2>6, <3>1, <3>2 DEF Partial
  <2>13. \A j \in DOMAIN s :
           s[j].id \notin selected(more) => s[j].requestedAmount > limit - totalSpend(more)
    <3> SUFFICES ASSUME NEW j \in DOMAIN s, s[j].id \notin selected(more)
                 PROVE  s[j].requestedAmount > limit - totalSpend(more)
      OBVIOUS
    <3>1. s[j].requestedAmount > left /\ s[j].requestedAmount \in Nat
      BY <1>1, <2>9 DEF Budgeted, Listing, Priced
    <3>2. limit - totalSpend(more) <= left /\ limit - totalSpend(more) \in Int
      BY <1>1, <2>5, <2>6, <2>10
    <3>3. QED
      BY <3>1, <3>2
  <2> HIDE DEF more
  <2>14. QED
    BY <2>8, <2>9, <2>11, <2>12, <2>13 DEF UsedUp
<1>7. QED
  BY <1>5, <1>6

----------------------------------------------------------------------------
(***************************************************************************)
(* The plan.                                                               *)
(***************************************************************************)

(* The ranking lists the candidates, each once.                            *)
LEMMA RankingLists ==
  ASSUME NEW orders, Orders(orders), NEW wish, NEW now
  PROVE  LET s == ranked(orders, wish, now) IN
         /\ Listing(s) /\ Sorted(s)
         /\ \A j \in DOMAIN s : s[j] \in candidates(orders, wish, now) /\ s[j] \in orders
         /\ \A o \in candidates(orders, wish, now) : \E j \in DOMAIN s : s[j] = o
<1> DEFINE s == ranked(orders, wish, now)
           C == candidates(orders, wish, now)
<1>1. /\ s \in Seq(C)
      /\ \A i, j \in DOMAIN s : s[i] = s[j] => i = j
      /\ \A o \in C : \E i \in DOMAIN s : s[i] = o
      /\ \A i, j \in DOMAIN s : i < j => ranks_before(s[i], s[j])
  BY Ranked
<1>2. C \subseteq orders /\ \A o \in C : Priced(o)
  BY CandidatesPriced
<1> HIDE DEF s, C
<1>3. \A j \in DOMAIN s : s[j] \in C
  BY <1>1
<1>4. s \in Seq({s[i] : i \in DOMAIN s})
  <2> DEFINE Z == {s[i] : i \in DOMAIN s}
  <2>1. DOMAIN s = 1..Len(s) /\ Len(s) \in Nat /\ s = [i \in 1..Len(s) |-> s[i]]
    BY <1>1
  <2>2. \A i \in DOMAIN s : s[i] \in Z
    OBVIOUS
  <2> HIDE DEF Z
  <2>3. s \in Seq(Z)
    BY <2>1, <2>2
  <2>4. QED
    BY <2>3 DEF Z
<1>5. \A i, j \in DOMAIN s : s[i].id = s[j].id => i = j
  BY <1>1, <1>2, <1>3 DEF Orders
<1>6. Listing(s)
  BY <1>2, <1>3, <1>4, <1>5 DEF Listing
<1>7. Sorted(s)
  <2> SUFFICES ASSUME NEW i \in DOMAIN s, NEW j \in DOMAIN s, i < j
               PROVE  ~cheaper(s[j], s[i])
    BY DEF Sorted
  <2>1. ranks_before(s[i], s[j]) /\ Priced(s[i]) /\ Priced(s[j])
    BY <1>1, <1>2, <1>3
  <2>2. cheaper(s[i], s[j]) => ~cheaper(s[j], s[i])
    <3>1. \A p, q \in Nat : p < q => ~(q < p)
      OBVIOUS
    <3>2. QED
      BY <2>1, <3>1 DEF cheaper, Priced
  <2>3. QED
    BY <2>1, <2>2 DEF ranks_before
<1>8. QED
  BY <1>1, <1>2, <1>3, <1>6, <1>7 DEF s, C

(* The plan of either mode, on the ranking.                                *)
LEMMA Planned_ ==
  ASSUME NEW orders, Orders(orders), NEW wish, wish.limit \in Nat, NEW now,
         NEW minPartialSpend \in Int
  PROVE  LET s    == ranked(orders, wish, now)
             legs == planSmartFill(orders, wish, minPartialSpend, now)
         IN  /\ LegsOf(s, DOMAIN s, legs)
             /\ wish.mode = "receive" => /\ Targeted(wish.limit, s, DOMAIN s, legs)
                                         /\ CheapThere(wish.limit, s, DOMAIN s, legs)
             /\ wish.mode # "receive" => /\ totalSpend(legs) <= wish.limit
                                         /\ UsedUp(wish.limit, minPartialSpend, s, legs)
<1> DEFINE s == ranked(orders, wish, now)
<1>1. Listing(s)
  BY RankingLists
<1>2. planSmartFill(orders, wish, minPartialSpend, now)
        = IF wish.mode = "receive" THEN Collected(wish.limit, s)
          ELSE residual(wish.limit, minPartialSpend, s, Filled(wish.limit, s))
  BY DEF planSmartFill, Collected, Filled
<1> HIDE DEF s
<1>3. CASE wish.mode = "receive"
  <2>1. /\ Targeted(wish.limit, s, DOMAIN s, Collected(wish.limit, s))
        /\ CheapThere(wish.limit, s, DOMAIN s, Collected(wish.limit, s))
    BY <1>1, TargetedFold
  <2>2. QED
    BY <1>2, <1>3, <2>1 DEF Targeted, s
<1>4. CASE wish.mode # "receive"
  <2>1. Budgeted(wish.limit, s, DOMAIN s, Filled(wish.limit, s))
    BY <1>1, BudgetedFold
  <2>2. /\ LegsOf(s, DOMAIN s,
                  residual(wish.limit, minPartialSpend, s, Filled(wish.limit, s)))
        /\ totalSpend(residual(wish.limit, minPartialSpend, s, Filled(wish.limit, s)))
             <= wish.limit
        /\ UsedUp(wish.limit, minPartialSpend, s,
                  residual(wish.limit, minPartialSpend, s, Filled(wish.limit, s)))
    BY <1>1, <2>1, ResidualLeg
  <2>3. QED
    BY <1>2, <1>4, <2>2 DEF s
<1>5. QED
  BY <1>3, <1>4

(***************************************************************************)
(* Any other way to fill the orders.  cheaper is the comparison of prices, *)
(* and s the ranking.                                                      *)
(***************************************************************************)
LEMMA NoneCheaper ==
  ASSUME NEW limit \in Nat, NEW s, Listing(s),
         NEW legs \in Seq(Legs), Cheap(limit, s, DOMAIN s, legs), totalReceive(legs) >= limit,
         NEW t, NEW c,
         \A j \in DOMAIN s : /\ t[j] \in Nat /\ c[j] \in Nat /\ t[j] <= s[j].offeredAmount
                             /\ c[j] * s[j].offeredAmount >= t[j] * s[j].requestedAmount,
         SumFunctionOnSet(t, DOMAIN s) >= limit
  PROVE  totalSpend(legs) <= SumFunctionOnSet(c, DOMAIN s)
<1> DEFINE D == DOMAIN s
           K == SumFunctionOnSet(c, D)
           R == SumFunctionOnSet(t, D)
<1>1. IsFiniteSet(D) /\ K \in Nat /\ R \in Nat
  BY ListingOf, SumType
<1>2. totalReceive(legs) \in Nat /\ totalSpend(legs) \in Nat
  BY TotalsAreSums
<1>3. totalSpend(legs) = 0 \/ \E k \in D : Least(limit, s, D, k, totalSpend(legs))
  <2>1. ~(totalReceive(legs) < limit)
    BY <1>2
  <2>2. QED
    BY <2>1, Zenon DEF Cheap
<1>4. ASSUME NEW k \in D, Least(limit, s, D, k, totalSpend(legs)) PROVE totalSpend(legs) <= K
  <2> DEFINE g == gains(s, k)
             G == SumFunctionOnSet(g, D)
  <2>1. PICK a \in Nat, e \in Nat : a = s[k].requestedAmount /\ e = s[k].offeredAmount
    BY DEF Listing, Priced
  <2>2. ASSUME NEW j \in D PROVE e * c[j] + g[j] >= a * t[j]
    <3>1. PICK b \in Nat, d \in Nat, x \in Nat, y \in Nat :
            b = s[j].requestedAmount /\ d = s[j].offeredAmount /\ x = t[j] /\ y = c[j] /\ d > 0
      BY DEF Listing, Priced
    <3>2. x <= d /\ y * d >= x * b
      BY <3>1
    <3>3. PICK p \in Nat, q \in Nat : p = b * e /\ q = a * d
      OBVIOUS
    <3>4. g[j] = IF p < q THEN q - p ELSE 0
      BY <2>1, <3>1, <3>3 DEF gains, cheaper
    <3>5. d * (e * y) >= p * x
      <4>1. PICK u \in Nat, v \in Nat : u = y * d /\ v = x * b
        OBVIOUS
      <4>2. e * v <= e * u
        BY <3>2, <4>1, TimesMonotone
      <4>3. e * v = p * x /\ e * u = d * (e * y)
        BY <3>3, <4>1
      <4>4. p * x \in Nat /\ d * (e * y) \in Nat
        OBVIOUS
      <4>5. QED
        BY <4>2, <4>3, <4>4
    <3>6. CASE p < q
      <4>1. PICK w \in Nat : w = q - p
        BY <3>6
      <4>2. w * x <= w * d
        BY <3>2, TimesMonotone
      <4>3. PICK l \in Nat, m \in Nat, n \in Nat, r \in Nat :
              l = d * (e * y) /\ m = p * x /\ n = w * x /\ r = w * d
        OBVIOUS
      <4>4. l + r >= m + n
        BY <3>5, <4>2, <4>3
      <4>5. l + r = d * (e * y + w)
        BY <4>3
      <4>6. m + n = d * (a * x)
        <5>1. m + n = q * x
          BY <4>1, <4>3
        <5>2. QED
          BY <3>3, <5>1
      <4>7. d * (a * x) <= d * (e * y + w)
        BY <4>4, <4>5, <4>6
      <4>8. a * x <= e * y + w
        <5>1. PICK h \in Nat : h = a * x
          OBVIOUS
        <5>2. PICK i \in Nat : i = e * y + w
          OBVIOUS
        <5>3. d * h <= d * i
          BY <4>7, <5>1, <5>2
        <5>4. d > 0
          BY <3>1
        <5>5. d \in Nat /\ h \in Nat /\ i \in Nat
          BY <3>1
        <5>6. h <= i
          BY ONLY <5>3, <5>4, <5>5, TimesCancel
        <5>7. QED
          BY <5>1, <5>2, <5>6
      <4>9. QED
        BY <3>1, <3>4, <3>6, <4>1, <4>8
    <3>7. CASE ~(p < q)
      <4>1. x * q <= x * p
        BY <3>7, TimesMonotone
      <4>2. x * q = d * (a * x) /\ x * p = p * x
        BY <3>3
      <4>3. d * (a * x) <= d * (e * y)
        <5>1. PICK l \in Nat, m \in Nat, n \in Nat :
                l = d * (e * y) /\ m = p * x /\ n = d * (a * x)
          OBVIOUS
        <5>2. QED
          BY <3>5, <4>1, <4>2, <5>1
      <4>4. a * x <= e * y
        <5>1. PICK h \in Nat, i \in Nat : h = a * x /\ i = e * y
          OBVIOUS
        <5>2. d * h <= d * i
          BY <4>3, <5>1
        <5>3. h <= i
          BY <3>1, <5>2, TimesCancel
        <5>4. QED
          BY <5>1, <5>3
      <4>5. QED
        BY <3>1, <3>4, <3>7, <4>4
    <3>8. QED
      BY <3>6, <3>7
  <2>3. \A j \in D : c[j] \in Nat /\ g[j] \in Nat /\ t[j] \in Nat
    BY AmountsOf
  <2>4. AtLeast(D, c, g, t, a, e)
    BY <2>2 DEF AtLeast
  <2>5. G \in Nat
    BY <1>1, <2>3, SumType
  <2> HIDE DEF g, D
  <2>6. e * K + G >= a * R
    BY <1>1, <2>3, <2>4, SumsAbove
  <2>7. a * limit <= a * R
    <3>1. limit <= R
      BY DEF D
    <3> HIDE DEF R
    <3>2. QED
      BY <1>1, <3>1, TimesMonotone
  <2> HIDE DEF K, R, G
  <2>8. K * e + G >= a * limit
    <3>0. e * K \in Nat /\ a * R \in Nat /\ a * limit \in Nat /\ K * e = e * K
      <4>1. K \in Nat /\ R \in Nat
        BY <1>1
      <4>2. QED
        BY ONLY <4>1, e \in Nat, a \in Nat, limit \in Nat
    <3>1. PICK u \in Nat, v \in Nat, w \in Nat : u = e * K /\ v = a * R /\ w = a * limit
      BY <3>0
    <3>2. K * e = u
      BY <3>0, <3>1
    <3>3. QED
      BY <2>5, <2>6, <2>7, <3>1, <3>2
  <2>9. \A z \in Int : z * e + G >= a * limit => totalSpend(legs) <= z
    BY <1>4, <2>1 DEF Least, G, g
  <2>10. QED
    BY <1>1, <2>8, <2>9
<1>5. QED
  BY <1>1, <1>2, <1>3, <1>4

LEMMA PlanIsLegs ==
  ASSUME NEW orders, Orders(orders), NEW wish, wish.limit \in Nat, NEW now,
         NEW minPartialSpend \in Int
  PROVE  planSmartFill(orders, wish, minPartialSpend, now) \in Seq(Legs)
  BY Planned_ DEF LegsOf

(* Every leg of a plan can be settled: for every book of orders that       *)
(* differ in their ids, every wish and every limit, each leg is on an      *)
(* order of its own, of the taker's side and not expired, on terms that    *)
(* the order validator accepts (planSmartFill).                            *)
THEOREM PlanFillable ==
  ASSUME NEW orders, Orders(orders), NEW wish, wish.limit \in Nat, NEW now,
         NEW minPartialSpend \in Int
  PROVE  LegsFillable(orders, wish, now, planSmartFill(orders, wish, minPartialSpend, now))
<1> DEFINE s == ranked(orders, wish, now)
           C == candidates(orders, wish, now)
           legs == planSmartFill(orders, wish, minPartialSpend, now)
<1>1. LegsOf(s, DOMAIN s, legs) /\ \A j \in DOMAIN s : s[j] \in C /\ s[j] \in orders
  BY Planned_, RankingLists
<1> HIDE DEF s, C, legs
<1>2. ASSUME NEW i \in DOMAIN legs
      PROVE  /\ \E o \in C : o.id = legs[i].orderId
             /\ fillable(order_of(orders, legs[i]), legs[i])
  <2>1. PICK j \in DOMAIN s : legs[i].orderId = s[j].id /\ fillable(s[j], legs[i])
    BY <1>1 DEF LegsOf
  <2>2. \A o \in orders : o.id = legs[i].orderId => o = s[j]
    BY <1>1, <2>1 DEF Orders
  <2>3. order_of(orders, legs[i]) = s[j]
    BY <1>1, <2>1, <2>2 DEF order_of
  <2>4. QED
    BY <1>1, <2>1, <2>3
<1>3. Cardinality(selected(legs)) = Len(legs)
  <2> DEFINE f == [i \in DOMAIN legs |-> legs[i].orderId]
  <2>1. DOMAIN legs = 1..Len(legs) /\ Len(legs) \in Nat
    BY <1>1 DEF LegsOf
  <2>2. f \in Bijection(DOMAIN legs, selected(legs))
    <3>1. f \in [DOMAIN legs -> selected(legs)]
      BY DEF selected
    <3>2. \A i, k \in DOMAIN legs : f[i] = f[k] => i = k
      BY <1>1 DEF LegsOf
    <3>3. \A id \in selected(legs) : \E i \in DOMAIN legs : f[i] = id
      BY DEF selected
    <3> HIDE DEF f
    <3>4. QED
      BY <3>1, <3>2, <3>3 DEF Bijection, Injection, Surjection, IsInjective
  <2>3. IsFiniteSet(DOMAIN legs) /\ Cardinality(DOMAIN legs) = Len(legs)
    <3>1. \A n \in Nat : IsFiniteSet(1..n) /\ Cardinality(1..n) = n
      <4> TAKE n \in Nat
      <4>1. IsFiniteSet(1..n) /\ Cardinality(1..n) = IF 1 > n THEN 0 ELSE n - 1 + 1
        BY FS_Interval
      <4>2. QED
        BY <4>1
    <3>2. QED
      BY <2>1, <3>1
  <2> HIDE DEF f
  <2>4. QED
    BY <2>2, <2>3, FS_Bijection DEF ExistsBijection
<1>4. QED
  BY <1>2, <1>3 DEF LegsFillable, C, legs

(* A plan for a budget never exceeds it, and what is left of the budget    *)
(* is of no use: it pays for no other order, and if no leg is partial, for *)
(* no part of one above the dust threshold.                                *)
THEOREM PlanServesBudget ==
  ASSUME NEW orders, Orders(orders), NEW wish, wish.limit \in Nat, NEW now,
         NEW minPartialSpend \in Int
  PROVE  LET legs == planSmartFill(orders, wish, minPartialSpend, now) IN
         /\ WithinBudget(wish, legs)
         /\ BudgetUsed(orders, wish, minPartialSpend, now, legs)
<1> DEFINE s == ranked(orders, wish, now)
           C == candidates(orders, wish, now)
           legs == planSmartFill(orders, wish, minPartialSpend, now)
<1> SUFFICES ASSUME wish.mode = "spend"
             PROVE  /\ totalSpend(legs) <= wish.limit
                    /\ BudgetUsed(orders, wish, minPartialSpend, now, legs)
  BY DEF WithinBudget, BudgetUsed
<1>1. /\ totalSpend(legs) <= wish.limit
      /\ UsedUp(wish.limit, minPartialSpend, s, legs)
      /\ \A o \in C : \E j \in DOMAIN s : s[j] = o
  BY Planned_, RankingLists
<1> HIDE DEF s, legs
<1>2. ASSUME NEW o \in C, o.id \notin selected(legs)
      PROVE  /\ o.requestedAmount > wish.limit - totalSpend(legs)
             /\ ~Partial(legs) /\ o.allowPartialFill =>
                  NoPart(wish.limit - totalSpend(legs), minPartialSpend, o)
  BY <1>1, <1>2 DEF UsedUp
<1>3. BudgetUsed(orders, wish, minPartialSpend, now, legs)
  BY <1>2 DEF BudgetUsed, NoPart, Partial
<1>4. QED
  BY <1>1, <1>3

(* A plan for a target misses it only when it has taken all there is, and  *)
(* overshoots it only by a last order that cannot be filled for the exact  *)
(* rest.                                                                   *)
THEOREM PlanMeetsTarget ==
  ASSUME NEW orders, Orders(orders), NEW wish, wish.limit \in Nat, NEW now,
         NEW minPartialSpend \in Int
  PROVE  TargetMet(orders, wish, now, planSmartFill(orders, wish, minPartialSpend, now))
<1> DEFINE s == ranked(orders, wish, now)
           C == candidates(orders, wish, now)
           legs == planSmartFill(orders, wish, minPartialSpend, now)
           got == totalReceive(legs)
<1> SUFFICES ASSUME wish.mode = "receive"
             PROVE  TargetMet(orders, wish, now, legs)
  BY DEF TargetMet
<1>1. /\ Targeted(wish.limit, s, DOMAIN s, legs)
      /\ \A o \in C : \E j \in DOMAIN s : s[j] = o
      /\ \A j \in DOMAIN s : s[j] \in C /\ s[j] \in orders
  BY Planned_, RankingLists
<1> HIDE DEF s, legs, C
<1>2. ASSUME got < wish.limit, NEW c \in C
      PROVE  \E i \in DOMAIN legs : legs[i] = wholeLeg(c)
  BY <1>1, <1>2 DEF Targeted
<1>3. ASSUME got > wish.limit
      PROVE  Overshot(wish.limit, order_of(orders, legs[Len(legs)]), legs[Len(legs)], got)
  <2>1. PICK j \in DOMAIN s : Overshot(wish.limit, s[j], legs[Len(legs)], got)
    BY <1>1, <1>3 DEF Targeted
  <2>2. \A o \in orders : o.id = legs[Len(legs)].orderId => o = s[j]
    BY <1>1, <2>1 DEF Orders, Overshot
  <2>3. order_of(orders, legs[Len(legs)]) = s[j]
    BY <1>1, <2>1, <2>2 DEF order_of, Overshot
  <2>4. QED
    BY <2>1, <2>3
<1>4. QED
  BY <1>2, <1>3 DEF TargetMet, Overshot, C

----------------------------------------------------------------------------
(***************************************************************************)
(* The cost of a plan.                                                     *)
(***************************************************************************)
costs(f) == [o \in DOMAIN f |-> cost(o, f[o])]

(* What a way to fill orders costs and brings, as sums.                    *)
LEMMA FillsAreSums ==
  ASSUME NEW f, IsFiniteSet(DOMAIN f)
  PROVE  /\ fill_received(f) = SumFunctionOnSet(f, DOMAIN f)
         /\ fill_cost(f) = SumFunctionOnSet(costs(f), DOMAIN f)
<1> DEFINE D == DOMAIN f
           eqR(g) == g = [T \in SUBSET D |->
                            IF T = {} THEN 0
                            ELSE f[CHOOSE x \in T : TRUE] + g[T \ {CHOOSE x \in T : TRUE}]]
           eqC(g) == g = [T \in SUBSET D |->
                            IF T = {} THEN 0
                            ELSE cost(CHOOSE x \in T : TRUE, f[CHOOSE x \in T : TRUE])
                                   + g[T \ {CHOOSE x \in T : TRUE}]]
           iterR == CHOOSE g : eqR(g)
           iterC == CHOOSE g : eqC(g)
<1>1. fill_received(f) = iterR[D] /\ fill_cost(f) = iterC[D]
  BY DEF fill_received, fill_cost, MapThenSumSet, MapThenFoldSet
<1>2. \A g : (eqR(g) <=> Sums(f, D, g)) /\ (eqC(g) <=> Sums(costs(f), D, g))
  <2>1. \A T \in SUBSET D : T # {} =>
          costs(f)[first(T)] = cost(CHOOSE x \in T : TRUE, f[CHOOSE x \in T : TRUE])
    BY FirstIn DEF costs, first
  <2> HIDE DEF D
  <2> TAKE g
  <2>2. [T \in SUBSET D |->
           IF T = {} THEN 0
           ELSE cost(CHOOSE x \in T : TRUE, f[CHOOSE x \in T : TRUE])
                  + g[T \ {CHOOSE x \in T : TRUE}]]
        = [T \in SUBSET D |-> IF T = {} THEN 0
                              ELSE costs(f)[first(T)] + g[T \ {first(T)}]]
    BY <2>1 DEF first
  <2>3. eqC(g) <=> Sums(costs(f), D, g)
    BY <2>2 DEF Sums
  <2>4. eqR(g) <=> Sums(f, D, g)
    BY DEF Sums, first
  <2>5. QED
    BY <2>3, <2>4
<1> HIDE DEF eqR, eqC
<1>3. IsFiniteSet(D)
  OBVIOUS
<1>4. eqR(iterR) /\ eqC(iterC)
  BY <1>2, <1>3, SumsExist
<1>5. Sums(f, D, iterR) /\ Sums(costs(f), D, iterC)
  BY <1>2, <1>4
<1> HIDE DEF iterR, iterC
<1>6. D \in SUBSET D
  OBVIOUS
<1>7. SumFunctionOnSet(f, D) = iterR[D] /\ SumFunctionOnSet(costs(f), D) = iterC[D]
  BY <1>3, <1>5, <1>6, SumIsValue
<1>8. QED
  BY <1>1, <1>7

(* An order is filled whole, or in part for the least payment, or not at   *)
(* all.                                                                    *)
LEMMA CostOfTake ==
  ASSUME NEW o, Priced(o), NEW amount \in Takes(o)
  PROVE  /\ amount \in Nat /\ amount <= o.offeredAmount /\ cost(o, amount) \in Nat
         /\ cost(o, amount) * o.offeredAmount >= amount * o.requestedAmount
<1>1. PICK f \in Nat, a \in Nat : f = o.offeredAmount /\ a = o.requestedAmount /\ f > 0
  BY DEF Priced
<1>2. CASE amount = 0
  BY <1>1, <1>2 DEF cost
<1>3. CASE amount = f /\ amount # 0
  <2>1. cost(o, amount) = a
    BY <1>1, <1>3 DEF cost
  <2>2. a * f = f * a
    OBVIOUS
  <2>3. QED
    BY <1>1, <1>3, <2>1, <2>2
<1>4. CASE amount # 0 /\ amount # f
  <2>1. amount \in 1..(f - 1)
    BY <1>1, <1>4 DEF Takes
  <2>2. amount \in Nat /\ amount <= f
    BY <1>1, <2>1
  <2>3. cost(o, amount) = requiredPayment(amount, o)
    BY <1>1, <1>4 DEF cost
  <2>4. QED
    BY <1>1, <2>2, <2>3, LeastPayment
<1>5. QED
  BY <1>1, <1>2, <1>3, <1>4

(* A plan for a target, where every order of the pair may be filled in     *)
(* part, costs no more than any other way to get the target out of the     *)
(* book.                                                                   *)
THEOREM PlanCheapest ==
  ASSUME NEW orders, Orders(orders), NEW wish, wish.limit \in Nat, NEW now,
         NEW minPartialSpend \in Int
  PROVE  CheapestFill(orders, wish, now, planSmartFill(orders, wish, minPartialSpend, now))
<1> DEFINE s == ranked(orders, wish, now)
           C == candidates(orders, wish, now)
           legs == planSmartFill(orders, wish, minPartialSpend, now)
           limit == wish.limit
<1> SUFFICES ASSUME wish.mode = "receive", all_partial(C), totalReceive(legs) >= limit,
                    NEW f \in Fills(C), fill_received(f) >= limit
             PROVE  fill_cost(f) >= totalSpend(legs)
  BY DEF CheapestFill
<1>1. /\ Listing(s) /\ Sorted(s)
      /\ \A j \in DOMAIN s : s[j] \in C
      /\ \A o \in C : \E j \in DOMAIN s : s[j] = o
  BY RankingLists
<1>2. LegsOf(s, DOMAIN s, legs) /\ CheapThere(limit, s, DOMAIN s, legs) /\ limit \in Nat
  BY Planned_
<1>3. IsFiniteSet(C) /\ \A o \in C : Priced(o)
  BY CandidatesPriced
<1> HIDE DEF s, C, legs, limit
<1>4. DOMAIN f = C /\ \A o \in C : f[o] \in Takes(o)
  BY DEF Fills
<1>5. legs \in Seq(Legs) /\ Cheap(limit, s, DOMAIN s, legs)
  <2>1. \A j \in DOMAIN s : s[j].allowPartialFill
    BY <1>1 DEF all_partial
  <2>2. QED
    BY <1>1, <1>2, <2>1 DEF CheapThere, LegsOf
<1> DEFINE D == DOMAIN s
           t == [j \in D |-> f[s[j]]]
           c == [j \in D |-> cost(s[j], f[s[j]])]
           k == costs(f)
           at == [o \in C |-> CHOOSE j \in D : s[j] = o]
<1>6. \A o \in C : /\ f[o] \in Nat /\ f[o] <= o.offeredAmount
                   /\ k[o] = cost(o, f[o]) /\ k[o] \in Nat
                   /\ cost(o, f[o]) * o.offeredAmount >= f[o] * o.requestedAmount
  BY <1>3, <1>4, CostOfTake DEF costs
<1>7. \A j \in D : /\ t[j] = f[s[j]] /\ c[j] = k[s[j]]
                   /\ t[j] \in Nat /\ c[j] \in Nat /\ t[j] <= s[j].offeredAmount
                   /\ c[j] * s[j].offeredAmount >= t[j] * s[j].requestedAmount
  BY <1>1, <1>6
<1>8. IsFiniteSet(D)
  BY <1>1, ListingOf
<1>9. /\ at \in [C -> D] /\ \A o \in C : s[at[o]] = o
      /\ s \in [D -> C] /\ \A i, j \in D : s[i] = s[j] => i = j
  <2>1. \A i, j \in D : s[i] = s[j] => i = j
    BY <1>1 DEF Listing
  <2>2. s \in [D -> C]
    <3> DEFINE X == {s[i] : i \in DOMAIN s}
    <3>1. s \in Seq(X)
      BY <1>1 DEF Listing
    <3> HIDE DEF X
    <3>2. s = [i \in DOMAIN s |-> s[i]]
      BY <3>1
    <3>3. QED
      BY <1>1, <3>2
  <2>3. QED
    BY <1>1, <2>1, <2>2
<1> HIDE DEF D, t, c, k, at
<1>10. SumFunctionOnSet(f, C) <= SumFunctionOnSet(t, D)
  <2>1. \A x, y \in C : at[x] = at[y] => x = y
    BY <1>9
  <2>2. \A o \in C : f[o] <= t[at[o]] /\ at[o] \in D
    BY <1>6, <1>7, <1>9
  <2>3. QED
    BY <1>3, <1>6, <1>7, <1>8, <1>9, <2>1, <2>2, SumCovered
<1>11. SumFunctionOnSet(c, D) <= SumFunctionOnSet(k, C)
  <2>1. \A j \in D : c[j] <= k[s[j]]
    BY <1>7, <1>9
  <2>2. QED
    BY <1>3, <1>6, <1>7, <1>8, <1>9, <2>1, SumCovered
<1>12. fill_received(f) = SumFunctionOnSet(f, C) /\ fill_cost(f) = SumFunctionOnSet(k, C)
  BY <1>3, <1>4, FillsAreSums DEF k
<1>13. /\ SumFunctionOnSet(f, C) \in Nat /\ SumFunctionOnSet(t, D) \in Nat
       /\ SumFunctionOnSet(c, D) \in Nat /\ SumFunctionOnSet(k, C) \in Nat
  BY <1>3, <1>6, <1>7, <1>8, SumType
<1>14. SumFunctionOnSet(t, D) >= limit
  BY <1>2, <1>10, <1>12, <1>13
<1>15. totalSpend(legs) <= SumFunctionOnSet(c, D)
  BY <1>1, <1>2, <1>5, <1>7, <1>14, NoneCheaper DEF D
<1>16. totalSpend(legs) \in Nat
  BY <1>5, TotalsAreSums
<1>17. QED
  BY <1>11, <1>12, <1>13, <1>15, <1>16

----------------------------------------------------------------------------
(***************************************************************************)
(* The arbitrage finder.                                                   *)
(***************************************************************************)

(* What the leg at place i brings of an asset, less what it costs of it.   *)
Gain(cycle, legs, asset, i) ==
  (IF cycle[i].offer = asset THEN legs[i].receive ELSE 0)
    - (IF cycle[i].ask = asset THEN legs[i].spend ELSE 0)

LEMMA NetIsGains ==
  ASSUME NEW cycle, NEW legs \in Seq(Legs), NEW asset
  PROVE  /\ \A i \in DOMAIN legs : Gain(cycle, legs, asset, i) \in Int
         /\ Len(legs) = 0 => netOf(cycle, legs, asset) = 0
         /\ Len(legs) = 1 => netOf(cycle, legs, asset) = Gain(cycle, legs, asset, 1)
         /\ Len(legs) = 2 => netOf(cycle, legs, asset) =
                               Gain(cycle, legs, asset, 1) + Gain(cycle, legs, asset, 2)
         /\ Len(legs) = 3 => netOf(cycle, legs, asset) =
                               Gain(cycle, legs, asset, 1) + Gain(cycle, legs, asset, 2)
                                 + Gain(cycle, legs, asset, 3)
<1> DEFINE D == DOMAIN legs
           s == [i \in D |-> i]
           gain(i) == Gain(cycle, legs, asset, i)
           next(sum, i) == sum + (IF cycle[i].offer = asset THEN legs[i].receive ELSE 0)
                               - (IF cycle[i].ask = asset THEN legs[i].spend ELSE 0)
           F == [e \in D \X Int |-> next(e[2], e[1])]
           eq(g) == g = [T \in SUBSET (DOMAIN s) |->
                           IF T = {} THEN 0 ELSE next(g[T \ {Max(T)}], s[Max(T)])]
           iter == CHOOSE g : eq(g)
<1>1. netOf(cycle, legs, asset) = iter[DOMAIN s]
  BY DEF netOf, FoldLeft, MapThenFoldSet
<1>2. /\ D = 1..Len(legs) /\ Len(legs) \in Nat /\ DOMAIN s = D /\ s \in Seq(D)
      /\ \A i \in D : legs[i].receive \in Int /\ legs[i].spend \in Int /\ s[i] = i
  <2>1. D = 1..Len(legs) /\ Len(legs) \in Nat /\ \A i \in D : legs[i] \in Legs
    OBVIOUS
  <2>2. \A i \in D : legs[i].receive \in Int /\ legs[i].spend \in Int
    BY <2>1 DEF Legs
  <2>3. s \in [1..Len(legs) -> D]
    BY <2>1
  <2> HIDE DEF D
  <2>4. s \in Seq(D)
    BY <2>1, <2>3
  <2>5. QED
    BY <2>1, <2>2, <2>4
<1>3. \A i \in D, sum \in Int : gain(i) \in Int /\ next(sum, i) = sum + gain(i) /\ next(sum, i) \in Int
  <2> SUFFICES ASSUME NEW i \in D, NEW sum \in Int
               PROVE  gain(i) \in Int /\ next(sum, i) = sum + gain(i) /\ next(sum, i) \in Int
    OBVIOUS
  <2> DEFINE x == IF cycle[i].offer = asset THEN legs[i].receive ELSE 0
             y == IF cycle[i].ask = asset THEN legs[i].spend ELSE 0
  <2>1. x \in Int /\ y \in Int
    BY <1>2
  <2>2. gain(i) = x - y /\ next(sum, i) = sum + x - y
    BY DEF Gain
  <2> HIDE DEF x, y, gain, next
  <2>3. QED
    BY <2>1, <2>2
<1> HIDE DEF next
<1>4. F \in [D \X Int -> Int] /\ \A T \in SUBSET D : T # {} => Max(T) \in D
  <2>1. F \in [D \X Int -> Int]
    BY <1>3
  <2>2. \A T \in SUBSET D : T # {} => Max(T) \in D
    BY PlacesFinite, LargestIn
  <2>3. QED
    BY <2>1, <2>2
<1>5. PICK g : LeftFolds(g, s, 0, Int, F)
  <2> DEFINE V == Int
             X == D
  <2>1. s \in Seq(X) /\ 0 \in V /\ F \in [X \X V -> V]
    BY <1>2, <1>4
  <2> HIDE DEF F, D, s, V, X
  <2>2. \E g : LeftFolds(g, s, 0, V, F)
    BY <2>1, LeftFold
  <2>3. QED
    BY <2>2 DEF V
<1>6. ASSUME NEW T \in SUBSET D, T # {}
      PROVE  F[<<s[Max(T)], g[T \ {Max(T)}]>>] = next(g[T \ {Max(T)}], s[Max(T)])
  <2>1. s[Max(T)] \in D /\ g[T \ {Max(T)}] \in Int
    BY <1>2, <1>4, <1>5, <1>6 DEF LeftFolds
  <2> HIDE DEF D, s
  <2>2. QED
    BY <2>1
<1>7. eq(g)
  <2>1. g \in [SUBSET D -> Int]
        /\ \A T \in SUBSET D : g[T] = IF T = {} THEN 0 ELSE F[<<s[Max(T)], g[T \ {Max(T)}]>>]
    BY <1>2, <1>5 DEF LeftFolds
  <2> HIDE DEF F, D, s
  <2>2. QED
    BY <1>2, <2>1, <1>6
<1>8. eq(iter)
  <2> HIDE DEF eq
  <2>1. QED
    BY <1>7
<1>9. /\ iter[{}] = 0
      /\ \A n \in 1..Len(legs) : iter[1..n] = next(iter[1..(n - 1)], n)
  <2>1. \A T \in SUBSET D : iter[T] = IF T = {} THEN 0 ELSE next(iter[T \ {Max(T)}], s[Max(T)])
    BY <1>2, <1>8
  <2> HIDE DEF iter, D, s
  <2>2. iter[{}] = 0
    BY <2>1
  <2>3. ASSUME NEW n \in 1..Len(legs) PROVE iter[1..n] = next(iter[1..(n - 1)], n)
    <3>1. n \in Nat /\ n > 0 /\ 1..n \in SUBSET D /\ n \in D
      BY <1>2
    <3>2. 1..n # {} /\ Max(1..n) = n /\ (1..n) \ {n} = 1..(n - 1)
      BY <3>1, Segments
    <3>3. QED
      BY <1>2, <2>1, <3>1, <3>2
  <2>4. QED
    BY <2>2, <2>3
<1> HIDE DEF iter, gain, F, s
<1>10. /\ 1 \in D => iter[1..1] = gain(1)
       /\ 2 \in D => iter[1..2] = gain(1) + gain(2)
       /\ 3 \in D => iter[1..3] = gain(1) + gain(2) + gain(3)
  <2>1. 1..0 = {} /\ 1 - 1 = 0 /\ 2 - 1 = 1 /\ 3 - 1 = 2
    OBVIOUS
  <2>0. /\ 2 \in D => iter[1..2] = next(iter[1..(2 - 1)], 2)
        /\ 3 \in D => iter[1..3] = next(iter[1..(3 - 1)], 3)
    <3> DEFINE two == 2
               three == 3
    <3> HIDE DEF two, three
    <3>1. /\ two \in D => iter[1..two] = next(iter[1..(two - 1)], two)
          /\ three \in D => iter[1..three] = next(iter[1..(three - 1)], three)
      BY <1>2, <1>9
    <3>2. QED
      BY <3>1 DEF two, three
  <2>2. 1 \in D => iter[1..1] = gain(1)
    <3> SUFFICES ASSUME 1 \in D PROVE iter[1..1] = gain(1)
      OBVIOUS
    <3>1. iter[1..1] = next(0, 1)
      BY <1>2, <1>9, <2>1
    <3>2. next(0, 1) = 0 + gain(1) /\ gain(1) \in Int
      BY <1>3
    <3>3. QED
      BY <3>1, <3>2
  <2>3. 2 \in D => iter[1..2] = gain(1) + gain(2)
    <3> SUFFICES ASSUME 2 \in D PROVE iter[1..2] = gain(1) + gain(2)
      OBVIOUS
    <3>1. 1 \in D
      BY <1>2
    <3>2. iter[1..2] = next(gain(1), 2)
      BY <2>0, <2>1, <2>2, <3>1
    <3>3. gain(1) \in Int /\ next(gain(1), 2) = gain(1) + gain(2)
      BY <1>3, <3>1
    <3>4. QED
      BY <3>2, <3>3
  <2>4. 3 \in D => iter[1..3] = gain(1) + gain(2) + gain(3)
    <3> SUFFICES ASSUME 3 \in D PROVE iter[1..3] = gain(1) + gain(2) + gain(3)
      OBVIOUS
    <3>1. 1 \in D /\ 2 \in D
      BY <1>2
    <3>2. iter[1..3] = next(gain(1) + gain(2), 3)
      BY <2>0, <2>1, <2>3, <3>1
    <3>3. gain(1) + gain(2) \in Int
      BY <1>3, <3>1
    <3>4. next(gain(1) + gain(2), 3) = gain(1) + gain(2) + gain(3)
      BY <1>3, <3>3
    <3>5. QED
      BY <3>2, <3>4
  <2>5. QED
    BY <2>2, <2>3, <2>4
<1>11. Len(legs) = 0 => DOMAIN s = {}
  BY <1>2
<1>12. QED
  <2>1. netOf(cycle, legs, asset) = iter[1..Len(legs)] /\ D = 1..Len(legs)
    BY <1>1, <1>2
  <2>2. Len(legs) = 0 => netOf(cycle, legs, asset) = 0
    BY <1>1, <1>9, <1>11
  <2>3. \A i \in D : gain(i) \in Int
    BY <1>3
  <2> HIDE DEF D
  <2>4. ASSUME Len(legs) = 1 PROVE netOf(cycle, legs, asset) = gain(1)
    BY <1>10, <2>1, <2>4
  <2>5. ASSUME Len(legs) = 2 PROVE netOf(cycle, legs, asset) = gain(1) + gain(2)
    BY <1>10, <2>1, <2>5
  <2>6. ASSUME Len(legs) = 3 PROVE netOf(cycle, legs, asset) = gain(1) + gain(2) + gain(3)
    BY <1>10, <2>1, <2>6
  <2>7. QED
    BY <2>2, <2>3, <2>4, <2>5, <2>6 DEF gain, D

(* A leg takes an order at its price, whole or in part.                    *)
atPrice(o, leg) ==
  leg = IF leg.takeAmount = None THEN wholeLeg(o) ELSE partialLeg(o, leg.takeAmount)

(* The first n orders of a cycle are sized: each leg can be filled at the  *)
(* price of its order, and is paid out of what the one before it brings.   *)
Sized(cycle, n, legs) ==
  /\ legs \in Seq(Legs) /\ Len(legs) = n
  /\ \A i \in 1..n : /\ legs[i].orderId = cycle[i].id
                     /\ fillable(cycle[i], legs[i]) /\ atPrice(cycle[i], legs[i])
  /\ \A i \in 2..n : legs[i].spend <= legs[i - 1].receive

(* What an order that is paid with a carry gets.                           *)
LEMMA CarriedLeg ==
  ASSUME NEW legs \in Seq(Legs), legs # << >>, NEW o, Priced(o), next_leg(legs, o) # None
  PROVE  \E leg \in Legs : /\ next_leg(legs, o) = Append(legs, leg)
                           /\ leg.orderId = o.id /\ fillable(o, leg) /\ atPrice(o, leg)
                           /\ leg.spend <= legs[Len(legs)].receive
<1> DEFINE carry == Last(legs).receive
           take == maxTakeForSpend(carry, o)
<1>1. Len(legs) \in DOMAIN legs /\ Last(legs) = legs[Len(legs)]
  BY EmptySeq DEF Last
<1>2. carry = legs[Len(legs)].receive /\ carry \in Nat
  <2>1. legs[Len(legs)] \in Legs
    BY <1>1
  <2>2. QED
    BY <1>1, <2>1 DEF Legs
<1>3. \/ /\ o.requestedAmount <= carry
         /\ next_leg(legs, o) = Append(legs, wholeLeg(o))
      \/ /\ o.allowPartialFill /\ take > 0
         /\ next_leg(legs, o) = Append(legs, partialLeg(o, take))
  BY DEF next_leg
<1>4. CASE o.requestedAmount <= carry /\ next_leg(legs, o) = Append(legs, wholeLeg(o))
  <2>1. /\ wholeLeg(o) \in Legs /\ wholeLeg(o).orderId = o.id /\ fillable(o, wholeLeg(o))
        /\ wholeLeg(o).spend = o.requestedAmount /\ wholeLeg(o).takeAmount = None
    BY LegKinds
  <2>2. atPrice(o, wholeLeg(o))
    BY <2>1 DEF atPrice
  <2> HIDE DEF carry
  <2>3. QED
    BY <1>2, <1>4, <2>1, <2>2
<1>5. CASE o.allowPartialFill /\ take > 0 /\ next_leg(legs, o) = Append(legs, partialLeg(o, take))
  <2>1. /\ take \in Nat /\ take < o.offeredAmount /\ requiredPayment(take, o) <= carry
        /\ requiredPayment(take, o) < o.requestedAmount
    <3> HIDE DEF carry
    <3>1. carry \in Int
      BY <1>2
    <3>2. QED
      BY <1>5, <3>1, LargestTake
  <2>2. take \in 1..(o.offeredAmount - 1)
    BY <1>5, <2>1 DEF Priced
  <2> HIDE DEF take, carry
  <2>3. /\ partialLeg(o, take) \in Legs /\ partialLeg(o, take).orderId = o.id
        /\ partialLeg(o, take).spend = requiredPayment(take, o)
        /\ fillable(o, partialLeg(o, take)) /\ partialLeg(o, take).takeAmount = take
    BY <1>5, <2>1, <2>2, LegKinds
  <2>4. atPrice(o, partialLeg(o, take))
    BY <2>1, <2>3, NoneAssumption DEF atPrice
  <2>5. QED
    BY <1>2, <1>5, <2>1, <2>3, <2>4
<1>6. QED
  BY <1>3, <1>4, <1>5

LEMMA SizedFurther ==
  ASSUME NEW cycle, NEW n \in Nat, n > 0, NEW legs, Sized(cycle, n, legs),
         Priced(cycle[n + 1]), next_leg(legs, cycle[n + 1]) # None
  PROVE  Sized(cycle, n + 1, next_leg(legs, cycle[n + 1]))
<1> DEFINE o == cycle[n + 1]
<1>1. legs \in Seq(Legs) /\ Len(legs) = n /\ legs # << >>
  BY DEF Sized
<1>2. PICK leg \in Legs : /\ next_leg(legs, o) = Append(legs, leg)
                          /\ leg.orderId = o.id /\ fillable(o, leg) /\ atPrice(o, leg)
                          /\ leg.spend <= legs[n].receive
  BY <1>1, CarriedLeg
<1>3. PICK more : more = Append(legs, leg)
  OBVIOUS
<1>4. /\ more \in Seq(Legs) /\ Len(more) = n + 1 /\ more[n + 1] = leg
      /\ \A i \in 1..n : more[i] = legs[i]
  BY <1>1, <1>3
<1>5. \A i \in 1..(n + 1) : i \in 1..n \/ i = n + 1
  OBVIOUS
<1>6. \A i \in 1..(n + 1) : /\ more[i].orderId = cycle[i].id
                             /\ fillable(cycle[i], more[i]) /\ atPrice(cycle[i], more[i])
  BY <1>2, <1>4, <1>5 DEF Sized
<1>7. ASSUME NEW i \in 2..(n + 1) PROVE more[i].spend <= more[i - 1].receive
  <2>1. CASE i = n + 1
    <3>1. more[i - 1] = legs[n] /\ more[i] = leg
      BY <1>4, <2>1
    <3>2. QED
      BY <1>2, <3>1
  <2>2. CASE i \in 2..n
    <3>1. i \in 1..n /\ i - 1 \in 1..n
      BY <2>2
    <3>2. more[i] = legs[i] /\ more[i - 1] = legs[i - 1]
      BY <1>4, <3>1
    <3>3. QED
      BY <2>2, <3>2 DEF Sized
  <2>3. QED
    BY <2>1, <2>2
<1>8. Sized(cycle, n + 1, more)
  BY <1>4, <1>6, <1>7 DEF Sized
<1>9. QED
  BY <1>2, <1>3, <1>8

LEMMA SizedFirst ==
  ASSUME NEW cycle, Priced(cycle[1])
  PROVE  Sized(cycle, 1, <<wholeLeg(cycle[1])>>)
<1> DEFINE leg == wholeLeg(cycle[1])
<1>1. /\ leg \in Legs /\ leg.orderId = cycle[1].id /\ fillable(cycle[1], leg)
      /\ leg.takeAmount = None
  BY LegKinds
<1>2. atPrice(cycle[1], leg)
  BY <1>1 DEF atPrice
<1> HIDE DEF leg
<1>3. QED
  BY <1>1, <1>2 DEF Sized, leg

(* Every cycle that is sized at all is sized to its end.                   *)
LEMMA RotationSized ==
  ASSUME NEW O, \A o \in O : Priced(o), NEW cycle \in Seq(O), cycle # << >>,
         sizeRotation(cycle) # None
  PROVE  Sized(cycle, Len(cycle), sizeRotation(cycle))
<1> DEFINE s == Tail(cycle)
           D == DOMAIN s
           V == {None} \cup {w \in Seq(Legs) : w # << >>}
           base == <<wholeLeg(Head(cycle))>>
           F == [e \in O \X V |-> next_leg(e[2], e[1])]
           eq(g) == g = [T \in SUBSET D |->
                           IF T = {} THEN base ELSE next_leg(g[T \ {Max(T)}], s[Max(T)])]
           iter == CHOOSE g : eq(g)
<1>1. sizeRotation(cycle) = iter[D]
  BY DEF sizeRotation, FoldLeft, MapThenFoldSet
<1>2. /\ Len(cycle) \in Nat /\ Len(cycle) > 0 /\ s \in Seq(O) /\ Len(s) = Len(cycle) - 1
      /\ Head(cycle) = cycle[1] /\ cycle[1] \in O
      /\ \A n \in 1..Len(s) : s[n] = cycle[n + 1] /\ s[n] \in O
  OBVIOUS
<1>3. D = 1..Len(s) /\ IsFiniteSet(D) /\ \A T \in SUBSET D : T # {} => Max(T) \in T
  BY <1>2, PlacesFinite, LargestIn
<1>4. Sized(cycle, 1, base) /\ base \in V
  <2>1. Priced(cycle[1]) /\ base = <<wholeLeg(cycle[1])>>
    BY <1>2
  <2>2. wholeLeg(cycle[1]) \in Legs
    BY <2>1, LegKinds
  <2>3. base \in Seq(Legs) /\ base # << >>
    BY <2>1, <2>2
  <2>4. QED
    BY <2>1, <2>3, SizedFirst
<1>5. ASSUME NEW w \in V, NEW o \in O PROVE next_leg(w, o) \in V
  <2>1. CASE w = None
    BY <2>1 DEF next_leg
  <2>2. CASE w # None /\ next_leg(w, o) # None
    <3>1. w \in Seq(Legs) /\ w # << >> /\ Priced(o)
      BY <2>2
    <3>2. PICK leg \in Legs : next_leg(w, o) = Append(w, leg)
      BY <2>2, <3>1, CarriedLeg
    <3>3. Append(w, leg) \in Seq(Legs) /\ Append(w, leg) # << >>
      BY <3>1
    <3>4. QED
      BY <3>2, <3>3
  <2>3. QED
    BY <2>1, <2>2
<1> HIDE DEF s, base
<1>6. PICK g : LeftFolds(g, s, base, V, F)
  <2>1. F \in [O \X V -> V]
    <3> HIDE DEF V
    <3>1. QED
      BY <1>5
  <2> HIDE DEF F, V
  <2>2. QED
    BY <1>2, <1>4, <2>1, LeftFold
<1>7. ASSUME NEW T \in SUBSET D, T # {}
      PROVE  F[<<s[Max(T)], g[T \ {Max(T)}]>>] = next_leg(g[T \ {Max(T)}], s[Max(T)])
  <2>1. s[Max(T)] \in O /\ g[T \ {Max(T)}] \in V
    BY <1>2, <1>3, <1>6, <1>7 DEF LeftFolds
  <2> HIDE DEF D, V
  <2>2. QED
    BY <2>1
<1>8. eq(g)
  <2>1. g \in [SUBSET D -> V]
        /\ \A T \in SUBSET D : g[T] = IF T = {} THEN base ELSE F[<<s[Max(T)], g[T \ {Max(T)}]>>]
    BY <1>6 DEF LeftFolds
  <2> HIDE DEF F, D, V
  <2>2. QED
    BY <2>1, <1>7
<1>9. eq(iter)
  <2> HIDE DEF eq
  <2>1. QED
    BY <1>8
<1>10. \A T \in SUBSET D : iter[T] = IF T = {} THEN base ELSE next_leg(iter[T \ {Max(T)}], s[Max(T)])
  BY <1>9
<1> HIDE DEF iter, eq, V, F
<1> DEFINE good(n, w) == w = None \/ Sized(cycle, n + 1, w)
           A == {T \in SUBSET D : \A n \in Nat : T = 1..n => good(n, iter[T])}
<1>11. {} \in A
  <2>1. iter[{}] = base
    BY <1>10
  <2>2. ASSUME NEW n \in Nat, {} = 1..n PROVE good(n, iter[{}])
    <3>1. n = 0
      BY <2>2
    <3>2. QED
      BY <1>4, <2>1, <3>1
  <2>3. QED
    BY <2>2
<1>12. ASSUME NEW T \in SUBSET D, T # {}, \A x \in T : T \ {x} \in A PROVE T \in A
  <2> SUFFICES ASSUME NEW n \in Nat, T = 1..n, iter[T] # None PROVE Sized(cycle, n + 1, iter[T])
    OBVIOUS
  <2>1. n > 0 /\ n \in T
    BY <1>12
  <2>2. Max(T) = n /\ T \ {n} = 1..(n - 1)
    BY <2>1, Segments
  <2>3. n \in 1..Len(s) /\ s[n] = cycle[n + 1] /\ s[n] \in O
    BY <1>2, <1>3, <2>1
  <2> DEFINE w == iter[T \ {n}]
  <2>4. iter[T] = next_leg(w, cycle[n + 1])
    BY <1>10, <1>12, <2>2, <2>3
  <2>5. n - 1 \in Nat /\ T \ {n} \in A
    <3>1. n - 1 \in Nat
      BY <2>1
    <3> HIDE DEF A
    <3>2. T \ {n} \in A
      BY <1>12, <2>1, Zenon
    <3>3. QED
      BY <3>1, <3>2
  <2>6. good(n - 1, w)
    BY <2>2, <2>5
  <2> HIDE DEF w, A
  <2>7. w # None
    BY <2>4 DEF next_leg
  <2>8. Sized(cycle, n, w)
    BY <2>6, <2>7
  <2>9. Priced(cycle[n + 1])
    BY <2>3
  <2>10. QED
    BY <2>1, <2>4, <2>8, <2>9, SizedFurther
<1>13. D \in A
  <2>1. IsFiniteSet(D)
    BY <1>3
  <2> HIDE DEF A, D
  <2>2. SUBSET D \subseteq A
    BY <1>11, <1>12, <2>1, SubsetInduction
  <2>3. QED
    BY <2>2
<1>14. good(Len(s), iter[D])
  BY <1>2, <1>3, <1>13
<1>15. QED
  BY <1>1, <1>2, <1>14

(* The orders of a cycle lead around two or three assets.                  *)
Around(cycle) ==
  \/ /\ Len(cycle) = 2
     /\ cycle[1].offer = cycle[2].ask /\ cycle[2].offer = cycle[1].ask
     /\ cycle[1].ask # cycle[2].ask
  \/ /\ Len(cycle) = 3
     /\ cycle[1].offer = cycle[2].ask /\ cycle[2].offer = cycle[3].ask
     /\ cycle[3].offer = cycle[1].ask
     /\ cycle[1].ask # cycle[2].ask /\ cycle[2].ask # cycle[3].ask
     /\ cycle[1].ask # cycle[3].ask

(* Wherever it begins.                                                     *)
LEMMA Rotated ==
  ASSUME NEW O, NEW cycle \in Seq(O), Around(cycle)
  PROVE  /\ DOMAIN rotations(cycle) = 1..Len(cycle)
         /\ \A r \in DOMAIN rotations(cycle) :
              rotations(cycle)[r] \in Seq(O) /\ Around(rotations(cycle)[r])
<1> DEFINE n == Len(cycle)
           turned(r) == SubSeq(cycle, r, n) \o SubSeq(cycle, 1, r - 1)
<1>1. rotations(cycle) = [r \in 1..n |-> turned(r)]
  BY DEF rotations
<1>2. n \in Nat /\ (n = 2 \/ n = 3) /\ \A i \in 1..n : cycle[i] \in O
  BY DEF Around
<1>3. ASSUME NEW r \in 1..n
      PROVE  /\ turned(r) \in Seq(O) /\ Len(turned(r)) = n
             /\ \A i \in 1..n : turned(r)[i] = IF i <= n - r + 1 THEN cycle[r + i - 1]
                                               ELSE cycle[i - (n - r + 1)]
  <2> DEFINE x == SubSeq(cycle, r, n)
             y == SubSeq(cycle, 1, r - 1)
  <2>1. x \in Seq(O) /\ Len(x) = n - r + 1 /\ \A i \in 1..(n - r + 1) : x[i] = cycle[r + i - 1]
    <3>1. n - r + 1 \in Nat /\ r + 0 = r
      BY <1>2
    <3>2. QED
      BY <1>2, <3>1, SubSeqProperties
  <2>2. y \in Seq(O) /\ Len(y) = r - 1 /\ \A i \in 1..(r - 1) : y[i] = cycle[i]
    BY <1>2, SubSeqProperties
  <2>3. turned(r) \in Seq(O) /\ Len(turned(r)) = n
    <3> HIDE DEF x, y
    <3>1. x \o y \in Seq(O) /\ Len(x \o y) = Len(x) + Len(y)
      BY <2>1, <2>2, ConcatProperties
    <3>2. QED
      BY <1>2, <2>1, <2>2, <3>1 DEF x, y
  <2> HIDE DEF x, y
  <2>4. \A i \in 1..n : (x \o y)[i] = IF i <= n - r + 1 THEN cycle[r + i - 1]
                                      ELSE cycle[i - (n - r + 1)]
    <3> SUFFICES ASSUME NEW i \in 1..n
                 PROVE  (x \o y)[i] = IF i <= n - r + 1 THEN cycle[r + i - 1]
                                      ELSE cycle[i - (n - r + 1)]
      OBVIOUS
    <3>1. i \in 1..(Len(x) + Len(y)) /\ Len(x) = n - r + 1 /\ Len(y) = r - 1
      BY <1>2, <2>1, <2>2
    <3>2. (x \o y)[i] = IF i <= Len(x) THEN x[i] ELSE y[i - Len(x)]
      BY <2>1, <2>2, <3>1, ConcatProperties
    <3>3. CASE i <= n - r + 1
      BY <1>2, <2>1, <3>1, <3>2, <3>3
    <3>4. CASE ~(i <= n - r + 1)
      <4>1. i - (n - r + 1) \in 1..(r - 1)
        BY <1>2, <3>4
      <4>2. QED
        BY <2>2, <3>1, <3>2, <3>4, <4>1
    <3>5. QED
      BY <3>3, <3>4
  <2>5. QED
    BY <2>3, <2>4 DEF x, y
<1>4. ASSUME NEW r \in 1..n PROVE turned(r) \in Seq(O) /\ Around(turned(r))
  <2> PICK d : d = turned(r)
    OBVIOUS
  <2> HIDE DEF turned
  <2>1. /\ d \in Seq(O) /\ Len(d) = n
        /\ \A i \in 1..n : d[i] = IF i <= n - r + 1 THEN cycle[r + i - 1]
                                  ELSE cycle[i - (n - r + 1)]
    BY <1>3
  <2>2. CASE n = 2
    <3>1. CASE r = 1
      <4>1. d[1] = cycle[1] /\ d[2] = cycle[2]
        BY <2>1, <2>2, <3>1
      <4>2. QED
        BY <2>1, <2>2, <4>1 DEF Around
    <3>2. CASE r = 2
      <4>1. d[1] = cycle[2] /\ d[2] = cycle[1]
        BY <2>1, <2>2, <3>2
      <4>2. QED
        BY <2>1, <2>2, <4>1 DEF Around
    <3>3. QED
      BY <2>2, <3>1, <3>2
  <2>3. CASE n = 3
    <3>1. CASE r = 1
      <4>1. d[1] = cycle[1] /\ d[2] = cycle[2] /\ d[3] = cycle[3]
        BY <2>1, <2>3, <3>1
      <4>2. QED
        BY <2>1, <2>3, <4>1 DEF Around
    <3>2. CASE r = 2
      <4>1. d[1] = cycle[2] /\ d[2] = cycle[3] /\ d[3] = cycle[1]
        BY <2>1, <2>3, <3>2
      <4>2. QED
        BY <2>1, <2>3, <4>1 DEF Around
    <3>3. CASE r = 3
      <4>1. d[1] = cycle[3] /\ d[2] = cycle[1] /\ d[3] = cycle[2]
        BY <2>1, <2>3, <3>3
      <4>2. QED
        BY <2>1, <2>3, <4>1 DEF Around
    <3>4. QED
      BY <2>3, <3>1, <3>2, <3>3
  <2>4. QED
    BY <1>2, <2>2, <2>3
<1> HIDE DEF turned
<1>5. QED
  BY <1>1, <1>4

(* What the evaluation of a cycle returns is one of its rotations, sized.  *)
LEMMA BestIsRotation ==
  ASSUME NEW O, NEW cycle \in Seq(O), Around(cycle), evaluateCycle(cycle) # None
  PROVE  \E d \in Seq(O) : /\ Around(d)
                           /\ sizeRotation(d) # None /\ isRiskless(d, sizeRotation(d))
                           /\ evaluateCycle(cycle) = evaluated(d, sizeRotation(d))
<1> DEFINE s == rotations(cycle)
           D == DOMAIN s
           R == {d \in Seq(O) : Around(d)}
           good(d) == sizeRotation(d) # None /\ isRiskless(d, sizeRotation(d))
           value(d) == evaluated(d, sizeRotation(d))
           V == {None} \cup {value(d) : d \in {e \in R : good(e)}}
           next(best, c) == LET legs == sizeRotation(c) IN
                            IF /\ legs # None
                               /\ isRiskless(c, legs)
                               /\ best = None \/ better(evaluated(c, legs), best)
                            THEN evaluated(c, legs) ELSE best
           F == [e \in R \X V |-> next(e[2], e[1])]
           eq(g) == g = [T \in SUBSET D |->
                           IF T = {} THEN None ELSE next(g[T \ {Max(T)}], s[Max(T)])]
           iter == CHOOSE g : eq(g)
<1>1. evaluateCycle(cycle) = iter[D]
  BY DEF evaluateCycle, FoldLeft, MapThenFoldSet
<1>2. D = 1..Len(cycle) /\ Len(cycle) \in Nat /\ \A i \in D : s[i] \in R
  BY Rotated
<1>3. s \in Seq(R)
  <2>1. s = [i \in 1..Len(cycle) |-> s[i]]
    BY DEF rotations
  <2> HIDE DEF s, R
  <2>2. QED
    BY <1>2, <2>1
<1>4. ASSUME NEW best \in V, NEW c \in R PROVE next(best, c) \in V
  <2>1. next(best, c) = best \/ (good(c) /\ next(best, c) = value(c))
    BY Zenon
  <2> HIDE DEF next, good, value, R
  <2>2. QED
    BY <2>1
<1> HIDE DEF s, R, V, next
<1>5. \A T \in SUBSET D : IsFiniteSet(T) /\ (T # {} => Max(T) \in T)
  BY <1>3, PlacesFinite, LargestIn
<1>6. None \in V /\ F \in [R \X V -> V]
  <2>1. None \in V
    BY DEF V
  <2>2. F \in [R \X V -> V]
    BY <1>4
  <2>3. QED
    BY <2>1, <2>2
<1>7. PICK g : LeftFolds(g, s, None, V, F)
  <2> HIDE DEF F
  <2>1. QED
    BY <1>3, <1>6, LeftFold
<1>8. ASSUME NEW T \in SUBSET D, T # {}
      PROVE  F[<<s[Max(T)], g[T \ {Max(T)}]>>] = next(g[T \ {Max(T)}], s[Max(T)])
  <2>1. s[Max(T)] \in R /\ g[T \ {Max(T)}] \in V
    BY <1>2, <1>5, <1>7, <1>8 DEF LeftFolds
  <2> HIDE DEF D
  <2>2. QED
    BY <2>1
<1>9. eq(g)
  <2>1. g \in [SUBSET D -> V]
        /\ \A T \in SUBSET D : g[T] = IF T = {} THEN None ELSE F[<<s[Max(T)], g[T \ {Max(T)}]>>]
    BY <1>7 DEF LeftFolds
  <2> HIDE DEF F, D
  <2>2. QED
    BY <2>1, <1>8
<1>10. eq(iter)
  <2> HIDE DEF eq
  <2>1. QED
    BY <1>9
<1>11. \A T \in SUBSET D : iter[T] = IF T = {} THEN None ELSE next(iter[T \ {Max(T)}], s[Max(T)])
  BY <1>10
<1> HIDE DEF iter, eq, F
<1> DEFINE A == {T \in SUBSET D : iter[T] \in V}
<1>12. {} \in A
  BY <1>6, <1>11
<1>13. ASSUME NEW T \in SUBSET D, T # {}, \A x \in T : T \ {x} \in A PROVE T \in A
  <2>1. Max(T) \in T
    BY <1>5, <1>13
  <2>2. iter[T \ {Max(T)}] \in V
    BY <1>13, <2>1
  <2>3. s[Max(T)] \in R /\ iter[T] = next(iter[T \ {Max(T)}], s[Max(T)])
    BY <1>2, <1>11, <1>13, <2>1
  <2>4. iter[T] \in V
    BY <1>4, <2>2, <2>3
  <2>5. QED
    BY <2>4
<1>14. D \in A
  <2>1. IsFiniteSet(D)
    BY <1>5
  <2> HIDE DEF A, D
  <2>2. SUBSET D \subseteq A
    BY <1>12, <1>13, <2>1, SubsetInduction
  <2>3. QED
    BY <2>2
<1>15. PICK d \in R : good(d) /\ iter[D] = value(d)
  BY <1>1, <1>14 DEF V
<1>16. QED
  BY <1>1, <1>15 DEF R

(* The amounts of the legs of a cycle.                                     *)
LEMMA SizedAmounts ==
  ASSUME NEW cycle, NEW n \in Nat, NEW legs, Sized(cycle, n, legs)
  PROVE  /\ \A i \in 1..n : legs[i].spend \in Nat /\ legs[i].receive \in Nat
         /\ \A k \in 0..n : /\ SubSeq(legs, 1, k) \in Seq(Legs) /\ Len(SubSeq(legs, 1, k)) = k
                            /\ \A i \in 1..k : SubSeq(legs, 1, k)[i] = legs[i]
<1>1. legs \in Seq(Legs) /\ Len(legs) = n /\ \A i \in 1..n : legs[i] \in Legs
  BY DEF Sized
<1>2. \A i \in 1..n : legs[i].spend \in Nat /\ legs[i].receive \in Nat
  BY <1>1 DEF Legs
<1>3. ASSUME NEW k \in 0..n
      PROVE  /\ SubSeq(legs, 1, k) \in Seq(Legs) /\ Len(SubSeq(legs, 1, k)) = k
             /\ \A i \in 1..k : SubSeq(legs, 1, k)[i] = legs[i]
  <2>1. k \in Int /\ \A i \in 1..k : legs[i] \in Legs
    BY <1>1
  <2>2. /\ SubSeq(legs, 1, k) \in Seq(Legs)
        /\ Len(SubSeq(legs, 1, k)) = IF 1 <= k THEN k - 1 + 1 ELSE 0
        /\ \A i \in 1..(k - 1 + 1) : SubSeq(legs, 1, k)[i] = legs[1 + i - 1]
    BY <2>1, SubSeqProperties
  <2>3. \A i \in 1..k : i \in 1..(k - 1 + 1) /\ 1 + i - 1 = i
    OBVIOUS
  <2>4. QED
    BY <2>2, <2>3
<1>4. QED
  BY <1>2, <1>3

(* What is left after the first k legs of a sized cycle, by the gains of   *)
(* the legs.                                                               *)
LEMMA NetAfter ==
  ASSUME NEW cycle, NEW n \in Nat, NEW legs, Sized(cycle, n, legs), NEW asset
  PROVE  /\ netOf(cycle, SubSeq(legs, 1, 0), asset) = 0
         /\ n >= 1 => netOf(cycle, SubSeq(legs, 1, 1), asset) = Gain(cycle, legs, asset, 1)
         /\ n >= 2 => netOf(cycle, SubSeq(legs, 1, 2), asset) =
                        Gain(cycle, legs, asset, 1) + Gain(cycle, legs, asset, 2)
         /\ n >= 3 => netOf(cycle, SubSeq(legs, 1, 3), asset) =
                        Gain(cycle, legs, asset, 1) + Gain(cycle, legs, asset, 2)
                          + Gain(cycle, legs, asset, 3)
<1> DEFINE gain(i) == Gain(cycle, legs, asset, i)
           net(k) == netOf(cycle, SubSeq(legs, 1, k), asset)
<1>1. \A k \in 0..n : /\ SubSeq(legs, 1, k) \in Seq(Legs) /\ Len(SubSeq(legs, 1, k)) = k
                      /\ \A i \in 1..k : SubSeq(legs, 1, k)[i] = legs[i]
  BY SizedAmounts
<1>2. \A k \in 0..n : \A i \in 1..k : Gain(cycle, SubSeq(legs, 1, k), asset, i) = gain(i)
  BY <1>1 DEF Gain
<1>3. /\ 0 \in 0..n
      /\ n >= 1 => 1 \in 0..n /\ 1 \in 1..1
      /\ n >= 2 => 2 \in 0..n /\ 1 \in 1..2 /\ 2 \in 1..2
      /\ n >= 3 => 3 \in 0..n /\ 1 \in 1..3 /\ 2 \in 1..3 /\ 3 \in 1..3
  OBVIOUS
<1>4. net(0) = 0
  BY <1>1, <1>3, NetIsGains
<1>5. ASSUME n >= 1 PROVE net(1) = gain(1)
  <2>1. net(1) = Gain(cycle, SubSeq(legs, 1, 1), asset, 1)
    BY <1>1, <1>3, <1>5, NetIsGains
  <2>2. QED
    BY <1>2, <1>3, <1>5, <2>1
<1>6. ASSUME n >= 2 PROVE net(2) = gain(1) + gain(2)
  <2> PICK two : two = SubSeq(legs, 1, 2)
    OBVIOUS
  <2>1. two \in Seq(Legs) /\ Len(two) = 2
    BY <1>1, <1>3, <1>6
  <2>2. netOf(cycle, two, asset) = Gain(cycle, two, asset, 1) + Gain(cycle, two, asset, 2)
    BY <2>1, NetIsGains
  <2>3. Gain(cycle, two, asset, 1) = gain(1) /\ Gain(cycle, two, asset, 2) = gain(2)
    BY <1>2, <1>3, <1>6
  <2>4. QED
    BY <2>2, <2>3
<1>7. ASSUME n >= 3 PROVE net(3) = gain(1) + gain(2) + gain(3)
  <2> PICK three : three = SubSeq(legs, 1, 3)
    OBVIOUS
  <2>1. three \in Seq(Legs) /\ Len(three) = 3
    BY <1>1, <1>3, <1>7
  <2>2. netOf(cycle, three, asset) = Gain(cycle, three, asset, 1) + Gain(cycle, three, asset, 2)
                                       + Gain(cycle, three, asset, 3)
    BY <2>1, NetIsGains
  <2>3. /\ Gain(cycle, three, asset, 1) = gain(1) /\ Gain(cycle, three, asset, 2) = gain(2)
        /\ Gain(cycle, three, asset, 3) = gain(3)
    BY <1>2, <1>3, <1>7
  <2>4. QED
    BY <2>2, <2>3
<1>8. QED
  BY <1>4, <1>5, <1>6, <1>7

(* What a wallet that pays for the first leg holds of an asset after k     *)
(* legs, which is what purse says of an opportunity.                       *)
held(cycle, legs, k, asset) ==
  (IF cycle[1].ask = asset THEN legs[1].spend ELSE 0) + netOf(cycle, SubSeq(legs, 1, k), asset)

(* It is never short, and loses nothing if nothing is lost on the assets   *)
(* of the cycle.                                                           *)
LEMMA PairHeld ==
  ASSUME NEW cycle, Around(cycle), Len(cycle) = 2, NEW legs, Sized(cycle, 2, legs),
         \A i \in 1..2 : netOf(cycle, SubSeq(legs, 1, 2), cycle[i].ask) >= 0, NEW asset
  PROVE  /\ \A k \in 1..2 : held(cycle, legs, k, asset) \in Int /\ held(cycle, legs, k, asset) >= 0
         /\ held(cycle, legs, 2, asset) >= held(cycle, legs, 0, asset)
<1> DEFINE c1 == cycle[1]
           c2 == cycle[2]
           net(k, a) == netOf(cycle, SubSeq(legs, 1, k), a)
<1>1. c1.offer = c2.ask /\ c2.offer = c1.ask /\ c1.ask # c2.ask
  BY DEF Around
<1>2. PICK s1 \in Nat, r1 \in Nat, s2 \in Nat, r2 \in Nat :
        /\ s1 = legs[1].spend /\ r1 = legs[1].receive
        /\ s2 = legs[2].spend /\ r2 = legs[2].receive
  <2>1. 1 \in 1..2 /\ 2 \in 1..2
    OBVIOUS
  <2>2. QED
    BY <2>1, SizedAmounts
<1>3. s2 <= r1
  BY <1>2 DEF Sized
<1>4. \A a : /\ net(0, a) = 0
             /\ net(1, a) = Gain(cycle, legs, a, 1)
             /\ net(2, a) = Gain(cycle, legs, a, 1) + Gain(cycle, legs, a, 2)
  BY NetAfter
<1>5. net(2, c1.ask) >= 0 /\ net(2, c2.ask) >= 0
  OBVIOUS
<1> HIDE DEF net
<1>6. \A a : /\ Gain(cycle, legs, a, 1) = (IF c2.ask = a THEN r1 ELSE 0) - (IF c1.ask = a THEN s1 ELSE 0)
             /\ Gain(cycle, legs, a, 2) = (IF c1.ask = a THEN r2 ELSE 0) - (IF c2.ask = a THEN s2 ELSE 0)
  BY <1>1, <1>2 DEF Gain
<1>7. \A k : held(cycle, legs, k, asset) = (IF c1.ask = asset THEN s1 ELSE 0) + net(k, asset)
  BY <1>2 DEF held, net
<1> HIDE DEF c1, c2
<1>8. CASE asset = c1.ask
  <2>1. Gain(cycle, legs, asset, 1) = 0 - s1 /\ Gain(cycle, legs, asset, 2) = r2 - 0
    BY <1>1, <1>6, <1>8
  <2>2. net(0, asset) = 0 /\ net(1, asset) = 0 - s1 /\ net(2, asset) = r2 - s1 /\ r2 - s1 >= 0
    BY <1>4, <1>5, <1>8, <2>1
  <2>3. held(cycle, legs, 0, asset) = s1 /\ held(cycle, legs, 1, asset) = 0
        /\ held(cycle, legs, 2, asset) = r2
    BY <1>7, <1>8, <2>2
  <2>4. QED
    BY <2>2, <2>3
<1>9. CASE asset = c2.ask
  <2>1. Gain(cycle, legs, asset, 1) = r1 - 0 /\ Gain(cycle, legs, asset, 2) = 0 - s2
    BY <1>1, <1>6, <1>9
  <2>2. net(0, asset) = 0 /\ net(1, asset) = r1 /\ net(2, asset) = r1 - s2
    BY <1>4, <2>1
  <2>3. held(cycle, legs, 0, asset) = 0 /\ held(cycle, legs, 1, asset) = r1
        /\ held(cycle, legs, 2, asset) = r1 - s2
    BY <1>1, <1>7, <1>9, <2>2
  <2>4. QED
    BY <1>3, <2>3
<1>10. CASE asset # c1.ask /\ asset # c2.ask
  <2>1. Gain(cycle, legs, asset, 1) = 0 /\ Gain(cycle, legs, asset, 2) = 0
    BY <1>6, <1>10
  <2>2. net(0, asset) = 0 /\ net(1, asset) = 0 /\ net(2, asset) = 0
    BY <1>4, <2>1
  <2>3. held(cycle, legs, 0, asset) = 0 /\ held(cycle, legs, 1, asset) = 0
        /\ held(cycle, legs, 2, asset) = 0
    BY <1>7, <1>10, <2>2
  <2>4. QED
    BY <2>3
<1>11. QED
  BY <1>8, <1>9, <1>10

LEMMA TripleHeld ==
  ASSUME NEW cycle, Around(cycle), Len(cycle) = 3, NEW legs, Sized(cycle, 3, legs),
         \A i \in 1..3 : netOf(cycle, SubSeq(legs, 1, 3), cycle[i].ask) >= 0, NEW asset
  PROVE  /\ \A k \in 1..3 : held(cycle, legs, k, asset) \in Int /\ held(cycle, legs, k, asset) >= 0
         /\ held(cycle, legs, 3, asset) >= held(cycle, legs, 0, asset)
<1> DEFINE c1 == cycle[1]
           c2 == cycle[2]
           c3 == cycle[3]
           net(k, a) == netOf(cycle, SubSeq(legs, 1, k), a)
<1>1. /\ c1.offer = c2.ask /\ c2.offer = c3.ask /\ c3.offer = c1.ask
      /\ c1.ask # c2.ask /\ c2.ask # c3.ask /\ c1.ask # c3.ask
  BY DEF Around
<1>2. PICK s1 \in Nat, r1 \in Nat, s2 \in Nat, r2 \in Nat, s3 \in Nat, r3 \in Nat :
        /\ s1 = legs[1].spend /\ r1 = legs[1].receive
        /\ s2 = legs[2].spend /\ r2 = legs[2].receive
        /\ s3 = legs[3].spend /\ r3 = legs[3].receive
  <2>1. 1 \in 1..3 /\ 2 \in 1..3 /\ 3 \in 1..3
    OBVIOUS
  <2>2. QED
    BY <2>1, SizedAmounts
<1>3. s2 <= r1 /\ s3 <= r2
  <2>1. /\ 2 \in 2..3 /\ 3 \in 2..3 /\ 2 - 1 = 1 /\ 3 - 1 = 2
    OBVIOUS
  <2>2. QED
    BY <1>2, <2>1 DEF Sized
<1>4. \A a : /\ net(0, a) = 0
             /\ net(1, a) = Gain(cycle, legs, a, 1)
             /\ net(2, a) = Gain(cycle, legs, a, 1) + Gain(cycle, legs, a, 2)
             /\ net(3, a) = Gain(cycle, legs, a, 1) + Gain(cycle, legs, a, 2) + Gain(cycle, legs, a, 3)
  BY NetAfter
<1>5. net(3, c1.ask) >= 0
  OBVIOUS
<1> HIDE DEF net
<1>6. \A a : /\ Gain(cycle, legs, a, 1) = (IF c2.ask = a THEN r1 ELSE 0) - (IF c1.ask = a THEN s1 ELSE 0)
             /\ Gain(cycle, legs, a, 2) = (IF c3.ask = a THEN r2 ELSE 0) - (IF c2.ask = a THEN s2 ELSE 0)
             /\ Gain(cycle, legs, a, 3) = (IF c1.ask = a THEN r3 ELSE 0) - (IF c3.ask = a THEN s3 ELSE 0)
  BY <1>1, <1>2 DEF Gain
<1>7. \A k : held(cycle, legs, k, asset) = (IF c1.ask = asset THEN s1 ELSE 0) + net(k, asset)
  BY <1>2 DEF held, net
<1> HIDE DEF c1, c2, c3
<1>8. CASE asset = c1.ask
  <2>1. /\ Gain(cycle, legs, asset, 1) = 0 - s1 /\ Gain(cycle, legs, asset, 2) = 0
        /\ Gain(cycle, legs, asset, 3) = r3 - 0
    BY <1>1, <1>6, <1>8
  <2>2. /\ net(0, asset) = 0 /\ net(1, asset) = 0 - s1 /\ net(2, asset) = 0 - s1
        /\ net(3, asset) = r3 - s1 /\ r3 - s1 >= 0
    BY <1>4, <1>5, <1>8, <2>1
  <2>3. /\ held(cycle, legs, 0, asset) = s1 /\ held(cycle, legs, 1, asset) = 0
        /\ held(cycle, legs, 2, asset) = 0 /\ held(cycle, legs, 3, asset) = r3
    BY <1>7, <1>8, <2>2
  <2>4. QED
    BY <2>2, <2>3
<1>9. CASE asset = c2.ask
  <2>1. /\ Gain(cycle, legs, asset, 1) = r1 - 0 /\ Gain(cycle, legs, asset, 2) = 0 - s2
        /\ Gain(cycle, legs, asset, 3) = 0
    BY <1>1, <1>6, <1>9
  <2>2. /\ net(0, asset) = 0 /\ net(1, asset) = r1 /\ net(2, asset) = r1 - s2
        /\ net(3, asset) = r1 - s2
    BY <1>4, <2>1
  <2>3. /\ held(cycle, legs, 0, asset) = 0 /\ held(cycle, legs, 1, asset) = r1
        /\ held(cycle, legs, 2, asset) = r1 - s2 /\ held(cycle, legs, 3, asset) = r1 - s2
    BY <1>1, <1>7, <1>9, <2>2
  <2>4. QED
    BY <1>3, <2>3
<1>10. CASE asset = c3.ask
  <2>1. /\ Gain(cycle, legs, asset, 1) = 0 /\ Gain(cycle, legs, asset, 2) = r2 - 0
        /\ Gain(cycle, legs, asset, 3) = 0 - s3
    BY <1>1, <1>6, <1>10
  <2>2. /\ net(0, asset) = 0 /\ net(1, asset) = 0 /\ net(2, asset) = r2
        /\ net(3, asset) = r2 - s3
    BY <1>4, <2>1
  <2>3. /\ held(cycle, legs, 0, asset) = 0 /\ held(cycle, legs, 1, asset) = 0
        /\ held(cycle, legs, 2, asset) = r2 /\ held(cycle, legs, 3, asset) = r2 - s3
    BY <1>1, <1>7, <1>10, <2>2
  <2>4. QED
    BY <1>3, <2>3
<1>11. CASE asset # c1.ask /\ asset # c2.ask /\ asset # c3.ask
  <2>1. /\ Gain(cycle, legs, asset, 1) = 0 /\ Gain(cycle, legs, asset, 2) = 0
        /\ Gain(cycle, legs, asset, 3) = 0
    BY <1>6, <1>11
  <2>2. net(0, asset) = 0 /\ net(1, asset) = 0 /\ net(2, asset) = 0 /\ net(3, asset) = 0
    BY <1>4, <2>1
  <2>3. /\ held(cycle, legs, 0, asset) = 0 /\ held(cycle, legs, 1, asset) = 0
        /\ held(cycle, legs, 2, asset) = 0 /\ held(cycle, legs, 3, asset) = 0
    BY <1>7, <1>11, <2>2
  <2>4. QED
    BY <2>3
<1>12. QED
  BY <1>8, <1>9, <1>10, <1>11

LEMMA Held ==
  ASSUME NEW cycle, Around(cycle), NEW n, n = Len(cycle), NEW legs, Sized(cycle, n, legs),
         \A i \in 1..n : netOf(cycle, SubSeq(legs, 1, n), cycle[i].ask) >= 0, NEW asset
  PROVE  /\ \A k \in 1..n : held(cycle, legs, k, asset) \in Int /\ held(cycle, legs, k, asset) >= 0
         /\ held(cycle, legs, n, asset) >= held(cycle, legs, 0, asset)
<1>1. CASE n = 2
  BY <1>1, PairHeld
<1>2. CASE n = 3
  BY <1>2, TripleHeld
<1>3. QED
  BY <1>1, <1>2 DEF Around

(* A net is a whole number.                                                *)
LEMMA NetTyped ==
  ASSUME NEW cycle, NEW legs \in Seq(Legs), Len(legs) = 2 \/ Len(legs) = 3, NEW asset
  PROVE  netOf(cycle, legs, asset) \in Int
<1> DEFINE gain(i) == Gain(cycle, legs, asset, i)
<1>1. \A i \in 1..Len(legs) : gain(i) \in Int
  BY NetIsGains
<1>2. CASE Len(legs) = 2
  <2>1. gain(1) \in Int /\ gain(2) \in Int
    BY <1>1, <1>2
  <2>2. netOf(cycle, legs, asset) = gain(1) + gain(2)
    BY <1>2, NetIsGains
  <2> HIDE DEF gain
  <2>3. QED
    BY <2>1, <2>2
<1>3. CASE Len(legs) = 3
  <2>1. gain(1) \in Int /\ gain(2) \in Int /\ gain(3) \in Int
    BY <1>1, <1>3
  <2>2. netOf(cycle, legs, asset) = gain(1) + gain(2) + gain(3)
    BY <1>3, NetIsGains
  <2> HIDE DEF gain
  <2>3. QED
    BY <2>1, <2>2
<1>4. QED
  BY <1>2, <1>3

(* The net of all legs, after the last of them.                            *)
LEMMA NetOfAll ==
  ASSUME NEW legs \in Seq(Legs)
  PROVE  SubSeq(legs, 1, Len(legs)) = legs
OBVIOUS

(* What the scan considers.                                                *)
LEMMA CyclesAround ==
  ASSUME NEW orders, NEW now, NEW c \in found(open(orders, now))
  PROVE  c \in Seq(open(orders, now)) /\ Around(c)
<1> DEFINE O == open(orders, now)
           assets == {o.ask : o \in O}
<1>1. \A o \in O : o.ask # o.offer
  BY DEF open
<1>2. c \in direct(O) \/ c \in triangular(O)
  BY DEF found
<1> HIDE DEF O
<1>3. CASE c \in direct(O)
  <2>1. PICK p \in assets \X assets :
          c \in edge(O, p[1], p[2], DirectTopK) \X edge(O, p[2], p[1], DirectTopK)
    BY <1>3 DEF direct
  <2>2. PICK a, b : /\ c = <<a, b>>
                    /\ a \in edge(O, p[1], p[2], DirectTopK)
                    /\ b \in edge(O, p[2], p[1], DirectTopK)
    BY <2>1
  <2>3. /\ a \in O /\ b \in O
        /\ a.ask = p[1] /\ a.offer = p[2] /\ b.ask = p[2] /\ b.offer = p[1]
    BY <2>2 DEF edge
  <2>4. a.ask # b.ask
    BY <1>1, <2>3
  <2>5. c \in Seq(O) /\ Len(c) = 2 /\ c[1] = a /\ c[2] = b
    BY <2>2, <2>3
  <2>6. QED
    BY <2>3, <2>4, <2>5 DEF Around, O
<1>4. CASE c \in triangular(O)
  <2>1. PICK t \in assets \X assets \X assets :
          /\ t[2] # t[3]
          /\ c \in edge(O, t[1], t[2], TriangularTopK) \X edge(O, t[2], t[3], TriangularTopK)
                     \X edge(O, t[3], t[1], TriangularTopK)
    BY <1>4 DEF triangular
  <2>2. PICK a, b, d : /\ c = <<a, b, d>>
                       /\ a \in edge(O, t[1], t[2], TriangularTopK)
                       /\ b \in edge(O, t[2], t[3], TriangularTopK)
                       /\ d \in edge(O, t[3], t[1], TriangularTopK)
    BY <2>1
  <2>3. /\ a \in O /\ b \in O /\ d \in O
        /\ a.ask = t[1] /\ a.offer = t[2] /\ b.ask = t[2] /\ b.offer = t[3]
        /\ d.ask = t[3] /\ d.offer = t[1]
    BY <2>2 DEF edge
  <2>4. a.ask # b.ask /\ b.ask # d.ask /\ a.ask # d.ask
    BY <1>1, <2>1, <2>3
  <2>5. c \in Seq(O) /\ Len(c) = 3 /\ c[1] = a /\ c[2] = b /\ c[3] = d
    BY <2>2, <2>3
  <2>6. QED
    BY <2>3, <2>4, <2>5 DEF Around, O
<1>5. QED
  BY <1>2, <1>3, <1>4

(* What the scan reports is one way around a cycle of open orders, sized,  *)
(* that loses nothing and gains something.                                 *)
Riskless(orders, now, op) ==
  /\ op.cycle \in Seq(open(orders, now)) /\ Around(op.cycle)
  /\ Sized(op.cycle, Len(op.cycle), op.legs)
  /\ isRiskless(op.cycle, op.legs)

LEMMA OpenPriced ==
  ASSUME NEW orders, Orders(orders), NEW now
  PROVE  \A o \in open(orders, now) : Priced(o) /\ o \in orders /\ ~isOrderExpired(o, now)
BY DEF open, Orders, Priced

(* An opportunity of a scan is a cycle of open orders of the book with a   *)
(* leg for each, paid out of what the leg before it delivers, that loses   *)
(* in no asset and gains in one (findArbitrage, evaluateCycle).            *)
THEOREM ReportedRiskless ==
  ASSUME NEW orders, Orders(orders), NEW now, NEW op \in findArbitrage(orders, now)
  PROVE  Riskless(orders, now, op)
<1> DEFINE O == open(orders, now)
<1>1. PICK c \in found(O) : op = evaluateCycle(c)
  BY DEF findArbitrage
<1>2. c \in Seq(O) /\ Around(c)
  BY CyclesAround
<1>3. evaluateCycle(c) # None
  BY DEF found
<1>4. \A o \in O : Priced(o)
  BY OpenPriced
<1> HIDE DEF O
<1>5. PICK d \in Seq(O) : /\ Around(d)
                         /\ sizeRotation(d) # None /\ isRiskless(d, sizeRotation(d))
                         /\ op = evaluated(d, sizeRotation(d))
  BY <1>1, <1>2, <1>3, BestIsRotation
<1>6. op.cycle = d /\ op.legs = sizeRotation(d)
  BY <1>5 DEF evaluated
<1>7. d # << >>
  BY <1>5, EmptySeq DEF Around
<1>8. Sized(d, Len(d), sizeRotation(d))
  BY <1>4, <1>5, <1>7, RotationSized
<1>9. QED
  BY <1>5, <1>6, <1>8 DEF Riskless, O

(* Orders of different asks are different orders.                          *)
LEMMA LegsApart ==
  ASSUME NEW cycle, NEW legs, Around(cycle), Sized(cycle, Len(cycle), legs),
         \A i, j \in 1..Len(cycle) : cycle[i].id = cycle[j].id => cycle[i] = cycle[j]
  PROVE  Cardinality(selected(legs)) = Len(legs)
<1> DEFINE n == Len(cycle)
           f == [i \in 1..n |-> legs[i].orderId]
<1>1. n \in Nat /\ (n = 2 \/ n = 3)
  BY DEF Around
<1>2. DOMAIN legs = 1..n /\ Len(legs) = n /\ \A i \in 1..n : legs[i].orderId = cycle[i].id
  BY DEF Sized
<1>3. selected(legs) = {f[i] : i \in 1..n}
  BY <1>2 DEF selected
<1>4. \A i, j \in 1..n : i # j => cycle[i].ask # cycle[j].ask
  <2>1. CASE n = 2
    <3>1. \A i \in 1..n : i = 1 \/ i = 2
      BY <2>1
    <3>2. QED
      BY <2>1, <3>1 DEF Around
  <2>2. CASE n = 3
    <3>1. \A i \in 1..n : i = 1 \/ i = 2 \/ i = 3
      BY <2>2
    <3>2. QED
      BY <2>2, <3>1 DEF Around
  <2>3. QED
    BY <1>1, <2>1, <2>2
<1>5. \A i, j \in 1..n : f[i] = f[j] => i = j
  BY <1>2, <1>4
<1>6. f \in Bijection(1..n, {f[i] : i \in 1..n})
  <2> DEFINE S == 1..n
  <2> HIDE DEF f, n
  <2>1. f \in [1..n -> {f[i] : i \in 1..n}]
    BY DEF f
  <2>2. QED
    BY <1>5, <2>1 DEF Bijection, Injection, Surjection, IsInjective
<1>7. IsFiniteSet(1..n) /\ Cardinality(1..n) = n
  <2>1. \A m \in Nat : IsFiniteSet(1..m) /\ Cardinality(1..m) = m
    <3> TAKE m \in Nat
    <3>1. IsFiniteSet(1..m) /\ Cardinality(1..m) = IF 1 > m THEN 0 ELSE m - 1 + 1
      BY FS_Interval
    <3>2. QED
      BY <3>1
  <2> HIDE DEF n
  <2>2. QED
    BY <1>1, <2>1
<1>8. Cardinality({f[i] : i \in 1..n}) = n
  <2> DEFINE S == 1..n
             T == {f[i] : i \in 1..n}
  <2>1. ExistsBijection(S, T) /\ IsFiniteSet(S)
    BY <1>6, <1>7 DEF ExistsBijection
  <2> HIDE DEF S, T
  <2>2. Cardinality(T) = Cardinality(S)
    BY <2>1, FS_Bijection
  <2> HIDE DEF f, n
  <2>3. QED
    BY <1>7, <2>2 DEF S, T
<1>9. QED
  BY <1>2, <1>3, <1>8

(* What loses nothing and gains something funds itself: the scripts accept *)
(* every leg, a wallet that holds just the price of the first leg is never *)
(* short, and it ends with more than it began with.                        *)
THEOREM RisklessFundsItself ==
  ASSUME NEW orders, Orders(orders), NEW now, NEW op, Riskless(orders, now, op)
  PROVE  SelfFunding(orders, now, op)
<1> DEFINE cycle == op.cycle
           legs  == op.legs
           n     == Len(cycle)
           O     == open(orders, now)
           net(a) == netOf(cycle, legs, a)
<1>1. /\ cycle \in Seq(O) /\ Around(cycle) /\ Sized(cycle, n, legs)
      /\ isRiskless(cycle, legs)
  BY DEF Riskless
<1>2. n \in Nat /\ n >= 1 /\ DOMAIN cycle = 1..n /\ \A i \in 1..n : cycle[i] \in O
  BY <1>1 DEF Around
<1>3. /\ legs \in Seq(Legs) /\ Len(legs) = n
      /\ \A i \in 1..n : legs[i].orderId = cycle[i].id /\ fillable(cycle[i], legs[i])
  BY <1>1 DEF Sized
<1>4. \A o \in O : o \in orders /\ ~isOrderExpired(o, now)
  BY OpenPriced
<1>5. /\ \A i \in 1..n : net(cycle[i].ask) >= 0
      /\ \E i \in 1..n : net(cycle[i].ask) > 0
  BY <1>1, <1>2 DEF isRiskless
<1> HIDE DEF O, n
<1>6. SubSeq(legs, 1, n) = legs
  BY <1>3, NetOfAll
<1>7. \A i \in 1..n : netOf(cycle, SubSeq(legs, 1, n), cycle[i].ask) >= 0
  BY <1>5, <1>6
<1>8. ASSUME NEW a
      PROVE  /\ \A k \in 1..n : held(cycle, legs, k, a) \in Int /\ held(cycle, legs, k, a) >= 0
             /\ held(cycle, legs, n, a) >= held(cycle, legs, 0, a)
  <2>1. n = Len(cycle)
    BY DEF n
  <2> HIDE DEF cycle, legs
  <2>2. QED
    BY <1>1, <1>7, <2>1, Held
<1>9. ASSUME NEW i \in 1..n, net(cycle[i].ask) > 0
      PROVE  held(cycle, legs, n, cycle[i].ask) > held(cycle, legs, 0, cycle[i].ask)
  <2> DEFINE a == cycle[i].ask
             base == IF cycle[1].ask = a THEN legs[1].spend ELSE 0
  <2>1. base \in Int
    <3>1. legs[1] \in Legs
      BY <1>2, <1>3
    <3>2. QED
      BY <3>1 DEF Legs
  <2>2. netOf(cycle, SubSeq(legs, 1, 0), a) = 0
    BY <1>1, <1>2, NetAfter
  <2>3. netOf(cycle, SubSeq(legs, 1, n), a) = net(a)
    BY <1>6
  <2>4. net(a) \in Int
    <3>1. Len(legs) = 2 \/ Len(legs) = 3
      BY <1>1, <1>3 DEF n, Around
    <3> HIDE DEF cycle, legs, a
    <3>2. QED
      BY <1>3, <3>1, NetTyped
  <2> HIDE DEF base, a, net
  <2>5. held(cycle, legs, n, a) = base + net(a) /\ held(cycle, legs, 0, a) = base + 0
    BY <2>2, <2>3 DEF held, base, a
  <2>6. net(a) > 0
    BY <1>9 DEF a
  <2>7. QED
    BY <2>1, <2>4, <2>5, <2>6 DEF a
<1>10. Cardinality(selected(legs)) = n
  <2>1. \A i, j \in 1..Len(cycle) : cycle[i].id = cycle[j].id => cycle[i] = cycle[j]
    BY <1>2, <1>4 DEF Orders, n
  <2> HIDE DEF cycle, legs
  <2>2. QED
    BY <1>1, <1>3, <2>1, LegsApart DEF n
<1>11. \A k, a : purse(op, k, a) = held(cycle, legs, k, a)
  BY DEF purse, held
<1>12. PICK i \in 1..n : net(cycle[i].ask) > 0
  BY <1>5
<1>13. cycle[i].ask \in Assets(orders)
  BY <1>2, <1>4 DEF Assets
<1> HIDE DEF net
<1>14. /\ \A k \in 1..n, a \in Assets(orders) : purse(op, k, a) >= 0
       /\ \A a \in Assets(orders) : purse(op, n, a) >= purse(op, 0, a)
       /\ \E a \in Assets(orders) : purse(op, n, a) > purse(op, 0, a)
  BY <1>8, <1>9, <1>11, <1>12, <1>13
<1>15. \A k \in 1..n : /\ cycle[k] \in orders /\ ~isOrderExpired(cycle[k], now)
                        /\ legs[k].orderId = cycle[k].id /\ fillable(cycle[k], legs[k])
  BY <1>2, <1>3, <1>4
<1>16. QED
  BY <1>3, <1>10, <1>14, <1>15 DEF SelfFunding
=============================================================================
