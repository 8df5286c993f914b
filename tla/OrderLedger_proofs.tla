-------------------------- MODULE OrderLedger_proofs --------------------------
(***************************************************************************)
(* Proofs about OrderLedger and TxBuilder, for any sets of tokens, keys    *)
(* and transaction ids, any requests, and any transactions whatever that   *)
(* may be tried: Offered is arbitrary, so that what is said of the chain   *)
(* rests on the rules alone.                                               *)
(*                                                                         *)
(* First the beacons, which mark the orders and nothing else.  Then the    *)
(* price an order is sold at, over any number of partial fills of any      *)
(* amounts, and its payment, however orders are batched.  Next what the    *)
(* validator guarantees around the expiration: nobody takes an order after *)
(* it, and the owner can reclaim what is left at any time.  Then, that the *)
(* chain implements the book of orders.  Last what the backend builds: it  *)
(* is what the rules accept, and its quote is what the wallet gets.        *)
(***************************************************************************)
EXTENDS TxBuilder, CountingTheorems

(***************************************************************************)
(* Rank pairing.                                                           *)
(***************************************************************************)

(* The order on output references is a strict total order.                 *)
LEMMA RefLessOrder ==
  /\ \A p \in Refs : ~RefLess(p, p)
  /\ \A p, q, r \in Refs : RefLess(p, q) /\ RefLess(q, r) => RefLess(p, r)
  /\ \A p, q \in Refs : p # q => RefLess(p, q) \/ RefLess(q, p)
<1>1. \A p \in Refs : p[1] \in Nat /\ p[2] \in Nat /\ p = <<p[1], p[2]>>
  BY DEF Refs
<1>2. \A p, q \in Refs : p # q => p[1] # q[1] \/ p[2] # q[2]
  BY <1>1
<1>3. QED
  BY <1>1, <1>2 DEF RefLess

RefOrder == {e \in Refs \X Refs : RefLess(e[1], e[2])}

LEMMA RefsOrdered ==
  ASSUME NEW S, S \subseteq Refs
  PROVE  /\ TotallyOrders(RefOrder, S)
         /\ \A p \in S : before(RefOrder, S, p) = {q \in S : RefLess(q, p)}
<1>1. \A p, q \in Refs : <<p, q>> \in RefOrder <=> RefLess(p, q)
  BY DEF RefOrder
<1>2. TotallyOrders(RefOrder, S)
  BY <1>1, RefLessOrder DEF TotallyOrders
<1>3. \A p \in S : before(RefOrder, S, p) = {q \in S : RefLess(q, p)}
  BY <1>1 DEF before
<1>4. QED
  BY <1>2, <1>3

(* In a finite set of references no two members have the same rank.        *)
LEMMA RanksDistinct ==
  ASSUME NEW S, S \subseteq Refs, IsFiniteSet(S)
  PROVE  \A p, q \in S :
           Cardinality({x \in S : RefLess(x, p)}) = Cardinality({x \in S : RefLess(x, q)}) => p = q
<1>1. ASSUME NEW p \in S, NEW q \in S,
             Cardinality({x \in S : RefLess(x, p)}) = Cardinality({x \in S : RefLess(x, q)})
      PROVE  p = q
  <2>1. Cardinality(before(RefOrder, S, p)) = Cardinality(before(RefOrder, S, q))
    BY <1>1, RefsOrdered
  <2>2. QED
    BY <2>1, RefsOrdered, RanksDiffer
<1>2. QED
  BY <1>1

(* In a finite set S of references every number below the size of S is the *)
(* rank of a member.                                                       *)
LEMMA RanksCover ==
  ASSUME NEW S, S \subseteq Refs, IsFiniteSet(S),
         NEW n \in Nat, n < Cardinality(S)
  PROVE  \E r \in S : Cardinality({q \in S : RefLess(q, r)}) = n
<1>1. \E r \in S : Cardinality(before(RefOrder, S, r)) = n
  BY RefsOrdered, RanksFill
<1>2. QED
  BY <1>1, RefsOrdered

(***************************************************************************)
(* The outputs of a transaction that carry beacons.                        *)
(***************************************************************************)
LEMMA BearingOutputs ==
  ASSUME NEW tx, TypedTransaction(tx), NEW policy
  PROVE  /\ beacon_bearing_outputs(tx, policy) \subseteq 1..Len(tx.outputs)
         /\ Len(tx.outputs) \in Nat
         /\ IsFiniteSet(beacon_bearing_outputs(tx, policy))
         /\ \A i \in beacon_bearing_outputs(tx, policy) : tx.outputs[i] \in Outputs
<1>1. tx.outputs \in Seq(Outputs)
  BY DEF TypedTransaction
<1>2. DOMAIN tx.outputs = 1..Len(tx.outputs) /\ Len(tx.outputs) \in Nat
      /\ \A i \in 1..Len(tx.outputs) : tx.outputs[i] \in Outputs
  BY <1>1
<1>3. beacon_bearing_outputs(tx, policy) \subseteq 1..Len(tx.outputs)
  BY <1>2 DEF beacon_bearing_outputs
<1>4. IsFiniteSet(1..Len(tx.outputs))
  BY <1>2, FS_Interval
<1>5. QED
  BY <1>2, <1>3, <1>4, FS_Subset

(* The rank of a beacon-bearing output is below their number, and no two   *)
(* have the same rank.                                                     *)
LEMMA OutputRanks ==
  ASSUME NEW tx, TypedTransaction(tx), NEW policy
  PROVE  LET C == beacon_bearing_outputs(tx, policy) IN
         /\ \A i \in C : OutputRank(tx, policy, i) \in 0..(Cardinality(C) - 1)
         /\ \A i, j \in C : OutputRank(tx, policy, i) = OutputRank(tx, policy, j) => i = j
<1> DEFINE C == beacon_bearing_outputs(tx, policy)
           below(i) == {j \in C : j < i}
<1>1. C \subseteq Nat /\ IsFiniteSet(C)
  BY BearingOutputs
<1>2. Cardinality(C) \in Nat /\ \A i \in C : Cardinality(below(i)) \in Nat /\ IsFiniteSet(below(i))
  BY <1>1, FS_CardinalityType, FS_Subset
<1>3. \A i \in C : OutputRank(tx, policy, i) = Cardinality(below(i))
  BY DEF OutputRank
<1> HIDE DEF C
<1>4. ASSUME NEW i \in C PROVE Cardinality(below(i)) \in 0..(Cardinality(C) - 1)
  <2>1. below(i) \subseteq C \ {i}
    BY <1>1
  <2>2. IsFiniteSet(C \ {i}) /\ Cardinality(C \ {i}) = Cardinality(C) - 1
    BY <1>1, FS_RemoveElement
  <2>3. Cardinality(below(i)) <= Cardinality(C) - 1
    BY <2>1, <2>2, FS_Subset
  <2>4. QED
    BY <1>2, <2>3
<1>5. ASSUME NEW i \in C, NEW j \in C, i < j PROVE Cardinality(below(i)) < Cardinality(below(j))
  <2>1. below(i) \subseteq below(j) /\ i \in below(j) /\ i \notin below(i)
    <3>1. i \in Nat /\ j \in Nat
      BY <1>1
    <3>2. ASSUME NEW x \in below(i) PROVE x \in below(j)
      <4>1. x \in C /\ x \in Nat /\ x < i
        BY <1>1
      <4>2. x < j
        BY <1>5, <3>1, <4>1
      <4>3. QED
        BY <4>1, <4>2
    <3>3. i \in below(j) /\ i \notin below(i)
      BY <1>5, <3>1
    <3>4. QED
      BY <3>2, <3>3
  <2>2. Cardinality(below(i)) <= Cardinality(below(j))
        /\ Cardinality(below(i)) # Cardinality(below(j))
    BY <1>2, <2>1, FS_Subset
  <2>3. QED
    BY <1>2, <2>2
<1>6. ASSUME NEW i \in C, NEW j \in C, Cardinality(below(i)) = Cardinality(below(j)) PROVE i = j
  <2>1. i \in Nat /\ j \in Nat /\ Cardinality(below(i)) \in Nat
    BY <1>1, <1>2
  <2>2. ~(i < j) /\ ~(j < i)
    BY <1>5, <1>6, <2>1, <1>2
  <2>3. QED
    BY <2>1, <2>2
<1>7. QED
  BY <1>3, <1>4, <1>6 DEF C

(* No two partial takes have one rank.                                     *)
LEMMA PartialTakes ==
  ASSUME NEW tx, TypedTransaction(tx)
  PROVE  /\ partial_take_refs(tx) \subseteq Refs
         /\ IsFiniteSet(partial_take_refs(tx))
         /\ \A q, r \in partial_take_refs(tx) : InputRank(tx, q) = InputRank(tx, r) => q = r
<1>1. partial_take_refs(tx) \subseteq DOMAIN tx.spends
  BY DEF partial_take_refs, Inputs, OrderInputs
<1>2. DOMAIN tx.spends \subseteq Refs /\ IsFiniteSet(DOMAIN tx.spends)
  BY DEF TypedTransaction
<1>3. partial_take_refs(tx) \subseteq Refs /\ IsFiniteSet(partial_take_refs(tx))
  BY <1>1, <1>2, FS_Subset
<1>4. QED
  BY <1>3, RanksDistinct DEF InputRank

(* When there are as many beacon-bearing outputs as partial takes, each    *)
(* such output has the rank of a partial take.                             *)
LEMMA EveryOutputPaired ==
  ASSUME NEW tx, TypedTransaction(tx), NEW policy, beacon_accounting_ok(tx, policy),
         NEW i \in beacon_bearing_outputs(tx, policy)
  PROVE  \E r \in partial_take_refs(tx) : InputRank(tx, r) = OutputRank(tx, policy, i)
<1>1. /\ partial_take_refs(tx) \subseteq Refs
      /\ IsFiniteSet(partial_take_refs(tx))
  <2>1. partial_take_refs(tx) \subseteq DOMAIN tx.spends
    BY DEF partial_take_refs, Inputs, OrderInputs
  <2>2. DOMAIN tx.spends \subseteq Refs /\ IsFiniteSet(DOMAIN tx.spends)
    BY DEF TypedTransaction
  <2>3. QED
    BY <2>1, <2>2, FS_Subset
<1>2. Cardinality(beacon_bearing_outputs(tx, policy)) = Cardinality(partial_take_refs(tx))
  BY DEF beacon_accounting_ok
<1>3. Cardinality(partial_take_refs(tx)) \in Nat
  BY <1>1, FS_CardinalityType
<1>4. OutputRank(tx, policy, i) \in 0..(Cardinality(partial_take_refs(tx)) - 1)
  BY <1>2, OutputRanks
<1>5. OutputRank(tx, policy, i) \in Nat
      /\ OutputRank(tx, policy, i) < Cardinality(partial_take_refs(tx))
  BY <1>3, <1>4
<1>6. \E r \in partial_take_refs(tx) :
        Cardinality({q \in partial_take_refs(tx) : RefLess(q, r)}) = OutputRank(tx, policy, i)
  BY <1>1, <1>5, RanksCover
<1>7. QED
  BY <1>6 DEF InputRank

(***************************************************************************)
(* Conservation: when each input has an output with all its tokens of a    *)
(* name, and one more output has some, then more come out than went in.    *)
(***************************************************************************)
LEMMA OneMoreToken ==
  ASSUME NEW tx, TypedTransaction(tx), NEW u \in BeaconNames,
         NEW i \in DOMAIN tx.outputs, tx.outputs[i].value[u] > 0,
         NEW h \in [OrderInputs(tx) -> DOMAIN tx.outputs \ {i}],
         \A q, r \in OrderInputs(tx) : h[q] = h[r] => q = r,
         \A r \in OrderInputs(tx) : tx.outputs[h[r]].value[u] = utxo[r].value[u]
  PROVE  /\ Cardinality(TokensIn(tx, u)) \in Nat /\ Cardinality(TokensOut(tx, u)) \in Nat
         /\ Cardinality(TokensIn(tx, u)) < Cardinality(TokensOut(tx, u))
<1>1. /\ tx.outputs[i] \in Outputs
      /\ DOMAIN tx.outputs = 1..Len(tx.outputs)
      /\ Len(tx.outputs) \in Nat
      /\ \A j \in DOMAIN tx.outputs : tx.outputs[j] \in Outputs
  <2>1. tx.outputs \in Seq(Outputs)
    BY DEF TypedTransaction
  <2>2. QED
    BY <2>1
<1>2. \A j \in DOMAIN tx.outputs : tx.outputs[j].value[u] \in Nat
  BY <1>1 DEF Outputs, Values, Units
<1> DEFINE at(j) == {j} \X (1..tx.outputs[j].value[u])
           pile == {at(j) : j \in DOMAIN tx.outputs}
           moved == [x \in TokensIn(tx, u) |-> <<h[x[1]], x[2]>>]
           rest == TokensOut(tx, u) \ {<<i, 1>>}
<1>3. IsFiniteSet(TokensOut(tx, u))
  <2>1. ASSUME NEW j \in DOMAIN tx.outputs PROVE IsFiniteSet(at(j))
    <3>1. IsFiniteSet(1..tx.outputs[j].value[u])
      BY <1>2, FS_Interval
    <3>2. QED
      BY <3>1, FS_Singleton, FS_Product
  <2>2. IsFiniteSet(pile)
    <3> DEFINE f == [j \in DOMAIN tx.outputs |-> at(j)]
    <3>1. IsFiniteSet(DOMAIN tx.outputs)
      BY <1>1, FS_Interval
    <3>2. f \in Surjection(DOMAIN tx.outputs, pile)
      <4>1. f \in [DOMAIN tx.outputs -> pile]
        OBVIOUS
      <4>2. \A t \in pile : \E j \in DOMAIN tx.outputs : f[j] = t
        OBVIOUS
      <4> HIDE DEF f, pile
      <4>3. QED
        BY <4>1, <4>2 DEF Surjection
    <3> HIDE DEF f, pile
    <3>3. QED
      BY <3>1, <3>2, FS_Surjection
  <2>3. \A t \in pile : IsFiniteSet(t)
    BY <2>1
  <2>4. QED
    BY <2>2, <2>3, FS_UNION DEF TokensOut
<1>4. <<i, 1>> \in TokensOut(tx, u)
  <2>1. 1 \in 1..tx.outputs[i].value[u]
    BY <1>2
  <2>2. <<i, 1>> \in at(i)
    BY <2>1
  <2>3. QED
    BY <1>1, <2>2 DEF TokensOut
<1>5. ASSUME NEW x \in TokensIn(tx, u)
      PROVE  /\ x = <<x[1], x[2]>> /\ x[1] \in OrderInputs(tx)
             /\ moved[x] \in rest /\ moved[x] = <<h[x[1]], x[2]>>
  <2>1. PICK r \in OrderInputs(tx) : x \in {r} \X (1..utxo[r].value[u])
    BY DEF TokensIn
  <2>2. x = <<r, x[2]>> /\ x[1] = r /\ x[2] \in 1..tx.outputs[h[r]].value[u]
    BY <2>1
  <2>3. h[r] \in DOMAIN tx.outputs /\ h[r] # i
    OBVIOUS
  <2>4. <<h[r], x[2]>> \in at(h[r])
    BY <2>2
  <2>5. <<h[r], x[2]>> \in TokensOut(tx, u)
    BY <2>3, <2>4 DEF TokensOut
  <2>6. <<h[r], x[2]>> # <<i, 1>>
    BY <2>3
  <2>7. moved[x] = <<h[r], x[2]>>
    BY <2>2
  <2>8. QED
    BY <2>2, <2>5, <2>6, <2>7
<1>6. ASSUME NEW x \in TokensIn(tx, u), NEW y \in TokensIn(tx, u), moved[x] = moved[y]
      PROVE  x = y
  <2> HIDE DEF moved
  <2>1. h[x[1]] = h[y[1]] /\ x[2] = y[2]
    BY <1>5, <1>6
  <2>2. x[1] = y[1]
    BY <1>5, <2>1
  <2>3. QED
    BY <1>5, <2>1, <2>2
<1>7. moved \in Injection(TokensIn(tx, u), rest)
  <2>1. moved \in [TokensIn(tx, u) -> rest]
    BY <1>5
  <2> HIDE DEF moved, rest
  <2>2. QED
    BY <1>6, <2>1 DEF Injection, IsInjective
<1> HIDE DEF moved, at, pile
<1>8. /\ IsFiniteSet(rest) /\ Cardinality(rest) = Cardinality(TokensOut(tx, u)) - 1
      /\ Cardinality(TokensOut(tx, u)) \in Nat
  BY <1>3, <1>4, FS_RemoveElement, FS_CardinalityType
<1> HIDE DEF rest
<1>9. /\ IsFiniteSet(TokensIn(tx, u)) /\ Cardinality(TokensIn(tx, u)) <= Cardinality(rest)
  BY <1>7, <1>8, FS_Injection
<1>10. Cardinality(TokensIn(tx, u)) \in Nat
  BY <1>9, FS_CardinalityType
<1>11. QED
  BY <1>8, <1>9, <1>10

(* Without an order spent and without a positive mint there is nowhere for *)
(* a beacon to come from.                                                  *)
LEMMA NoBeaconsFromNothing ==
  ASSUME NEW tx, TypedTransaction(tx), BeaconsConserved(tx),
         OrderInputs(tx) = {}, \A u \in BeaconNames : tx.mint[u] <= 0
  PROVE  beacon_bearing_outputs(tx, BeaconPolicy) = {}
<1> SUFFICES ASSUME NEW i \in beacon_bearing_outputs(tx, BeaconPolicy) PROVE FALSE
  OBVIOUS
<1> DEFINE h == [r \in {} |-> i]
<1>1. PICK u \in BeaconNames : tx.outputs[i].value[u] > 0
  BY DEF beacon_bearing_outputs, has_tokens
<1>2. i \in DOMAIN tx.outputs
  BY DEF beacon_bearing_outputs
<1>3. h \in [OrderInputs(tx) -> DOMAIN tx.outputs \ {i}]
  OBVIOUS
<1> HIDE DEF h
<1>4. /\ Cardinality(TokensIn(tx, u)) \in Nat /\ Cardinality(TokensOut(tx, u)) \in Nat
      /\ Cardinality(TokensIn(tx, u)) < Cardinality(TokensOut(tx, u))
  BY <1>1, <1>2, <1>3, OneMoreToken
<1>5. Cardinality(TokensOut(tx, u)) = Cardinality(TokensIn(tx, u)) + tx.mint[u]
  BY <1>1 DEF BeaconsConserved
<1>6. tx.mint[u] \in Int /\ tx.mint[u] <= 0
  BY <1>1 DEF TypedTransaction
<1>7. QED
  BY <1>4, <1>5, <1>6

(***************************************************************************)
(* A partial take leaves a well-formed order.                              *)
(***************************************************************************)

(* The price of a partial take is at least pro rata, and exceeds that by   *)
(* less than one unit.                                                     *)
LEMMA RequiredPayment ==
  ASSUME NEW t \in Nat, NEW a \in Nat, NEW o \in Nat, o > 0
  PROVE  /\ required_payment(t, a, o) \in Nat
         /\ required_payment(t, a, o) * o >= t * a
         /\ required_payment(t, a, o) * o <= t * a + o - 1
<1> DEFINE n == t * a + o - 1
<1>1. n \in Nat
  <2>1. t * a \in Nat
    OBVIOUS
  <2>2. QED
    BY <2>1
<1>2. t * a \in Nat
  OBVIOUS
<1>3. required_payment(t, a, o) = n \div o
  BY DEF required_payment
<1> HIDE DEF n
<1>4. n \div o \in Nat /\ o * (n \div o) <= n /\ n < o * (n \div o) + o
  BY <1>1
<1>5. n = t * a + o - 1
  BY DEF n
<1>6. (n \div o) * o = o * (n \div o) /\ o * (n \div o) \in Nat
  BY <1>4
<1>7. QED
  BY <1>2, <1>3, <1>4, <1>5, <1>6

(* The five beacons of a well-formed order are beacon names, none of them  *)
(* an asset.                                                               *)
LEMMA OrderUnits ==
  ASSUME NEW o \in Outputs, WellFormedOrder(o)
  PROVE  /\ o.datum \in OrderDatums
         /\ o.datum.offer \in Assets /\ o.datum.ask \in Assets
         /\ beacon_set(o.datum) \subseteq BeaconNames
         /\ o.datum.offer \notin beacon_set(o.datum)
         /\ ADA \notin beacon_set(o.datum)
<1>1. o.datum \in OrderDatums /\ o.datum.owner \in Keys
      /\ o.datum.offer \notin BeaconNames /\ o.datum.ask \notin BeaconNames
  BY DEF WellFormedOrder
<1>2. o.datum.offer \in Units /\ o.datum.ask \in Units
  BY <1>1 DEF OrderDatums
<1>3. o.datum.offer \in Assets /\ o.datum.ask \in Assets
  BY <1>1, <1>2 DEF Units
<1>4. beacon_set(o.datum) \subseteq BeaconNames
  BY <1>1, <1>3 DEF beacon_set, BeaconNames
<1>5. ADA \in Assets /\ ADA \notin BeaconNames
  BY UnitsAssumption DEF Assets
<1>6. QED
  BY <1>1, <1>3, <1>4, <1>5

(* An accepted partial take of a well-formed order leaves a well-formed    *)
(* order: same owner, pair and deposit, amounts reduced and still positive.*)
LEMMA ContinuationWellFormed ==
  ASSUME NEW o \in Outputs, WellFormedOrder(o),
         NEW c \in Outputs,
         NEW take_amount \in Int, take_amount > 0, take_amount < o.datum.offer_amount,
         required_payment(take_amount, o.datum.ask_amount, o.datum.offer_amount) < o.datum.ask_amount,
         c.address = o.address,
         c.value = continuation_value(o.datum, o.value, take_amount),
         c.datum = continuation_datum(o.datum, take_amount)
  PROVE  /\ WellFormedOrder(c)
         /\ deposit(c.datum, c.value) = deposit(o.datum, o.value)
<1> DEFINE d == o.datum
           price == required_payment(take_amount, d.ask_amount, d.offer_amount)
<1>1. d \in OrderDatums /\ d.offer_amount \in Nat /\ d.ask_amount \in Nat
  BY OrderUnits DEF OrderDatums
<1>2. take_amount \in Nat /\ d.offer_amount > 0
  BY <1>1
<1>3. price \in Nat
  BY <1>1, <1>2, RequiredPayment
<1>4. /\ d.offer_amount - take_amount \in Nat /\ d.offer_amount - take_amount > 0
      /\ d.ask_amount - price \in Nat /\ d.ask_amount - price > 0
  BY <1>1, <1>2, <1>3
<1>5. /\ c.datum.version = d.version
      /\ c.datum.beacon_policy_id = d.beacon_policy_id
      /\ c.datum.owner = d.owner
      /\ c.datum.payment_address = d.payment_address
      /\ c.datum.offer = d.offer
      /\ c.datum.ask = d.ask
      /\ c.datum.offer_amount = d.offer_amount - take_amount
      /\ c.datum.ask_amount = d.ask_amount - price
  BY <1>1 DEF continuation_datum, OrderDatums
<1>6. c.datum \in OrderDatums
  BY <1>1, <1>4 DEF continuation_datum, OrderDatums
<1>7. beacon_set(c.datum) = beacon_set(d)
  BY <1>5 DEF beacon_set
<1>8. /\ o.value \in [Units -> Nat] /\ c.value \in [Units -> Nat]
      /\ d.offer \in Units /\ ADA \in Units
      /\ d.offer \notin beacon_set(d) /\ ADA \notin beacon_set(d)
  BY OrderUnits DEF Outputs, Values, Units, Assets
<1>9. /\ c.value[d.offer] = o.value[d.offer] - take_amount
      /\ \A u \in Units : u # d.offer => c.value[u] = o.value[u]
  BY <1>8 DEF continuation_value
<1>10. o.value = expected_value(d, o.value[ADA])
  BY DEF WellFormedOrder
<1>11. \A u \in Units : o.value[u] = IF u \in beacon_set(d) THEN 1
                                     ELSE IF u = ADA THEN o.value[ADA]
                                     ELSE IF u = d.offer THEN d.offer_amount
                                     ELSE 0
  BY <1>10 DEF expected_value
<1>12. ASSUME NEW u \in Units
       PROVE  c.value[u] = IF u \in beacon_set(c.datum) THEN 1
                           ELSE IF u = ADA THEN c.value[ADA]
                           ELSE IF u = c.datum.offer THEN c.datum.offer_amount
                           ELSE 0
  <2>1. CASE u \in beacon_set(d)
    BY <1>7, <1>8, <1>9, <1>11, <2>1
  <2>2. CASE u = ADA
    BY <1>7, <1>8, <2>2
  <2>3. CASE u = d.offer /\ u # ADA
    <3>1. o.value[u] = d.offer_amount
      BY <1>8, <1>11, <2>3
    <3>2. c.value[u] = c.datum.offer_amount
      BY <1>5, <1>9, <2>3, <3>1
    <3>3. QED
      BY <1>5, <1>7, <1>8, <2>3, <3>2
  <2>4. CASE u \notin beacon_set(d) /\ u # ADA /\ u # d.offer
    <3>1. o.value[u] = 0
      BY <1>11, <2>4
    <3>2. c.value[u] = 0
      BY <1>9, <2>4, <3>1
    <3>3. QED
      BY <1>5, <1>7, <2>4, <3>2
  <2>5. QED
    BY <2>1, <2>2, <2>3, <2>4
<1>13. c.value = expected_value(c.datum, c.value[ADA])
  BY <1>8, <1>12 DEF expected_value
<1>14. offer_covered(c) /\ deposit(c.datum, c.value) = deposit(d, o.value)
  <2>1. offer_covered(o)
    BY DEF WellFormedOrder
  <2>2. o.value[ADA] \in Nat /\ c.value[ADA] \in Nat
    BY <1>8
  <2>3. CASE d.offer = ADA
    <3>1. c.value[ADA] = o.value[ADA] - take_amount
      BY <1>9, <2>3
    <3>2. o.value[ADA] >= d.offer_amount
      BY <2>1, <2>3 DEF offer_covered, is_ada
    <3>3. QED
      BY <1>1, <1>2, <1>5, <2>2, <2>3, <3>1, <3>2 DEF offer_covered, deposit, is_ada
  <2>4. CASE d.offer # ADA
    BY <1>5, <1>8, <1>9, <2>2, <2>4 DEF offer_covered, deposit, is_ada
  <2>5. QED
    BY <2>3, <2>4
<1>15. QED
  BY <1>4, <1>5, <1>6, <1>13, <1>14 DEF WellFormedOrder

(***************************************************************************)
(* The invariant of the unmixed chains, and what an accepted transaction   *)
(* does to the orders.                                                     *)
(***************************************************************************)
Chain == TypeOK /\ ~mixed /\ BeaconsNeverLeak

(* An order at the validator's address is spent as the validator says.     *)
LEMMA Judged ==
  ASSUME NEW tx, TypedTransaction(tx), Accepted(tx), NEW r \in OrderInputs(tx),
         utxo[r].address.payment = Script
  PROVE  /\ r \in DOMAIN utxo /\ spend(utxo, r, tx)
         /\ tx.spends[r].kind \in {"CancelOrder", "TakeOrder", "TakeOrderPartial"}
         /\ tx.spends[r].take_amount \in Int
<1>1. r \in DOMAIN utxo /\ r \in Inputs(tx) /\ r \notin DOMAIN tx.imitations
  BY DEF Accepted, OrderInputs
<1>2. AtScript(utxo, r, tx)
  BY <1>1 DEF Accepted, InputAuthorised
<1>3. tx.spends[r] \in Redeemers
  BY <1>1 DEF TypedTransaction, Inputs
<1>4. QED
  BY <1>1, <1>2, <1>3 DEF AtScript, ScriptInputs, Redeemers

(* An output with the rank of a partial take is that take's continuation.  *)
LEMMA ParentOf ==
  ASSUME Chain, NEW tx, TypedTransaction(tx), Accepted(tx),
         NEW i \in beacon_bearing_outputs(tx, BeaconPolicy),
         NEW r \in Parents(tx, i)
  PROVE  LET d == utxo[r].datum
             o == tx.outputs[i]
             t == tx.spends[r].take_amount
         IN  /\ r \in OrderInputs(tx) /\ r \in DOMAIN utxo
             /\ tx.spends[r].kind = "TakeOrderPartial"
             /\ utxo[r] \in Outputs /\ WellFormedOrder(utxo[r])
             /\ t \in Int /\ t > 0 /\ t < d.offer_amount
             /\ required_payment(t, d.ask_amount, d.offer_amount) < d.ask_amount
             /\ o.address = utxo[r].address
             /\ o.value = continuation_value(d, utxo[r].value, t)
             /\ o.datum = continuation_datum(d, t)
<1> DEFINE d == utxo[r].datum
           t == tx.spends[r].take_amount
<1>1. /\ r \in OrderInputs(tx) /\ r \in partial_take_refs(tx)
      /\ tx.spends[r].kind = "TakeOrderPartial"
      /\ InputRank(tx, r) = OutputRank(tx, BeaconPolicy, i)
  BY DEF Parents, partial_take_refs
<1>2. r \in DOMAIN utxo
  BY <1>1 DEF Accepted
<1>3. utxo[r] \in Outputs /\ WellFormedOrder(utxo[r])
  BY <1>2 DEF Chain, TypeOK, BeaconsNeverLeak
<1>4. utxo[r].address.payment = Script /\ d.beacon_policy_id = BeaconPolicy
  BY <1>3 DEF WellFormedOrder
<1>5. r \in OrderInputs(tx)
  BY <1>1
<1>6. t \in Int
  BY <1>4, <1>5, Judged
<1>7. spend(utxo, r, tx)
  BY <1>4, <1>5, Judged
<1>8. take_partial_ok(utxo, r, tx)
  BY <1>1, <1>7 DEF spend
<1>9. PICK c \in beacon_bearing_outputs(tx, BeaconPolicy) :
        /\ OutputRank(tx, BeaconPolicy, c) = InputRank(tx, r)
        /\ tx.outputs[c].address = utxo[r].address
        /\ tx.outputs[c].value = continuation_value(d, utxo[r].value, t)
        /\ tx.outputs[c].datum = continuation_datum(d, t)
  BY <1>4, <1>8 DEF take_partial_ok
<1>10. c = i
  BY <1>1, <1>9, OutputRanks
<1>11. t > 0 /\ t < d.offer_amount
       /\ required_payment(t, d.ask_amount, d.offer_amount) < d.ask_amount
  BY <1>8 DEF take_partial_ok
<1>12. QED
  BY <1>1, <1>2, <1>3, <1>6, <1>9, <1>10, <1>11

(* Any other output with beacons is minted, unless the transaction is      *)
(* mixed: with a full take among the orders, as many outputs have beacons  *)
(* as orders are taken in part; without one, every order leaves its own    *)
(* beacons to its continuation.                                            *)
LEMMA OthersMinted ==
  ASSUME Chain, NEW tx, TypedTransaction(tx), Accepted(tx), ~Mixed(tx),
         NEW i \in beacon_bearing_outputs(tx, BeaconPolicy),
         Parents(tx, i) = {}
  PROVE  Minting(tx) /\ tx.mint_redeemer = "MintBeacons"
<1> SUFFICES ASSUME ~(Minting(tx) /\ tx.mint_redeemer = "MintBeacons") PROVE FALSE
  OBVIOUS
<1> DEFINE C == beacon_bearing_outputs(tx, BeaconPolicy)
<1>1. \A u \in BeaconNames : tx.mint[u] <= 0
  <2>1. \A u \in BeaconNames : tx.mint[u] \in Int
    BY DEF TypedTransaction
  <2>2. CASE ~Minting(tx)
    BY <2>1, <2>2 DEF Minting
  <2>3. CASE Minting(tx) /\ tx.mint_redeemer = "BurnBeacons"
    <3>1. burn_beacons_ok(tx)
      BY <2>3 DEF Accepted, mint
    <3>2. QED
      BY <2>1, <3>1 DEF burn_beacons_ok
  <2>4. QED
    BY <2>2, <2>3 DEF TypedTransaction
<1>2. ASSUME NEW r \in OrderInputs(tx)
      PROVE  /\ utxo[r].datum.beacon_policy_id = BeaconPolicy
             /\ spend(utxo, r, tx) /\ WellFormedOrder(utxo[r]) /\ utxo[r] \in Outputs
             /\ tx.spends[r].kind \in {"CancelOrder", "TakeOrder", "TakeOrderPartial"}
  <2>1. r \in DOMAIN utxo
    BY DEF Accepted
  <2>2. WellFormedOrder(utxo[r]) /\ utxo[r] \in Outputs
    BY <2>1 DEF Chain, BeaconsNeverLeak, TypeOK
  <2>3. utxo[r].address.payment = Script /\ utxo[r].datum.beacon_policy_id = BeaconPolicy
    BY <2>2 DEF WellFormedOrder
  <2>4. QED
    BY <2>2, <2>3, Judged
<1>3. ASSUME NEW r \in OrderInputs(tx) PROVE tx.spends[r].kind # "CancelOrder"
  <2> SUFFICES ASSUME tx.spends[r].kind = "CancelOrder" PROVE FALSE
    OBVIOUS
  <2>1. no_beacons_in_outputs(tx, BeaconPolicy)
    BY <1>2 DEF spend, cancel_ok
  <2>2. QED
    BY <2>1 DEF no_beacons_in_outputs, beacon_bearing_outputs
<1>4. ASSUME NEW r \in OrderInputs(tx) PROVE tx.spends[r].kind = "TakeOrderPartial"
  <2> SUFFICES ASSUME tx.spends[r].kind = "TakeOrder" PROVE FALSE
    BY <1>2, <1>3
  <2>1. beacon_accounting_ok(tx, BeaconPolicy)
    BY <1>2 DEF spend, take_ok
  <2>2. PICK q \in partial_take_refs(tx) : InputRank(tx, q) = OutputRank(tx, BeaconPolicy, i)
    BY <2>1, EveryOutputPaired
  <2>3. q \notin DOMAIN tx.imitations
    BY <2>2 DEF Mixed, partial_take_refs
  <2>4. q \in OrderInputs(tx)
    BY <2>2, <2>3 DEF OrderInputs, partial_take_refs
  <2>5. q \in Parents(tx, i)
    BY <2>2, <2>4 DEF Parents
  <2>6. QED
    BY <2>5
<1>5. ASSUME NEW r \in OrderInputs(tx)
      PROVE  \E c \in C \ {i} :
               /\ InputRank(tx, r) = OutputRank(tx, BeaconPolicy, c)
               /\ r \in partial_take_refs(tx)
               /\ \A u \in BeaconNames : tx.outputs[c].value[u] = utxo[r].value[u]
  <2> DEFINE d == utxo[r].datum
             t == tx.spends[r].take_amount
  <2>1. r \in partial_take_refs(tx)
    BY <1>4 DEF partial_take_refs, OrderInputs
  <2>2. take_partial_ok(utxo, r, tx)
    BY <1>2, <1>4 DEF spend
  <2>3. PICK c \in C : /\ OutputRank(tx, BeaconPolicy, c) = InputRank(tx, r)
                       /\ tx.outputs[c].value = continuation_value(d, utxo[r].value, t)
    BY <1>2, <2>2 DEF take_partial_ok
  <2>4. c # i
    BY <2>1, <2>3 DEF Parents
  <2>5. \A u \in BeaconNames : u # d.offer
    BY <1>2 DEF WellFormedOrder
  <2>6. \A u \in BeaconNames : tx.outputs[c].value[u] = utxo[r].value[u]
    BY <1>2, <2>3, <2>5 DEF continuation_value, Outputs, Values, Units
  <2>7. QED
    BY <2>1, <2>3, <2>4, <2>6
<1> DEFINE home(r, c) == /\ InputRank(tx, r) = OutputRank(tx, BeaconPolicy, c)
                         /\ r \in partial_take_refs(tx)
                         /\ \A u \in BeaconNames : tx.outputs[c].value[u] = utxo[r].value[u]
           h == [r \in OrderInputs(tx) |-> CHOOSE c \in C \ {i} : home(r, c)]
<1>6. \A r \in OrderInputs(tx) : h[r] \in C \ {i} /\ home(r, h[r])
  BY <1>5
<1>7. PICK u \in BeaconNames : tx.outputs[i].value[u] > 0
  BY DEF beacon_bearing_outputs, has_tokens
<1>8. C \subseteq DOMAIN tx.outputs
  BY DEF beacon_bearing_outputs
<1>9. h \in [OrderInputs(tx) -> DOMAIN tx.outputs \ {i}]
  <2>1. h \in [OrderInputs(tx) -> C \ {i}]
    BY <1>6
  <2> HIDE DEF h, C
  <2>2. QED
    BY <1>8, <2>1
<1> HIDE DEF h
<1>10. \A q, r \in OrderInputs(tx) : h[q] = h[r] => q = r
  BY <1>6, PartialTakes
<1>11. \A r \in OrderInputs(tx) : tx.outputs[h[r]].value[u] = utxo[r].value[u]
  BY <1>6
<1>12. i \in DOMAIN tx.outputs
  BY <1>8
<1>13. /\ Cardinality(TokensIn(tx, u)) \in Nat /\ Cardinality(TokensOut(tx, u)) \in Nat
       /\ Cardinality(TokensIn(tx, u)) < Cardinality(TokensOut(tx, u))
  BY <1>7, <1>9, <1>10, <1>11, <1>12, OneMoreToken
<1>14. Cardinality(TokensOut(tx, u)) = Cardinality(TokensIn(tx, u)) + tx.mint[u]
  BY DEF Accepted, BeaconsConserved
<1>15. tx.mint[u] \in Int /\ tx.mint[u] <= 0
  BY <1>1 DEF TypedTransaction
<1>16. QED
  BY <1>13, <1>14, <1>15

(* It is a new order that the minting policy passed.                       *)
LEMMA MintedOrder ==
  ASSUME Chain, NEW tx, TypedTransaction(tx), Accepted(tx), ~Mixed(tx),
         NEW i \in beacon_bearing_outputs(tx, BeaconPolicy),
         Parents(tx, i) = {}
  PROVE  WellFormedOrder(tx.outputs[i])
<1>1. mint_beacons_ok(tx)
  BY OthersMinted DEF Accepted, mint
<1>2. PICK j \in DOMAIN tx.outputs :
        beacon_bearing_outputs(tx, BeaconPolicy) = {j} /\ WellFormedOrder(tx.outputs[j])
  BY <1>1 DEF mint_beacons_ok
<1>3. QED
  BY <1>2

(* Every output with beacons is a well-formed order.                       *)
LEMMA OutputsWellFormed ==
  ASSUME Chain, NEW tx, TypedTransaction(tx), Accepted(tx), ~Mixed(tx),
         NEW i \in beacon_bearing_outputs(tx, BeaconPolicy)
  PROVE  tx.outputs[i] \in Outputs /\ WellFormedOrder(tx.outputs[i])
<1>1. tx.outputs[i] \in Outputs
  BY BearingOutputs
<1>2. CASE Parents(tx, i) = {}
  BY <1>1, <1>2, MintedOrder
<1>3. CASE Parents(tx, i) # {}
  <2>1. PICK r \in Parents(tx, i) : TRUE
    BY <1>3
  <2>2. QED
    BY <1>1, <2>1, ParentOf, ContinuationWellFormed
<1>4. QED
  BY <1>2, <1>3

----------------------------------------------------------------------------
(***************************************************************************)
(* Type correctness and the trust chain.                                   *)
(***************************************************************************)
LEMMA InitTyped == Init => TypeOK
<1> SUFFICES ASSUME Init PROVE TypeOK
  OBVIOUS
<1>1. DOMAIN utxo = {} /\ DOMAIN lineage = {} /\ DOMAIN closed = {} /\ DOMAIN credit = {}
  BY DEF Init
<1>2. clock \in Nat /\ txids = {} /\ mixed \in BOOLEAN
  BY DEF Init
<1>3. DOMAIN surplus = Keys /\ \A k \in Keys : DOMAIN surplus[k] = Assets
  BY DEF Init
<1>4. QED
  BY <1>1, <1>2, <1>3 DEF TypeOK

LEMMA SubmitTyped ==
  ASSUME TypeOK, NEW tx, TypedTransaction(tx), Accepted(tx), NEW id \in TxIds, Submit(tx, id)
  PROVE  TypeOK'
<1> DEFINE kept == DOMAIN utxo \ OrderInputs(tx)
           new  == NewRefs(tx, id)
<1>1. /\ utxo' = [r \in kept \cup new |-> IF r \in new THEN tx.outputs[r[2]] ELSE utxo[r]]
      /\ lineage' = [r \in kept \cup new |-> IF r \in new THEN LineageOf(tx, r) ELSE lineage[r]]
      /\ DOMAIN closed' = DOMAIN closed \cup OrderInputs(tx)
      /\ txids' = txids \cup {id}
      /\ credit' = Credited(tx, id)
      /\ clock' = clock
  BY DEF Submit
<1>2. /\ DOMAIN utxo \subseteq txids \X Nat /\ txids \subseteq TxIds /\ TxIds \subseteq Nat
      /\ clock \in Nat
      /\ DOMAIN lineage = DOMAIN utxo
      /\ DOMAIN closed \subseteq txids \X Nat
      /\ DOMAIN credit \subseteq txids \X Nat
      /\ \A r \in DOMAIN utxo : utxo[r] \in Outputs /\ lineage[r] \in Lineages
                                /\ lineage[r].root \in DOMAIN credit
      /\ \A root \in DOMAIN credit : credit[root] \in Nat
  BY TxIdsAssumption DEF TypeOK
<1>3. OrderInputs(tx) \subseteq DOMAIN utxo
  BY DEF Accepted
<1>4. \A r \in new : \E i \in beacon_bearing_outputs(tx, BeaconPolicy) : r = <<id, i>>
  BY DEF NewRefs
<1>5. \A r \in new : r = <<id, r[2]>> /\ r[2] \in beacon_bearing_outputs(tx, BeaconPolicy)
  BY <1>4
<1>6. beacon_bearing_outputs(tx, BeaconPolicy) \subseteq Nat
  BY BearingOutputs
<1>7. new \subseteq txids' \X Nat /\ new \subseteq Refs /\ txids' \subseteq TxIds
  <2>1. id \in txids' /\ id \in Nat /\ txids' \subseteq TxIds
    BY <1>1, <1>2
  <2>2. \A r \in new : r = <<id, r[2]>> /\ r[2] \in Nat
    BY <1>5, <1>6
  <2> HIDE DEF new
  <2>3. new \subseteq txids' \X Nat /\ new \subseteq Nat \X Nat
    BY ONLY <2>1, <2>2
  <2>4. QED
    BY <2>1, <2>3 DEF Refs
<1>8. \A r \in new : tx.outputs[r[2]] \in Outputs
  BY <1>5, BearingOutputs
<1>9. /\ DOMAIN utxo' = kept \cup new /\ DOMAIN lineage' = kept \cup new
      /\ \A r \in new : utxo'[r] = tx.outputs[r[2]] /\ lineage'[r] = LineageOf(tx, r)
      /\ \A r \in kept \ new : utxo'[r] = utxo[r] /\ lineage'[r] = lineage[r]
  BY <1>1
<1> HIDE DEF kept, new
<1>10. \A r \in DOMAIN utxo' : utxo'[r] \in Outputs
  BY <1>2, <1>8, <1>9 DEF kept
<1>11. ASSUME NEW r \in new PROVE LineageOf(tx, r) \in Lineages
  <2>1. r \in Refs /\ r[2] \in beacon_bearing_outputs(tx, BeaconPolicy)
    BY <1>5, <1>7
  <2>2. CASE Parents(tx, r[2]) = {}
    <3> DEFINE o == tx.outputs[r[2]]
    <3>1. o \in Outputs
      BY <1>8
    <3>2. LineageOf(tx, r) = Placed(r, o)
      BY <2>2 DEF LineageOf
    <3> HIDE DEF o
    <3>3. CASE WellFormedOrder(o)
      <4>1. o.datum \in OrderDatums /\ offer_covered(o)
        BY <3>3 DEF WellFormedOrder
      <4>2. o.datum.offer_amount \in Nat /\ o.datum.ask_amount \in Nat /\ o.value[ADA] \in Nat
        BY <3>1, <4>1 DEF OrderDatums, Outputs, Values, Units, Assets
      <4>3. deposit(o.datum, o.value) \in Nat
        BY <4>1, <4>2 DEF offer_covered, deposit, is_ada
      <4>4. Placed(r, o) = [root |-> r, offer |-> o.datum.offer_amount, ask |-> o.datum.ask_amount,
                            deposit |-> deposit(o.datum, o.value), fills |-> 0]
        BY <3>3 DEF Placed
      <4>5. QED
        BY <2>1, <3>2, <4>2, <4>3, <4>4 DEF Lineages
    <3>4. CASE ~WellFormedOrder(o)
      <4>1. Placed(r, o) = [root |-> r, offer |-> 0, ask |-> 0, deposit |-> 0, fills |-> 0]
        BY <3>4 DEF Placed
      <4>2. QED
        BY <2>1, <3>2, <4>1 DEF Lineages
    <3>5. QED
      BY <3>3, <3>4
  <2>3. CASE Parents(tx, r[2]) # {}
    <3> DEFINE q == CHOOSE q \in Parents(tx, r[2]) : TRUE
    <3>1. q \in Parents(tx, r[2])
      BY <2>3
    <3>2. lineage[q] \in Lineages
      BY <1>2, <1>3, <3>1 DEF Parents
    <3>3. LineageOf(tx, r) = [lineage[q] EXCEPT !.fills = @ + 1]
      BY <2>3 DEF LineageOf
    <3> HIDE DEF q
    <3>4. QED
      BY <3>2, <3>3 DEF Lineages
  <2>4. QED
    BY <2>2, <2>3
<1>12. \A r \in DOMAIN utxo' : lineage'[r] \in Lineages
  BY <1>2, <1>9, <1>11 DEF kept
<1>13. /\ DOMAIN credit' = DOMAIN credit \cup {LineageOf(tx, r).root : r \in new}
       /\ \A root \in DOMAIN credit' : credit'[root] \in Nat
       /\ DOMAIN credit' \subseteq txids' \X Nat
  <2> DEFINE fresh == {LineageOf(tx, r).root : r \in new}
             taken(root) == {r \in OrderInputs(tx) :
                               tx.spends[r].kind \in TakeKinds /\ lineage[r].root = root}
  <2>1. credit' = [root \in DOMAIN credit \cup fresh |->
                     IF root \notin DOMAIN credit THEN 0
                     ELSE IF taken(root) = {} THEN credit[root]
                     ELSE credit[root] + PaidFor(tx, CHOOSE r \in taken(root) : TRUE)]
    BY <1>1 DEF Credited, new
  <2>2. ASSUME NEW r \in OrderInputs(tx) PROVE PaidFor(tx, r) \in Nat
    <3> DEFINE tagged == {i \in DOMAIN tx.outputs : tx.outputs[i].datum = PaymentTag(r)}
    <3>1. CASE tagged = {} \/ utxo[r].datum \notin OrderDatums
      BY <3>1 DEF PaidFor
    <3>2. CASE tagged # {} /\ utxo[r].datum \in OrderDatums
      <4> DEFINE p == CHOOSE i \in tagged : TRUE
      <4>1. p \in DOMAIN tx.outputs
        BY <3>2
      <4>2. PaidFor(tx, r) = tx.outputs[p].value[utxo[r].datum.ask]
        BY <3>2 DEF PaidFor
      <4> HIDE DEF p
      <4>3. tx.outputs \in Seq(Outputs)
        BY DEF TypedTransaction
      <4>4. tx.outputs[p] \in Outputs
        BY <4>1, <4>3
      <4>5. QED
        BY <3>2, <4>2, <4>4 DEF Outputs, Values, OrderDatums
    <3>3. QED
      BY <3>1, <3>2
  <2>3. ASSUME NEW root \in DOMAIN credit' PROVE credit'[root] \in Nat
    <3>1. CASE root \notin DOMAIN credit
      BY <2>1, <3>1
    <3>2. CASE root \in DOMAIN credit /\ taken(root) = {}
      BY <1>2, <2>1, <3>2
    <3>3. CASE root \in DOMAIN credit /\ taken(root) # {}
      <4> DEFINE q == CHOOSE r \in taken(root) : TRUE
      <4>1. q \in OrderInputs(tx)
        BY <3>3
      <4>2. PaidFor(tx, q) \in Nat /\ credit[root] \in Nat
        BY <1>2, <2>2, <3>3, <4>1
      <4>3. credit'[root] = credit[root] + PaidFor(tx, q)
        BY <2>1, <3>3
      <4> HIDE DEF q
      <4>4. QED
        BY <4>2, <4>3
    <3>4. QED
      BY <3>1, <3>2, <3>3
  <2>4. ASSUME NEW r \in new PROVE LineageOf(tx, r).root \in txids' \X Nat
    <3>1. r \in txids' \X Nat /\ r[2] \in beacon_bearing_outputs(tx, BeaconPolicy)
      BY <1>5, <1>7
    <3>2. CASE Parents(tx, r[2]) = {}
      BY <3>1, <3>2 DEF LineageOf, Placed
    <3>3. CASE Parents(tx, r[2]) # {}
      <4> DEFINE q == CHOOSE q \in Parents(tx, r[2]) : TRUE
      <4>1. q \in DOMAIN utxo
        BY <1>3, <3>3 DEF Parents
      <4>2. lineage[q] \in Lineages /\ lineage[q].root \in txids \X Nat
        BY <1>2, <4>1
      <4>3. LineageOf(tx, r) = [lineage[q] EXCEPT !.fills = @ + 1]
        BY <3>3 DEF LineageOf
      <4> HIDE DEF q
      <4>4. LineageOf(tx, r).root = lineage[q].root
        BY <4>2, <4>3 DEF Lineages
      <4>5. QED
        BY <1>1, <4>2, <4>4
    <3>4. QED
      BY <3>2, <3>3
  <2>5. DOMAIN credit' = DOMAIN credit \cup fresh
    BY <2>1
  <2>6. fresh \subseteq txids' \X Nat
    BY <2>4
  <2>7. DOMAIN credit \subseteq txids' \X Nat
    BY <1>1, <1>2
  <2>8. QED
    BY <2>3, <2>5, <2>6, <2>7
<1>14. \A r \in DOMAIN utxo' : lineage'[r].root \in DOMAIN credit'
  BY <1>2, <1>9, <1>13 DEF kept
<1>15. DOMAIN utxo' \subseteq txids' \X Nat /\ DOMAIN closed' \subseteq txids' \X Nat
  BY <1>1, <1>2, <1>3, <1>7, <1>9 DEF kept
<1>16. DOMAIN surplus' = Keys /\ \A k \in Keys : DOMAIN surplus'[k] = Assets
  BY DEF Submit
<1>17. mixed' \in BOOLEAN
  BY DEF Submit, Mixed
<1>18. clock' \in Nat /\ DOMAIN lineage' = DOMAIN utxo' /\ txids' \subseteq TxIds
  BY <1>1, <1>2, <1>7, <1>9
<1>19. QED
  BY <1>10, <1>12, <1>13, <1>14, <1>15, <1>16, <1>17, <1>18 DEF TypeOK

LEMMA NextTyped == TypeOK /\ [Next]_vars => TypeOK'
<1> SUFFICES ASSUME TypeOK, [Next]_vars PROVE TypeOK'
  OBVIOUS
<1>1. CASE Tick
  BY <1>1 DEF Tick, TypeOK
<1>2. CASE \E tx \in Offered(utxo), id \in TxIds :
             TypedTransaction(tx) /\ Accepted(tx) /\ Submit(tx, id)
  BY <1>2, SubmitTyped
<1>3. CASE UNCHANGED vars
  BY <1>3 DEF vars, TypeOK
<1>4. QED
  BY <1>1, <1>2, <1>3 DEF Next

(* The UTxO set, the lineages and the credits have the shape TypeOK says,  *)
(* mixed transactions or not.                                              *)
THEOREM TypeCorrect == Spec => []TypeOK
<1>1. QED
  BY InitTyped, NextTyped, PTL DEF Spec

LEMMA InitChain == Init => Chain
<1>1. Init => ~mixed /\ BeaconsNeverLeak
  BY DEF Init, BeaconsNeverLeak
<1>2. QED
  BY <1>1, InitTyped DEF Chain

LEMMA SubmitChain ==
  ASSUME Chain, NEW tx, TypedTransaction(tx), Accepted(tx), ~Mixed(tx),
         NEW id \in TxIds, Submit(tx, id)
  PROVE  Chain'
<1> DEFINE kept == DOMAIN utxo \ OrderInputs(tx)
           new  == NewRefs(tx, id)
<1>1. /\ utxo' = [r \in kept \cup new |-> IF r \in new THEN tx.outputs[r[2]] ELSE utxo[r]]
      /\ mixed' = (mixed \/ Mixed(tx))
  BY DEF Submit
<1>2. TypeOK' /\ ~mixed'
  BY <1>1, SubmitTyped DEF Chain
<1>3. \A r \in new : r[2] \in beacon_bearing_outputs(tx, BeaconPolicy)
  BY DEF NewRefs
<1>4. \A r \in new : WellFormedOrder(tx.outputs[r[2]])
  BY <1>3, OutputsWellFormed
<1>5. \A r \in kept : WellFormedOrder(utxo[r])
  BY DEF Chain, BeaconsNeverLeak
<1> HIDE DEF kept, new
<1>6. DOMAIN utxo' = kept \cup new
      /\ \A r \in kept \cup new : utxo'[r] = IF r \in new THEN tx.outputs[r[2]] ELSE utxo[r]
  BY <1>1
<1>7. \A r \in DOMAIN utxo' : WellFormedOrder(utxo'[r])
  BY <1>4, <1>5, <1>6
<1>8. BeaconsNeverLeak'
  BY <1>7 DEF BeaconsNeverLeak
<1>9. QED
  BY <1>2, <1>8 DEF Chain

LEMMA NextChain == Chain /\ [Next]_vars => Chain' \/ mixed'
<1> SUFFICES ASSUME Chain, [Next]_vars PROVE Chain' \/ mixed'
  OBVIOUS
<1>1. CASE Tick
  <2>1. TypeOK'
    BY NextTyped DEF Chain
  <2>2. QED
    BY <1>1, <2>1 DEF Tick, Chain, BeaconsNeverLeak
<1>2. ASSUME NEW tx, NEW id \in TxIds, TypedTransaction(tx), Accepted(tx), Submit(tx, id)
      PROVE  Chain' \/ mixed'
  <2>1. mixed' = (mixed \/ Mixed(tx))
    BY <1>2 DEF Submit
  <2>2. CASE Mixed(tx)
    BY <2>1, <2>2
  <2>3. CASE ~Mixed(tx)
    BY <1>2, <2>3, SubmitChain
  <2>4. QED
    BY <2>2, <2>3
<1>3. CASE UNCHANGED vars
  <2>1. TypeOK'
    BY NextTyped DEF Chain
  <2>2. QED
    BY <1>3, <2>1 DEF vars, Chain, BeaconsNeverLeak
<1>4. QED
  BY <1>1, <1>2, <1>3 DEF Next

(* Once mixed, a chain is so for good.                                     *)
LEMMA MixedStays == mixed /\ [Next]_vars => mixed'
<1> SUFFICES ASSUME mixed, [Next]_vars PROVE mixed'
  OBVIOUS
<1>1. CASE Tick
  BY <1>1 DEF Tick
<1>2. ASSUME NEW tx, NEW id, Submit(tx, id) PROVE mixed'
  BY <1>2 DEF Submit
<1>3. CASE UNCHANGED vars
  BY <1>3 DEF vars
<1>4. QED
  BY <1>1, <1>2, <1>3 DEF Next

(* The trust chain of the two scripts: whatever transactions are tried, an *)
(* output that carries a beacon is a well-formed order, as long as no      *)
(* imitation is taken in part beside an order taken in full.  Imitations   *)
(* in any other company leave every beacon with an order.                  *)
THEOREM BeaconsAlwaysMarkOrders == Spec => []BeaconsMarkOrders
<1>1. Chain \/ mixed => BeaconsMarkOrders
  BY DEF Chain, BeaconsMarkOrders
<1>2. Init => Chain \/ mixed
  BY InitChain
<1>3. (Chain \/ mixed) /\ [Next]_vars => (Chain \/ mixed)'
  BY NextChain, MixedStays
<1>4. QED
  BY <1>1, <1>2, <1>3, PTL DEF Spec

----------------------------------------------------------------------------
(***************************************************************************)
(* The price of an order and its payment.                                  *)
(***************************************************************************)

(* o and a are the remaining offer and ask, o0 and a0 those of the          *)
(* placement, t the amount taken and q the price paid for it.  When q is at *)
(* least pro rata to what remains, what is left keeps at least the price of *)
(* the placement.                                                          *)
LEMMA PriceKept ==
  ASSUME NEW o \in Nat, NEW a \in Nat, NEW o0 \in Nat, NEW a0 \in Nat,
         NEW t \in Nat, NEW q \in Nat, 0 < t, t < o, q < a,
         q * o >= t * a, a * o0 <= a0 * o
  PROVE  (a - q) * o0 <= a0 * (o - t)
<1>1. o * ((a - q) * o0) = a * o * o0 - o0 * (q * o)
  OBVIOUS
<1>2. o0 * (t * a) <= o0 * (q * o)
  BY TimesMonotone, t * a \in Int, q * o \in Int
<1>3. (o - t) * (a * o0) <= (o - t) * (a0 * o)
  BY TimesMonotone, a * o0 \in Int, a0 * o \in Int, o - t \in Nat
<1>4. (o - t) * (a * o0) = a * o * o0 - o0 * (t * a)
  OBVIOUS
<1>5. (o - t) * (a0 * o) = o * (a0 * (o - t))
  OBVIOUS
<1>6. /\ a * o * o0 \in Int /\ o0 * (q * o) \in Int /\ o0 * (t * a) \in Int
      /\ o * (a0 * (o - t)) \in Int
  OBVIOUS
<1>7. o * ((a - q) * o0) <= o * (a0 * (o - t))
  BY <1>1, <1>2, <1>3, <1>4, <1>5, <1>6
<1>8. (a - q) * o0 \in Int /\ a0 * (o - t) \in Int /\ o > 0
  OBVIOUS
<1>9. QED
  BY <1>7, <1>8, TimesCancel

(* When q exceeds its pro rata price by less than one unit, it also exceeds *)
(* the pro rata price of the placement by less than one unit.               *)
LEMMA OneUnitOfRounding ==
  ASSUME NEW o \in Nat, NEW a \in Nat, NEW o0 \in Nat, NEW a0 \in Nat,
         NEW t \in Nat, NEW q \in Nat, o > 0, o <= o0,
         q * o <= t * a + o - 1, a * o0 <= a0 * o
  PROVE  q * o0 <= t * a0 + o0 - 1
<1>1. o0 * (q * o) <= o0 * (t * a + o - 1)
  BY TimesMonotone, q * o \in Int, t * a + o - 1 \in Int
<1>2. o0 * (t * a + o - 1) = t * (a * o0) + o * o0 - o0
  OBVIOUS
<1>3. t * (a * o0) <= t * (a0 * o)
  BY TimesMonotone, a * o0 \in Int, a0 * o \in Int
<1>4. o * (t * a0 + o0 - 1) = t * (a0 * o) + o * o0 - o
  OBVIOUS
<1>5. o * (q * o0) = o0 * (q * o)
  OBVIOUS
<1>6. /\ o0 * (q * o) \in Int /\ t * (a * o0) \in Int /\ t * (a0 * o) \in Int
      /\ o * o0 \in Int
  OBVIOUS
<1>7. o * (q * o0) <= o * (t * a0 + o0 - 1)
  BY <1>1, <1>2, <1>3, <1>4, <1>5, <1>6
<1>8. q * o0 \in Int /\ t * a0 + o0 - 1 \in Int
  OBVIOUS
<1>9. QED
  BY <1>7, <1>8, TimesCancel

(***************************************************************************)
(* The invariant.  Beside the three properties it bounds the remaining     *)
(* amounts by those of the placement: rounding against the remaining offer *)
(* costs less than a unit of the placed one only because it is smaller.    *)
(***************************************************************************)
PricedOrder(o, l) ==
  LET d == o.datum IN
  /\ d.offer_amount <= l.offer
  /\ d.ask_amount <= l.ask
  /\ d.ask_amount * l.offer <= l.ask * d.offer_amount
  /\ (l.ask - d.ask_amount) * l.offer
       <= (l.offer - d.offer_amount) * l.ask + l.fills * (l.offer - 1)
  /\ deposit(d, o.value) = l.deposit

Priced == \A r \in DOMAIN utxo : PricedOrder(utxo[r], lineage[r])

PriceChain == Chain /\ Priced

(* A new order is priced as placed.                                        *)
LEMMA PlacedPriced ==
  ASSUME NEW ref, NEW o \in Outputs, WellFormedOrder(o)
  PROVE  PricedOrder(o, Placed(ref, o))
<1>1. o.datum \in OrderDatums
  BY DEF WellFormedOrder
<1>2. o.datum.offer_amount \in Nat /\ o.datum.ask_amount \in Nat
  BY <1>1 DEF OrderDatums
<1>3. /\ Placed(ref, o).offer = o.datum.offer_amount
      /\ Placed(ref, o).ask = o.datum.ask_amount
      /\ Placed(ref, o).deposit = deposit(o.datum, o.value)
      /\ Placed(ref, o).fills = 0
  BY DEF Placed
<1>4. QED
  BY <1>2, <1>3 DEF PricedOrder

(* A continuation of a priced order is priced.                             *)
LEMMA ContinuationPriced ==
  ASSUME NEW o \in Outputs, WellFormedOrder(o),
         NEW c \in Outputs, NEW l \in Lineages, PricedOrder(o, l),
         NEW t \in Int, t > 0, t < o.datum.offer_amount,
         required_payment(t, o.datum.ask_amount, o.datum.offer_amount) < o.datum.ask_amount,
         c.address = o.address,
         c.value = continuation_value(o.datum, o.value, t),
         c.datum = continuation_datum(o.datum, t)
  PROVE  PricedOrder(c, [l EXCEPT !.fills = @ + 1])
<1> DEFINE d == o.datum
           q == required_payment(t, d.ask_amount, d.offer_amount)
           m == [l EXCEPT !.fills = @ + 1]
<1>1. d \in OrderDatums /\ d.offer_amount \in Nat /\ d.ask_amount \in Nat
  BY DEF WellFormedOrder, OrderDatums
<1>2. /\ l.offer \in Nat /\ l.ask \in Nat /\ l.fills \in Nat
      /\ m.offer = l.offer /\ m.ask = l.ask /\ m.deposit = l.deposit
      /\ m.fills = l.fills + 1
  BY DEF Lineages
<1>3. t \in Nat /\ d.offer_amount > 0
  BY <1>1
<1>4. /\ q \in Nat /\ q < d.ask_amount
      /\ q * d.offer_amount >= t * d.ask_amount
      /\ q * d.offer_amount <= t * d.ask_amount + d.offer_amount - 1
  BY <1>1, <1>3, RequiredPayment
<1>5. /\ c.datum.offer_amount = d.offer_amount - t
      /\ c.datum.ask_amount = d.ask_amount - q
  BY <1>1 DEF continuation_datum, OrderDatums
<1>6. deposit(c.datum, c.value) = deposit(d, o.value)
  BY ContinuationWellFormed
<1> HIDE DEF d, q, m
<1>7. /\ d.offer_amount <= l.offer
      /\ d.ask_amount <= l.ask
      /\ d.ask_amount * l.offer <= l.ask * d.offer_amount
      /\ (l.ask - d.ask_amount) * l.offer
           <= (l.offer - d.offer_amount) * l.ask + l.fills * (l.offer - 1)
      /\ deposit(d, o.value) = l.deposit
  BY DEF PricedOrder, d
<1>8. t > 0 /\ t < d.offer_amount
  BY DEF d
<1>9. (d.ask_amount - q) * l.offer <= l.ask * (d.offer_amount - t)
  BY <1>1, <1>2, <1>3, <1>4, <1>7, <1>8, PriceKept
<1>10. q * l.offer <= t * l.ask + l.offer - 1
  BY <1>1, <1>2, <1>3, <1>4, <1>7, OneUnitOfRounding
<1>11. (l.ask - (d.ask_amount - q)) * l.offer
         <= (l.offer - (d.offer_amount - t)) * l.ask + (l.fills + 1) * (l.offer - 1)
  <2>1. (l.ask - (d.ask_amount - q)) * l.offer = (l.ask - d.ask_amount) * l.offer + q * l.offer
    BY <1>1, <1>2, <1>4
  <2>2. (l.offer - (d.offer_amount - t)) * l.ask = (l.offer - d.offer_amount) * l.ask + t * l.ask
    BY <1>1, <1>2, <1>3
  <2>3. (l.fills + 1) * (l.offer - 1) = l.fills * (l.offer - 1) + l.offer - 1
    BY <1>2
  <2>4. /\ (l.ask - d.ask_amount) * l.offer \in Int /\ q * l.offer \in Int
        /\ (l.offer - d.offer_amount) * l.ask \in Int /\ t * l.ask \in Int
        /\ l.fills * (l.offer - 1) \in Int /\ l.offer \in Int
    BY <1>1, <1>2, <1>3, <1>4
  <2>5. QED
    BY <1>7, <1>10, <2>1, <2>2, <2>3, <2>4
<1>12. c.datum.offer_amount <= l.offer /\ c.datum.ask_amount <= l.ask
  BY <1>1, <1>2, <1>3, <1>4, <1>5, <1>7
<1>13. PricedOrder(c, m)
  BY <1>2, <1>5, <1>6, <1>7, <1>9, <1>11, <1>12 DEF PricedOrder
<1>14. QED
  BY <1>13 DEF m

LEMMA InitPriceChain == Init => PriceChain
<1>1. Init => Priced
  BY DEF Init, Priced
<1>2. QED
  BY <1>1, InitChain DEF PriceChain

LEMMA SubmitPriced ==
  ASSUME PriceChain, NEW tx, TypedTransaction(tx), Accepted(tx), ~Mixed(tx),
         NEW id \in TxIds, Submit(tx, id)
  PROVE  Priced'
<1> DEFINE kept == DOMAIN utxo \ OrderInputs(tx)
           new  == NewRefs(tx, id)
<1>1. Chain /\ Priced
  BY DEF PriceChain
<1>2. /\ utxo' = [r \in kept \cup new |-> IF r \in new THEN tx.outputs[r[2]] ELSE utxo[r]]
      /\ lineage' = [r \in kept \cup new |-> IF r \in new THEN LineageOf(tx, r) ELSE lineage[r]]
  BY DEF Submit
<1>3. \A r \in new : r[2] \in beacon_bearing_outputs(tx, BeaconPolicy)
  BY DEF NewRefs
<1> HIDE DEF kept, new
<1>4. ASSUME NEW r \in new PROVE PricedOrder(tx.outputs[r[2]], LineageOf(tx, r))
  <2> DEFINE o == tx.outputs[r[2]]
  <2>1. o \in Outputs /\ WellFormedOrder(o)
    BY <1>1, <1>3, OutputsWellFormed
  <2> HIDE DEF o
  <2>2. CASE Parents(tx, r[2]) = {}
    <3>1. LineageOf(tx, r) = Placed(r, o)
      BY <2>2 DEF LineageOf, o
    <3>2. PricedOrder(o, Placed(r, o))
      BY <2>1, PlacedPriced
    <3>3. QED
      BY <3>1, <3>2 DEF o
  <2>3. CASE Parents(tx, r[2]) # {}
    <3> DEFINE q == CHOOSE q \in Parents(tx, r[2]) : TRUE
               t == tx.spends[q].take_amount
    <3>1. q \in Parents(tx, r[2])
      BY <2>3
    <3>2. LineageOf(tx, r) = [lineage[q] EXCEPT !.fills = @ + 1]
      BY <2>3 DEF LineageOf
    <3> HIDE DEF q
    <3>3. /\ q \in DOMAIN utxo /\ utxo[q] \in Outputs /\ WellFormedOrder(utxo[q])
          /\ t \in Int /\ t > 0 /\ t < utxo[q].datum.offer_amount
          /\ required_payment(t, utxo[q].datum.ask_amount, utxo[q].datum.offer_amount)
               < utxo[q].datum.ask_amount
          /\ o.address = utxo[q].address
          /\ o.value = continuation_value(utxo[q].datum, utxo[q].value, t)
          /\ o.datum = continuation_datum(utxo[q].datum, t)
      BY <1>1, <1>3, <3>1, ParentOf DEF o
    <3>4. lineage[q] \in Lineages /\ PricedOrder(utxo[q], lineage[q])
      BY <1>1, <3>3 DEF Chain, TypeOK, Priced
    <3> HIDE DEF t
    <3>5. PricedOrder(o, [lineage[q] EXCEPT !.fills = @ + 1])
      BY <2>1, <3>3, <3>4, ContinuationPriced
    <3>6. QED
      BY <3>2, <3>5 DEF o
  <2>4. QED
    BY <2>2, <2>3
<1>5. ASSUME NEW r \in DOMAIN utxo' PROVE PricedOrder(utxo'[r], lineage'[r])
  <2>1. CASE r \in new
    BY <1>2, <1>4, <2>1
  <2>2. CASE r \notin new
    <3>1. r \in kept /\ utxo'[r] = utxo[r] /\ lineage'[r] = lineage[r]
      BY <1>2, <2>2
    <3>2. QED
      BY <1>1, <3>1 DEF Priced, kept
  <2>3. QED
    BY <2>1, <2>2
<1>6. QED
  BY <1>5 DEF Priced

LEMMA NextPriceChain == PriceChain /\ [Next]_vars => PriceChain' \/ mixed'
<1> SUFFICES ASSUME PriceChain, [Next]_vars, ~mixed' PROVE PriceChain'
  OBVIOUS
<1>1. Chain'
  BY NextChain DEF PriceChain
<1>2. CASE Tick
  BY <1>1, <1>2 DEF Tick, PriceChain, Priced
<1>3. ASSUME NEW tx, NEW id \in TxIds, TypedTransaction(tx), Accepted(tx), Submit(tx, id)
      PROVE  PriceChain'
  <2>1. ~Mixed(tx)
    BY <1>3 DEF Submit
  <2>2. QED
    BY <1>1, <1>3, <2>1, SubmitPriced DEF PriceChain
<1>4. CASE UNCHANGED vars
  BY <1>1, <1>4 DEF vars, PriceChain, Priced
<1>5. QED
  BY <1>2, <1>3, <1>4 DEF Next

LEMMA PricedOrMixed == Spec => [](PriceChain \/ mixed)
<1>1. Init => PriceChain \/ mixed
  BY InitPriceChain
<1>2. (PriceChain \/ mixed) /\ [Next]_vars => (PriceChain \/ mixed)'
  BY NextPriceChain, MixedStays
<1>3. QED
  BY <1>1, <1>2, PTL DEF Spec

----------------------------------------------------------------------------
(* What remains of an order is never cheaper than it was placed: the fills *)
(* of take_partial_ok, together, pay the seller at least pro rata.         *)
THEOREM FillsAlwaysPaidProRata == Spec => []FillsPaidProRata
<1>1. PriceChain \/ mixed => FillsPaidProRata
  BY DEF PriceChain, Priced, PricedOrder, FillsPaidProRata, Orders
<1>2. QED
  BY PricedOrMixed, <1>1, PTL

(* n fills cost the takers less than n units of the ask above pro rata.    *)
THEOREM RoundingAlwaysBounded == Spec => []RoundingBounded
<1>1. PriceChain \/ mixed => RoundingBounded
  BY DEF PriceChain, Priced, PricedOrder, RoundingBounded, Orders
<1>2. QED
  BY PricedOrMixed, <1>1, PTL

(* The deposit an order was placed with is in every continuation.          *)
THEOREM DepositAlwaysRetained == Spec => []DepositRetained
<1>1. PriceChain \/ mixed => DepositRetained
  BY DEF PriceChain, Priced, PricedOrder, DepositRetained, Orders
<1>2. QED
  BY PricedOrMixed, <1>1, PTL

----------------------------------------------------------------------------
(***************************************************************************)
(* Payment.                                                                *)
(***************************************************************************)

(* An order that is spent without its owner's signature is taken, and the  *)
(* one output with its tag pays the seller all that the take is due.       *)
LEMMA TakenPaid ==
  ASSUME TypeOK, NEW tx, TypedTransaction(tx), Accepted(tx), NEW r \in OrderInputs(tx),
         WellFormedOrder(utxo[r]),
         \/ utxo[r].datum.owner \notin tx.extra_signatories
         \/ tx.spends[r].kind # "CancelOrder"
  PROVE  LET d == utxo[r].datum IN
         /\ r \in DOMAIN utxo /\ utxo[r] \in Outputs
         /\ tx.spends[r].kind \in {"TakeOrder", "TakeOrderPartial"}
         /\ \A a \in Assets : Due(tx, r, a) \in Nat
         /\ \E p \in DOMAIN tx.outputs :
              /\ tagged_payment(tx, r) = {p}
              /\ tx.outputs[p] \in Outputs
              /\ tx.outputs[p].address = d.payment_address
              /\ \A a \in Assets : Due(tx, r, a) <= tx.outputs[p].value[a]
<1> DEFINE d == utxo[r].datum
           o == utxo[r]
           t == tx.spends[r].take_amount
           price == required_payment(t, d.ask_amount, d.offer_amount)
<1>3. o.address.payment = Script /\ d \in OrderDatums /\ d.offer_amount > 0 /\ offer_covered(o)
  BY DEF WellFormedOrder
<1>4. /\ r \in DOMAIN utxo /\ spend(utxo, r, tx) /\ t \in Int
      /\ tx.spends[r].kind \in {"CancelOrder", "TakeOrder", "TakeOrderPartial"}
  BY <1>3, Judged
<1>1. r \in DOMAIN utxo /\ t \in Int
  BY <1>4
<1>2. o \in Outputs
  BY <1>1 DEF TypeOK
<1>5. tx.spends[r].kind \in {"TakeOrder", "TakeOrderPartial"}
  BY <1>4 DEF spend, cancel_ok
<1>6. /\ d.offer_amount \in Nat /\ d.ask_amount \in Nat /\ o.value[ADA] \in Nat
      /\ d.ask \in Units
  BY <1>2, <1>3 DEF OrderDatums, Outputs, Values, Units, Assets
<1>7. deposit(d, o.value) \in Nat
  BY <1>3, <1>6 DEF deposit, offer_covered, is_ada
<1>8. \A p \in DOMAIN tx.outputs :
        tx.outputs[p] \in Outputs /\ \A u \in Units : tx.outputs[p].value[u] \in Nat
  <2>1. tx.outputs \in Seq(Outputs)
    BY DEF TypedTransaction
  <2>2. \A p \in DOMAIN tx.outputs : tx.outputs[p] \in Outputs
    BY <2>1
  <2>3. QED
    BY <2>2 DEF Outputs, Values
<1>9. ADA \in Units /\ Assets \subseteq Units
  BY DEF Units, Assets
<1>10. CASE tx.spends[r].kind = "TakeOrder"
  <2>1. take_ok(utxo, r, tx)
    BY <1>4, <1>10 DEF spend
  <2>2. PICK p \in DOMAIN tx.outputs :
          /\ tagged_payment(tx, r) = {p}
          /\ tx.outputs[p].address = d.payment_address
          /\ payment_value_ok(tx.outputs[p].value, d.ask, d.ask_amount, deposit(d, o.value))
    BY <2>1 DEF take_ok
  <2>3. \A a \in Assets : Due(tx, r, a) = (IF a = d.ask THEN d.ask_amount ELSE 0)
                                           + (IF a = ADA THEN deposit(d, o.value) ELSE 0)
    BY <1>10 DEF Due
  <2> HIDE DEF d, o
  <2>4. \A a \in Assets : Due(tx, r, a) \in Nat /\ Due(tx, r, a) <= tx.outputs[p].value[a]
    BY <1>6, <1>7, <1>8, <1>9, <2>2, <2>3 DEF payment_value_ok, is_ada
  <2>5. QED
    BY <1>1, <1>2, <1>5, <1>8, <2>2, <2>4 DEF d, o
<1>11. CASE tx.spends[r].kind = "TakeOrderPartial"
  <2>1. take_partial_ok(utxo, r, tx)
    BY <1>4, <1>11 DEF spend
  <2>2. /\ t > 0
        /\ \E p \in DOMAIN tx.outputs :
             /\ tagged_payment(tx, r) = {p}
             /\ tx.outputs[p].address = d.payment_address
             /\ payment_value_ok(tx.outputs[p].value, d.ask, price, 0)
    BY <2>1 DEF take_partial_ok
  <2>3. PICK p \in DOMAIN tx.outputs :
          /\ tagged_payment(tx, r) = {p}
          /\ tx.outputs[p].address = d.payment_address
          /\ payment_value_ok(tx.outputs[p].value, d.ask, price, 0)
    BY <2>2
  <2>4. price \in Nat
    <3>1. t \in Nat
      BY <1>1, <2>2
    <3>2. QED
      BY <1>3, <1>6, <3>1, RequiredPayment
  <2>5. \A a \in Assets : Due(tx, r, a) = (IF a = d.ask THEN price ELSE 0) + 0
    BY <1>11 DEF Due
  <2> HIDE DEF d, o, price
  <2>6. \A a \in Assets : Due(tx, r, a) \in Nat /\ Due(tx, r, a) <= tx.outputs[p].value[a]
    BY <1>6, <1>8, <1>9, <2>3, <2>4, <2>5 DEF payment_value_ok, is_ada
  <2>7. QED
    BY <1>1, <1>2, <1>5, <1>8, <2>3, <2>6 DEF d, o
<1>12. QED
  BY <1>5, <1>10, <1>11

(***************************************************************************)
(* What a transaction pays a key is no less than what it owes it: each due *)
(* has an output of its own.                                               *)
(***************************************************************************)
paying(tx, k) == {i \in DOMAIN tx.outputs : tx.outputs[i].address.payment = k}

taken(tx, k) == {r \in OrderInputs(tx) :
                   /\ WellFormedOrder(utxo[r])
                   /\ utxo[r].datum.owner \notin tx.extra_signatories
                   /\ utxo[r].datum.payment_address.payment = k}

LEMMA PaidCoversOwed ==
  ASSUME TypeOK, NEW tx, TypedTransaction(tx), Accepted(tx), NEW k \in Keys, NEW a \in Assets
  PROVE  /\ Paid(tx, k, a) \in Nat /\ Owed(tx, k, a) \in Nat
         /\ Owed(tx, k, a) <= Paid(tx, k, a)
<1> DEFINE S == taken(tx, k)
           T == paying(tx, k)
           f == [r \in S |-> Due(tx, r, a)]
           g == [i \in T |-> tx.outputs[i].value[a]]
           h == [r \in S |-> CHOOSE p \in DOMAIN tx.outputs : tagged_payment(tx, r) = {p}]
<1>1. Paid(tx, k, a) = SumFunctionOnSet(g, T) /\ Owed(tx, k, a) = SumFunctionOnSet(f, S)
  BY DEF Paid, Owed, SumFunction, paying, taken
<1>2. IsFiniteSet(S)
  <2>1. IsFiniteSet(DOMAIN tx.spends)
    BY DEF TypedTransaction
  <2>2. S \subseteq DOMAIN tx.spends
    BY DEF Inputs, OrderInputs, taken
  <2>3. QED
    BY <2>1, <2>2, FS_Subset
<1>3. /\ IsFiniteSet(T)
      /\ \A i \in T : tx.outputs[i].value[a] \in Nat
  <2>1. tx.outputs \in Seq(Outputs)
    BY DEF TypedTransaction
  <2>2. /\ DOMAIN tx.outputs = 1..Len(tx.outputs) /\ Len(tx.outputs) \in Nat
        /\ \A i \in DOMAIN tx.outputs : tx.outputs[i] \in Outputs
    BY <2>1
  <2>3. IsFiniteSet(DOMAIN tx.outputs) /\ T \subseteq DOMAIN tx.outputs
    BY <2>2, FS_Interval DEF paying
  <2>4. QED
    BY <2>2, <2>3, FS_Subset DEF Outputs, Values, Units
<1>4. ASSUME NEW r \in S
      PROVE  /\ f[r] \in Nat /\ h[r] \in T /\ f[r] <= g[h[r]]
             /\ tagged_payment(tx, r) = {h[r]}
  <2>1. /\ r \in OrderInputs(tx) /\ utxo[r].datum.owner \notin tx.extra_signatories
        /\ WellFormedOrder(utxo[r])
        /\ utxo[r].datum.payment_address.payment = k
    BY DEF taken
  <2>2. /\ Due(tx, r, a) \in Nat
        /\ \E p \in DOMAIN tx.outputs :
             /\ tagged_payment(tx, r) = {p}
             /\ tx.outputs[p].address = utxo[r].datum.payment_address
             /\ Due(tx, r, a) <= tx.outputs[p].value[a]
    BY <2>1, TakenPaid
  <2>3. PICK p \in DOMAIN tx.outputs :
          /\ tagged_payment(tx, r) = {p}
          /\ tx.outputs[p].address = utxo[r].datum.payment_address
          /\ Due(tx, r, a) <= tx.outputs[p].value[a]
    BY <2>2
  <2>4. h[r] = p
    BY <2>3
  <2>5. p \in T /\ g[p] = tx.outputs[p].value[a]
    BY <2>1, <2>3 DEF paying
  <2> HIDE DEF h, g, S, T
  <2>6. QED
    BY <2>2, <2>3, <2>4, <2>5
<1>5. ASSUME NEW q \in S, NEW r \in S, h[q] = h[r] PROVE q = r
  <2>1. tagged_payment(tx, q) = tagged_payment(tx, r) /\ h[r] \in tagged_payment(tx, r)
    <3> HIDE DEF h
    <3>1. QED
      BY <1>4, <1>5
  <2>2. PaymentTag(q) = PaymentTag(r)
    BY <2>1 DEF tagged_payment
  <2>3. QED
    BY <2>2 DEF PaymentTag
<1>6. \A i \in T : g[i] \in Nat
  BY <1>3
<1>7. h \in [S -> T]
  BY <1>4
<1> HIDE DEF S, T, f, g, h
<1>8. SumFunctionOnSet(f, S) <= SumFunctionOnSet(g, T)
  BY <1>2, <1>3, <1>4, <1>5, <1>6, <1>7, SumCovered
<1>9. SumFunctionOnSet(f, S) \in Nat /\ SumFunctionOnSet(g, T) \in Nat
  BY <1>2, <1>3, <1>4, <1>6, SumType
<1>10. QED
  BY <1>1, <1>8, <1>9

Solvent == TypeOK /\ \A k \in Keys, a \in Assets : surplus[k][a] \in Nat

(* No double satisfaction, of take_ok and take_partial_ok together: over   *)
(* any run of transactions, whatever they batch, each key has received in  *)
(* each asset at least what the orders that pay to it were due, whether or  *)
(* not imitations were spent beside them.                                  *)
THEOREM SellersAlwaysPaid == Spec => []SellersPaid
<1>1. Init => Solvent
  <2>1. Init => \A k \in Keys, a \in Assets : surplus[k][a] \in Nat
    BY DEF Init
  <2>2. QED
    BY <2>1, InitTyped DEF Solvent
<1>2. Solvent /\ [Next]_vars => Solvent'
  <2> SUFFICES ASSUME Solvent, [Next]_vars PROVE Solvent'
    OBVIOUS
  <2>1. TypeOK'
    BY NextTyped DEF Solvent
  <2>2. CASE Tick
    BY <2>1, <2>2 DEF Tick, Solvent
  <2>3. ASSUME NEW tx, NEW id \in TxIds, TypedTransaction(tx), Accepted(tx), Submit(tx, id)
        PROVE  Solvent'
    <3>1. ASSUME NEW k \in Keys, NEW a \in Assets PROVE surplus'[k][a] \in Nat
      <4>1. surplus'[k][a] = surplus[k][a] + Paid(tx, k, a) - Owed(tx, k, a)
        BY <2>3 DEF Submit
      <4>2. Paid(tx, k, a) \in Nat /\ Owed(tx, k, a) \in Nat /\ Owed(tx, k, a) <= Paid(tx, k, a)
        BY <2>3, PaidCoversOwed DEF Solvent
      <4>3. surplus[k][a] \in Nat
        BY DEF Solvent
      <4>4. QED
        BY <4>1, <4>2, <4>3
    <3>2. QED
      BY <2>1, <3>1 DEF Solvent
  <2>4. CASE UNCHANGED vars
    BY <2>1, <2>4 DEF vars, Solvent
  <2>5. QED
    BY <2>2, <2>3, <2>4 DEF Next
<1>3. Solvent => SellersPaid
  BY DEF Solvent, SellersPaid
<1>4. QED
  BY <1>1, <1>2, <1>3, PTL DEF Spec

----------------------------------------------------------------------------
(***************************************************************************)
(* The expiration.                                                         *)
(***************************************************************************)
Timely == TypeOK /\ NoLateTake

(* An input of an accepted transaction that is taken is spent before its   *)
(* expiration.                                                             *)
LEMMA SpentInTime ==
  ASSUME TypeOK, NEW tx, TypedTransaction(tx), Accepted(tx), NEW r \in OrderInputs(tx),
         tx.spends[r].kind \in TakeKinds, utxo[r].datum.expiration # None
  PROVE  clock < utxo[r].datum.expiration
<1> DEFINE d == utxo[r].datum
<1>1. r \in Inputs(tx) /\ r \notin DOMAIN tx.imitations
  BY DEF OrderInputs
<1>2. r \in ScriptInputs(tx)
  BY <1>1 DEF ScriptInputs, TakeKinds
<1>3. AtScript(utxo, r, tx)
  BY <1>1, <1>2 DEF Accepted, InputAuthorised
<1>4. spend(utxo, r, tx)
  BY <1>3 DEF AtScript
<1>5. d \in OrderDatums
  BY <1>4 DEF spend
<1>6. expiration_ok(d.expiration, tx)
  BY <1>4 DEF spend, take_ok, take_partial_ok, TakeKinds
<1>7. tx.upper_bound # None /\ tx.upper_bound <= d.expiration
  BY <1>6 DEF expiration_ok
<1>8. clock < tx.upper_bound
  BY <1>7 DEF Accepted
<1>9. clock \in Nat /\ tx.upper_bound \in Nat /\ d.expiration \in Nat
  BY <1>5, <1>7 DEF TypeOK, TypedTransaction, OrderDatums
<1>10. QED
  BY <1>7, <1>8, <1>9

LEMMA SubmitInTime ==
  ASSUME Timely, NEW tx, TypedTransaction(tx), Accepted(tx), NEW id \in TxIds, Submit(tx, id)
  PROVE  NoLateTake'
<1>1. closed' = [r \in DOMAIN closed \cup OrderInputs(tx) |->
                   IF r \in OrderInputs(tx)
                   THEN [kind |-> tx.spends[r].kind, at |-> clock, datum |-> utxo[r].datum]
                   ELSE closed[r]]
  BY DEF Submit
<1> SUFFICES ASSUME NEW r \in DOMAIN closed',
                    closed'[r].kind \in TakeKinds, closed'[r].datum.expiration # None
             PROVE  closed'[r].at < closed'[r].datum.expiration
  BY DEF NoLateTake
<1>2. CASE r \in OrderInputs(tx)
  <2>1. closed'[r] = [kind |-> tx.spends[r].kind, at |-> clock, datum |-> utxo[r].datum]
    BY <1>1, <1>2
  <2>2. closed'[r].kind = tx.spends[r].kind /\ closed'[r].at = clock
        /\ closed'[r].datum = utxo[r].datum
    BY <2>1
  <2>3. QED
    BY <1>2, <2>2, SpentInTime DEF Timely
<1>3. CASE r \notin OrderInputs(tx)
  <2>1. r \in DOMAIN closed /\ closed'[r] = closed[r]
    BY <1>1, <1>3
  <2>2. QED
    BY <2>1 DEF Timely, NoLateTake
<1>4. QED
  BY <1>2, <1>3

(* expiration_ok: no order is taken, in whole or in part, once its         *)
(* expiration is reached, whatever validity range is claimed.              *)
THEOREM NeverTakenLate == Spec => []NoLateTake
<1>1. Init => Timely
  <2>1. Init => NoLateTake
    BY DEF Init, NoLateTake
  <2>2. QED
    BY <2>1, InitTyped DEF Timely
<1>2. Timely /\ [Next]_vars => Timely'
  <2> SUFFICES ASSUME Timely, [Next]_vars PROVE Timely'
    OBVIOUS
  <2>1. TypeOK'
    BY NextTyped DEF Timely
  <2>2. CASE Tick
    BY <2>1, <2>2 DEF Tick, Timely, NoLateTake
  <2>3. CASE \E tx \in Offered(utxo), id \in TxIds :
               TypedTransaction(tx) /\ Accepted(tx) /\ Submit(tx, id)
    BY <2>1, <2>3, SubmitInTime DEF Timely
  <2>4. CASE UNCHANGED vars
    BY <2>1, <2>4 DEF vars, Timely, NoLateTake
  <2>5. QED
    BY <2>2, <2>3, <2>4 DEF Next
<1>3. Timely => NoLateTake
  BY DEF Timely
<1>4. QED
  BY <1>1, <1>2, <1>3, PTL DEF Spec

----------------------------------------------------------------------------
(* A well-formed order holds one of each of its beacons and no other.      *)
LEMMA OneOfEach ==
  ASSUME NEW o \in Outputs, WellFormedOrder(o), NEW u \in BeaconNames
  PROVE  o.value[u] = IF u \in beacon_set(o.datum) THEN 1 ELSE 0
<1>1. o.value = expected_value(o.datum, o.value[ADA])
  BY DEF WellFormedOrder
<1>2. u \in Units /\ u # ADA /\ u # o.datum.offer
  BY OrderUnits, UnitsAssumption DEF Units, Assets
<1>3. QED
  BY <1>1, <1>2 DEF expected_value

(* The beacons of one order, told apart by where they lie.                 *)
LEMMA TokensOfOne ==
  ASSUME NEW r, NEW n \in {0, 1}
  PROVE  Cardinality(UNION {{q} \X (1..n) : q \in {r}}) = n
<1>1. UNION {{q} \X (1..n) : q \in {r}} = {r} \X (1..n)
  OBVIOUS
<1>2. CASE n = 0
  <2>1. {r} \X (1..n) = {}
    BY <1>2
  <2>2. QED
    BY <1>1, <1>2, <2>1, FS_EmptySet
<1>3. CASE n = 1
  <2>1. {r} \X (1..n) = {<<r, 1>>}
    BY <1>3
  <2>2. QED
    BY <1>1, <1>3, <2>1, FS_Singleton
<1>4. QED
  BY <1>2, <1>3

(* Without imitations the inputs are the orders spent.                     *)
LEMMA OrdersOnly ==
  ASSUME NEW tx, tx.imitations = << >>
  PROVE  /\ DOMAIN tx.imitations = {} /\ OrderInputs(tx) = Inputs(tx)
         /\ \A r \in Inputs(tx) :
              /\ utxo[r].address.payment = Script
              /\ tx.spends[r].kind # "none"
              /\ spend(utxo, r, tx)
              => InputAuthorised(r, tx)
<1>1. DOMAIN tx.imitations = {}
  OBVIOUS
<1>2. QED
  BY <1>1 DEF OrderInputs, InputAuthorised, AtScript, ScriptInputs

(* cancel_ok and burn_beacons_ok hold of the owner's cancel transaction.    *)
LEMMA CancelAccepted ==
  ASSUME TypeOK, NEW r \in Orders
  PROVE  Accepted(CancelTx(r))
<1> DEFINE tx == CancelTx(r)
           d  == utxo[r].datum
           B  == beacon_set(d)
<1>1. r \in DOMAIN utxo /\ utxo[r] \in Outputs /\ WellFormedOrder(utxo[r])
  BY DEF TypeOK, Orders
<1>2. /\ d \in OrderDatums /\ d.owner \in Keys /\ utxo[r].address.payment = Script
      /\ B \subseteq BeaconNames
  BY <1>1, OrderUnits DEF WellFormedOrder
<1>3. /\ tx.spends = [q \in {r} |-> [kind |-> "CancelOrder", take_amount |-> 0]]
      /\ tx.outputs = << >>
      /\ tx.mint = [u \in BeaconNames |-> IF u \in B THEN -1 ELSE 0]
      /\ tx.mint_redeemer = "BurnBeacons"
      /\ tx.upper_bound = None
      /\ tx.extra_signatories = {d.owner}
      /\ tx.imitations = << >>
  BY DEF CancelTx
<1> HIDE DEF tx, B
<1>4. /\ Inputs(tx) = {r} /\ OrderInputs(tx) = {r} /\ ScriptInputs(tx) = {r}
      /\ DOMAIN tx.imitations = {} /\ DOMAIN tx.outputs = {}
      /\ tx.spends[r].kind = "CancelOrder"
  BY <1>3, OrdersOnly DEF Inputs, ScriptInputs
<1>5. BeaconsConserved(tx)
  <2> SUFFICES ASSUME NEW u \in BeaconNames
               PROVE  Cardinality(TokensOut(tx, u)) = Cardinality(TokensIn(tx, u)) + tx.mint[u]
    BY DEF BeaconsConserved
  <2>1. utxo[r].value[u] = IF u \in B THEN 1 ELSE 0
    BY <1>1, OneOfEach DEF B
  <2>2. TokensIn(tx, u) = UNION {{q} \X (1..utxo[r].value[u]) : q \in {r}}
    BY <1>4 DEF TokensIn
  <2>3. Cardinality(TokensIn(tx, u)) = utxo[r].value[u]
    <3>1. utxo[r].value[u] \in {0, 1}
      BY <2>1
    <3>2. Cardinality(UNION {{q} \X (1..utxo[r].value[u]) : q \in {r}}) = utxo[r].value[u]
      BY <3>1, TokensOfOne
    <3>3. QED
      BY <2>2, <3>2
  <2>4. TokensOut(tx, u) = {}
    BY <1>4 DEF TokensOut
  <2>5. Cardinality(TokensOut(tx, u)) = 0
    BY <2>4, FS_EmptySet
  <2>6. tx.mint[u] = IF u \in B THEN -1 ELSE 0
    BY <1>3
  <2>7. QED
    BY <2>1, <2>3, <2>5, <2>6
<1>6. mint(tx)
  <2>1. order_beacon_name \in B
    BY DEF B, beacon_set
  <2>2. \E u \in BeaconNames : tx.mint[u] # 0
    BY <1>2, <1>3, <2>1
  <2>3. \A u \in BeaconNames : tx.mint[u] # 0 => tx.mint[u] < 0
    BY <1>3
  <2>4. QED
    BY <1>3, <2>2, <2>3 DEF mint, burn_beacons_ok
<1>7. cancel_ok(utxo, r, tx)
  <2>1. only_one_order_input(tx)
    BY <1>4, FS_Singleton DEF only_one_order_input
  <2>2. no_beacons_in_outputs(tx, d.beacon_policy_id)
    BY <1>4 DEF no_beacons_in_outputs
  <2>3. QED
    BY <1>2, <1>3, <2>1, <2>2 DEF cancel_ok
<1>8. spend(utxo, r, tx)
  BY <1>2, <1>4, <1>7 DEF spend
<1>9. InputAuthorised(r, tx)
  BY <1>2, <1>3, <1>4, <1>8, OrdersOnly
<1>10. Accepted(tx)
  BY <1>1, <1>3, <1>4, <1>5, <1>6, <1>9 DEF Accepted
<1>11. QED
  BY <1>10 DEF tx

(* cancel_ok and burn_beacons_ok: whatever fills an order went through, the *)
(* cancel transaction of its owner is accepted, expired or not.             *)
THEOREM AlwaysReclaimable == Spec => []Reclaimable
<1>1. TypeOK => Reclaimable
  BY CancelAccepted DEF Reclaimable
<1>2. QED
  BY InitTyped, NextTyped, <1>1, PTL DEF Spec

----------------------------------------------------------------------------
(* In the full payment for an order there are no beacons, and all it asks. *)
LEMMA FullPaymentValue ==
  ASSUME TypeOK, NEW r \in Orders
  PROVE  LET d == utxo[r].datum
             v == FullPayment(r).value
         IN  /\ \A u \in BeaconNames : v[u] = 0
             /\ payment_value_ok(v, d.ask, d.ask_amount, deposit(d, utxo[r].value))
<1> DEFINE d == utxo[r].datum
           v == FullPayment(r).value
           part == [a \in Assets |-> (IF a = d.ask THEN d.ask_amount ELSE 0)
                                      + (IF a = ADA THEN deposit(d, utxo[r].value) ELSE 0)]
<1>1. utxo[r] \in Outputs /\ WellFormedOrder(utxo[r])
  BY DEF TypeOK, Orders
<1>2. d.ask \in Assets /\ d \in OrderDatums
  BY <1>1, OrderUnits
<1>3. /\ d.ask_amount \in Nat /\ d.offer_amount \in Nat /\ utxo[r].value[ADA] \in Nat
      /\ offer_covered(utxo[r])
  BY <1>1, <1>2 DEF OrderDatums, WellFormedOrder, Outputs, Values, Units, Assets
<1>4. deposit(d, utxo[r].value) \in Nat
  BY <1>3 DEF offer_covered, deposit, is_ada
<1>5. v = [u \in Units |-> IF u \in Assets THEN part[u] ELSE 0]
  BY DEF FullPayment
<1>6. ADA \in Assets /\ Assets \subseteq Units /\ BeaconNames \subseteq Units
      /\ Assets \cap BeaconNames = {}
  BY UnitsAssumption DEF Assets, Units
<1>7. \A u \in Units : v[u] = IF u \in Assets THEN part[u] ELSE 0
  BY <1>5
<1>8. \A a \in Assets : part[a] = (IF a = d.ask THEN d.ask_amount ELSE 0)
                                   + (IF a = ADA THEN deposit(d, utxo[r].value) ELSE 0)
  OBVIOUS
<1> HIDE DEF v, part, d
<1>9. payment_value_ok(v, d.ask, d.ask_amount, deposit(d, utxo[r].value))
  BY <1>2, <1>3, <1>4, <1>6, <1>7, <1>8 DEF payment_value_ok, is_ada
<1>10. \A u \in BeaconNames : v[u] = 0
  BY <1>6, <1>7
<1>11. QED
  BY <1>9, <1>10 DEF v, d

(* As many beacons of a name are spent as there are orders with that name. *)
LEMMA TokensOfOrders ==
  ASSUME TypeOK, NEW tx, OrderInputs(tx) \subseteq Orders, IsFiniteSet(OrderInputs(tx)),
         NEW u \in BeaconNames
  PROVE  LET named == {r \in OrderInputs(tx) : u \in beacon_set(utxo[r].datum)} IN
         /\ Cardinality(TokensIn(tx, u)) = Cardinality(named)
         /\ Cardinality(named) \in Nat
<1> DEFINE named == {r \in OrderInputs(tx) : u \in beacon_set(utxo[r].datum)}
           token == [r \in named |-> <<r, 1>>]
           tokens == {<<r, 1>> : r \in named}
<1>1. IsFiniteSet(named) /\ Cardinality(named) \in Nat
  BY FS_Subset, FS_CardinalityType
<1>2. \A r \in OrderInputs(tx) : utxo[r].value[u] = IF r \in named THEN 1 ELSE 0
  <2> SUFFICES ASSUME NEW r \in OrderInputs(tx)
               PROVE  utxo[r].value[u] = IF u \in beacon_set(utxo[r].datum) THEN 1 ELSE 0
    OBVIOUS
  <2>1. utxo[r] \in Outputs /\ WellFormedOrder(utxo[r])
    BY DEF TypeOK, Orders
  <2>2. QED
    BY <2>1, OneOfEach
<1>3. TokensIn(tx, u) = tokens
  <2>1. TokensIn(tx, u) = UNION {{r} \X (1..utxo[r].value[u]) : r \in OrderInputs(tx)}
    BY DEF TokensIn
  <2>2. \A r \in OrderInputs(tx) : {r} \X (1..utxo[r].value[u]) = IF r \in named THEN {<<r, 1>>} ELSE {}
    <3> SUFFICES ASSUME NEW r \in OrderInputs(tx)
                 PROVE  {r} \X (1..utxo[r].value[u]) = IF r \in named THEN {<<r, 1>>} ELSE {}
      OBVIOUS
    <3>1. CASE r \in named
      <4>1. utxo[r].value[u] = 1
        BY <1>2, <3>1
      <4>2. {r} \X (1..1) = {<<r, 1>>}
        OBVIOUS
      <4>3. QED
        BY <3>1, <4>1, <4>2
    <3>2. CASE r \notin named
      <4>1. 1..utxo[r].value[u] = {}
        BY <1>2, <3>2
      <4>2. QED
        BY <3>2, <4>1
    <3>3. QED
      BY <3>1, <3>2
  <2> HIDE DEF named
  <2>3. \A x : x \in TokensIn(tx, u) <=> \E r \in OrderInputs(tx) : r \in named /\ x = <<r, 1>>
    BY <2>1, <2>2
  <2>4. named \subseteq OrderInputs(tx)
    BY DEF named
  <2>5. QED
    BY <2>3, <2>4
<1>4. token \in Bijection(named, tokens)
  <2> HIDE DEF named
  <2>1. token \in [named -> tokens]
    OBVIOUS
  <2>2. \A q, r \in named : token[q] = token[r] => q = r
    <3>1. \A q, r : <<q, 1>> = <<r, 1>> => q = r
      OBVIOUS
    <3>2. QED
      BY <3>1
  <2>3. \A x \in tokens : \E r \in named : token[r] = x
    OBVIOUS
  <2> HIDE DEF token, tokens
  <2>4. QED
    BY <2>1, <2>2, <2>3 DEF Bijection, Injection, Surjection, IsInjective
<1>5. Cardinality(tokens) = Cardinality(named)
  <2> HIDE DEF named, tokens, token
  <2>1. ExistsBijection(named, tokens)
    BY <1>4 DEF ExistsBijection
  <2>2. QED
    BY <1>1, <2>1, FS_Bijection
<1>6. QED
  BY <1>1, <1>3, <1>5

(* take_ok for one order of the batch: its payment is the only output with *)
(* its tag, and there are no beacons in the outputs.                       *)
LEMMA TakesOfBatch ==
  ASSUME TypeOK, NEW n \in Nat, NEW s \in [1..n -> Orders],
         \A i, j \in 1..n : s[i] = s[j] => i = j,
         \A i \in 1..n : Live(s[i]),
         NEW p \in 1..n
  PROVE  spend(utxo, s[p], TakeTx(s))
<1> DEFINE tx == TakeTx(s)
           r  == s[p]
           d  == utxo[r].datum
           legs == {s[i] : i \in DOMAIN s}
<1>1. r \in Orders /\ r \in DOMAIN utxo /\ r \in legs /\ DOMAIN s = 1..n
  BY DEF Orders
<1>2. utxo[r] \in Outputs /\ WellFormedOrder(utxo[r])
  BY <1>1 DEF TypeOK, Orders
<1>3. d \in OrderDatums /\ d.version = 1 /\ d.beacon_policy_id = BeaconPolicy
  BY <1>2 DEF WellFormedOrder
<1>4. /\ tx.spends = [q \in legs |-> [kind |-> "TakeOrder", take_amount |-> 0]]
      /\ tx.outputs = [i \in DOMAIN s |-> FullPayment(s[i])]
      /\ tx.upper_bound = clock + 1
  BY DEF TakeTx
<1>5. \A q : /\ FullPayment(q).datum = PaymentTag(q)
             /\ FullPayment(q).address = utxo[q].datum.payment_address
  BY DEF FullPayment
<1>6. \A q1, q2 : PaymentTag(q1) = PaymentTag(q2) => q1 = q2
  BY DEF PaymentTag
<1> HIDE DEF tx
<1>7. DOMAIN tx.outputs = 1..n /\ \A i \in 1..n : tx.outputs[i] = FullPayment(s[i])
  BY <1>1, <1>4
<1>8. tagged_payment(tx, r) = {p}
  BY <1>5, <1>6, <1>7 DEF tagged_payment
<1>9. beacon_accounting_ok(tx, BeaconPolicy)
  <2>1. \A i \in 1..n : \A u \in BeaconNames : tx.outputs[i].value[u] = 0
    BY <1>7, FullPaymentValue
  <2>2. beacon_bearing_outputs(tx, BeaconPolicy) = {}
    BY <1>7, <2>1 DEF beacon_bearing_outputs, has_tokens
  <2>3. \A q \in legs : tx.spends[q].kind = "TakeOrder"
    BY <1>4
  <2>4. partial_take_refs(tx) = {}
    <3>1. Inputs(tx) = legs
      BY <1>4 DEF Inputs
    <3> HIDE DEF legs
    <3>2. QED
      BY <2>3, <3>1 DEF partial_take_refs
  <2>5. QED
    BY <2>2, <2>4 DEF beacon_accounting_ok
<1>10. payment_value_ok(tx.outputs[p].value, d.ask, d.ask_amount, deposit(d, utxo[r].value))
  BY <1>1, <1>7, FullPaymentValue
<1>11. expiration_ok(d.expiration, tx)
  <2>1. clock \in Nat /\ d.expiration \in Nat \cup {None}
    BY <1>3 DEF TypeOK, OrderDatums
  <2>2. d.expiration = None \/ clock < d.expiration
    BY DEF Live
  <2>3. clock + 1 # None
    BY <2>1, CredentialsAssumption
  <2> HIDE DEF d
  <2>4. QED
    BY <1>4, <2>1, <2>2, <2>3 DEF expiration_ok
<1>12. take_ok(utxo, r, tx)
  BY <1>3, <1>5, <1>7, <1>8, <1>9, <1>10, <1>11 DEF take_ok
<1>13. tx.spends[r].kind = "TakeOrder"
  BY <1>1, <1>4
<1>14. spend(utxo, r, tx)
  BY <1>3, <1>12, <1>13 DEF spend
<1>15. QED
  BY <1>14 DEF tx

(* Any batch of distinct live orders can be taken.                         *)
LEMMA BatchAccepted ==
  ASSUME TypeOK, NEW n \in Nat, NEW s \in [1..n -> Orders],
         \A i, j \in 1..n : s[i] = s[j] => i = j,
         \A i \in 1..n : Live(s[i])
  PROVE  Accepted(TakeTx(s))
<1> DEFINE tx == TakeTx(s)
           legs == {s[i] : i \in DOMAIN s}
           named(u) == {r \in legs : u \in beacon_set(utxo[r].datum)}
<1>1. /\ Inputs(tx) = legs /\ tx.imitations = << >>
      /\ \A r \in legs : tx.spends[r].kind = "TakeOrder"
      /\ tx.outputs = [i \in 1..n |-> FullPayment(s[i])]
      /\ tx.mint = [u \in BeaconNames |-> -Cardinality(named(u))]
      /\ tx.mint_redeemer = "BurnBeacons"
      /\ tx.upper_bound = clock + 1
  BY DEF TakeTx, Inputs
<1>2. legs \subseteq Orders /\ \A r \in legs : \E p \in 1..n : r = s[p]
  OBVIOUS
<1>3. IsFiniteSet(legs)
  <2>1. s \in Surjection(1..n, legs)
    BY DEF Surjection
  <2>2. IsFiniteSet(1..n)
    BY FS_Interval
  <2> HIDE DEF legs
  <2>3. QED
    BY <2>1, <2>2, FS_Surjection
<1>4. clock \in Nat /\ clock + 1 # None /\ clock < clock + 1
  BY CredentialsAssumption DEF TypeOK
<1>5. \A r \in legs : spend(utxo, r, tx)
  BY <1>2, TakesOfBatch
<1> HIDE DEF tx, legs
<1>12. DOMAIN tx.imitations = {} /\ OrderInputs(tx) = legs
  BY <1>1, OrdersOnly
<1>6. \A u \in BeaconNames : /\ Cardinality(TokensIn(tx, u)) = Cardinality(named(u))
                             /\ Cardinality(named(u)) \in Nat
  BY <1>2, <1>3, <1>12, TokensOfOrders
<1>7. \A u \in BeaconNames : TokensOut(tx, u) = {}
  <2> SUFFICES ASSUME NEW u \in BeaconNames PROVE TokensOut(tx, u) = {}
    OBVIOUS
  <2>1. \A i \in 1..n : tx.outputs[i].value[u] = 0
    BY <1>1, FullPaymentValue
  <2>2. \A i \in 1..n : {i} \X (1..tx.outputs[i].value[u]) = {}
    BY <2>1
  <2>3. DOMAIN tx.outputs = 1..n
    BY <1>1
  <2>4. QED
    BY <2>2, <2>3 DEF TokensOut
<1> HIDE DEF named
<1>8. BeaconsConserved(tx)
  <2>1. \A u \in BeaconNames : Cardinality(TokensOut(tx, u)) = 0
    BY <1>7, FS_EmptySet
  <2>2. \A u \in BeaconNames : tx.mint[u] = -Cardinality(named(u))
    BY <1>1
  <2>3. QED
    BY <1>6, <2>1, <2>2 DEF BeaconsConserved
<1>9. Minting(tx) => mint(tx)
  <2>1. \A u \in BeaconNames : tx.mint[u] # 0 => tx.mint[u] < 0
    <3>1. \A u \in BeaconNames : tx.mint[u] = -Cardinality(named(u))
      BY <1>1
    <3>2. QED
      BY <1>6, <3>1
  <2>2. QED
    BY <1>1, <2>1 DEF Minting, mint, burn_beacons_ok
<1>10. \A r \in Inputs(tx) : InputAuthorised(r, tx)
  <2> SUFFICES ASSUME NEW r \in legs PROVE InputAuthorised(r, tx)
    BY <1>1
  <2>1. WellFormedOrder(utxo[r])
    BY <1>2 DEF Orders
  <2>3. utxo[r].address.payment = Script
    BY <2>1 DEF WellFormedOrder
  <2>2. QED
    <3>1. tx.spends[r].kind # "none" /\ r \in Inputs(tx) /\ spend(utxo, r, tx)
      BY <1>1, <1>5
    <3>2. QED
      BY <1>1, <2>3, <3>1, OrdersOnly
<1>11. legs \subseteq DOMAIN utxo
  BY <1>2 DEF Orders
<1>13. Accepted(tx)
  BY <1>1, <1>4, <1>8, <1>9, <1>10, <1>11, <1>12 DEF Accepted
<1>14. QED
  BY <1>13 DEF tx

(* take_ok, beacon accounting and conservation together: any two orders    *)
(* that have not expired can be taken in one transaction.  (The lemma      *)
(* shows it of any number of them.)                                        *)
THEOREM PairsAlwaysTakeable == Spec => []PairsTakeable
<1>1. ASSUME TypeOK, NEW q \in Orders, NEW r \in Orders, Live(q), Live(r)
      PROVE  Accepted(TakeTx(IF q = r THEN <<q>> ELSE <<q, r>>))
  <2>1. CASE q = r
    <3> DEFINE s == <<q>>
    <3>1. 1 \in Nat /\ s \in [1..1 -> Orders] /\ \A i \in 1..1 : s[i] = q /\ i = 1
      OBVIOUS
    <3> HIDE DEF s
    <3>2. Accepted(TakeTx(s))
      BY <1>1, <3>1, BatchAccepted
    <3>3. QED
      BY <2>1, <3>2 DEF s
  <2>2. CASE q # r
    <3> DEFINE s == <<q, r>>
    <3>1. 2 \in Nat /\ s \in [1..2 -> Orders] /\ s[1] = q /\ s[2] = r
          /\ \A i \in 1..2 : i = 1 \/ i = 2
      OBVIOUS
    <3> HIDE DEF s
    <3>2. \A i, j \in 1..2 : s[i] = s[j] => i = j
      BY <2>2, <3>1
    <3>3. \A i \in 1..2 : Live(s[i])
      BY <1>1, <3>1
    <3>4. Accepted(TakeTx(s))
      BY <1>1, <3>1, <3>2, <3>3, BatchAccepted
    <3>5. QED
      BY <2>2, <3>4 DEF s
  <2>3. QED
    BY <2>1, <2>2
<1>2. TypeOK => PairsTakeable
  BY <1>1 DEF PairsTakeable
<1>3. QED
  BY InitTyped, NextTyped, <1>2, PTL DEF Spec

----------------------------------------------------------------------------
(***************************************************************************)
(* The chain implements the book of orders: every transaction the rules    *)
(* accept, whatever it batches, is a step of OrderBook, unless it is       *)
(* mixed.  The invariant that makes it so: an open order has one UTxO.     *)
(***************************************************************************)
OneUTxOEach == \A q, r \in DOMAIN utxo : lineage[q].root = lineage[r].root => q = r

CreditsAreFunction == credit = [root \in DOMAIN credit |-> credit[root]]

BookChain == Chain /\ OneUTxOEach /\ CreditsAreFunction

TheBook == [root \in OpenRoots |-> Terms(root)]

TermsOf(d) == [offer |-> d.offer_amount, ask |-> d.ask_amount, expiration |-> d.expiration]

(* The abstract book seen from the UTxOs, before a step and after it.      *)
LEMMA BookOfUTxOs ==
  BookChain => /\ DOMAIN TheBook = {lineage[r].root : r \in DOMAIN utxo}
               /\ \A r \in DOMAIN utxo : TheBook[lineage[r].root] = TermsOf(utxo[r].datum)
<1> SUFFICES ASSUME BookChain PROVE BookOfUTxOs!2
  OBVIOUS
<1>1. Orders = DOMAIN utxo
  BY DEF BookChain, Chain, BeaconsNeverLeak, WellFormedOrder, Orders
<1>2. OpenRoots = {lineage[r].root : r \in DOMAIN utxo}
  BY <1>1 DEF OpenRoots
<1>3. ASSUME NEW r \in DOMAIN utxo PROVE Terms(lineage[r].root) = TermsOf(utxo[r].datum)
  <2> DEFINE q == CHOOSE q \in Orders : lineage[q].root = lineage[r].root
  <2>1. q \in Orders /\ lineage[q].root = lineage[r].root
    BY <1>1
  <2>2. q = r
    BY <1>1, <2>1 DEF BookChain, OneUTxOEach
  <2>3. Terms(lineage[r].root) = TermsOf(utxo[q].datum)
    BY DEF Terms, TermsOf
  <2>4. QED
    BY <2>2, <2>3
<1>4. QED
  BY <1>2, <1>3 DEF TheBook

LEMMA BookAfter ==
  BookChain' => /\ DOMAIN TheBook' = {lineage'[r].root : r \in DOMAIN utxo'}
                /\ \A r \in DOMAIN utxo' : TheBook'[lineage'[r].root] = TermsOf(utxo'[r].datum)
<1>1. (BookChain => /\ DOMAIN TheBook = {lineage[r].root : r \in DOMAIN utxo}
                    /\ \A r \in DOMAIN utxo : TheBook[lineage[r].root] = TermsOf(utxo[r].datum))'
  BY BookOfUTxOs, PTL
<1>2. QED
  BY <1>1

LEMMA InitBookChain == Init => BookChain
<1> SUFFICES ASSUME Init PROVE BookChain
  OBVIOUS
<1>1. Chain
  BY InitChain
<1>2. utxo = << >> /\ credit = << >>
  BY DEF Init
<1>3. OneUTxOEach
  BY <1>2 DEF OneUTxOEach
<1>4. CreditsAreFunction
  BY <1>2 DEF CreditsAreFunction
<1>5. QED
  BY <1>1, <1>3, <1>4 DEF BookChain

LEMMA InitBook == Init => Book!Init
<1> SUFFICES ASSUME Init PROVE Book!Init
  OBVIOUS
<1>1. utxo = << >> /\ credit = << >> /\ clock = 0
  BY DEF Init
<1>2. OpenRoots = {}
  BY <1>1 DEF OpenRoots, Orders
<1>3. [root \in OpenRoots |-> Terms(root)] = << >>
  BY <1>2
<1>4. QED
  BY <1>1, <1>3 DEF Book!Init

(***************************************************************************)
(* Parents.                                                                *)
(***************************************************************************)
(* A beacon-bearing output continues one order at most, and no two outputs *)
(* continue the same.                                                      *)
LEMMA ParentsDistinct ==
  ASSUME NEW tx, TypedTransaction(tx)
  PROVE  LET C == beacon_bearing_outputs(tx, BeaconPolicy) IN
         /\ \A i \in C : \A q, r \in Parents(tx, i) : q = r
         /\ \A i, j \in C : \A r : r \in Parents(tx, i) /\ r \in Parents(tx, j) => i = j
         /\ \A i \in C : \A r \in Parents(tx, i) : r \in partial_take_refs(tx)
<1>1. \A i : \A r \in Parents(tx, i) :
        r \in partial_take_refs(tx) /\ InputRank(tx, r) = OutputRank(tx, BeaconPolicy, i)
  BY DEF Parents
<1>2. QED
  BY <1>1, PartialTakes, OutputRanks

(* The root of a new UTxO is that of the order it continues, or its own.   *)
LEMMA RootOfNew ==
  ASSUME Chain, NEW tx, TypedTransaction(tx), Accepted(tx),
         NEW id, NEW i \in beacon_bearing_outputs(tx, BeaconPolicy)
  PROVE  /\ \A r \in Parents(tx, i) : LineageOf(tx, <<id, i>>).root = lineage[r].root
         /\ Parents(tx, i) = {} => LineageOf(tx, <<id, i>>).root = <<id, i>>
<1> DEFINE ref == <<id, i>>
<1>1. ref[2] = i
  OBVIOUS
<1>2. ASSUME NEW r \in Parents(tx, i) PROVE LineageOf(tx, ref).root = lineage[r].root
  <2> DEFINE q == CHOOSE q \in Parents(tx, i) : TRUE
  <2>1. q \in Parents(tx, i)
    BY <1>2
  <2>2. q = r
    BY <1>2, <2>1, ParentsDistinct
  <2>3. LineageOf(tx, ref) = [lineage[q] EXCEPT !.fills = @ + 1]
    BY <1>1, <1>2 DEF LineageOf
  <2> HIDE DEF q
  <2>4. lineage[r] \in Lineages
    BY <1>2, ParentOf DEF Chain, TypeOK
  <2>5. QED
    BY <2>2, <2>3, <2>4 DEF Lineages
<1>3. ASSUME Parents(tx, i) = {} PROVE LineageOf(tx, ref).root = ref
  BY <1>1, <1>3 DEF LineageOf, Placed
<1>4. QED
  BY <1>2, <1>3

(***************************************************************************)
(* What a transaction leaves.                                              *)
(***************************************************************************)
LEMMA UTxOsAfter ==
  ASSUME Chain, NEW tx, TypedTransaction(tx), Accepted(tx),
         NEW id \in TxIds \ txids, Submit(tx, id)
  PROVE  /\ \A x \in DOMAIN utxo' :
              \/ x \in DOMAIN utxo \ OrderInputs(tx)
              \/ \E i \in beacon_bearing_outputs(tx, BeaconPolicy) : x = <<id, i>>
         /\ \A x \in DOMAIN utxo \ OrderInputs(tx) :
              /\ x \in DOMAIN utxo'
              /\ utxo'[x] = utxo[x] /\ lineage'[x] = lineage[x]
         /\ \A i \in beacon_bearing_outputs(tx, BeaconPolicy) :
              /\ <<id, i>> \in DOMAIN utxo' /\ <<id, i>> \notin DOMAIN credit
              /\ utxo'[<<id, i>>] = tx.outputs[i]
              /\ lineage'[<<id, i>>] = LineageOf(tx, <<id, i>>)
<1> DEFINE kept == DOMAIN utxo \ OrderInputs(tx)
           new  == NewRefs(tx, id)
<1>1. /\ utxo' = [r \in kept \cup new |-> IF r \in new THEN tx.outputs[r[2]] ELSE utxo[r]]
      /\ lineage' = [r \in kept \cup new |-> IF r \in new THEN LineageOf(tx, r) ELSE lineage[r]]
  BY DEF Submit
<1>2. new = {<<id, i>> : i \in beacon_bearing_outputs(tx, BeaconPolicy)}
  BY DEF NewRefs
<1>3. \A x \in txids \X Nat : x[1] \in txids
  OBVIOUS
<1>4. \A i : <<id, i>>[1] = id /\ <<id, i>>[2] = i
  OBVIOUS
<1>5. \A x \in DOMAIN utxo \cup DOMAIN credit : x \in txids \X Nat
  BY DEF Chain, TypeOK
<1> HIDE DEF kept, new
<1>6. \A i : <<id, i>> \notin DOMAIN utxo /\ <<id, i>> \notin DOMAIN credit
  BY <1>3, <1>4, <1>5
<1>7. \A x \in kept : x \notin new
  BY <1>2, <1>6 DEF kept
<1>8. \A x \in DOMAIN utxo' : x \in kept \/ x \in new
  BY <1>1
<1>9. \A x \in kept : x \in DOMAIN utxo' /\ utxo'[x] = utxo[x] /\ lineage'[x] = lineage[x]
  BY <1>1, <1>7
<1>10. ASSUME NEW i \in beacon_bearing_outputs(tx, BeaconPolicy)
       PROVE  /\ <<id, i>> \in DOMAIN utxo'
              /\ utxo'[<<id, i>>] = tx.outputs[i]
              /\ lineage'[<<id, i>>] = LineageOf(tx, <<id, i>>)
  <2>1. <<id, i>> \in new
    BY <1>2
  <2>2. QED
    BY <1>1, <1>4, <2>1
<1>11. QED
  BY <1>2, <1>6, <1>8, <1>9, <1>10 DEF kept

(* Roots stay distinct: a continuation takes over the root of an order     *)
(* that is spent, any other new order has its own reference as root.       *)
LEMMA SubmitOneUTxOEach ==
  ASSUME BookChain, NEW tx, TypedTransaction(tx), Accepted(tx),
         NEW id \in TxIds \ txids, Submit(tx, id)
  PROVE  OneUTxOEach'
<1> DEFINE C == beacon_bearing_outputs(tx, BeaconPolicy)
           kept == DOMAIN utxo \ OrderInputs(tx)
<1>1. Chain /\ OneUTxOEach
  BY DEF BookChain
<1>2. /\ \A x \in DOMAIN utxo' : x \in kept \/ \E i \in C : x = <<id, i>>
      /\ \A x \in kept : lineage'[x] = lineage[x]
      /\ \A i \in C : <<id, i>> \notin DOMAIN credit
                      /\ lineage'[<<id, i>>] = LineageOf(tx, <<id, i>>)
  BY <1>1, UTxOsAfter
<1>3. \A i \in C : \/ /\ Parents(tx, i) = {} /\ lineage'[<<id, i>>].root = <<id, i>>
                      /\ lineage'[<<id, i>>].root \notin DOMAIN credit
                   \/ \E r \in Parents(tx, i) : lineage'[<<id, i>>].root = lineage[r].root
  BY <1>1, <1>2, RootOfNew
<1>4. \A i \in C : \A r \in Parents(tx, i) : r \in OrderInputs(tx) /\ r \in DOMAIN utxo
  BY <1>1, ParentOf
<1>5. \A x \in DOMAIN utxo : lineage[x].root \in DOMAIN credit
  BY <1>1 DEF Chain, TypeOK
<1>6. ASSUME NEW x \in kept, NEW i \in C PROVE lineage'[x].root # lineage'[<<id, i>>].root
  <2>1. CASE Parents(tx, i) = {} /\ lineage'[<<id, i>>].root \notin DOMAIN credit
    BY <1>2, <1>5, <2>1
  <2>2. CASE \E r \in Parents(tx, i) : lineage'[<<id, i>>].root = lineage[r].root
    BY <1>1, <1>2, <1>4, <2>2 DEF OneUTxOEach
  <2>3. QED
    BY <1>3, <2>1, <2>2
<1>7. ASSUME NEW i \in C, NEW j \in C, lineage'[<<id, i>>].root = lineage'[<<id, j>>].root
      PROVE  i = j
  <2>1. CASE Parents(tx, i) = {} /\ lineage'[<<id, i>>].root = <<id, i>>
                                 /\ lineage'[<<id, i>>].root \notin DOMAIN credit
    <3>1. lineage'[<<id, j>>].root = <<id, j>>
      BY <1>3, <1>4, <1>5, <1>7, <2>1
    <3>2. <<id, i>> = <<id, j>>
      BY <1>7, <2>1, <3>1
    <3>3. QED
      BY <3>2
  <2>2. CASE \E r \in Parents(tx, i) : lineage'[<<id, i>>].root = lineage[r].root
    <3>1. PICK r \in Parents(tx, i) : lineage'[<<id, i>>].root = lineage[r].root
      BY <2>2
    <3>2. PICK q \in Parents(tx, j) : lineage'[<<id, j>>].root = lineage[q].root
      BY <1>3, <1>4, <1>5, <1>7, <3>1
    <3>3. q = r
      BY <1>1, <1>4, <1>7, <3>1, <3>2 DEF OneUTxOEach
    <3>4. \A a, b \in C : \A p : p \in Parents(tx, a) /\ p \in Parents(tx, b) => a = b
      BY ParentsDistinct
    <3>5. QED
      BY <3>1, <3>2, <3>3, <3>4
  <2>3. QED
    BY <1>3, <2>1, <2>2
<1>8. ASSUME NEW x \in DOMAIN utxo', NEW y \in DOMAIN utxo', lineage'[x].root = lineage'[y].root
      PROVE  x = y
  <2> HIDE DEF C, kept
  <2>1. CASE x \in kept /\ y \in kept
    BY <1>1, <1>2, <1>8, <2>1 DEF OneUTxOEach, kept
  <2>2. CASE ~(x \in kept /\ y \in kept)
    BY <1>2, <1>6, <1>7, <1>8, <2>2
  <2>3. QED
    BY <2>1, <2>2
<1>9. QED
  BY <1>8 DEF OneUTxOEach

LEMMA NextBookChain == BookChain /\ [Next]_vars => BookChain' \/ mixed'
<1> SUFFICES ASSUME BookChain, [Next]_vars, ~mixed' PROVE BookChain'
  OBVIOUS
<1>1. Chain'
  BY NextChain DEF BookChain
<1>2. CASE Tick
  BY <1>1, <1>2 DEF Tick, BookChain, OneUTxOEach, CreditsAreFunction
<1>3. CASE \E tx \in Offered(utxo), id \in TxIds \ txids :
             TypedTransaction(tx) /\ Accepted(tx) /\ Submit(tx, id)
  <2>1. PICK tx \in Offered(utxo), id \in TxIds \ txids :
             TypedTransaction(tx) /\ Accepted(tx) /\ Submit(tx, id)
    BY <1>3
  <2>2. OneUTxOEach'
    BY <2>1, SubmitOneUTxOEach
  <2>3. credit' = Credited(tx, id)
    BY <2>1 DEF Submit
  <2>4. CreditsAreFunction'
    BY <2>3 DEF Credited, CreditsAreFunction
  <2>5. QED
    BY <1>1, <2>2, <2>4 DEF BookChain
<1>4. CASE UNCHANGED vars
  BY <1>1, <1>4 DEF vars, BookChain, OneUTxOEach, CreditsAreFunction
<1>5. QED
  BY <1>2, <1>3, <1>4 DEF Next

----------------------------------------------------------------------------
(***************************************************************************)
(* The steps of the book.                                                  *)
(***************************************************************************)

(* cancel_ok: the owner's transaction takes the one order off the book.    *)
LEMMA CancelWithdraws ==
  ASSUME BookChain, BookChain', NEW tx, TypedTransaction(tx), Accepted(tx),
         NEW id \in TxIds \ txids, Submit(tx, id),
         NEW r \in OrderInputs(tx), tx.spends[r].kind = "CancelOrder"
  PROVE  lineage[r].root \in DOMAIN TheBook /\ Book!Withdraw(lineage[r].root)
<1> DEFINE root == lineage[r].root
<1>1. Chain /\ OneUTxOEach /\ CreditsAreFunction
  BY DEF BookChain
<1>2. r \in DOMAIN utxo /\ WellFormedOrder(utxo[r])
  BY <1>1 DEF Accepted, Chain, BeaconsNeverLeak
<1>3. utxo[r].address.payment = Script /\ utxo[r].datum.beacon_policy_id = BeaconPolicy
  BY <1>2 DEF WellFormedOrder
<1>4. cancel_ok(utxo, r, tx)
  <2>1. spend(utxo, r, tx)
    BY <1>3, Judged
  <2>2. QED
    BY <2>1 DEF spend
<1>5. beacon_bearing_outputs(tx, BeaconPolicy) = {}
  BY <1>3, <1>4 DEF cancel_ok, no_beacons_in_outputs, beacon_bearing_outputs
<1>6. OrderInputs(tx) = {r}
  <2>1. IsFiniteSet(Inputs(tx)) /\ ScriptInputs(tx) \subseteq Inputs(tx)
    BY DEF TypedTransaction, Inputs, ScriptInputs
  <2>2. IsFiniteSet(ScriptInputs(tx)) /\ Cardinality(ScriptInputs(tx)) = 1
    BY <1>4, <2>1, FS_Subset DEF cancel_ok, only_one_order_input
  <2>3. \E x : ScriptInputs(tx) = {x}
    BY <2>2, FS_Singleton
  <2>4. OrderInputs(tx) \subseteq ScriptInputs(tx)
    <3> SUFFICES ASSUME NEW q \in OrderInputs(tx) PROVE q \in ScriptInputs(tx)
      OBVIOUS
    <3>1. q \in Inputs(tx) /\ q \in DOMAIN utxo
      BY DEF OrderInputs, Accepted
    <3>2. WellFormedOrder(utxo[q])
      BY <1>1, <3>1 DEF Chain, BeaconsNeverLeak
    <3>3. utxo[q].address.payment = Script
      BY <3>2 DEF WellFormedOrder
    <3>4. QED
      BY <3>1, <3>3, Judged DEF ScriptInputs
  <2>5. QED
    BY <2>3, <2>4
<1>7. /\ DOMAIN utxo' = DOMAIN utxo \ {r}
      /\ \A x \in DOMAIN utxo' : utxo'[x] = utxo[x] /\ lineage'[x] = lineage[x]
  BY <1>1, <1>5, <1>6, UTxOsAfter
<1>8. credit' = credit
  <2>1. NewRefs(tx, id) = {}
    BY <1>5 DEF NewRefs
  <2>2. credit' = Credited(tx, id)
    BY DEF Submit
  <2>3. Credited(tx, id) = [x \in DOMAIN credit |-> credit[x]]
    BY <1>6, <2>1 DEF Credited, TakeKinds
  <2>4. QED
    BY <1>1, <2>2, <2>3 DEF CreditsAreFunction
<1>9. DOMAIN TheBook' = DOMAIN TheBook \ {root}
  BY <1>1, <1>2, <1>7, BookOfUTxOs, BookAfter DEF OneUTxOEach
<1>10. \A x \in DOMAIN TheBook' : TheBook'[x] = TheBook[x]
  <2> SUFFICES ASSUME NEW x \in DOMAIN utxo' PROVE TheBook'[lineage'[x].root] = TheBook[lineage'[x].root]
    BY BookAfter
  <2>1. x \in DOMAIN utxo /\ utxo'[x] = utxo[x] /\ lineage'[x] = lineage[x]
    BY <1>7
  <2>2. QED
    BY <2>1, BookOfUTxOs, BookAfter
<1>11. clock' = clock
  BY DEF Submit
<1>12. root \in DOMAIN TheBook
  BY <1>2, BookOfUTxOs
<1>13. QED
  BY <1>8, <1>9, <1>10, <1>11, <1>12 DEF Book!Withdraw, TheBook

(* mint_beacons_ok: a transaction that spends no order places one, or      *)
(* none.                                                                   *)
LEMMA MintPlaces ==
  ASSUME BookChain, BookChain', NEW tx, TypedTransaction(tx), Accepted(tx),
         NEW id \in TxIds \ txids, Submit(tx, id), OrderInputs(tx) = {}
  PROVE  \/ \E ref \in DOMAIN TheBook' : Book!Place(ref)
         \/ TheBook' = TheBook /\ credit' = credit /\ clock' = clock
<1> DEFINE C == beacon_bearing_outputs(tx, BeaconPolicy)
<1>1. Chain /\ CreditsAreFunction
  BY DEF BookChain
<1>2. \A i \in C : Parents(tx, i) = {}
  BY DEF Parents, partial_take_refs
<1>3. /\ \A x \in DOMAIN utxo' : x \in DOMAIN utxo \/ \E i \in C : x = <<id, i>>
      /\ \A x \in DOMAIN utxo : x \in DOMAIN utxo' /\ utxo'[x] = utxo[x] /\ lineage'[x] = lineage[x]
      /\ \A i \in C : /\ <<id, i>> \in DOMAIN utxo' /\ <<id, i>> \notin DOMAIN credit
                      /\ utxo'[<<id, i>>] = tx.outputs[i]
                      /\ lineage'[<<id, i>>].root = <<id, i>>
  BY <1>1, <1>2, UTxOsAfter, RootOfNew
<1>4. /\ DOMAIN credit' = DOMAIN credit \cup {LineageOf(tx, r).root : r \in NewRefs(tx, id)}
      /\ \A x \in DOMAIN credit : credit'[x] = credit[x]
      /\ \A x \in DOMAIN credit' \ DOMAIN credit : credit'[x] = 0
      /\ credit' = [x \in DOMAIN credit' |-> credit'[x]]
      /\ clock' = clock
  BY DEF Submit, Credited
<1>5. \A x \in DOMAIN utxo : /\ lineage[x].root \in DOMAIN TheBook
                             /\ lineage[x].root \in DOMAIN TheBook'
                             /\ TheBook'[lineage[x].root] = TheBook[lineage[x].root]
  BY <1>3, BookOfUTxOs, BookAfter
<1>6. \A y \in DOMAIN TheBook : y \in DOMAIN TheBook' /\ TheBook'[y] = TheBook[y]
                                /\ y \in DOMAIN credit
  BY <1>1, <1>5, BookOfUTxOs DEF Chain, TypeOK
<1>7. CASE C = {}
  <2>1. DOMAIN TheBook' = DOMAIN TheBook
    BY <1>3, <1>7, BookOfUTxOs, BookAfter
  <2>2. TheBook' = TheBook
    BY <1>6, <2>1 DEF TheBook
  <2>3. DOMAIN credit' = DOMAIN credit
    BY <1>4, <1>7 DEF NewRefs
  <2>4. credit' = credit
    BY <1>1, <1>4, <2>3 DEF CreditsAreFunction
  <2>5. QED
    BY <1>4, <2>2, <2>4
<1>8. CASE C # {}
  <2>1. Minting(tx) /\ tx.mint_redeemer = "MintBeacons"
    <3>1. ~(\A u \in BeaconNames : tx.mint[u] <= 0)
      BY <1>8, NoBeaconsFromNothing DEF Accepted
    <3>2. PICK u \in BeaconNames : ~(tx.mint[u] <= 0)
      BY <3>1
    <3>3. tx.mint[u] # 0 /\ ~(tx.mint[u] < 0)
      BY <3>2 DEF TypedTransaction
    <3>4. Minting(tx)
      BY <3>3 DEF Minting
    <3>5. tx.mint_redeemer # "BurnBeacons"
      BY <3>3, <3>4 DEF Accepted, mint, burn_beacons_ok
    <3>6. QED
      BY <3>4, <3>5 DEF TypedTransaction
  <2>2. mint_beacons_ok(tx)
    BY <2>1 DEF Accepted, mint
  <2>3. PICK i \in DOMAIN tx.outputs : C = {i} /\ WellFormedOrder(tx.outputs[i])
    BY <2>2 DEF mint_beacons_ok
  <2> DEFINE ref == <<id, i>>
             d == tx.outputs[i].datum
  <2>4. /\ ref \notin DOMAIN credit /\ ref \in DOMAIN utxo'
        /\ utxo'[ref] = tx.outputs[i] /\ lineage'[ref].root = ref
        /\ \A x \in DOMAIN utxo' : x \in DOMAIN utxo \/ x = ref
    BY <1>3, <2>3
  <2>5. DOMAIN credit' = DOMAIN credit \cup {ref} /\ credit'[ref] = 0
    <3>1. NewRefs(tx, id) = {ref}
      BY <2>3 DEF NewRefs
    <3>2. LineageOf(tx, ref).root = ref
      BY <1>1, <1>2, <2>3, RootOfNew
    <3>3. QED
      BY <1>4, <2>4, <3>1, <3>2
  <2>6. DOMAIN TheBook' = DOMAIN TheBook \cup {ref}
    <3>1. DOMAIN TheBook' \subseteq DOMAIN TheBook \cup {ref}
      BY <1>5, <2>4, BookAfter, <1>3
    <3>2. ref \in DOMAIN TheBook'
      BY <2>4, BookAfter
    <3>3. QED
      BY <1>6, <3>1, <3>2
  <2>7. TheBook'[ref] = TermsOf(d)
    BY <2>4, BookAfter
  <2>8. d.offer_amount > 0 /\ d.ask_amount > 0
    BY <2>3 DEF WellFormedOrder
  <2>9. TheBook'[ref].offer > 0 /\ TheBook'[ref].ask > 0
    BY <2>7, <2>8 DEF TermsOf
  <2>10. \A y \in DOMAIN TheBook : Book!Undisturbed(y)
    BY <1>4, <1>6 DEF Book!Undisturbed, TheBook
  <2>11. Book!Place(ref)
    BY <1>4, <2>4, <2>5, <2>6, <2>9, <2>10 DEF Book!Place, TheBook
  <2>12. QED
    BY <2>6, <2>11
<1>9. QED
  BY <1>7, <1>8

(* take_ok, take_partial_ok: what one taken order brings its seller, and   *)
(* what is left of it.  The output with the rank of a partial take carries *)
(* its root on.                                                            *)
LEMMA TakenLeg ==
  ASSUME BookChain, BookChain', NEW tx, TypedTransaction(tx), Accepted(tx),
         NEW id \in TxIds \ txids, Submit(tx, id),
         NEW r \in OrderInputs(tx), tx.spends[r].kind # "CancelOrder"
  PROVE  LET d    == utxo[r].datum
             t    == tx.spends[r].take_amount
             root == lineage[r].root
         IN  /\ d.expiration # None => clock < d.expiration
             /\ \/ /\ root \notin DOMAIN TheBook'
                   /\ PaidFor(tx, r) >= d.ask_amount
                \/ /\ root \in DOMAIN TheBook'
                   /\ t \in 1..(d.offer_amount - 1)
                   /\ required_payment(t, d.ask_amount, d.offer_amount) < d.ask_amount
                   /\ TheBook'[root] = TermsOf(continuation_datum(d, t))
                   /\ PaidFor(tx, r) >= required_payment(t, d.ask_amount, d.offer_amount)
<1> DEFINE C == beacon_bearing_outputs(tx, BeaconPolicy)
           d == utxo[r].datum
           t == tx.spends[r].take_amount
           root == lineage[r].root
           price == IF tx.spends[r].kind = "TakeOrderPartial"
                    THEN required_payment(t, d.ask_amount, d.offer_amount)
                    ELSE d.ask_amount
<1>1. Chain /\ OneUTxOEach
  BY DEF BookChain
<1>14. TypeOK /\ WellFormedOrder(utxo[r]) /\ utxo[r].address.payment = Script
  BY <1>1 DEF Chain, BeaconsNeverLeak, Accepted, WellFormedOrder
<1>3. /\ r \in DOMAIN utxo /\ utxo[r] \in Outputs /\ WellFormedOrder(utxo[r])
      /\ tx.spends[r].kind \in {"TakeOrder", "TakeOrderPartial"}
      /\ \A a \in Assets : Due(tx, r, a) \in Nat
  BY <1>14, TakenPaid
<1>15. spend(utxo, r, tx) /\ t \in Int
  BY <1>14, Judged
<1>2. d.expiration # None => clock < d.expiration
  BY <1>3, <1>14, SpentInTime DEF TakeKinds
<1>4. PICK p \in DOMAIN tx.outputs :
        /\ tagged_payment(tx, r) = {p}
        /\ tx.outputs[p] \in Outputs
        /\ \A a \in Assets : Due(tx, r, a) <= tx.outputs[p].value[a]
  BY <1>14, TakenPaid
<1>5. d \in OrderDatums /\ d.ask \in Assets /\ d.ask \in Units /\ d.beacon_policy_id = BeaconPolicy
  BY <1>3, OrderUnits DEF Units, WellFormedOrder
<1>6. PaidFor(tx, r) = tx.outputs[p].value[d.ask]
  <2>1. tagged_payment(tx, r) = {i \in DOMAIN tx.outputs : tx.outputs[i].datum = PaymentTag(r)}
    BY DEF tagged_payment
  <2>2. {i \in DOMAIN tx.outputs : tx.outputs[i].datum = PaymentTag(r)} = {p}
    BY <1>4, <2>1
  <2>3. (CHOOSE i \in {p} : TRUE) = p
    OBVIOUS
  <2>4. QED
    BY <1>5, <2>2, <2>3 DEF PaidFor
<1>7. price <= PaidFor(tx, r)
  <2>1. d.ask_amount \in Nat /\ d.offer_amount \in Nat /\ d.offer_amount > 0
        /\ deposit(d, utxo[r].value) \in Nat
    <3>1. d.ask_amount \in Nat /\ d.offer_amount \in Nat /\ d.offer_amount > 0
          /\ utxo[r].value[ADA] \in Nat /\ offer_covered(utxo[r])
      BY <1>3, <1>5 DEF OrderDatums, WellFormedOrder, Outputs, Values, Units, Assets
    <3>2. QED
      BY <3>1 DEF offer_covered, deposit, is_ada
  <2>2. Due(tx, r, d.ask) = price + (IF d.ask = ADA /\ tx.spends[r].kind # "TakeOrderPartial"
                                      THEN deposit(d, utxo[r].value) ELSE 0)
    BY DEF Due
  <2>3. Due(tx, r, d.ask) <= tx.outputs[p].value[d.ask] /\ tx.outputs[p].value[d.ask] \in Nat
    BY <1>4, <1>5 DEF Outputs, Values
  <2>4. price \in Int
    <3>1. CASE tx.spends[r].kind = "TakeOrderPartial"
      <4>2. t > 0 /\ t \in Int
        BY <1>15, <3>1 DEF spend, take_partial_ok
      <4>3. required_payment(t, d.ask_amount, d.offer_amount) \in Nat
        <5>1. t \in Nat
          BY <4>2
        <5> HIDE DEF t, d
        <5>2. QED
          BY <2>1, <5>1, RequiredPayment
      <4>4. QED
        BY <3>1, <4>3
    <3>2. CASE tx.spends[r].kind # "TakeOrderPartial"
      BY <2>1, <3>2
    <3>3. QED
      BY <3>1, <3>2
  <2> HIDE DEF price, d
  <2>5. QED
    BY <1>6, <2>1, <2>2, <2>3, <2>4
<1>8. /\ \A x \in DOMAIN utxo' : x \in DOMAIN utxo \ OrderInputs(tx) \/ \E i \in C : x = <<id, i>>
      /\ \A x \in DOMAIN utxo \ OrderInputs(tx) : lineage'[x] = lineage[x]
      /\ \A i \in C : /\ <<id, i>> \in DOMAIN utxo' /\ <<id, i>> \notin DOMAIN credit
                      /\ utxo'[<<id, i>>] = tx.outputs[i]
                      /\ lineage'[<<id, i>>] = LineageOf(tx, <<id, i>>)
  BY <1>1, UTxOsAfter
<1>9. root \in DOMAIN credit
  BY <1>1, <1>3 DEF Chain, TypeOK
(* The root stays on the book only in a continuation of r.                 *)
<1>10. root \in DOMAIN TheBook' => \E i \in C : r \in Parents(tx, i)
  <2> SUFFICES ASSUME NEW x \in DOMAIN utxo', lineage'[x].root = root
               PROVE  \E i \in C : r \in Parents(tx, i)
    BY BookAfter
  <2>1. x \notin DOMAIN utxo \ OrderInputs(tx)
    BY <1>1, <1>3, <1>8 DEF OneUTxOEach
  <2>2. PICK i \in C : x = <<id, i>>
    BY <1>8, <2>1
  <2>3. LineageOf(tx, <<id, i>>).root = root /\ <<id, i>> # root
    BY <1>8, <1>9, <2>2
  <2>4. PICK q \in Parents(tx, i) : lineage[q].root = root
    BY <1>1, <2>3, RootOfNew
  <2>5. q \in DOMAIN utxo
    BY <1>1, <2>4, ParentOf
  <2>6. q = r
    BY <1>1, <1>3, <2>4, <2>5 DEF OneUTxOEach
  <2>7. QED
    BY <2>4, <2>6
<1>11. CASE tx.spends[r].kind = "TakeOrder"
  <2>1. root \notin DOMAIN TheBook'
    BY <1>10, <1>11 DEF Parents, partial_take_refs
  <2>2. d.ask_amount <= PaidFor(tx, r)
    BY <1>7, <1>11
  <2>3. d.ask_amount \in Nat /\ PaidFor(tx, r) \in Nat
    BY <1>4, <1>5, <1>6 DEF OrderDatums, Outputs, Values
  <2>4. QED
    BY <1>2, <2>1, <2>2, <2>3
<1>12. CASE tx.spends[r].kind = "TakeOrderPartial"
  <2>1. take_partial_ok(utxo, r, tx)
    <3>2. QED
      BY <1>12, <1>15 DEF spend
  <2>2. PICK c \in C : /\ OutputRank(tx, BeaconPolicy, c) = InputRank(tx, r)
                       /\ tx.outputs[c].datum = continuation_datum(d, t)
    BY <1>5, <2>1 DEF take_partial_ok
  <2>3. r \in Parents(tx, c)
    BY <1>12, <2>2 DEF Parents, partial_take_refs, OrderInputs
  <2>4. lineage'[<<id, c>>].root = root
    BY <1>1, <1>8, <2>3, RootOfNew
  <2>5. root \in DOMAIN TheBook' /\ TheBook'[root] = TermsOf(continuation_datum(d, t))
    <3>1. <<id, c>> \in DOMAIN utxo' /\ utxo'[<<id, c>>].datum = continuation_datum(d, t)
      BY <1>8, <2>2
    <3> HIDE DEF root, d, t
    <3>2. QED
      BY <2>4, <3>1, BookAfter
  <2>6. t \in Int /\ t > 0 /\ t < d.offer_amount
        /\ required_payment(t, d.ask_amount, d.offer_amount) < d.ask_amount
    BY <1>1, <2>3, ParentOf
  <2>7. t \in 1..(d.offer_amount - 1)
    BY <1>5, <2>6 DEF OrderDatums
  <2>8. required_payment(t, d.ask_amount, d.offer_amount) <= PaidFor(tx, r)
    BY <1>7, <1>12
  <2>9. required_payment(t, d.ask_amount, d.offer_amount) \in Int /\ PaidFor(tx, r) \in Nat
    <3>1. PaidFor(tx, r) \in Nat
      BY <1>4, <1>5, <1>6 DEF Outputs, Values
    <3>2. d.offer_amount \in Nat /\ d.ask_amount \in Nat /\ t \in Nat /\ d.offer_amount > 0
      BY <1>5, <2>6 DEF OrderDatums
    <3> HIDE DEF d, t
    <3>3. required_payment(t, d.ask_amount, d.offer_amount) \in Nat
      BY <3>2, RequiredPayment
    <3>4. QED
      BY <3>1, <3>3
  <2>10. QED
    BY <1>2, <2>5, <2>6, <2>7, <2>8, <2>9
<1>13. QED
  BY <1>3, <1>11, <1>12

(* A transaction that takes orders trades them, each for its own price,    *)
(* and touches no other.                                                   *)
LEMMA TakesTrade ==
  ASSUME BookChain, BookChain', NEW tx, TypedTransaction(tx), Accepted(tx), ~Mixed(tx),
         NEW id \in TxIds \ txids, Submit(tx, id),
         OrderInputs(tx) # {}, \A r \in OrderInputs(tx) : tx.spends[r].kind # "CancelOrder"
  PROVE  \E legs \in SUBSET DOMAIN TheBook : Book!Trade(legs)
<1> DEFINE C == beacon_bearing_outputs(tx, BeaconPolicy)
           legs == {lineage[r].root : r \in OrderInputs(tx)}
           takenOf(root) == {r \in OrderInputs(tx) :
                               tx.spends[r].kind \in TakeKinds /\ lineage[r].root = root}
<1>1. Chain /\ OneUTxOEach
  BY DEF BookChain
<1>2. OrderInputs(tx) \subseteq DOMAIN utxo
  BY DEF Accepted
<1>17. \A r \in OrderInputs(tx) :
         /\ TypeOK /\ WellFormedOrder(utxo[r]) /\ utxo[r].address.payment = Script
         /\ utxo[r].datum.beacon_policy_id = BeaconPolicy
         /\ tx.spends[r].kind \in TakeKinds
         /\ spend(utxo, r, tx)
  <2> SUFFICES ASSUME NEW r \in OrderInputs(tx)
               PROVE  /\ TypeOK /\ WellFormedOrder(utxo[r]) /\ utxo[r].address.payment = Script
                      /\ utxo[r].datum.beacon_policy_id = BeaconPolicy
                      /\ tx.spends[r].kind \in TakeKinds
                      /\ spend(utxo, r, tx)
    OBVIOUS
  <2>1. TypeOK /\ WellFormedOrder(utxo[r]) /\ utxo[r].address.payment = Script
        /\ utxo[r].datum.beacon_policy_id = BeaconPolicy
    BY <1>1, <1>2 DEF Chain, BeaconsNeverLeak, WellFormedOrder
  <2>2. QED
    BY <2>1, Judged DEF TakeKinds
(* An output with beacons that continues no order would be minted, alone;  *)
(* the one partial take with its rank would be of an imitation, and the    *)
(* order beside it taken in full.                                          *)
<1>3. \A i \in C : Parents(tx, i) # {}
  <2> SUFFICES ASSUME NEW i \in C, Parents(tx, i) = {} PROVE FALSE
    OBVIOUS
  <2>1. PICK r \in OrderInputs(tx) : TRUE
    OBVIOUS
  <2>2. beacon_accounting_ok(tx, BeaconPolicy)
    BY <1>17, <2>1 DEF spend, take_ok, take_partial_ok, TakeKinds
  <2>3. Minting(tx) /\ tx.mint_redeemer = "MintBeacons"
    BY <1>1, OthersMinted
  <2>4. mint_beacons_ok(tx)
    BY <2>3 DEF Accepted, mint
  <2>5. PICK j : C = {j}
    BY <2>4 DEF mint_beacons_ok
  <2>6. Cardinality(C) = 1
    BY <2>5, FS_Singleton
  <2>7. IsFiniteSet(partial_take_refs(tx)) /\ Cardinality(partial_take_refs(tx)) = 1
    BY <2>2, <2>6, PartialTakes DEF beacon_accounting_ok
  <2>8. PICK x : partial_take_refs(tx) = {x}
    BY <2>7, FS_Singleton
  <2>9. PICK q \in partial_take_refs(tx) : InputRank(tx, q) = OutputRank(tx, BeaconPolicy, i)
    BY <2>2, EveryOutputPaired
  <2>10. q \notin OrderInputs(tx)
    BY <2>9 DEF Parents
  <2>11. q \in DOMAIN tx.imitations /\ tx.spends[q].kind = "TakeOrderPartial"
    BY <2>9, <2>10 DEF partial_take_refs, OrderInputs
  <2>12. r \notin partial_take_refs(tx)
    BY <2>1, <2>8, <2>9, <2>10
  <2>13. tx.spends[r].kind = "TakeOrder"
    BY <1>17, <2>1, <2>12 DEF partial_take_refs, OrderInputs, TakeKinds
  <2>14. QED
    BY <2>1, <2>11, <2>13 DEF Mixed
<1>4. /\ \A x \in DOMAIN utxo' : x \in DOMAIN utxo \ OrderInputs(tx) \/ \E i \in C : x = <<id, i>>
      /\ \A x \in DOMAIN utxo \ OrderInputs(tx) :
           x \in DOMAIN utxo' /\ utxo'[x] = utxo[x] /\ lineage'[x] = lineage[x]
      /\ \A i \in C : lineage'[<<id, i>>] = LineageOf(tx, <<id, i>>)
  BY <1>1, UTxOsAfter
<1>5. \A i \in C : \E q \in DOMAIN utxo : LineageOf(tx, <<id, i>>).root = lineage[q].root
  BY <1>1, <1>3, RootOfNew, ParentOf
<1>6. DOMAIN TheBook' \subseteq DOMAIN TheBook
  BY <1>4, <1>5, BookOfUTxOs, BookAfter
<1>7. DOMAIN TheBook \subseteq DOMAIN credit
  BY <1>1, BookOfUTxOs DEF Chain, TypeOK
<1>8. /\ DOMAIN credit' = DOMAIN credit
      /\ \A root \in DOMAIN credit :
           credit'[root] = IF takenOf(root) = {} THEN credit[root]
                           ELSE credit[root] + PaidFor(tx, CHOOSE r \in takenOf(root) : TRUE)
      /\ clock' = clock
  <2>1. \A r \in NewRefs(tx, id) : LineageOf(tx, r).root \in DOMAIN credit
    BY <1>5, <1>7, BookOfUTxOs DEF NewRefs
  <2>2. DOMAIN credit' = DOMAIN credit \cup {LineageOf(tx, r).root : r \in NewRefs(tx, id)}
    BY DEF Submit, Credited
  <2>3. \A root \in DOMAIN credit :
          credit'[root] = IF takenOf(root) = {} THEN credit[root]
                          ELSE credit[root] + PaidFor(tx, CHOOSE r \in takenOf(root) : TRUE)
    BY DEF Submit, Credited
  <2>4. DOMAIN credit' = DOMAIN credit
    BY <2>1, <2>2
  <2>5. clock' = clock
    BY DEF Submit
  <2> HIDE DEF takenOf
  <2>6. QED
    BY <2>3, <2>4, <2>5
<1>9. ASSUME NEW r \in OrderInputs(tx)
      PROVE  LET root == lineage[r].root IN
             /\ root \in DOMAIN TheBook
             /\ TheBook[root] = TermsOf(utxo[r].datum)
             /\ credit'[root] = credit[root] + PaidFor(tx, r)
  <2> DEFINE root == lineage[r].root
  <2>1. root \in DOMAIN TheBook /\ TheBook[root] = TermsOf(utxo[r].datum)
    BY <1>2, BookOfUTxOs
  <2>2. takenOf(root) = {r}
    BY <1>1, <1>2, <1>17 DEF OneUTxOEach
  <2>3. (CHOOSE q \in {r} : TRUE) = r
    OBVIOUS
  <2>4. credit'[root] = credit[root] + PaidFor(tx, r)
    BY <1>7, <1>8, <2>1, <2>2, <2>3
  <2>5. QED
    BY <2>1, <2>4
<1>10. ASSUME NEW r \in OrderInputs(tx)
       PROVE  LET root == lineage[r].root IN
              /\ TheBook[root].expiration # None => clock < TheBook[root].expiration
              /\ Book!Filled(root) \/ Book!PartlyFilled(root)
  <2> DEFINE root == lineage[r].root
             d == utxo[r].datum
             t == tx.spends[r].take_amount
             price == required_payment(t, d.ask_amount, d.offer_amount)
  <2>1. /\ d.expiration # None => clock < d.expiration
        /\ \/ /\ root \notin DOMAIN TheBook'
              /\ PaidFor(tx, r) >= d.ask_amount
           \/ /\ root \in DOMAIN TheBook'
              /\ t \in 1..(d.offer_amount - 1)
              /\ price < d.ask_amount
              /\ TheBook'[root] = TermsOf(continuation_datum(d, t))
              /\ PaidFor(tx, r) >= price
    BY TakenLeg
  <2>2. /\ root \in DOMAIN TheBook
        /\ TheBook[root] = TermsOf(d)
        /\ credit'[root] = credit[root] + PaidFor(tx, r)
    BY <1>9
  <2>3. /\ TheBook[root].offer = d.offer_amount /\ TheBook[root].ask = d.ask_amount
        /\ TheBook[root].expiration = d.expiration
    BY <2>2 DEF TermsOf
  <2>4. d \in OrderDatums /\ d.offer_amount \in Nat /\ d.ask_amount \in Nat
    BY <1>1, <1>2 DEF Chain, BeaconsNeverLeak, WellFormedOrder, OrderDatums
  <2>5. PaidFor(tx, r) \in Nat /\ credit[root] \in Nat
    <3>1. /\ utxo[r] \in Outputs
          /\ \E p \in DOMAIN tx.outputs : tagged_payment(tx, r) = {p} /\ tx.outputs[p] \in Outputs
      BY <1>2, <1>17, TakenPaid
    <3>2. PICK p \in DOMAIN tx.outputs : tagged_payment(tx, r) = {p} /\ tx.outputs[p] \in Outputs
      BY <3>1
    <3>3. d.ask \in Units
      BY <2>4 DEF OrderDatums
    <3>4. tagged_payment(tx, r) = {i \in DOMAIN tx.outputs : tx.outputs[i].datum = PaymentTag(r)}
      BY DEF tagged_payment
    <3>5. PaidFor(tx, r) = tx.outputs[p].value[d.ask]
      <4>1. (CHOOSE i \in {p} : TRUE) = p
        OBVIOUS
      <4>2. QED
        BY <2>4, <3>2, <3>4, <4>1 DEF PaidFor
    <3>6. PaidFor(tx, r) \in Nat
      BY <3>2, <3>3, <3>5 DEF Outputs, Values
    <3>7. QED
      BY <1>1, <1>7, <2>2, <3>6 DEF Chain, TypeOK
  <2>6. CASE root \notin DOMAIN TheBook'
    <3>1. credit'[root] >= credit[root] + TheBook[root].ask
      BY <2>1, <2>2, <2>3, <2>4, <2>5, <2>6
    <3>2. Book!Filled(root)
      BY <2>6, <3>1 DEF Book!Filled, TheBook
    <3>3. QED
      BY <2>1, <2>3, <3>2
  <2>7. CASE root \in DOMAIN TheBook'
    <3>1. /\ t \in 1..(TheBook[root].offer - 1)
          /\ price = Book!Ceiling(t * TheBook[root].ask, TheBook[root].offer)
          /\ price < TheBook[root].ask
      BY <2>1, <2>3, <2>7 DEF Book!Ceiling, required_payment
    <3>2. TheBook'[root] = [TheBook[root] EXCEPT !.offer = @ - t, !.ask = @ - price]
      <4>1. continuation_datum(d, t)
              = [d EXCEPT !.offer_amount = @ - t, !.ask_amount = @ - price]
        BY DEF continuation_datum
      <4>2. /\ continuation_datum(d, t).offer_amount = d.offer_amount - t
            /\ continuation_datum(d, t).ask_amount = d.ask_amount - price
            /\ continuation_datum(d, t).expiration = d.expiration
        BY <2>4, <4>1 DEF OrderDatums
      <4> DEFINE b == TheBook[root]
                 c == [b EXCEPT !.offer = @ - t, !.ask = @ - price]
                 e == TheBook'[root]
      <4>3. /\ b = [offer |-> d.offer_amount, ask |-> d.ask_amount, expiration |-> d.expiration]
            /\ e = [offer |-> d.offer_amount - t, ask |-> d.ask_amount - price,
                    expiration |-> d.expiration]
        BY <2>1, <2>2, <2>7, <4>2 DEF TermsOf
      <4> HIDE DEF b, d, t, price, e
      <4>4. DOMAIN c = DOMAIN b /\ c = [i \in DOMAIN c |-> c[i]]
        OBVIOUS
      <4>5. DOMAIN b = {"offer", "ask", "expiration"}
            /\ DOMAIN e = {"offer", "ask", "expiration"} /\ e = [i \in DOMAIN e |-> e[i]]
        BY <4>3
      <4>6. c.offer = e.offer /\ c.ask = e.ask /\ c.expiration = e.expiration
        BY <4>3
      <4> HIDE DEF c
      <4>7. e = c
        BY <4>4, <4>5, <4>6
      <4>8. QED
        BY <4>7 DEF e, c, b
    <3>3. credit'[root] >= credit[root] + price
      <4>1. PaidFor(tx, r) >= price
        BY <2>1, <2>7
      <4>2. price \in Int
        <5>1. t \in Nat /\ d.offer_amount > 0
          BY <2>3, <2>4, <3>1
        <5> HIDE DEF t, d
        <5>2. price \in Nat
          BY <2>4, <5>1, RequiredPayment
        <5>3. QED
          BY <5>2
      <4> HIDE DEF price, root
      <4>3. QED
        BY <2>2, <2>5, <4>1, <4>2
    <3>4. Book!PartlyFilled(root)
      BY <2>7, <3>1, <3>2, <3>3 DEF Book!PartlyFilled, TheBook
    <3>5. QED
      BY <2>1, <2>3, <3>4
  <2>8. QED
    BY <2>6, <2>7
<1>11. \A x \in DOMAIN TheBook \ legs : Book!Undisturbed(x)
  <2> SUFFICES ASSUME NEW r \in DOMAIN utxo, lineage[r].root \notin legs
               PROVE  Book!Undisturbed(lineage[r].root)
    BY BookOfUTxOs
  <2> DEFINE root == lineage[r].root
  <2>1. r \in DOMAIN utxo \ OrderInputs(tx)
    OBVIOUS
  <2>2. r \in DOMAIN utxo' /\ utxo'[r] = utxo[r] /\ lineage'[r] = lineage[r]
    BY <1>4, <2>1
  <2>3. root \in DOMAIN TheBook' /\ TheBook'[root] = TheBook[root]
    BY <2>2, BookOfUTxOs, BookAfter
  <2>4. takenOf(root) = {} /\ root \in DOMAIN credit
    BY <1>7, BookOfUTxOs
  <2>5. credit'[root] = credit[root]
    BY <1>8, <2>4
  <2>6. QED
    BY <2>3, <2>5 DEF Book!Undisturbed, TheBook
<1>12. \A x \in DOMAIN credit \ legs : credit'[x] = credit[x]
  BY <1>8
<1>13. legs # {} /\ legs \in SUBSET DOMAIN TheBook
  BY <1>9
<1>14. \A x \in legs : /\ TheBook[x].expiration # None => clock < TheBook[x].expiration
                       /\ Book!Filled(x) \/ Book!PartlyFilled(x)
  BY <1>10
<1> HIDE DEF legs
<1>15. Book!Trade(legs)
  BY <1>6, <1>8, <1>11, <1>12, <1>13, <1>14 DEF Book!Trade, TheBook
<1>16. QED
  BY <1>13, <1>15

----------------------------------------------------------------------------
(* Every accepted transaction is a step of the abstract book, or leaves it *)
(* as it is.                                                               *)
LEMMA StepsOfBook ==
  BookChain /\ BookChain' /\ [Next]_vars => [Book!Next]_(Book!vars)
<1> SUFFICES ASSUME BookChain, BookChain', [Next]_vars PROVE [Book!Next]_(Book!vars)
  OBVIOUS
<1>1. CASE Tick
  <2>1. UNCHANGED <<utxo, lineage, credit>> /\ clock' = clock + 1
    BY <1>1 DEF Tick
  <2>2. TheBook' = TheBook
    BY <2>1 DEF TheBook, OpenRoots, Orders, Terms
  <2>3. Book!Tick
    BY <2>1, <2>2 DEF Book!Tick, TheBook
  <2>4. QED
    BY <2>3 DEF Book!Next
<1>2. ASSUME NEW tx, NEW id \in TxIds \ txids, TypedTransaction(tx), Accepted(tx), Submit(tx, id)
      PROVE  [Book!Next]_(Book!vars)
  <2>1. CASE \E r \in OrderInputs(tx) : tx.spends[r].kind = "CancelOrder"
    <3>1. \E root \in DOMAIN TheBook : Book!Withdraw(root)
      BY <1>2, <2>1, CancelWithdraws
    <3>2. QED
      BY <3>1 DEF Book!Next, TheBook
  <2>2. CASE OrderInputs(tx) = {}
    <3>1. \/ \E ref \in DOMAIN TheBook' : Book!Place(ref)
          \/ TheBook' = TheBook /\ credit' = credit /\ clock' = clock
      BY <1>2, <2>2, MintPlaces
    <3>2. QED
      BY <3>1 DEF Book!Next, Book!vars, TheBook
  <2>3. CASE OrderInputs(tx) # {} /\ \A r \in OrderInputs(tx) : tx.spends[r].kind # "CancelOrder"
    <3>1. ~Mixed(tx)
      BY <1>2 DEF Submit, BookChain, Chain
    <3>2. \E legs \in SUBSET DOMAIN TheBook : Book!Trade(legs)
      BY <1>2, <2>3, <3>1, TakesTrade
    <3>3. QED
      BY <3>2 DEF Book!Next, TheBook
  <2>4. QED
    BY <2>1, <2>2, <2>3
<1>3. CASE UNCHANGED vars
  <2>1. UNCHANGED <<utxo, lineage, credit, clock>>
    BY <1>3 DEF vars
  <2>2. TheBook' = TheBook
    BY <2>1 DEF TheBook, OpenRoots, Orders, Terms
  <2>3. QED
    BY <2>1, <2>2 DEF Book!vars, TheBook
<1>4. QED
  BY <1>1, <1>2, <1>3 DEF Next

(* The two scripts and the ledger implement the book of orders: as long as *)
(* no imitation is taken in part beside an order taken in full, what the   *)
(* protocol promises its users holds of every run of the chain, whatever   *)
(* other imitations its transactions spend.                                *)
THEOREM ChainImplementsOrderBook == Spec => ImplementsOrderBook
<1>1. Init => BookChain \/ mixed
  BY InitBookChain
<1>2. (BookChain \/ mixed) /\ [Next]_vars => (BookChain \/ mixed)'
  BY NextBookChain, MixedStays
<1>3. (BookChain \/ mixed) /\ (BookChain \/ mixed)' /\ [Next]_vars
        => [mixed' \/ Book!Next]_(Book!vars)
  BY StepsOfBook, MixedStays
<1>4. Spec => [][mixed' \/ Book!Next]_(Book!vars)
  BY <1>1, <1>2, <1>3, PTL DEF Spec
<1>5. Spec => Book!Init
  BY InitBook DEF Spec
<1>6. QED
  BY <1>4, <1>5 DEF ImplementsOrderBook

----------------------------------------------------------------------------
(***************************************************************************)
(* The transaction builder.  The argument: the batch is laid out as the    *)
(* scripts read it - sorted legs, one payment each, a continuation after   *)
(* the payment of a partial one - so that every rule finds what it looks   *)
(* for; and what a request noted of an order stays true while the order is *)
(* there.                                                                  *)
(***************************************************************************)

(***************************************************************************)
(* The batch in the ledger's order of inputs.                              *)
(***************************************************************************)
Legs == [ref : Refs, take : Nat \cup {None}]

Batch(legs) ==
  /\ legs \in Seq(Legs)
  /\ \A i, j \in DOMAIN legs : legs[i].ref = legs[j].ref => i = j

(* Sorting permutes the legs into ascending order of their references.     *)
LEMMA SortedLegs ==
  ASSUME NEW legs, Batch(legs)
  PROVE  LET s == sorted(legs)
             D == DOMAIN legs
         IN  /\ s \in Seq(Legs) /\ DOMAIN s = D /\ Len(s) = Len(legs)
             /\ \A m, n \in D : m < n => RefLess(s[m].ref, s[n].ref)
             /\ \E p \in [D -> D] : /\ \A n \in D : s[n] = legs[p[n]]
                                    /\ \A m, n \in D : p[m] = p[n] => m = n
                                    /\ \A i \in D : \E n \in D : p[n] = i
<1> DEFINE D == DOMAIN legs
           s == sorted(legs)
           R == {e \in D \X D : RefLess(legs[e[1]].ref, legs[e[2]].ref)}
           earlier(i) == {j \in D : RefLess(legs[j].ref, legs[i].ref)}
           at(n) == CHOOSE i \in D : Cardinality(earlier(i)) = n - 1
           p == [n \in D |-> at(n)]
<1>1. /\ D = 1..Len(legs) /\ Len(legs) \in Nat /\ IsFiniteSet(D) /\ Cardinality(D) = Len(legs)
      /\ \A i \in D : legs[i] \in Legs /\ legs[i].ref \in Refs
      /\ \A i, j \in D : legs[i].ref = legs[j].ref => i = j
  <2>1. D = 1..Len(legs) /\ Len(legs) \in Nat /\ \A i \in D : legs[i] \in Legs
    BY DEF Batch
  <2>2. \A i \in D : legs[i].ref \in Refs
    BY <2>1 DEF Legs
  <2>3. IsFiniteSet(1..Len(legs)) /\ Cardinality(1..Len(legs)) = Len(legs)
    BY <2>1, FS_Interval
  <2>4. \A i, j \in D : legs[i].ref = legs[j].ref => i = j
    BY DEF Batch
  <2>5. QED
    BY <2>1, <2>2, <2>3, <2>4
<1>2. s = [n \in D |-> legs[at(n)]]
  BY DEF sorted
<1> HIDE DEF D, s
<1>3. \A i, j \in D : <<i, j>> \in R <=> RefLess(legs[i].ref, legs[j].ref)
  OBVIOUS
<1> HIDE DEF R
<1>4. TotallyOrders(R, D)
  <2>1. \A i \in D : <<i, i>> \notin R
    BY <1>1, <1>3, RefLessOrder
  <2>2. \A i, j \in D : i # j => <<i, j>> \in R \/ <<j, i>> \in R
    BY <1>1, <1>3, RefLessOrder
  <2>3. \A i, j, k \in D : <<i, j>> \in R /\ <<j, k>> \in R => <<i, k>> \in R
    BY <1>1, <1>3, RefLessOrder
  <2>4. QED
    BY <2>1, <2>2, <2>3 DEF TotallyOrders
<1>5. \A i \in D : before(R, D, i) = earlier(i)
  BY <1>3 DEF before
<1>6. \A i, j \in D : /\ Cardinality(earlier(i)) \in Nat
                      /\ <<i, j>> \in R => Cardinality(earlier(i)) < Cardinality(earlier(j))
  <2>1. /\ \A i \in D : Cardinality(before(R, D, i)) \in Nat
        /\ \A i, j \in D : <<i, j>> \in R =>
             Cardinality(before(R, D, i)) < Cardinality(before(R, D, j))
    BY <1>1, <1>4, RanksIncrease
  <2> HIDE DEF earlier
  <2>2. QED
    BY <1>5, <2>1
<1>7. \A n \in D : at(n) \in D /\ Cardinality(earlier(at(n))) = n - 1
  <2> SUFFICES ASSUME NEW n \in D PROVE \E i \in D : Cardinality(earlier(i)) = n - 1
    OBVIOUS
  <2>1. n - 1 \in Nat /\ n - 1 < Cardinality(D)
    BY <1>1
  <2>2. \E i \in D : Cardinality(before(R, D, i)) = n - 1
    BY <1>1, <1>4, <2>1, RanksFill
  <2>3. QED
    BY <1>5, <2>2
<1>8. \A i \in D : Cardinality(earlier(i)) \in Nat /\ Cardinality(earlier(i)) < Len(legs)
  <2> SUFFICES ASSUME NEW i \in D PROVE Cardinality(earlier(i)) < Len(legs)
    BY <1>6
  <2>1. i \notin earlier(i)
    BY <1>1, RefLessOrder
  <2>2. earlier(i) \subseteq D \ {i}
    BY <2>1
  <2>3. IsFiniteSet(D \ {i}) /\ Cardinality(D \ {i}) = Cardinality(D) - 1
    BY <1>1, FS_RemoveElement
  <2>4. Cardinality(earlier(i)) <= Cardinality(D) - 1
    BY <2>2, <2>3, FS_Subset
  <2>5. Cardinality(earlier(i)) \in Nat
    BY <1>6
  <2> HIDE DEF earlier
  <2>6. QED
    BY <1>1, <2>4, <2>5
<1> HIDE DEF at
<1>9. p \in [D -> D] /\ \A n \in D : p[n] = at(n) /\ s[n] = legs[p[n]]
  BY <1>2, <1>7
<1>10. ASSUME NEW m \in D, NEW n \in D, at(m) = at(n) PROVE m = n
  <2>1. Cardinality(earlier(at(m))) = m - 1 /\ Cardinality(earlier(at(n))) = n - 1
    BY <1>7
  <2>2. Cardinality(earlier(at(m))) = Cardinality(earlier(at(n)))
    BY <1>10
  <2> HIDE DEF earlier
  <2>3. m \in Int /\ n \in Int
    BY <1>1
  <2>4. QED
    BY <2>1, <2>2, <2>3
<1>11. ASSUME NEW i \in D PROVE \E n \in D : at(n) = i
  <2> DEFINE n == Cardinality(earlier(i)) + 1
  <2>1. n \in D /\ n - 1 = Cardinality(earlier(i))
    BY <1>1, <1>8
  <2>2. at(n) \in D /\ Cardinality(earlier(at(n))) = Cardinality(earlier(i))
    BY <1>7, <2>1
  <2>3. Cardinality(before(R, D, at(n))) = Cardinality(before(R, D, i))
    BY <1>5, <2>2
  <2>4. at(n) = i
    BY <1>1, <1>4, <2>2, <2>3, RanksDiffer
  <2>5. QED
    BY <2>1, <2>4
<1>12. ASSUME NEW m \in D, NEW n \in D, m < n PROVE RefLess(s[m].ref, s[n].ref)
  <2>1. at(m) \in D /\ at(n) \in D /\ at(m) # at(n)
    <3>1. m # n
      BY <1>1, <1>12
    <3>2. QED
      BY <1>7, <1>10, <3>1
  <2>2. ~(<<at(n), at(m)>> \in R)
    <3>1. Cardinality(earlier(at(m))) = m - 1 /\ Cardinality(earlier(at(n))) = n - 1
      BY <1>7
    <3>2. m \in Int /\ n \in Int
      BY <1>1
    <3>3. ~(Cardinality(earlier(at(n))) < Cardinality(earlier(at(m))))
      <4> HIDE DEF earlier
      <4>1. QED
        BY <1>12, <3>1, <3>2
    <3>4. QED
      BY <1>6, <2>1, <3>3
  <2>3. <<at(m), at(n)>> \in R
    BY <1>4, <2>1, <2>2 DEF TotallyOrders
  <2>4. QED
    BY <1>3, <1>9, <2>1, <2>3
<1>13. s \in Seq(Legs) /\ DOMAIN s = D /\ Len(s) = Len(legs)
  <2>1. s = [n \in 1..Len(legs) |-> legs[at(n)]] /\ \A n \in 1..Len(legs) : legs[at(n)] \in Legs
    BY <1>1, <1>2, <1>7
  <2>2. QED
    BY <1>1, <2>1
<1> HIDE DEF p
<1>14. \E q \in [D -> D] : /\ \A n \in D : s[n] = legs[q[n]]
                           /\ \A m, n \in D : q[m] = q[n] => m = n
                           /\ \A i \in D : \E n \in D : q[n] = i
  BY <1>9, <1>10, <1>11
<1>15. QED
  BY <1>12, <1>13, <1>14 DEF D, s

(***************************************************************************)
(* The outputs of a leg: leg_ok, less what depends on the time.            *)
(***************************************************************************)
Sound(leg, o) ==
  /\ leg \in Legs /\ o \in Outputs /\ WellFormedOrder(o)
  /\ partial(leg) => /\ o.datum.allow_partial_fill
                     /\ leg.take > 0
                     /\ leg.take < o.datum.offer_amount
                     /\ required(leg, o.datum) < o.datum.ask_amount

(* The amounts of an order; the price of the leg.                          *)
LEMMA Amounts ==
  ASSUME NEW leg, NEW o, Sound(leg, o)
  PROVE  LET d == o.datum IN
         /\ d \in OrderDatums /\ d.offer \in Assets /\ d.ask \in Assets
         /\ d.offer_amount \in Nat /\ d.ask_amount \in Nat
         /\ d.expiration \in Nat \cup {None} /\ d.payment_address \in Addresses
         /\ o.value \in Values /\ o.value[ADA] \in Nat
         /\ deposit(d, o.value) \in Nat /\ deposit(d, o.value) <= o.value[ADA]
         /\ leg.ref \in Refs
         /\ partial(leg) => /\ leg.take \in Nat
                            /\ required(leg, d) \in Nat
                            /\ required(leg, d) =
                                 required_payment(leg.take, d.ask_amount, d.offer_amount)
<1> DEFINE d == o.datum
<1>1. o \in Outputs /\ WellFormedOrder(o)
  BY DEF Sound
<1>2. d \in OrderDatums /\ d.offer \in Assets /\ d.ask \in Assets
  BY <1>1, OrderUnits
<1>3. /\ d.offer_amount \in Nat /\ d.ask_amount \in Nat
      /\ d.expiration \in Nat \cup {None} /\ d.payment_address \in Addresses
  BY <1>2 DEF OrderDatums
<1>4. o.value \in Values /\ o.value[ADA] \in Nat
  BY <1>1 DEF Outputs, Values, Units, Assets
<1>5. deposit(d, o.value) \in Nat /\ deposit(d, o.value) <= o.value[ADA]
  <2>1. offer_covered(o) /\ d.offer_amount > 0
    BY <1>1 DEF WellFormedOrder
  <2> HIDE DEF d
  <2>2. is_ada(d.offer) => o.value[ADA] >= d.offer_amount
    BY <2>1 DEF offer_covered, d
  <2>3. QED
    BY <1>3, <1>4, <2>2 DEF deposit
<1>6. leg.ref \in Refs /\ leg.take \in Nat \cup {None}
  BY DEF Sound, Legs
<1>7. ASSUME partial(leg)
      PROVE  /\ leg.take \in Nat
             /\ required(leg, d) \in Nat
             /\ required(leg, d) = required_payment(leg.take, d.ask_amount, d.offer_amount)
  <2>1. leg.take \in Nat /\ d.offer_amount > 0
    BY <1>1, <1>6, <1>7 DEF partial, WellFormedOrder
  <2>2. required(leg, d) = required_payment(leg.take, d.ask_amount, d.offer_amount)
    BY DEF required, requiredPayment, required_payment
  <2>3. QED
    BY <1>3, <2>1, <2>2, RequiredPayment
<1>8. QED
  BY <1>2, <1>3, <1>4, <1>5, <1>6, <1>7

(* The payment: to the seller, tagged, what the script demands, no beacons. *)
LEMMA PaymentOf ==
  ASSUME NEW leg, NEW o, Sound(leg, o)
  PROVE  LET d == o.datum
             p == payment(leg, o)
         IN  /\ p \in Outputs
             /\ p.address = d.payment_address /\ p.datum = PaymentTag(leg.ref)
             /\ \A u \in BeaconNames : p.value[u] = 0
             /\ ~partial(leg) => payment_value_ok(p.value, d.ask, d.ask_amount, deposit(d, o.value))
             /\ partial(leg) => payment_value_ok(p.value, d.ask, required(leg, d), 0)
             /\ deposit(d, o.value) >= MinAda => p.value[ADA] >= MinAda
<1> DEFINE d     == o.datum
           p     == payment(leg, o)
           price == IF partial(leg) THEN required(leg, d) ELSE d.ask_amount
           love  == payment_lovelace(leg, o)
           dep   == deposit(d, o.value)
<1>1. /\ d.ask \in Assets /\ d.ask_amount \in Nat /\ d.payment_address \in Addresses
      /\ dep \in Nat /\ leg.ref \in Refs
      /\ partial(leg) => required(leg, d) \in Nat
  BY Amounts
<1>2. price \in Nat
  BY <1>1
<1>3. love = IF ~partial(leg) THEN (IF is_ada(d.ask) THEN price ELSE 0) + dep
             ELSE IF is_ada(d.ask) /\ price > PartialPaymentLovelace THEN price
             ELSE PartialPaymentLovelace
  <2>1. PartialPaymentLovelace \in Nat
    BY AmountsAssumption
  <2>2. 0 + dep = dep /\ ~(0 > PartialPaymentLovelace)
    BY <1>1, <2>1
  <2>3. QED
    BY <2>2 DEF payment_lovelace
<1>4. /\ p.address = d.payment_address /\ p.datum = PaymentTag(leg.ref)
      /\ p.reference_script = FALSE
      /\ p.value = [u \in Units |-> IF u = ADA THEN love
                                    ELSE IF u = d.ask THEN price ELSE 0]
      /\ p = [address |-> p.address, value |-> p.value, datum |-> p.datum,
              reference_script |-> p.reference_script]
  BY DEF payment, Output
<1>5. PartialPaymentLovelace \in Nat /\ PartialPaymentLovelace >= MinAda /\ MinAda \in Nat
  BY AmountsAssumption
<1>6. /\ love \in Nat
      /\ dep >= MinAda => love >= MinAda
      /\ ~partial(leg) => love = (IF is_ada(d.ask) THEN price ELSE 0) + dep
      /\ partial(leg) => love >= 0 /\ (is_ada(d.ask) => love >= price)
  <2> HIDE DEF love, price, dep
  <2>1. QED
    BY <1>1, <1>2, <1>3, <1>5
<1>7. ADA \in Assets /\ Assets \subseteq Units /\ BeaconNames \subseteq Units
      /\ Assets \cap BeaconNames = {}
  BY UnitsAssumption DEF Assets, Units
<1> DEFINE v == p.value
<1>8. \A u \in Units : v[u] = IF u = ADA THEN love ELSE IF u = d.ask THEN price ELSE 0
  BY <1>4
<1>9. p \in Outputs
  <2>1. PaymentTag(leg.ref) \in PaymentTags
    BY <1>1 DEF PaymentTag, PaymentTags
  <2>2. v \in Values
    <3>1. \A u \in Units : (IF u = ADA THEN love ELSE IF u = d.ask THEN price ELSE 0) \in Nat
      BY <1>2, <1>6
    <3> HIDE DEF love, price, p
    <3>2. QED
      BY <1>4, <3>1 DEF Values
  <2> HIDE DEF p, love, price
  <2>3. QED
    BY <1>1, <1>4, <2>1, <2>2 DEF Outputs
<1> HIDE DEF v, love, dep, p
<1>10. \A u \in BeaconNames : v[u] = 0
  BY <1>1, <1>7, <1>8
<1>11. ~partial(leg) => payment_value_ok(v, d.ask, d.ask_amount, dep)
  <2> SUFFICES ASSUME ~partial(leg) PROVE payment_value_ok(v, d.ask, d.ask_amount, dep)
    OBVIOUS
  <2>1. price = d.ask_amount
    OBVIOUS
  <2> HIDE DEF price, d
  <2>2. QED
    BY <1>1, <1>6, <1>7, <1>8, <2>1 DEF payment_value_ok, is_ada
<1>12. partial(leg) => payment_value_ok(v, d.ask, required(leg, d), 0)
  <2> SUFFICES ASSUME partial(leg) PROVE payment_value_ok(v, d.ask, required(leg, d), 0)
    OBVIOUS
  <2>1. price = required(leg, d) /\ price \in Nat
    BY <1>2
  <2> HIDE DEF price, d
  <2>2. price + 0 = price
    BY <2>1
  <2>3. QED
    BY <1>1, <1>6, <1>7, <1>8, <2>1, <2>2 DEF payment_value_ok, is_ada
<1>13. dep >= MinAda => v[ADA] >= MinAda
  BY <1>6, <1>7, <1>8
<1>14. QED
  BY <1>4, <1>9, <1>10, <1>11, <1>12, <1>13 DEF v, dep, p

(* The continuation: the order the script demands, with its deposit.       *)
LEMMA ContinuationOf ==
  ASSUME NEW leg, NEW o, Sound(leg, o), partial(leg)
  PROVE  LET d == o.datum
             c == continuation(leg, o)
         IN  /\ c \in Outputs /\ WellFormedOrder(c)
             /\ c.address = o.address /\ c.reference_script = FALSE
             /\ c.value = continuation_value(d, o.value, leg.take)
             /\ c.datum = continuation_datum(d, leg.take)
             /\ beacon_set(c.datum) = beacon_set(d)
             /\ c.datum.payment_address = d.payment_address
             /\ deposit(c.datum, c.value) = deposit(d, o.value)
             /\ c.value[ADA] >= deposit(d, o.value)
<1> DEFINE d == o.datum
           c == continuation(leg, o)
           price == required(leg, d)
<1>1. /\ d \in OrderDatums /\ d.offer \in Assets /\ d.offer_amount \in Nat /\ d.ask_amount \in Nat
      /\ o.value \in Values /\ leg.take \in Nat /\ price \in Nat
      /\ price = required_payment(leg.take, d.ask_amount, d.offer_amount)
  BY Amounts
<1>2. /\ leg.take > 0 /\ leg.take < d.offer_amount /\ price < d.ask_amount
      /\ o \in Outputs /\ WellFormedOrder(o)
  BY DEF Sound
<1>3. /\ c.address = o.address /\ c.reference_script = FALSE
      /\ c.value = [o.value EXCEPT ![d.offer] = @ - leg.take]
      /\ c.datum = [d EXCEPT !.offer_amount = @ - leg.take, !.ask_amount = @ - price]
      /\ c = [address |-> c.address, value |-> c.value, datum |-> c.datum,
              reference_script |-> c.reference_script]
  BY DEF continuation, Output
<1>4. c.value = continuation_value(d, o.value, leg.take)
      /\ c.datum = continuation_datum(d, leg.take)
  BY <1>1, <1>3 DEF continuation_value, continuation_datum
<1> HIDE DEF c, price
<1>5. c \in Outputs
  <2>1. o.address \in Addresses
    BY <1>2 DEF Outputs
  <2>2. o.value[d.offer] \in Nat /\ o.value[d.offer] >= d.offer_amount
    <3>1. o.value = expected_value(d, o.value[ADA])
      BY <1>2 DEF WellFormedOrder
    <3>2. d.offer \in Units /\ d.offer \notin beacon_set(d)
      BY <1>2, OrderUnits DEF Units
    <3>3. d.offer # ADA => o.value[d.offer] = d.offer_amount
      BY <3>1, <3>2 DEF expected_value
    <3>4. d.offer = ADA => o.value[d.offer] >= d.offer_amount
      BY <1>2 DEF WellFormedOrder, offer_covered, is_ada
    <3>5. o.value[d.offer] \in Nat
      BY <1>1, <3>2 DEF Values
    <3>6. QED
      BY <1>1, <3>3, <3>4, <3>5
  <2>3. o.value[d.offer] - leg.take \in Nat
    <3> HIDE DEF d
    <3>1. QED
      BY <1>1, <1>2, <2>2
  <2>4. c.value \in Values
    BY <1>1, <1>3, <2>3 DEF Values
  <2>5. c.datum \in OrderDatums
    <3>1. d.offer_amount - leg.take \in Nat /\ d.ask_amount - price \in Nat
      <4> HIDE DEF d
      <4>1. QED
        BY <1>1, <1>2
    <3>2. QED
      BY <1>1, <1>3, <3>1 DEF OrderDatums
  <2>6. QED
    BY <1>3, <2>1, <2>4, <2>5 DEF Outputs
<1>6. WellFormedOrder(c) /\ deposit(c.datum, c.value) = deposit(d, o.value)
  <2>1. leg.take \in Int
    BY <1>1
  <2>2. QED
    BY <1>1, <1>2, <1>3, <1>4, <1>5, <2>1, ContinuationWellFormed
<1>7. /\ c.datum.offer = d.offer /\ c.datum.ask = d.ask /\ c.datum.owner = d.owner
      /\ c.datum.payment_address = d.payment_address
  BY <1>1, <1>3 DEF OrderDatums
<1>8. beacon_set(c.datum) = beacon_set(d)
  BY <1>7 DEF beacon_set
<1>9. c.value[ADA] >= deposit(d, o.value)
  <2>1. Sound([ref |-> leg.ref, take |-> None], c)
    <3>1. [ref |-> leg.ref, take |-> None] \in Legs
      BY Amounts DEF Legs
    <3>2. QED
      BY <1>5, <1>6, <3>1 DEF Sound, partial
  <2>2. deposit(c.datum, c.value) <= c.value[ADA] /\ c.value[ADA] \in Nat
        /\ deposit(c.datum, c.value) \in Nat
    BY <2>1, Amounts
  <2>3. QED
    BY <1>6, <2>2
<1>10. QED
  BY <1>3, <1>4, <1>5, <1>6, <1>7, <1>8, <1>9 DEF c

(***************************************************************************)
(* Where the outputs of a batch lie: at[i] is the payment of the i-th leg, *)
(* and its continuation, if it has one, comes next; the legs follow one    *)
(* another and there is nothing else.                                      *)
(***************************************************************************)
AllSound(s, found) ==
  s \in Seq(Legs) /\ \A i \in DOMAIN s : Sound(s[i], found[s[i].ref])

LaidOut(s, found, n, at, out) ==
  /\ out \in Seq(Outputs)
  /\ at \in [1..n -> Nat]
  /\ \A i \in 1..n :
       /\ at[i] \in 1..Len(out) /\ out[at[i]] = payment(s[i], found[s[i].ref])
       /\ partial(s[i]) => /\ at[i] + 1 \in 1..Len(out)
                           /\ out[at[i] + 1] = continuation(s[i], found[s[i].ref])
  /\ \A i, j \in 1..n : i < j => /\ at[i] < at[j]
                                 /\ partial(s[i]) => at[i] + 1 < at[j]
  /\ \A p \in 1..Len(out) :
       \E i \in 1..n : p = at[i] \/ (partial(s[i]) /\ p = at[i] + 1)

BatchOutputs(s, found) ==
  FoldLeft(LAMBDA outs, leg : outs \o leg_outputs(leg, found[leg.ref]), << >>, s)

(* The outputs of a leg are one or two.                                    *)
LEMMA LegOutputs ==
  ASSUME NEW leg, NEW o, Sound(leg, o)
  PROVE  LET b == leg_outputs(leg, o) IN
         /\ b \in Seq(Outputs)
         /\ Len(b) = IF partial(leg) THEN 2 ELSE 1
         /\ b[1] = payment(leg, o)
         /\ partial(leg) => b[2] = continuation(leg, o)
<1>1. payment(leg, o) \in Outputs /\ (partial(leg) => continuation(leg, o) \in Outputs)
  BY PaymentOf, ContinuationOf
<1> DEFINE p == payment(leg, o)
           c == continuation(leg, o)
<1>2. leg_outputs(leg, o) = IF partial(leg) THEN <<p, c>> ELSE <<p>>
  BY DEF leg_outputs
<1> HIDE DEF p, c
<1>3. p \in Outputs /\ (partial(leg) => c \in Outputs)
  BY <1>1 DEF p, c
<1>4. CASE partial(leg)
  <2>1. leg_outputs(leg, o) = <<p, c>> /\ <<p, c>> \in Seq(Outputs) /\ Len(<<p, c>>) = 2
        /\ <<p, c>>[1] = p /\ <<p, c>>[2] = c
    BY <1>2, <1>3, <1>4
  <2>2. QED
    BY <1>4, <2>1 DEF p, c
<1>5. CASE ~partial(leg)
  <2>1. leg_outputs(leg, o) = <<p>> /\ <<p>> \in Seq(Outputs) /\ Len(<<p>>) = 1 /\ <<p>>[1] = p
    BY <1>2, <1>3, <1>5
  <2>2. QED
    BY <1>5, <2>1 DEF p
<1>6. QED
  BY <1>4, <1>5

(* What is where in a concatenation.                                       *)
LEMMA Concatenated ==
  ASSUME NEW X, NEW p \in Seq(X), NEW q \in Seq(X)
  PROVE  /\ p \o q \in Seq(X) /\ Len(p \o q) = Len(p) + Len(q)
         /\ \A i \in 1..Len(p) : (p \o q)[i] = p[i]
         /\ \A i \in 1..Len(q) : (p \o q)[Len(p) + i] = q[i]
  OBVIOUS

(* One more leg is laid out behind the others.                             *)
LEMMA OneMoreLeg ==
  ASSUME NEW s, NEW found, AllSound(s, found), NEW n \in Nat, n + 1 \in DOMAIN s,
         NEW at, NEW out, LaidOut(s, found, n, at, out)
  PROVE  \E more : LaidOut(s, found, n + 1, more,
                           out \o leg_outputs(s[n + 1], found[s[n + 1].ref]))
<1> DEFINE leg == s[n + 1]
           o == found[leg.ref]
           b == leg_outputs(leg, o)
           new == out \o b
           more == [i \in 1..(n + 1) |-> IF i = n + 1 THEN Len(out) + 1 ELSE at[i]]
           pay(i) == payment(s[i], found[s[i].ref])
           cont(i) == continuation(s[i], found[s[i].ref])
<1>1. Sound(leg, o)
  BY DEF AllSound
<1>2. /\ b \in Seq(Outputs) /\ Len(b) = IF partial(leg) THEN 2 ELSE 1
      /\ b[1] = pay(n + 1)
      /\ partial(leg) => b[2] = cont(n + 1)
  BY <1>1, LegOutputs
<1>3. /\ out \in Seq(Outputs) /\ Len(out) \in Nat
      /\ at \in [1..n -> Nat]
      /\ \A i \in 1..n :
           /\ at[i] \in 1..Len(out) /\ out[at[i]] = pay(i)
           /\ partial(s[i]) => at[i] + 1 \in 1..Len(out) /\ out[at[i] + 1] = cont(i)
      /\ \A i, j \in 1..n : i < j => at[i] < at[j] /\ (partial(s[i]) => at[i] + 1 < at[j])
      /\ \A p \in 1..Len(out) : \E i \in 1..n : p = at[i] \/ (partial(s[i]) /\ p = at[i] + 1)
  BY DEF LaidOut
<1> HIDE DEF b, pay, cont, o
<1>4. /\ new \in Seq(Outputs) /\ Len(new) = Len(out) + Len(b) /\ Len(b) \in {1, 2}
      /\ \A p \in 1..Len(out) : new[p] = out[p]
      /\ new[Len(out) + 1] = b[1]
      /\ Len(b) = 2 => new[Len(out) + 2] = b[2]
  <2>1. Len(b) \in {1, 2}
    BY <1>2
  <2>2. /\ new \in Seq(Outputs) /\ Len(new) = Len(out) + Len(b)
        /\ \A p \in 1..Len(out) : new[p] = out[p]
        /\ \A i \in 1..Len(b) : new[Len(out) + i] = b[i]
    <3>1. out \in Seq(Outputs) /\ b \in Seq(Outputs)
      BY <1>2, <1>3
    <3>2. QED
      BY ONLY <3>1, Concatenated
  <2>3. 1 \in 1..Len(b) /\ (Len(b) = 2 => 2 \in 1..Len(b))
    <3> DEFINE k == Len(b)
    <3>1. k \in {1, 2}
      BY <2>1
    <3> HIDE DEF k
    <3>2. 1 \in 1..k /\ (k = 2 => 2 \in 1..k)
      BY <3>1
    <3>3. QED
      BY <3>2 DEF k
  <2> HIDE DEF new
  <2>4. QED
    BY <2>1, <2>2, <2>3
<1> HIDE DEF new
<1>5. /\ more \in [1..(n + 1) -> Nat] /\ more[n + 1] = Len(out) + 1
      /\ \A i \in 1..n : more[i] = at[i] /\ i # n + 1
  BY <1>3
<1>6. \A i \in 1..(n + 1) : i \in 1..n \/ i = n + 1
  OBVIOUS
<1> HIDE DEF more
<1>7. ASSUME NEW i \in 1..(n + 1)
      PROVE  /\ more[i] \in 1..Len(new) /\ new[more[i]] = pay(i)
             /\ partial(s[i]) => more[i] + 1 \in 1..Len(new) /\ new[more[i] + 1] = cont(i)
  <2>1. CASE i = n + 1
    <3>1. Len(out) + 1 \in 1..Len(new) /\ (Len(b) = 2 => Len(out) + 2 \in 1..Len(new))
      BY <1>3, <1>4
    <3>2. (Len(out) + 1) + 1 = Len(out) + 2
      BY <1>3
    <3>3. QED
      BY <1>2, <1>4, <1>5, <2>1, <3>1, <3>2
  <2>2. CASE i \in 1..n
    <3>1. 1..Len(out) \subseteq 1..Len(new)
      BY <1>3, <1>4
    <3>2. QED
      BY <1>3, <1>4, <1>5, <2>2, <3>1
  <2>3. QED
    BY <1>6, <2>1, <2>2
<1>8. ASSUME NEW i \in 1..(n + 1), NEW j \in 1..(n + 1), i < j
      PROVE  more[i] < more[j] /\ (partial(s[i]) => more[i] + 1 < more[j])
  <2>1. i \in 1..n
    BY <1>8
  <2>2. CASE j = n + 1
    BY <1>3, <1>5, <2>1, <2>2
  <2>3. CASE j \in 1..n
    BY <1>3, <1>5, <1>8, <2>1, <2>3
  <2>4. QED
    BY <1>6, <2>2, <2>3
<1>9. ASSUME NEW p \in 1..Len(new)
      PROVE  \E i \in 1..(n + 1) : p = more[i] \/ (partial(s[i]) /\ p = more[i] + 1)
  <2>1. CASE p \in 1..Len(out)
    <3>1. PICK i \in 1..n : p = at[i] \/ (partial(s[i]) /\ p = at[i] + 1)
      BY <1>3, <2>1
    <3>2. i \in 1..(n + 1) /\ more[i] = at[i]
      BY <1>5
    <3>3. QED
      BY <3>1, <3>2
  <2>2. CASE p \notin 1..Len(out)
    <3>1. n + 1 \in 1..(n + 1)
      OBVIOUS
    <3>2. p = Len(out) + 1 \/ (Len(b) = 2 /\ p = (Len(out) + 1) + 1)
      <4> DEFINE l == Len(out)
                 k == Len(b)
      <4>1. l \in Nat /\ k \in {1, 2} /\ p \in 1..(l + k) /\ p \notin 1..l
        BY <1>3, <1>4, <2>2
      <4> HIDE DEF l, k
      <4>2. p = l + 1 \/ (k = 2 /\ p = (l + 1) + 1)
        BY <4>1
      <4>3. QED
        BY <4>2 DEF l, k
    <3>3. Len(b) = 2 => partial(leg)
      BY <1>2
    <3>4. QED
      BY <1>5, <3>1, <3>2, <3>3
  <2>3. QED
    BY <2>1, <2>2
<1>10. LaidOut(s, found, n + 1, more, new)
  BY <1>4, <1>5, <1>7, <1>8, <1>9 DEF LaidOut, pay, cont
<1>11. QED
  BY <1>10 DEF new, b, o

LEMMA BatchLaidOut ==
  ASSUME NEW s, NEW found, AllSound(s, found)
  PROVE  \E at : LaidOut(s, found, Len(s), at, BatchOutputs(s, found))
<1> DEFINE D == DOMAIN s
           Y == {s[i] : i \in D}
           V == Seq(Outputs)
           b(leg) == leg_outputs(leg, found[leg.ref])
           F == [e \in Y \X V |-> e[2] \o b(e[1])]
           eq(g) == g = [T \in SUBSET D |->
                           IF T = {} THEN << >> ELSE g[T \ {Max(T)}] \o b(s[Max(T)])]
           iter == CHOOSE g : eq(g)
<1>1. BatchOutputs(s, found) = iter[D]
  BY DEF BatchOutputs, FoldLeft, MapThenFoldSet
<1>2. /\ D = 1..Len(s) /\ Len(s) \in Nat /\ IsFiniteSet(D) /\ s \in Seq(Y)
      /\ \A T \in SUBSET D : T # {} => Max(T) \in T
  <2>1. s \in Seq(Legs)
    BY DEF AllSound
  <2>2. D = 1..Len(s) /\ Len(s) \in Nat /\ s = [i \in 1..Len(s) |-> s[i]]
    BY <2>1
  <2>3. IsFiniteSet(D)
    BY <2>2, FS_Interval
  <2>4. ASSUME NEW T \in SUBSET D, T # {} PROVE Max(T) \in T
    <3>1. T \subseteq Int /\ IsFiniteSet(T)
      BY <2>2, <2>3, FS_Subset
    <3>2. QED
      BY <2>4, <3>1, LargestIn
  <2>5. s \in Seq(Y)
    BY <2>2
  <2>6. QED
    BY <2>2, <2>3, <2>4, <2>5
<1>3. << >> \in V
  OBVIOUS
<1>4. ASSUME NEW w \in V, NEW leg \in Y PROVE w \o b(leg) \in V
  <2>1. b(leg) \in V
    BY LegOutputs DEF AllSound
  <2> HIDE DEF b
  <2>2. QED
    BY <2>1
<1>5. F \in [Y \X V -> V]
  <2> HIDE DEF V, Y, b
  <2>1. QED
    BY <1>4
<1>6. PICK g : LeftFolds(g, s, << >>, V, F)
  <2> HIDE DEF F, V, Y
  <2>1. QED
    BY <1>2, <1>3, <1>5, LeftFold
<1>7. \A T \in SUBSET D : T # {} =>
        F[<<s[Max(T)], g[T \ {Max(T)}]>>] = g[T \ {Max(T)}] \o b(s[Max(T)])
  <2> SUFFICES ASSUME NEW T \in SUBSET D, T # {}
               PROVE  F[<<s[Max(T)], g[T \ {Max(T)}]>>] = g[T \ {Max(T)}] \o b(s[Max(T)])
    OBVIOUS
  <2>1. s[Max(T)] \in Y /\ g[T \ {Max(T)}] \in V
    BY <1>2, <1>6 DEF LeftFolds
  <2> HIDE DEF V, Y, b
  <2>2. QED
    BY <2>1
<1>8. eq(g)
  <2> HIDE DEF F, V, Y, b
  <2>1. g \in [SUBSET D -> V]
        /\ \A T \in SUBSET D : g[T] = IF T = {} THEN << >> ELSE F[<<s[Max(T)], g[T \ {Max(T)}]>>]
    BY <1>6 DEF LeftFolds
  <2>2. QED
    BY <1>7, <2>1
<1>9. eq(iter)
  <2> HIDE DEF eq
  <2>1. QED
    BY <1>8
<1> HIDE DEF iter
<1>10. \A T \in SUBSET D : iter[T] = IF T = {} THEN << >> ELSE iter[T \ {Max(T)}] \o b(s[Max(T)])
  BY <1>9
<1> HIDE DEF eq, F, V, Y, b
<1> DEFINE laid(n, T) == \E at : LaidOut(s, found, n, at, iter[T])
           A == {T \in SUBSET D : \A n \in 0..Len(s) : T = 1..n => laid(n, T)}
<1>11. laid(0, {})
  <2>1. iter[{}] = << >>
    BY <1>10
  <2>2. LaidOut(s, found, 0, << >>, << >>)
    <3>1. 1..0 = {} /\ Len(<< >>) = 0 /\ << >> \in Seq(Outputs) /\ << >> \in [{} -> Nat]
      OBVIOUS
    <3>2. QED
      BY <3>1 DEF LaidOut
  <2>3. QED
    BY <2>1, <2>2
<1>12. ASSUME NEW T \in SUBSET D, T # {}, \A x \in T : T \ {x} \in A PROVE T \in A
  <2> SUFFICES ASSUME NEW n \in 0..Len(s), T = 1..n PROVE laid(n, T)
    OBVIOUS
  <2>1. n \in Nat /\ n > 0 /\ n \in D /\ n - 1 \in 0..Len(s) /\ (n - 1) + 1 = n
    BY <1>2, <1>12
  <2>2. Max(T) = n /\ T \ {n} = 1..(n - 1) /\ n \in T
    <3>1. 1..n # {} /\ Max(1..n) = n /\ (1..n) \ {n} = 1..(n - 1)
      BY <2>1, Segments
    <3>2. n \in 1..n
      BY <2>1
    <3>3. QED
      BY <3>1, <3>2
  <2>3. laid(n - 1, T \ {n})
    BY <1>12, <2>1, <2>2
  <2>4. iter[T] = iter[T \ {n}] \o b(s[n])
    BY <1>10, <1>12, <2>2
  <2>5. PICK at : LaidOut(s, found, n - 1, at, iter[T \ {n}])
    BY <2>3
  <2> DEFINE m == n - 1
  <2>6. m \in Nat /\ m + 1 = n
    BY <2>1
  <2> HIDE DEF m
  <2>7. LaidOut(s, found, m, at, iter[T \ {n}]) /\ m + 1 \in DOMAIN s
    BY <2>1, <2>5, <2>6 DEF m, D
  <2>8. \E more : LaidOut(s, found, m + 1, more,
                          iter[T \ {n}] \o leg_outputs(s[m + 1], found[s[m + 1].ref]))
    BY <2>6, <2>7, OneMoreLeg
  <2>9. QED
    BY <2>4, <2>6, <2>8 DEF b
<1>13. {} \in A
  <2>1. ASSUME NEW n \in 0..Len(s), {} = 1..n PROVE n = 0
    <3>1. n = 0 \/ 1 \in 1..n
      BY <1>2
    <3>2. QED
      BY <2>1, <3>1
  <2>2. QED
    BY <1>11, <2>1
<1>14. SUBSET D \subseteq A
  <2>1. IsFiniteSet(D)
    BY <1>2
  <2> HIDE DEF A, D
  <2>2. QED
    BY <2>1, <1>12, <1>13, SubsetInduction
<1>15. laid(Len(s), D)
  <2>1. D \in A
    BY <1>14
  <2>2. Len(s) \in 0..Len(s)
    BY <1>2
  <2>3. QED
    BY <1>2, <2>1, <2>2
<1>16. QED
  BY <1>1, <1>15

(***************************************************************************)
(* The transaction of a sorted batch, when its orders are still there.     *)
(***************************************************************************)
TakeOf(s, found) ==
  [ spends            |-> [r \in {s[i].ref : i \in DOMAIN s} |->
                             LET i == CHOOSE j \in DOMAIN s : s[j].ref = r IN
                             IF partial(s[i])
                             THEN [kind |-> "TakeOrderPartial", take_amount |-> s[i].take]
                             ELSE [kind |-> "TakeOrder", take_amount |-> 0]],
    imitations        |-> << >>,
    outputs           |-> BatchOutputs(s, found),
    mint              |-> mintBeacons(s, found),
    mint_redeemer     |-> "BurnBeacons",
    upper_bound       |-> deadline(s, found),
    extra_signatories |-> {} ]

InOrder(s, found) ==
  /\ AllSound(s, found)
  /\ \A i, j \in DOMAIN s : i < j => RefLess(s[i].ref, s[j].ref)
  /\ \A i, j \in DOMAIN s : s[i].ref = s[j].ref => i = j

partials(s) == {i \in DOMAIN s : partial(s[i])}

(* A set that a finite set is mapped onto, one to one, is of its size.     *)
LEMMA SameSize ==
  ASSUME NEW I, IsFiniteSet(I), NEW S, NEW f \in [I -> S],
         \A i, j \in I : f[i] = f[j] => i = j, \A x \in S : \E i \in I : f[i] = x
  PROVE  IsFiniteSet(S) /\ Cardinality(S) = Cardinality(I) /\ Cardinality(I) \in Nat
<1>1. f \in Bijection(I, S)
  BY DEF Bijection, Injection, Surjection, IsInjective
<1>2. ExistsBijection(I, S)
  BY <1>1 DEF ExistsBijection
<1>3. QED
  BY <1>2, FS_Bijection, FS_CardinalityType

(* The legs are the inputs.                                                *)
LEMMA InputsOfTake ==
  ASSUME NEW s, NEW found, InOrder(s, found)
  PROVE  LET tx == TakeOf(s, found) IN
         /\ DOMAIN s = 1..Len(s) /\ Len(s) \in Nat /\ IsFiniteSet(DOMAIN s)
         /\ tx.imitations = << >> /\ Inputs(tx) = OrderInputs(tx)
         /\ OrderInputs(tx) = {s[i].ref : i \in DOMAIN s}
         /\ IsFiniteSet(OrderInputs(tx)) /\ OrderInputs(tx) \subseteq Refs
         /\ \A i \in DOMAIN s :
              /\ s[i].ref \in OrderInputs(tx)
              /\ tx.spends[s[i].ref] \in Redeemers
              /\ tx.spends[s[i].ref].kind =
                   IF partial(s[i]) THEN "TakeOrderPartial" ELSE "TakeOrder"
              /\ partial(s[i]) => tx.spends[s[i].ref].take_amount = s[i].take
<1> DEFINE D  == DOMAIN s
           tx == TakeOf(s, found)
           refs == {s[i].ref : i \in D}
           spend1(i) == IF partial(s[i])
                        THEN [kind |-> "TakeOrderPartial", take_amount |-> s[i].take]
                        ELSE [kind |-> "TakeOrder", take_amount |-> 0]
           which(r) == CHOOSE j \in D : s[j].ref = r
<1>1. /\ D = 1..Len(s) /\ Len(s) \in Nat /\ \A i \in D : s[i] \in Legs
      /\ \A i, j \in D : s[i].ref = s[j].ref => i = j
  BY DEF InOrder, AllSound
<1>2. IsFiniteSet(D)
  BY <1>1, FS_Interval
<1>3. tx.spends = [r \in refs |-> spend1(which(r))]
  BY DEF TakeOf
<1>10. tx.imitations = << >>
  BY DEF TakeOf
<1>4. OrderInputs(tx) = refs /\ Inputs(tx) = refs
  <2> HIDE DEF tx
  <2>1. Inputs(tx) = refs
    BY <1>3 DEF Inputs
  <2>2. QED
    BY <1>10, <2>1, OrdersOnly
<1>5. \A i \in D : s[i].ref \in Refs /\ s[i].take \in Nat \cup {None}
  BY <1>1 DEF Legs
<1>6. IsFiniteSet(refs)
  <2> DEFINE f == [i \in D |-> s[i].ref]
  <2>1. f \in [D -> refs] /\ (\A i, j \in D : f[i] = f[j] => i = j)
        /\ \A x \in refs : \E i \in D : f[i] = x
    BY <1>1
  <2> HIDE DEF f, refs, D
  <2>2. QED
    BY <1>2, <2>1, SameSize
<1>7. ASSUME NEW i \in D
      PROVE  /\ s[i].ref \in OrderInputs(tx)
             /\ tx.spends[s[i].ref] = spend1(i)
             /\ tx.spends[s[i].ref] \in Redeemers
             /\ tx.spends[s[i].ref].kind =
                  IF partial(s[i]) THEN "TakeOrderPartial" ELSE "TakeOrder"
             /\ partial(s[i]) => tx.spends[s[i].ref].take_amount = s[i].take
  <2>1. s[i].ref \in refs
    OBVIOUS
  <2>2. which(s[i].ref) = i
    <3>1. which(s[i].ref) \in D /\ s[which(s[i].ref)].ref = s[i].ref
      OBVIOUS
    <3> HIDE DEF which
    <3>2. QED
      BY <1>1, <3>1
  <2> HIDE DEF refs, which, tx
  <2>3. tx.spends[s[i].ref] = spend1(i)
    BY <1>3, <2>1, <2>2
  <2>4. spend1(i) \in Redeemers /\ spend1(i).kind =
          (IF partial(s[i]) THEN "TakeOrderPartial" ELSE "TakeOrder")
        /\ (partial(s[i]) => spend1(i).take_amount = s[i].take)
    <3>1. partial(s[i]) => s[i].take \in Int
      BY <1>5 DEF partial
    <3>2. QED
      BY <3>1 DEF Redeemers
  <2>5. QED
    BY <1>4, <2>1, <2>3, <2>4
<1>8. refs \subseteq Refs
  BY <1>5
<1>9. QED
  BY <1>1, <1>2, <1>4, <1>6, <1>7, <1>8, <1>10

(* The payment tag of a leg is on its payment only, and the beacons are in *)
(* the continuations only.                                                 *)
LEMMA OutputsOfTake ==
  ASSUME NEW s, NEW found, InOrder(s, found),
         NEW at, LaidOut(s, found, Len(s), at, BatchOutputs(s, found))
  PROVE  LET tx == TakeOf(s, found)
             D  == DOMAIN s
             o(i) == found[s[i].ref]
         IN  /\ tx.outputs = BatchOutputs(s, found)
             /\ tx.outputs \in Seq(Outputs) /\ DOMAIN tx.outputs = 1..Len(tx.outputs)
             /\ Len(tx.outputs) \in Nat
             /\ \A i \in D : /\ at[i] \in DOMAIN tx.outputs
                             /\ tx.outputs[at[i]] = payment(s[i], o(i))
                             /\ \A p : p \in tagged_payment(tx, s[i].ref) <=> p = at[i]
             /\ \A i \in partials(s) : /\ at[i] + 1 \in DOMAIN tx.outputs
                                       /\ tx.outputs[at[i] + 1] = continuation(s[i], o(i))
             /\ beacon_bearing_outputs(tx, BeaconPolicy) = {at[i] + 1 : i \in partials(s)}
             /\ \A i \in D : at[i] \in Nat
             /\ \A i, j \in D : i < j => at[i] < at[j]
<1> DEFINE D  == DOMAIN s
           tx == TakeOf(s, found)
           o(i) == found[s[i].ref]
           out == BatchOutputs(s, found)
           C == beacon_bearing_outputs(tx, BeaconPolicy)
<1>1. D = 1..Len(s) /\ Len(s) \in Nat
  BY InputsOfTake
<1>2. tx.outputs = out
  BY DEF TakeOf
<1>3. /\ out \in Seq(Outputs) /\ at \in [D -> Nat]
      /\ \A i \in D : /\ at[i] \in 1..Len(out) /\ out[at[i]] = payment(s[i], o(i))
                      /\ partial(s[i]) => /\ at[i] + 1 \in 1..Len(out)
                                          /\ out[at[i] + 1] = continuation(s[i], o(i))
      /\ \A i, j \in D : i < j => at[i] < at[j]
      /\ \A p \in 1..Len(out) : \E i \in D : p = at[i] \/ (partial(s[i]) /\ p = at[i] + 1)
  BY <1>1 DEF LaidOut
<1>4. DOMAIN out = 1..Len(out) /\ Len(out) \in Nat
  BY <1>3
<1>5. \A i \in D : Sound(s[i], o(i))
  BY DEF InOrder, AllSound
<1>6. \A i, j \in D : s[i].ref = s[j].ref => i = j
  BY DEF InOrder
<1>7. \A i \in D : /\ payment(s[i], o(i)).datum = PaymentTag(s[i].ref)
                   /\ \A u \in BeaconNames : payment(s[i], o(i)).value[u] = 0
  BY <1>5, PaymentOf
<1>8. \A i \in D : partial(s[i]) =>
        LET c == continuation(s[i], o(i)) IN c \in Outputs /\ WellFormedOrder(c)
  BY <1>5, ContinuationOf
<1> HIDE DEF tx, out, o
<1>9. ASSUME NEW i \in D PROVE tagged_payment(tx, s[i].ref) = {at[i]}
  <2>1. ASSUME NEW p \in 1..Len(out), out[p].datum = PaymentTag(s[i].ref) PROVE p = at[i]
    <3>1. PICK j \in D : p = at[j] \/ (partial(s[j]) /\ p = at[j] + 1)
      BY <1>3
    <3>2. CASE p = at[j]
      <4>1. PaymentTag(s[j].ref) = PaymentTag(s[i].ref)
        BY <1>3, <1>7, <2>1, <3>2
      <4>2. s[j].ref = s[i].ref
        BY <4>1 DEF PaymentTag
      <4>3. QED
        BY <1>6, <3>2, <4>2
    <3>3. CASE partial(s[j]) /\ p = at[j] + 1
      <4>1. out[p] \in Outputs /\ WellFormedOrder(out[p])
        BY <1>3, <1>8, <3>3
      <4>2. PaymentTag(s[i].ref) \in OrderDatums
        BY <2>1, <4>1 DEF WellFormedOrder
      <4>3. DOMAIN PaymentTag(s[i].ref) = {"order_ref"} /\ "order_ref" # "version"
        BY DEF PaymentTag
      <4>4. \A d \in OrderDatums : "version" \in DOMAIN d
        BY DEF OrderDatums
      <4>5. QED
        BY <4>2, <4>3, <4>4
    <3>4. QED
      BY <3>1, <3>2, <3>3
  <2>2. at[i] \in 1..Len(out) /\ out[at[i]].datum = PaymentTag(s[i].ref)
    BY <1>3, <1>7
  <2>3. tagged_payment(tx, s[i].ref) = {p \in 1..Len(out) : out[p].datum = PaymentTag(s[i].ref)}
    BY <1>2, <1>4 DEF tagged_payment
  <2>4. QED
    BY <2>1, <2>2, <2>3
<1>10. C = {at[i] + 1 : i \in partials(s)}
  <2>1. C = {p \in 1..Len(out) : \E u \in BeaconNames : out[p].value[u] > 0}
    BY <1>2, <1>4 DEF beacon_bearing_outputs, has_tokens
  <2>2. ASSUME NEW p \in C PROVE p \in {at[i] + 1 : i \in partials(s)}
    <3>1. p \in 1..Len(out) /\ \E u \in BeaconNames : out[p].value[u] > 0
      BY <2>1
    <3>2. PICK i \in D : p = at[i] \/ (partial(s[i]) /\ p = at[i] + 1)
      BY <1>3, <3>1
    <3>3. p # at[i]
      <4> SUFFICES ASSUME p = at[i] PROVE FALSE
        OBVIOUS
      <4>1. \A u \in BeaconNames : out[p].value[u] = 0
        BY <1>3, <1>7
      <4>2. QED
        BY <3>1, <4>1
    <3>4. i \in partials(s) /\ p = at[i] + 1
      BY <3>2, <3>3 DEF partials
    <3>5. QED
      BY <3>4
  <2>3. ASSUME NEW i \in partials(s) PROVE at[i] + 1 \in C
    <3>1. i \in D /\ partial(s[i])
      BY DEF partials
    <3>2. at[i] + 1 \in 1..Len(out) /\ out[at[i] + 1] \in Outputs /\ WellFormedOrder(out[at[i] + 1])
      BY <1>3, <1>8, <3>1
    <3> DEFINE c == out[at[i] + 1]
    <3>3. order_beacon_name \in BeaconNames /\ order_beacon_name \in beacon_set(c.datum)
      BY DEF BeaconNames, beacon_set
    <3>4. c.value[order_beacon_name] = 1
      BY <3>2, <3>3, OneOfEach
    <3> HIDE DEF C
    <3>5. QED
      BY <2>1, <3>2, <3>3, <3>4
  <2> HIDE DEF C
  <2>4. QED
    BY <2>2, <2>3
<1>11. \A i \in D : at[i] \in Nat
  BY <1>3
<1>12. \A i \in partials(s) : at[i] + 1 \in DOMAIN out /\ out[at[i] + 1] = continuation(s[i], o(i))
  BY <1>3, <1>4 DEF partials
<1>13. \A i \in D : \A p : p \in tagged_payment(tx, s[i].ref) <=> p = at[i]
  BY <1>9
<1>14. QED
  BY <1>2, <1>3, <1>4, <1>10, <1>11, <1>12, <1>13 DEF tx, out, o

(* Rank pairing: there are as many continuations as partial takes, and the *)
(* continuation of a leg has the rank its input has.                       *)
LEMMA RanksOfTake ==
  ASSUME NEW s, NEW found, InOrder(s, found),
         NEW at, LaidOut(s, found, Len(s), at, BatchOutputs(s, found))
  PROVE  LET tx == TakeOf(s, found) IN
         /\ beacon_accounting_ok(tx, BeaconPolicy)
         /\ \A i \in partials(s) :
              /\ at[i] + 1 \in beacon_bearing_outputs(tx, BeaconPolicy)
              /\ OutputRank(tx, BeaconPolicy, at[i] + 1) = InputRank(tx, s[i].ref)
<1> DEFINE D  == DOMAIN s
           P  == partials(s)
           tx == TakeOf(s, found)
           C  == beacon_bearing_outputs(tx, BeaconPolicy)
           T  == partial_take_refs(tx)
           ref == [i \in D |-> s[i].ref]
           pos == [i \in D |-> at[i] + 1]
<1>1. /\ D = 1..Len(s) /\ Len(s) \in Nat /\ IsFiniteSet(D) /\ P \subseteq D
      /\ \A i \in D : s[i].ref \in Refs
      /\ \A i, j \in D : i < j => RefLess(s[i].ref, s[j].ref)
      /\ \A i, j \in D : ref[i] = ref[j] => i = j
  <2>1. \A i, j \in D : s[i].ref = s[j].ref => i = j
    BY DEF InOrder
  <2>2. \A i \in D : s[i].ref \in Refs
    BY InputsOfTake
  <2>3. QED
    BY <2>1, <2>2, InputsOfTake DEF InOrder, partials
<1>2. /\ C = {at[i] + 1 : i \in P}
      /\ \A i \in D : at[i] \in Nat
      /\ \A i, j \in D : i < j => at[i] < at[j]
  BY OutputsOfTake
<1>3. IsFiniteSet(P)
  BY <1>1, FS_Subset
<1>4. T = {s[i].ref : i \in P}
  <2>1. /\ OrderInputs(tx) = {s[i].ref : i \in D} /\ Inputs(tx) = OrderInputs(tx)
        /\ \A i \in D : tx.spends[s[i].ref].kind =
                          IF partial(s[i]) THEN "TakeOrderPartial" ELSE "TakeOrder"
    BY InputsOfTake
  <2> HIDE DEF tx
  <2>2. T = {r \in OrderInputs(tx) : tx.spends[r].kind = "TakeOrderPartial"}
    BY <2>1 DEF partial_take_refs
  <2>3. \A i \in D : tx.spends[s[i].ref].kind = "TakeOrderPartial" <=> i \in P
    BY <2>1 DEF partials
  <2> HIDE DEF T, P
  <2>4. \A r \in T : \E i \in P : r = s[i].ref
    BY <2>1, <2>2, <2>3
  <2>5. \A i \in P : s[i].ref \in T
    BY <1>1, <2>1, <2>2, <2>3
  <2>6. QED
    BY <2>4, <2>5
<1>5. \A i, j \in D : pos[i] = pos[j] => i = j
  <2> SUFFICES ASSUME NEW i \in D, NEW j \in D, at[i] + 1 = at[j] + 1 PROVE i = j
    OBVIOUS
  <2>1. at[i] = at[j] /\ i \in Int /\ j \in Int /\ at[i] \in Int
    BY <1>1, <1>2
  <2>2. ~(i < j) /\ ~(j < i)
    BY <1>2, <2>1
  <2>3. QED
    BY <2>1, <2>2
<1> HIDE DEF tx, C, T, P, D
<1>6. ASSUME NEW I \in SUBSET P
      PROVE  /\ Cardinality({s[i].ref : i \in I}) = Cardinality(I)
             /\ Cardinality({at[i] + 1 : i \in I}) = Cardinality(I)
             /\ Cardinality(I) \in Nat
  <2> DEFINE S == {s[i].ref : i \in I}
             Q == {at[i] + 1 : i \in I}
             f == [i \in I |-> s[i].ref]
             h == [i \in I |-> at[i] + 1]
  <2>1. IsFiniteSet(I)
    BY <1>3, FS_Subset
  <2>2. I \subseteq D
    BY <1>1
  <2>3. f \in [I -> S] /\ (\A i, j \in I : f[i] = f[j] => i = j) /\ \A x \in S : \E i \in I : f[i] = x
    <3>1. \A i, j \in I : s[i].ref = s[j].ref => i = j
      BY <1>1, <2>2
    <3>2. QED
      BY <3>1
  <2>4. h \in [I -> Q] /\ (\A i, j \in I : h[i] = h[j] => i = j) /\ \A x \in Q : \E i \in I : h[i] = x
    <3>1. \A i, j \in I : at[i] + 1 = at[j] + 1 => i = j
      BY <1>5, <2>2
    <3>2. QED
      BY <3>1
  <2> HIDE DEF f, h, S, Q
  <2>5. Cardinality(S) = Cardinality(I) /\ Cardinality(I) \in Nat
    BY ONLY <2>1, <2>3, SameSize
  <2>6. Cardinality(Q) = Cardinality(I)
    BY ONLY <2>1, <2>4, SameSize
  <2>7. QED
    BY <2>5, <2>6 DEF S, Q
<1>7. beacon_accounting_ok(tx, BeaconPolicy)
  <2>1. Cardinality(C) = Cardinality(T)
    BY <1>2, <1>4, <1>6
  <2>2. QED
    BY <2>1 DEF beacon_accounting_ok, C, T
<1>8. ASSUME NEW i \in P
      PROVE  OutputRank(tx, BeaconPolicy, at[i] + 1) = InputRank(tx, s[i].ref)
  <2> DEFINE I == {j \in P : j < i}
  <2>1. {q \in T : RefLess(q, s[i].ref)} = {s[j].ref : j \in I}
    <3>1. \A j \in P : RefLess(s[j].ref, s[i].ref) <=> j < i
      <4> SUFFICES ASSUME NEW j \in P PROVE RefLess(s[j].ref, s[i].ref) <=> j < i
        OBVIOUS
      <4>1. i \in D /\ j \in D /\ i \in Int /\ j \in Int
        BY <1>1
      <4>2. j < i => RefLess(s[j].ref, s[i].ref)
        BY <1>1, <4>1
      <4>3. j = i => ~RefLess(s[j].ref, s[i].ref)
        BY <1>1, <4>1, RefLessOrder
      <4>4. i < j => ~RefLess(s[j].ref, s[i].ref)
        <5>1. s[i].ref \in Refs /\ s[j].ref \in Refs
          BY <1>1, <4>1
        <5>2. i < j => RefLess(s[i].ref, s[j].ref)
          BY <1>1, <4>1
        <5>3. QED
          BY <5>1, <5>2, RefLessOrder
      <4>5. QED
        BY <4>1, <4>2, <4>3, <4>4
    <3>2. QED
      BY <1>4, <3>1
  <2>2. {q \in C : q < at[i] + 1} = {at[j] + 1 : j \in I}
    <3>1. \A j \in P : at[j] + 1 < at[i] + 1 <=> j < i
      <4> SUFFICES ASSUME NEW j \in P PROVE at[j] + 1 < at[i] + 1 <=> j < i
        OBVIOUS
      <4>1. i \in D /\ j \in D /\ i \in Int /\ j \in Int /\ at[i] \in Int /\ at[j] \in Int
        BY <1>1, <1>2
      <4>2. (j < i => at[j] < at[i]) /\ (i < j => at[i] < at[j]) /\ (i = j => at[i] = at[j])
        BY <1>2, <4>1
      <4>3. QED
        BY <4>1, <4>2
    <3>2. QED
      BY <1>2, <3>1
  <2>3. I \in SUBSET P
    OBVIOUS
  <2> HIDE DEF I
  <2>4. Cardinality({q \in T : RefLess(q, s[i].ref)}) = Cardinality({q \in C : q < at[i] + 1})
    BY <1>6, <2>1, <2>2, <2>3
  <2>5. QED
    BY <2>4 DEF OutputRank, InputRank, C, T
<1>9. \A i \in P : at[i] + 1 \in C
  BY <1>2
<1>10. QED
  BY <1>7, <1>8, <1>9 DEF C, P, tx

(* The deadline is no later than any of the expirations.                   *)
LEMMA DeadlineInTime ==
  ASSUME NEW s, NEW found, AllSound(s, found)
  PROVE  /\ deadline(s, found) \in Nat \cup {None}
         /\ \A i \in DOMAIN s :
              LET e == found[s[i].ref].datum.expiration IN
              e # None => deadline(s, found) # None /\ deadline(s, found) <= e
<1> DEFINE D == DOMAIN s
           e(i) == found[s[i].ref].datum.expiration
           all == {e(i) : i \in D}
           times == {found[s[i].ref].datum.expiration : i \in DOMAIN s} \ {None}
<1>1. \A i \in D : e(i) \in Nat \cup {None}
  BY Amounts DEF AllSound
<1>2. IsFiniteSet(times)
  <2> DEFINE f == [i \in D |-> e(i)]
  <2>1. s \in Seq(Legs)
    BY DEF AllSound
  <2>2. D = 1..Len(s) /\ Len(s) \in Nat
    BY <2>1
  <2>3. IsFiniteSet(D)
    BY <2>2, FS_Interval
  <2>4. IsFiniteSet(DOMAIN f) /\ f = [x \in DOMAIN f |-> f[x]] /\ all = {f[x] : x \in DOMAIN f}
    BY <2>3
  <2> HIDE DEF f, all
  <2>5. IsFiniteSet(all)
    BY <2>4, ImageFinite
  <2>6. times \subseteq all
    BY DEF all
  <2> HIDE DEF times
  <2>7. QED
    BY <2>5, <2>6, FS_Subset
<1>3. times \subseteq Nat /\ \A i \in D : e(i) # None => e(i) \in times
  BY <1>1
<1>4. deadline(s, found) =
        IF times = {} THEN None ELSE slotStart(unixTimeToEnclosingSlot(Min(times)))
  BY DEF deadline
<1> HIDE DEF times, e
<1>5. CASE times = {}
  BY <1>3, <1>4, <1>5 DEF e
<1>6. CASE times # {}
  <2> DEFINE m == Min(times)
             q == m \div SlotLength
  <2>1. m \in times /\ \A x \in times : m <= x
    <3>1. times \subseteq Int
      BY <1>3
    <3>2. QED
      BY <1>2, <1>6, <3>1, SmallestIn
  <2>2. m \in Nat /\ SlotLength \in Nat /\ SlotLength > 0
    <3>1. SlotLength \in Nat \ {0}
      BY AmountsAssumption
    <3>2. \A n \in Nat : n # 0 => n > 0
      OBVIOUS
    <3> HIDE DEF m
    <3>3. QED
      BY <1>3, <2>1, <3>1, <3>2
  <2>3. deadline(s, found) = q * SlotLength
    BY <1>4, <1>6 DEF slotStart, unixTimeToEnclosingSlot
  <2> HIDE DEF m
  <2>4. q \in Nat /\ SlotLength * q <= m
    BY <2>2
  <2> HIDE DEF q
  <2>5. q * SlotLength = SlotLength * q /\ SlotLength * q \in Nat
    BY <2>2, <2>4
  <2>6. deadline(s, found) \in Nat /\ deadline(s, found) <= m
    BY <2>3, <2>4, <2>5
  <2>7. deadline(s, found) # None
    BY <2>6, CredentialsAssumption
  <2>8. ASSUME NEW i \in D, e(i) # None PROVE deadline(s, found) <= e(i)
    <3>1. e(i) \in Nat /\ m <= e(i)
      BY <1>3, <2>1, <2>8
    <3>2. QED
      BY <2>2, <2>6, <3>1
  <2>9. QED
    BY <2>6, <2>7, <2>8 DEF e
<1>7. QED
  BY <1>5, <1>6

(* The names burnt are those of the legs taken in full.                    *)
LEMMA BurntByTake ==
  ASSUME NEW s, NEW found, InOrder(s, found), NEW u \in BeaconNames
  PROVE  LET named == {i \in DOMAIN s : u \in beacon_set(found[s[i].ref].datum)} IN
         /\ TakeOf(s, found).mint[u] = -Cardinality(named \ partials(s))
         /\ IsFiniteSet(named) /\ Cardinality(named) \in Nat
         /\ Cardinality(named \ partials(s)) \in Nat
         /\ Cardinality(named) = Cardinality(named \cap partials(s))
                                   + Cardinality(named \ partials(s))
         /\ Cardinality(named \cap partials(s)) \in Nat
<1> DEFINE D == DOMAIN s
           named == {i \in D : u \in beacon_set(found[s[i].ref].datum)}
           P == partials(s)
           whole == {i \in D : ~partial(s[i]) /\ u \in beacon_set(found[s[i].ref].datum)}
<1>1. IsFiniteSet(D)
  BY InputsOfTake
<1>2. whole = named \ P
  BY DEF partials
<1>3. TakeOf(s, found).mint[u] = -Cardinality(whole)
  BY DEF TakeOf, mintBeacons
<1>4. IsFiniteSet(named) /\ IsFiniteSet(named \ P) /\ IsFiniteSet(named \cap P)
  BY <1>1, FS_Subset
<1> HIDE DEF whole, named, P, D
<1>5. Cardinality(named) \in Nat /\ Cardinality(named \ P) \in Nat /\ Cardinality(named \cap P) \in Nat
  BY <1>4, FS_CardinalityType
<1>6. Cardinality(named) = Cardinality(named \cap P) + Cardinality(named \ P)
  <2>1. named = (named \cap P) \cup (named \ P) /\ (named \cap P) \cap (named \ P) = {}
    OBVIOUS
  <2>2. Cardinality((named \cap P) \cup (named \ P)) =
          Cardinality(named \cap P) + Cardinality(named \ P)
            - Cardinality((named \cap P) \cap (named \ P))
    BY <1>4, FS_Union
  <2>3. Cardinality((named \cap P) \cap (named \ P)) = 0
    BY <2>1, FS_EmptySet
  <2>4. Cardinality(named) = Cardinality((named \cap P) \cup (named \ P))
    BY <2>1
  <2>5. QED
    BY <1>5, <2>2, <2>3, <2>4
<1>7. QED
  BY <1>2, <1>3, <1>4, <1>5, <1>6 DEF named, P, D

(* Beacons are conserved: those of the legs taken in part go on, the rest  *)
(* is burnt.                                                               *)
LEMMA TakeConserves ==
  ASSUME Chain, NEW s, NEW found, InOrder(s, found),
         \A i \in DOMAIN s : s[i].ref \in DOMAIN utxo /\ found[s[i].ref] = utxo[s[i].ref],
         NEW u \in BeaconNames
  PROVE  LET tx == TakeOf(s, found) IN
         Cardinality(TokensOut(tx, u)) = Cardinality(TokensIn(tx, u)) + tx.mint[u]
<1> DEFINE D  == DOMAIN s
           P  == partials(s)
           tx == TakeOf(s, found)
           o(i) == found[s[i].ref]
           named == {i \in D : u \in beacon_set(o(i).datum)}
           out == BatchOutputs(s, found)
           spent == {r \in OrderInputs(tx) : u \in beacon_set(utxo[r].datum)}
<1>1. /\ OrderInputs(tx) = {s[i].ref : i \in D} /\ IsFiniteSet(OrderInputs(tx))
      /\ D = 1..Len(s) /\ Len(s) \in Nat
  BY InputsOfTake
<1>2. OrderInputs(tx) \subseteq Orders
  BY <1>1 DEF Chain, BeaconsNeverLeak, Orders
<1>3. Cardinality(TokensIn(tx, u)) = Cardinality(spent)
  <2> HIDE DEF tx
  <2>1. QED
    BY <1>1, <1>2, TokensOfOrders DEF Chain
<1>4. Cardinality(spent) = Cardinality(named)
  <2> DEFINE f == [i \in named |-> s[i].ref]
  <2>1. \A i, j \in D : s[i].ref = s[j].ref => i = j
    BY DEF InOrder
  <2>2. spent = {s[i].ref : i \in named}
    <3> HIDE DEF tx
    <3>1. QED
      BY <1>1
  <2>3. f \in [named -> spent] /\ (\A i, j \in named : f[i] = f[j] => i = j)
        /\ \A x \in spent : \E i \in named : f[i] = x
    <3> HIDE DEF spent
    <3>1. QED
      BY <2>1, <2>2
  <2>4. IsFiniteSet(named)
    BY BurntByTake
  <2> HIDE DEF f, named, spent
  <2>5. QED
    BY ONLY <2>3, <2>4, SameSize
<1>5. PICK at : LaidOut(s, found, Len(s), at, out)
  BY BatchLaidOut DEF InOrder
<1>6. /\ tx.outputs = out /\ DOMAIN out = 1..Len(out) /\ Len(out) \in Nat /\ out \in Seq(Outputs)
      /\ \A i \in D : out[at[i]] = payment(s[i], o(i)) /\ at[i] \in Nat /\ at[i] \in DOMAIN out
      /\ \A i \in P : out[at[i] + 1] = continuation(s[i], o(i)) /\ at[i] + 1 \in DOMAIN out
      /\ \A i, j \in D : i < j => at[i] < at[j]
  BY <1>5, OutputsOfTake
<1>7. \A p \in 1..Len(out) : \E i \in D : p = at[i] \/ (partial(s[i]) /\ p = at[i] + 1)
  BY <1>1, <1>5 DEF LaidOut
<1>8. \A i \in D : Sound(s[i], o(i)) /\ payment(s[i], o(i)).value[u] = 0
  BY PaymentOf DEF InOrder, AllSound
<1>9. \A i \in P : i \in D /\ partial(s[i])
  BY DEF partials
<1>10. \A i \in P : continuation(s[i], o(i)).value[u] = IF i \in named THEN 1 ELSE 0
  <2> SUFFICES ASSUME NEW i \in P
               PROVE  continuation(s[i], o(i)).value[u] = IF i \in named THEN 1 ELSE 0
    OBVIOUS
  <2> DEFINE c == continuation(s[i], o(i))
  <2>1. c \in Outputs /\ WellFormedOrder(c) /\ beacon_set(c.datum) = beacon_set(o(i).datum)
    <3>1. Sound(s[i], o(i)) /\ partial(s[i])
      BY <1>8, <1>9
    <3>2. QED
      BY ONLY <3>1, ContinuationOf
  <2>2. c.value[u] = IF u \in beacon_set(c.datum) THEN 1 ELSE 0
    BY <2>1, OneOfEach
  <2>3. QED
    BY <1>9, <2>1, <2>2
<1>11. Cardinality(TokensOut(tx, u)) = Cardinality(named \cap P)
  <2> DEFINE I == named \cap P
             carried == {<<at[i] + 1, 1>> : i \in I}
             f == [i \in I |-> <<at[i] + 1, 1>>]
             here(p) == {p} \X (1..out[p].value[u])
  <2>1. TokensOut(tx, u) = UNION {here(p) : p \in 1..Len(out)}
    BY <1>6 DEF TokensOut
  <2> HIDE DEF out, o, tx, named, P
  <2>2. \A i \in D : here(at[i]) = {}
    <3> SUFFICES ASSUME NEW i \in D PROVE here(at[i]) = {}
      OBVIOUS
    <3>1. out[at[i]].value[u] = 0
      BY <1>6, <1>8
    <3>2. 1..0 = {}
      OBVIOUS
    <3>3. QED
      BY <3>1, <3>2
  <2>3. \A i \in P : here(at[i] + 1) = IF i \in I THEN {<<at[i] + 1, 1>>} ELSE {}
    <3> SUFFICES ASSUME NEW i \in P
                 PROVE  here(at[i] + 1) = IF i \in I THEN {<<at[i] + 1, 1>>} ELSE {}
      OBVIOUS
    <3>1. out[at[i] + 1].value[u] = IF i \in I THEN 1 ELSE 0
      BY <1>6, <1>10
    <3>2. 1..0 = {} /\ 1..1 = {1}
      OBVIOUS
    <3> DEFINE v == out[at[i] + 1].value[u]
               q == at[i] + 1
    <3>3. here(q) = {q} \X (1..v) /\ v = IF i \in I THEN 1 ELSE 0
      BY <3>1
    <3> HIDE DEF v, q, here
    <3>4. here(q) = IF i \in I THEN {<<q, 1>>} ELSE {}
      BY <3>2, <3>3
    <3>5. QED
      BY <3>4 DEF q
  <2>4. ASSUME NEW x \in TokensOut(tx, u) PROVE x \in carried
    <3>1. PICK p \in 1..Len(out) : x \in here(p)
      BY <2>1
    <3>2. PICK i \in D : p = at[i] \/ (partial(s[i]) /\ p = at[i] + 1)
      BY <1>7
    <3>3. partial(s[i]) /\ p = at[i] + 1 /\ i \in P
      <4>1. p # at[i]
        BY <2>2, <3>1
      <4>2. QED
        BY <3>2, <4>1 DEF P, partials
    <3> HIDE DEF here
    <3>4. i \in I /\ x = <<at[i] + 1, 1>>
      BY <2>3, <3>1, <3>3
    <3>5. QED
      BY <3>4
  <2>5. ASSUME NEW i \in I PROVE <<at[i] + 1, 1>> \in TokensOut(tx, u)
    <3>1. i \in P /\ at[i] + 1 \in 1..Len(out)
      BY <1>6
    <3> HIDE DEF here
    <3>2. <<at[i] + 1, 1>> \in here(at[i] + 1)
      BY <2>3, <3>1
    <3>3. QED
      BY <2>1, <3>1, <3>2
  <2>6. TokensOut(tx, u) = carried
    BY <2>4, <2>5
  <2>7. IsFiniteSet(I)
    <3>1. IsFiniteSet(named)
      BY BurntByTake DEF named, o
    <3>2. QED
      BY <3>1, FS_Subset
  <2>8. f \in [I -> carried] /\ (\A i, j \in I : f[i] = f[j] => i = j)
        /\ \A x \in carried : \E i \in I : f[i] = x
    <3>1. \A i, j \in I : <<at[i] + 1, 1>> = <<at[j] + 1, 1>> => i = j
      <4> SUFFICES ASSUME NEW i \in I, NEW j \in I, <<at[i] + 1, 1>> = <<at[j] + 1, 1>>
                   PROVE  i = j
        OBVIOUS
      <4>1. i \in D /\ j \in D
        BY <1>9
      <4>2. at[i] \in Nat /\ at[j] \in Nat /\ i \in Int /\ j \in Int
        BY <1>1, <1>6, <4>1
      <4>3. at[i] + 1 = at[j] + 1
        OBVIOUS
      <4>4. at[i] = at[j]
        BY <4>2, <4>3
      <4>5. ~(i < j) /\ ~(j < i)
        BY <1>6, <4>1, <4>2, <4>4
      <4>6. QED
        BY <4>2, <4>5
    <3>2. QED
      BY <3>1
  <2> HIDE DEF f, carried, I
  <2>9. Cardinality(carried) = Cardinality(I)
    BY ONLY <2>7, <2>8, SameSize
  <2>10. QED
    BY <2>6, <2>9 DEF I
<1>12. /\ tx.mint[u] = -Cardinality(named \ P)
       /\ Cardinality(named) = Cardinality(named \cap P) + Cardinality(named \ P)
       /\ Cardinality(named \ P) \in Nat /\ Cardinality(named \cap P) \in Nat
  BY ONLY InOrder(s, found), u \in BeaconNames, BurntByTake
<1> HIDE DEF tx, spent, named, P
<1>13. Cardinality(TokensOut(tx, u)) = Cardinality(TokensIn(tx, u)) + tx.mint[u]
  BY <1>3, <1>4, <1>11, <1>12
<1>14. QED
  BY <1>13 DEF tx

Unspent(s, found) ==
  \A i \in DOMAIN s : s[i].ref \in DOMAIN utxo /\ found[s[i].ref] = utxo[s[i].ref]

LEMMA TakeTyped ==
  ASSUME NEW s, NEW found, InOrder(s, found)
  PROVE  TypedTransaction(TakeOf(s, found))
<1> DEFINE tx == TakeOf(s, found)
<1>1. /\ DOMAIN tx.spends = {s[i].ref : i \in DOMAIN s}
      /\ DOMAIN tx.spends \subseteq Refs /\ IsFiniteSet(DOMAIN tx.spends)
      /\ \A i \in DOMAIN s : tx.spends[s[i].ref] \in Redeemers
      /\ DOMAIN tx.imitations = {}
  <2>1. DOMAIN tx.spends = Inputs(tx)
    BY DEF Inputs
  <2> HIDE DEF tx
  <2>2. QED
    BY <2>1, InputsOfTake, OrdersOnly DEF tx
<1>2. tx.outputs \in Seq(Outputs)
  <2>1. PICK at : LaidOut(s, found, Len(s), at, BatchOutputs(s, found))
    BY BatchLaidOut DEF InOrder
  <2>2. QED
    BY <2>1, OutputsOfTake
<1>3. tx.mint \in [BeaconNames -> Int]
  <2>1. \A u \in BeaconNames : tx.mint[u] \in Int
    <3> SUFFICES ASSUME NEW u \in BeaconNames PROVE tx.mint[u] \in Int
      OBVIOUS
    <3> DEFINE k == Cardinality({i \in DOMAIN s : u \in beacon_set(found[s[i].ref].datum)}
                                  \ partials(s))
    <3>1. tx.mint[u] = -k /\ k \in Nat
      BY BurntByTake
    <3> HIDE DEF k, tx
    <3>2. QED
      BY <3>1
  <2>2. tx.mint = [u \in BeaconNames |-> tx.mint[u]]
    BY DEF TakeOf, mintBeacons
  <2> HIDE DEF tx
  <2>3. QED
    BY <2>1, <2>2
<1>4. tx.upper_bound \in Nat \cup {None}
  BY DeadlineInTime DEF TakeOf, InOrder
<1>5. tx.mint_redeemer = "BurnBeacons" /\ tx.extra_signatories = {}
  BY DEF TakeOf
<1> HIDE DEF tx
<1>6. \A r \in DOMAIN tx.spends : tx.spends[r] \in Redeemers
  BY <1>1
<1>7. TypedTransaction(tx)
  BY <1>1, <1>2, <1>3, <1>4, <1>5, <1>6 DEF TypedTransaction
<1>8. QED
  BY <1>7 DEF tx

(* The payment of a leg is the only output with its tag.                   *)
LEMMA PaymentOfLeg ==
  ASSUME NEW s, NEW found, InOrder(s, found), NEW i \in DOMAIN s,
         NEW at, LaidOut(s, found, Len(s), at, BatchOutputs(s, found))
  PROVE  LET tx == TakeOf(s, found) IN
         /\ at[i] \in DOMAIN tx.outputs
         /\ tx.outputs[at[i]] = payment(s[i], found[s[i].ref])
         /\ tagged_payment(tx, s[i].ref) = {at[i]}
<1>1. /\ at[i] \in DOMAIN TakeOf(s, found).outputs
      /\ TakeOf(s, found).outputs[at[i]] = payment(s[i], found[s[i].ref])
  BY OutputsOfTake
<1>2. \A p : p \in tagged_payment(TakeOf(s, found), s[i].ref) <=> p = at[i]
  BY OutputsOfTake
<1>3. QED
  BY <1>1, <1>2

(* take_ok and take_partial_ok hold of every leg.                          *)
LEMMA TakeSpends ==
  ASSUME NEW s, NEW found, InOrder(s, found), Unspent(s, found), NEW i \in DOMAIN s
  PROVE  spend(utxo, s[i].ref, TakeOf(s, found))
<1> DEFINE tx == TakeOf(s, found)
           r  == s[i].ref
           leg == s[i]
           o  == utxo[r]
           d  == o.datum
<1>1. r \in DOMAIN utxo /\ found[r] = o
  BY DEF Unspent
<1>2. Sound(leg, o)
  BY <1>1 DEF InOrder, AllSound
<1>3. WellFormedOrder(o) /\ o \in Outputs
  BY <1>2 DEF Sound
<1>4. d \in OrderDatums /\ d.version = 1 /\ d.beacon_policy_id = BeaconPolicy
  BY <1>3 DEF WellFormedOrder
<1>5. PICK at : LaidOut(s, found, Len(s), at, BatchOutputs(s, found))
  BY BatchLaidOut DEF InOrder
<1>6. /\ at[i] \in DOMAIN tx.outputs
      /\ tx.outputs[at[i]] = payment(leg, o)
      /\ tagged_payment(tx, r) = {at[i]}
  <2>1. /\ at[i] \in DOMAIN tx.outputs
        /\ tx.outputs[at[i]] = payment(leg, found[r])
        /\ tagged_payment(tx, r) = {at[i]}
    BY <1>5, PaymentOfLeg
  <2>2. QED
    BY <1>1, <2>1
<1>7. beacon_accounting_ok(tx, BeaconPolicy)
  BY <1>5, RanksOfTake
<1>8. expiration_ok(d.expiration, tx)
  <2>1. tx.upper_bound = deadline(s, found)
    BY DEF TakeOf
  <2>2. d.expiration # None => deadline(s, found) # None /\ deadline(s, found) <= d.expiration
    BY <1>1, DeadlineInTime DEF InOrder
  <2>3. QED
    BY <2>1, <2>2 DEF expiration_ok
<1>9. /\ tx.spends[r].kind = IF partial(leg) THEN "TakeOrderPartial" ELSE "TakeOrder"
      /\ partial(leg) => tx.spends[r].take_amount = leg.take
  BY InputsOfTake
<1> DEFINE p == payment(leg, o)
<1>10. /\ p.address = d.payment_address
       /\ ~partial(leg) => payment_value_ok(p.value, d.ask, d.ask_amount, deposit(d, o.value))
       /\ partial(leg) => payment_value_ok(p.value, d.ask, required(leg, d), 0)
  BY <1>2, PaymentOf
<1>11. CASE ~partial(leg)
  <2> HIDE DEF tx, p, o
  <2>1. tx.outputs[at[i]].address = d.payment_address
        /\ payment_value_ok(tx.outputs[at[i]].value, d.ask, d.ask_amount, deposit(d, o.value))
    BY <1>6, <1>10, <1>11 DEF p
  <2>2. take_ok(utxo, r, tx)
    BY <1>4, <1>6, <1>7, <1>8, <2>1 DEF take_ok, o
  <2>3. QED
    BY <1>4, <1>9, <1>11, <2>2 DEF spend, tx, o
<1>12. CASE partial(leg)
  <2> DEFINE t == leg.take
             c == continuation(leg, o)
  <2>1. /\ required(leg, d) = required_payment(t, d.ask_amount, d.offer_amount)
        /\ d.allow_partial_fill /\ t > 0 /\ t < d.offer_amount
        /\ required(leg, d) < d.ask_amount
    BY <1>2, <1>12, Amounts DEF Sound
  <2>2. i \in partials(s)
    BY <1>12 DEF partials
  <2>3. /\ at[i] + 1 \in beacon_bearing_outputs(tx, BeaconPolicy)
        /\ OutputRank(tx, BeaconPolicy, at[i] + 1) = InputRank(tx, r)
    BY <1>5, <2>2, RanksOfTake
  <2>4. tx.outputs[at[i] + 1] = c
    BY <1>1, <1>5, <2>2, OutputsOfTake
  <2>5. /\ c.address = o.address /\ ~c.reference_script
        /\ c.value = continuation_value(d, o.value, t)
        /\ c.datum = continuation_datum(d, t)
    <3>1. Sound(leg, o) /\ partial(leg)
      BY <1>2, <1>12
    <3>2. /\ c.address = o.address /\ c.reference_script = FALSE
          /\ c.value = continuation_value(d, o.value, t)
          /\ c.datum = continuation_datum(d, t)
      <4>1. \A l, x : Sound(l, x) /\ partial(l) =>
              /\ continuation(l, x).address = x.address
              /\ continuation(l, x).reference_script = FALSE
              /\ continuation(l, x).value = continuation_value(x.datum, x.value, l.take)
              /\ continuation(l, x).datum = continuation_datum(x.datum, l.take)
        BY ContinuationOf
      <4>2. QED
        BY ONLY <3>1, <4>1
    <3> HIDE DEF c, o
    <3>3. QED
      BY <3>2
  <2>6. tx.spends[r].take_amount = t /\ tx.spends[r].kind = "TakeOrderPartial"
    BY <1>9, <1>12
  <2> HIDE DEF tx, p, c, o
  <2>7. tx.outputs[at[i]].address = d.payment_address
        /\ payment_value_ok(tx.outputs[at[i]].value, d.ask, required(leg, d), 0)
    BY <1>6, <1>10, <1>12 DEF p
  <2>8. \E q \in DOMAIN tx.outputs :
          /\ tagged_payment(tx, r) = {q}
          /\ tx.outputs[q].address = d.payment_address
          /\ payment_value_ok(tx.outputs[q].value, d.ask,
                              required_payment(t, d.ask_amount, d.offer_amount), 0)
    BY <1>6, <2>1, <2>7
  <2>9. \E q \in beacon_bearing_outputs(tx, BeaconPolicy) :
          /\ OutputRank(tx, BeaconPolicy, q) = InputRank(tx, r)
          /\ tx.outputs[q].address = o.address
          /\ tx.outputs[q].value = continuation_value(d, o.value, t)
          /\ tx.outputs[q].datum = continuation_datum(d, t)
          /\ ~tx.outputs[q].reference_script
    BY <2>3, <2>4, <2>5
  <2>10. take_partial_ok(utxo, r, tx)
    BY <1>4, <1>7, <1>8, <2>1, <2>6, <2>8, <2>9 DEF take_partial_ok, o
  <2>11. QED
    BY <1>4, <2>6, <2>10 DEF spend, tx, o
<1>13. QED
  BY <1>11, <1>12

(* The transaction of a batch whose orders are there and whose interval is *)
(* open is accepted.                                                       *)
LEMMA TakeAccepted ==
  ASSUME Chain, NEW s, NEW found, InOrder(s, found), Unspent(s, found),
         deadline(s, found) # None => clock < deadline(s, found)
  PROVE  Accepted(TakeOf(s, found))
<1> DEFINE tx == TakeOf(s, found)
<1>1. /\ OrderInputs(tx) = {s[i].ref : i \in DOMAIN s} /\ Inputs(tx) = OrderInputs(tx)
      /\ tx.imitations = << >>
      /\ \A i \in DOMAIN s : tx.spends[s[i].ref].kind # "none"
  BY InputsOfTake
<1>2. \A i \in DOMAIN s : s[i].ref \in DOMAIN utxo /\ found[s[i].ref] = utxo[s[i].ref]
  BY DEF Unspent
<1>3. BeaconsConserved(tx)
  BY <1>2, TakeConserves DEF BeaconsConserved
<1>4. \A i \in DOMAIN s : spend(utxo, s[i].ref, tx)
  BY TakeSpends
<1>5. tx.mint_redeemer = "BurnBeacons" /\ tx.upper_bound = deadline(s, found)
  BY DEF TakeOf
<1>6. ASSUME NEW u \in BeaconNames, tx.mint[u] # 0 PROVE tx.mint[u] < 0
  <2> DEFINE k == Cardinality({i \in DOMAIN s : u \in beacon_set(found[s[i].ref].datum)}
                                \ partials(s))
  <2>1. tx.mint[u] = -k /\ k \in Nat
    BY BurntByTake
  <2> HIDE DEF k, tx
  <2>2. QED
    BY <1>6, <2>1
<1> HIDE DEF tx
<1>7. Minting(tx) => mint(tx)
  BY <1>5, <1>6 DEF Minting, mint, burn_beacons_ok
<1>8. \A r \in Inputs(tx) : InputAuthorised(r, tx)
  <2> SUFFICES ASSUME NEW i \in DOMAIN s PROVE InputAuthorised(s[i].ref, tx)
    BY <1>1
  <2>1. WellFormedOrder(utxo[s[i].ref])
    BY <1>2 DEF Chain, BeaconsNeverLeak
  <2>2. utxo[s[i].ref].address.payment = Script
    BY <2>1 DEF WellFormedOrder
  <2>3. QED
    BY <1>1, <1>4, <2>2, OrdersOnly
<1>9. OrderInputs(tx) \subseteq DOMAIN utxo
  BY <1>1, <1>2
<1>12. DOMAIN tx.imitations = {}
  BY <1>1, OrdersOnly
<1>10. Accepted(tx)
  BY <1>3, <1>5, <1>7, <1>8, <1>9, <1>12 DEF Accepted
<1>11. QED
  BY <1>10 DEF tx

(* And its outputs hold the ledger's minimum, if the deposits do.          *)
LEMMA TakeMeetsMinAda ==
  ASSUME NEW s, NEW found, InOrder(s, found),
         \A i \in DOMAIN s :
           LET o == found[s[i].ref] IN deposit(o.datum, o.value) >= MinAda
  PROVE  MinAdaMet(TakeOf(s, found))
<1> DEFINE tx == TakeOf(s, found)
           o(i) == found[s[i].ref]
<1>1. PICK at : LaidOut(s, found, Len(s), at, BatchOutputs(s, found))
  BY BatchLaidOut DEF InOrder
<1>2. /\ tx.outputs = BatchOutputs(s, found) /\ DOMAIN tx.outputs = 1..Len(tx.outputs)
      /\ \A i \in DOMAIN s : tx.outputs[at[i]] = payment(s[i], o(i))
      /\ \A i \in partials(s) : tx.outputs[at[i] + 1] = continuation(s[i], o(i))
  BY <1>1, OutputsOfTake
<1>3. DOMAIN s = 1..Len(s)
  BY InputsOfTake
<1>4. \A p \in 1..Len(tx.outputs) :
        \E i \in DOMAIN s : p = at[i] \/ (partial(s[i]) /\ p = at[i] + 1)
  BY <1>1, <1>2, <1>3 DEF LaidOut
<1> HIDE DEF tx
<1>5. ASSUME NEW p \in DOMAIN tx.outputs PROVE tx.outputs[p].value[ADA] >= MinAda
  <2>1. PICK i \in DOMAIN s : p = at[i] \/ (partial(s[i]) /\ p = at[i] + 1)
    BY <1>2, <1>4
  <2>2. Sound(s[i], o(i)) /\ deposit(o(i).datum, o(i).value) >= MinAda
    BY DEF InOrder, AllSound
  <2>3. CASE p = at[i]
    BY <1>2, <2>2, <2>3, PaymentOf
  <2>4. CASE partial(s[i]) /\ p = at[i] + 1
    <3> DEFINE c == continuation(s[i], o(i))
               dep == deposit(o(i).datum, o(i).value)
    <3>1. tx.outputs[p] = c
      BY <1>2, <2>4 DEF partials
    <3>2. c.value[ADA] >= dep /\ c \in Outputs
      BY <2>2, <2>4, ContinuationOf
    <3>3. dep \in Nat /\ MinAda \in Nat
      BY <2>2, Amounts, AmountsAssumption
    <3>4. c.value[ADA] \in Nat
      BY <3>2 DEF Outputs, Values, Units, Assets
    <3> HIDE DEF c, dep
    <3>5. QED
      BY <2>2, <3>1, <3>2, <3>3, <3>4 DEF dep
  <2>5. QED
    BY <2>1, <2>3, <2>4
<1>6. MinAdaMet(tx)
  BY <1>5 DEF MinAdaMet
<1>7. QED
  BY <1>6 DEF tx

(* What buildTakeManyOrders makes of a request is such a transaction.      *)
LEMMA RequestInOrder ==
  ASSUME NEW legs, NEW found, Batch(legs),
         \A i \in DOMAIN legs : Sound(legs[i], found[legs[i].ref])
  PROVE  /\ InOrder(sorted(legs), found)
         /\ buildTakeManyOrders(legs, found) = TakeOf(sorted(legs), found)
         /\ {sorted(legs)[i].ref : i \in DOMAIN sorted(legs)} = {legs[i].ref : i \in DOMAIN legs}
         /\ Unspent(legs, found) => Unspent(sorted(legs), found)
<1> DEFINE s == sorted(legs)
           D == DOMAIN legs
<1>1. /\ s \in Seq(Legs) /\ DOMAIN s = D
      /\ \A m, n \in D : m < n => RefLess(s[m].ref, s[n].ref)
  BY SortedLegs
<1>2. PICK p \in [D -> D] : /\ \A n \in D : s[n] = legs[p[n]]
                            /\ \A m, n \in D : p[m] = p[n] => m = n
                            /\ \A i \in D : \E n \in D : p[n] = i
  BY SortedLegs
<1>3. \A i, j \in D : legs[i].ref = legs[j].ref => i = j
  BY DEF Batch
<1>4. buildTakeManyOrders(legs, found) = TakeOf(s, found)
  BY DEF buildTakeManyOrders, TakeOf, BatchOutputs
<1> HIDE DEF s
<1>5. \A i \in DOMAIN s : Sound(s[i], found[s[i].ref])
  BY <1>1, <1>2
<1>6. \A i, j \in DOMAIN s : s[i].ref = s[j].ref => i = j
  <2> SUFFICES ASSUME NEW i \in D, NEW j \in D, s[i].ref = s[j].ref PROVE i = j
    BY <1>1
  <2>1. p[i] \in D /\ p[j] \in D /\ legs[p[i]].ref = legs[p[j]].ref
    BY <1>2
  <2>2. p[i] = p[j]
    BY <1>3, <2>1
  <2>3. QED
    BY <1>2, <2>2
<1>7. InOrder(s, found)
  BY <1>1, <1>5, <1>6 DEF InOrder, AllSound
<1>8. {s[i].ref : i \in DOMAIN s} = {legs[i].ref : i \in D}
  BY <1>1, <1>2
<1>9. Unspent(legs, found) => Unspent(s, found)
  BY <1>1, <1>2 DEF Unspent
<1>10. QED
  BY <1>4, <1>7, <1>8, <1>9 DEF s

----------------------------------------------------------------------------
(***************************************************************************)
(* buildCreateOrder and buildCancelOrder.                                  *)
(***************************************************************************)

(* create_ok, less what depends on the time.                               *)
Placeable(p) ==
  /\ p \in CreateRequests
  /\ p.offer # p.ask
  /\ p.offerAmount > 0 /\ p.askAmount > 0
  /\ p.offer \notin BeaconNames /\ p.ask \notin BeaconNames
  /\ parseAddress(p.wallet.changeAddress).stakeCredentialHash # None
  /\ parseAddress(p.paymentAddress).pubKeyHash # None

(* An order placed as this backend does: its deposit is the minimum of the *)
(* ledger or more, and its payment address has no script for a stake part. *)
Serviceable(o) ==
  o.datum.payment_address.stake # Script /\ deposit(o.datum, o.value) >= MinAda

LEMMA CreatedOrder ==
  ASSUME NEW p, Placeable(p)
  PROVE  LET o == created_output(p) IN
         o \in Outputs /\ WellFormedOrder(o) /\ Serviceable(o) /\ o.value[ADA] >= MinAda
<1> DEFINE o == created_output(p)
           d == created_datum(p)
           change == p.wallet.changeAddress
           pay == p.paymentAddress
           B == beacon_set(d)
<1>1. /\ change \in Addresses /\ pay \in Addresses
      /\ p.offer \in Units /\ p.ask \in Units
      /\ p.offerAmount \in Nat /\ p.askAmount \in Nat
      /\ p.expiration \in Nat \cup {None} /\ p.allowPartialFill \in BOOLEAN
  BY RequestsAssumption DEF Placeable
<1>2. /\ p.offer # p.ask /\ p.offerAmount > 0 /\ p.askAmount > 0
      /\ p.offer \notin BeaconNames /\ p.ask \notin BeaconNames
      /\ change.stake \in Keys /\ pay.payment \in Keys
  BY DEF Placeable, parseAddress
<1>3. pay.stake \in Keys \cup {Script, None}
  BY <1>1 DEF Addresses, Credentials
<1> DEFINE st == IF pay.stake \in Keys THEN pay.stake ELSE None
<1>4. st \in Keys \cup {None} /\ st # Script
  BY CredentialsAssumption
<1>5. d = [ version |-> 1, beacon_policy_id |-> BeaconPolicy, owner |-> change.stake,
            payment_address |-> [payment |-> pay.payment, stake |-> st],
            offer |-> p.offer, offer_amount |-> p.offerAmount,
            ask |-> p.ask, ask_amount |-> p.askAmount,
            expiration |-> p.expiration, allow_partial_fill |-> p.allowPartialFill ]
  BY <1>2 DEF created_datum, parseAddress
<1> HIDE DEF d, st
<1>6. d \in OrderDatums
  <2>1. [payment |-> pay.payment, stake |-> st] \in Addresses
    BY <1>2, <1>4 DEF Addresses, Credentials
  <2>2. change.stake \in Credentials /\ BeaconPolicy \in Policies
    BY <1>2, CredentialsAssumption DEF Credentials
  <2> HIDE DEF change, pay
  <2>3. QED
    BY <1>1, <1>5, <2>1, <2>2 DEF OrderDatums
<1>7. /\ d.offer = p.offer /\ d.offer_amount = p.offerAmount /\ d.ask = p.ask
      /\ d.ask_amount = p.askAmount /\ d.owner = change.stake /\ d.version = 1
      /\ d.beacon_policy_id = BeaconPolicy
      /\ d.payment_address.payment = pay.payment /\ d.payment_address.stake = st
  BY <1>5
<1>8. /\ o.address = [payment |-> Script, stake |-> d.owner]
      /\ o.value = [u \in Units |-> (IF u = ADA THEN DepositLovelace ELSE 0)
                                      + (IF u = p.offer THEN p.offerAmount ELSE 0)
                                      + (IF u \in B THEN 1 ELSE 0)]
      /\ o.datum = d /\ o.reference_script = FALSE
      /\ o = [address |-> o.address, value |-> o.value, datum |-> o.datum,
              reference_script |-> o.reference_script]
  BY DEF created_output, Output, d
<1> HIDE DEF o
<1>9. p.offer \in Assets /\ p.ask \in Assets
  BY <1>1, <1>2 DEF Units
<1>10. B \subseteq BeaconNames
  BY <1>2, <1>7, <1>9 DEF beacon_set, BeaconNames
<1>11. ADA \in Assets /\ Assets \subseteq Units /\ Assets \cap BeaconNames = {}
       /\ BeaconNames \subseteq Units
  BY UnitsAssumption DEF Assets, Units
<1>12. DepositLovelace \in Nat /\ DepositLovelace >= MinAda /\ MinAda \in Nat
  BY AmountsAssumption
<1> HIDE DEF B, change, pay
<1> DEFINE v == o.value
<1>13. \A u \in Units : v[u] = (IF u = ADA THEN DepositLovelace ELSE 0)
                                 + (IF u = p.offer THEN p.offerAmount ELSE 0)
                                 + (IF u \in B THEN 1 ELSE 0)
  BY <1>8
<1>14. v \in Values
  <2>1. \A u \in Units : v[u] \in Nat
    BY <1>1, <1>12, <1>13
  <2>2. v = [u \in Units |-> v[u]]
    BY <1>8
  <2> HIDE DEF v
  <2>3. QED
    BY <2>1, <2>2 DEF Values
<1> HIDE DEF v
<1>15. v[ADA] = DepositLovelace + (IF ADA = p.offer THEN p.offerAmount ELSE 0)
  <2>1. ADA \in Units /\ ADA \notin B
    BY <1>10, <1>11
  <2>2. QED
    BY <1>1, <1>12, <1>13, <2>1
<1>16. o \in Outputs
  <2>1. [payment |-> Script, stake |-> d.owner] \in Addresses
    BY <1>2, <1>7 DEF Addresses, Credentials
  <2>2. QED
    BY <1>6, <1>8, <1>14, <2>1 DEF Outputs, v
<1>17. v = expected_value(d, v[ADA])
  <2> DEFINE want(u) == IF u \in B THEN 1
                        ELSE IF u = ADA THEN v[ADA]
                        ELSE IF u = d.offer THEN d.offer_amount ELSE 0
  <2>1. expected_value(d, v[ADA]) = [u \in Units |-> want(u)]
    BY DEF expected_value, B
  <2>2. ASSUME NEW u \in Units PROVE v[u] = want(u)
    <3>1. u \in B => u # ADA /\ u # p.offer
      BY <1>9, <1>10, <1>11
    <3>2. QED
      BY <1>1, <1>7, <1>12, <1>13, <1>15, <3>1
  <2>3. v = [u \in Units |-> v[u]]
    BY <1>14 DEF Values
  <2> HIDE DEF want
  <2>4. QED
    BY <2>1, <2>2, <2>3
<1>18. deposit(d, v) = DepositLovelace /\ v[ADA] >= MinAda
       /\ (is_ada(d.offer) => v[ADA] >= d.offer_amount)
  BY <1>1, <1>7, <1>12, <1>15 DEF deposit, is_ada
<1>19. WellFormedOrder(o)
  BY <1>2, <1>6, <1>7, <1>8, <1>17, <1>18 DEF WellFormedOrder, offer_covered, v
<1>20. Serviceable(o)
  BY <1>4, <1>7, <1>8, <1>12, <1>18 DEF Serviceable, v
<1>21. QED
  BY <1>16, <1>18, <1>19, <1>20 DEF o, v

LEMMA CreateAccepted ==
  ASSUME NEW p, Placeable(p)
  PROVE  LET tx == buildCreateOrder(p) IN
         /\ TypedTransaction(tx) /\ Accepted(tx) /\ MinAdaMet(tx)
         /\ OrderInputs(tx) = {}
         /\ \A i \in DOMAIN tx.outputs : tx.outputs[i] = created_output(p)
<1> DEFINE tx == buildCreateOrder(p)
           o  == created_output(p)
           B  == beacon_set(created_datum(p))
<1>1. o \in Outputs /\ WellFormedOrder(o) /\ o.value[ADA] >= MinAda
  BY CreatedOrder
<1>2. /\ tx.spends = << >> /\ tx.imitations = << >> /\ tx.outputs = <<o>>
      /\ tx.mint = [u \in BeaconNames |-> IF u \in B THEN 1 ELSE 0]
      /\ tx.mint_redeemer = "MintBeacons" /\ tx.upper_bound = None
      /\ tx.extra_signatories = {}
  BY DEF buildCreateOrder
<1>3. o.datum = created_datum(p)
  BY DEF created_output, Output
<1> HIDE DEF tx, o
<1>4. /\ DOMAIN tx.spends = {} /\ DOMAIN tx.imitations = {}
      /\ Inputs(tx) = {} /\ OrderInputs(tx) = {}
      /\ DOMAIN tx.outputs = {1} /\ tx.outputs[1] = o
  <2>1. DOMAIN << >> = {} /\ DOMAIN <<o>> = {1} /\ <<o>>[1] = o
    OBVIOUS
  <2>2. QED
    BY <1>2, <2>1 DEF Inputs, OrderInputs
<1>5. B \subseteq BeaconNames
  BY <1>1, <1>3, OrderUnits
<1>6. TypedTransaction(tx)
  <2>1. tx.mint \in [BeaconNames -> Int]
    BY <1>2
  <2>2. tx.outputs \in Seq(Outputs)
    BY <1>1, <1>2
  <2>3. IsFiniteSet({})
    BY FS_EmptySet
  <2>4. QED
    BY <1>2, <1>4, <2>1, <2>2, <2>3 DEF TypedTransaction
<1>7. \A u \in BeaconNames : o.value[u] = IF u \in B THEN 1 ELSE 0
  BY <1>1, <1>3, OneOfEach
<1>8. BeaconsConserved(tx)
  <2> SUFFICES ASSUME NEW u \in BeaconNames
               PROVE  Cardinality(TokensOut(tx, u)) = Cardinality(TokensIn(tx, u)) + tx.mint[u]
    BY DEF BeaconsConserved
  <2>1. TokensIn(tx, u) = {}
    BY <1>4 DEF TokensIn
  <2>2. TokensOut(tx, u) = UNION {{q} \X (1..o.value[u]) : q \in {1}}
    BY <1>4 DEF TokensOut
  <2>3. o.value[u] \in {0, 1}
    BY <1>7
  <2>4. Cardinality(UNION {{q} \X (1..o.value[u]) : q \in {1}}) = o.value[u]
    BY <2>3, TokensOfOne
  <2>5. Cardinality(TokensIn(tx, u)) = 0
    BY <2>1, FS_EmptySet
  <2>6. tx.mint[u] = o.value[u]
    BY <1>2, <1>7
  <2>7. QED
    BY <2>2, <2>3, <2>4, <2>5, <2>6
<1>9. mint(tx)
  <2>1. beacon_bearing_outputs(tx, BeaconPolicy) = {1}
    <3>1. order_beacon_name \in BeaconNames /\ order_beacon_name \in B
      BY DEF BeaconNames, beacon_set
    <3>2. o.value[order_beacon_name] = 1
      BY <1>7, <3>1
    <3>3. \E u \in BeaconNames : o.value[u] > 0
      BY <3>1, <3>2
    <3>4. QED
      BY <1>4, <3>3 DEF beacon_bearing_outputs, has_tokens
  <2>2. mint_beacons_ok(tx)
    BY <1>1, <1>2, <1>3, <1>4, <2>1 DEF mint_beacons_ok
  <2>3. QED
    BY <1>2, <2>2 DEF mint
<1>10. Accepted(tx)
  BY <1>2, <1>4, <1>8, <1>9 DEF Accepted
<1>11. MinAdaMet(tx)
  BY <1>1, <1>4 DEF MinAdaMet
<1>12. QED
  BY <1>4, <1>6, <1>10, <1>11 DEF tx, o

LEMMA CancelServed ==
  ASSUME Chain, NEW r \in DOMAIN utxo
  PROVE  LET tx == buildCancelOrder(r, utxo[r]) IN
         /\ Accepted(tx) /\ MinAdaMet(tx)
<1>1. WellFormedOrder(utxo[r])
  BY DEF Chain, BeaconsNeverLeak
<1>2. r \in Orders /\ TypeOK
  BY <1>1 DEF Chain, Orders
<1>3. buildCancelOrder(r, utxo[r]) = CancelTx(r)
  BY DEF buildCancelOrder, CancelTx
<1>4. Accepted(CancelTx(r))
  BY <1>2, CancelAccepted
<1>5. CancelTx(r).outputs = << >>
  BY DEF CancelTx
<1>6. DOMAIN CancelTx(r).outputs = {}
  BY <1>5
<1>7. MinAdaMet(CancelTx(r))
  BY <1>6 DEF MinAdaMet
<1>8. QED
  BY <1>3, <1>4, <1>7

LEMMA CancelTyped ==
  ASSUME NEW r \in Refs, NEW o \in Outputs, WellFormedOrder(o)
  PROVE  LET tx == buildCancelOrder(r, o) IN
         TypedTransaction(tx) /\ OrderInputs(tx) = {r} /\ tx.outputs = << >>
<1> DEFINE tx == buildCancelOrder(r, o)
<1>1. /\ tx.spends = [q \in {r} |-> [kind |-> "CancelOrder", take_amount |-> 0]]
      /\ tx.imitations = << >> /\ tx.outputs = << >>
      /\ tx.mint = [u \in BeaconNames |-> IF u \in beacon_set(o.datum) THEN -1 ELSE 0]
      /\ tx.mint_redeemer = "BurnBeacons" /\ tx.upper_bound = None
      /\ tx.extra_signatories = {o.datum.owner}
  BY DEF buildCancelOrder
<1> HIDE DEF tx
<1>2. /\ DOMAIN tx.spends = {r} /\ IsFiniteSet({r})
      /\ DOMAIN tx.imitations = {} /\ OrderInputs(tx) = {r}
  BY <1>1, FS_Singleton, OrdersOnly DEF Inputs
<1>3. tx.spends[r] \in Redeemers
  BY <1>1 DEF Redeemers
<1>4. tx.mint \in [BeaconNames -> Int] /\ tx.outputs \in Seq(Outputs)
  BY <1>1
<1>5. o.datum.owner \in Keys
  BY DEF WellFormedOrder
<1>6. TypedTransaction(tx)
  BY <1>1, <1>2, <1>3, <1>4, <1>5 DEF TypedTransaction
<1>7. QED
  BY <1>1, <1>2, <1>6 DEF tx

----------------------------------------------------------------------------
(***************************************************************************)
(* The request under way, over the ledger U with transactions ids: what is *)
(* noted of an order is true of it for as long as it is there, because the *)
(* outputs of a transaction never change.                                  *)
(***************************************************************************)
Seen(U, ids, r, o) ==
  /\ r \in ids \X Nat /\ o \in Outputs /\ WellFormedOrder(o)
  /\ r \in DOMAIN U => U[r] = o

SeenLeg(j, U, ids, i) ==
  Seen(U, ids, j.legs[i].ref, j.found[j.legs[i].ref])

Resolving(j, U, ids) ==
  /\ Batch(j.legs) /\ j.legs # << >>
  /\ j.next \in Nat
  /\ \A i \in DOMAIN j.legs : i < j.next =>
       j.legs[i].ref \in DOMAIN j.found /\ SeenLeg(j, U, ids, i)

Created(j) == \E p : Placeable(p) /\ j.tx = buildCreateOrder(p) /\ j.legs = << >>

Cancelled(j, U, ids) ==
  \E r, o : Seen(U, ids, r, o) /\ j.tx = buildCancelOrder(r, o) /\ j.legs = << >>

Taken(j, U, ids) ==
  /\ Batch(j.legs) /\ j.legs # << >>
  /\ \A i \in DOMAIN j.legs :
       SeenLeg(j, U, ids, i) /\ Sound(j.legs[i], j.found[j.legs[i].ref])
  /\ j.tx = buildTakeManyOrders(j.legs, j.found)
  /\ j.summary = summarise(sorted(j.legs), j.found)

JobOver(j, U, ids) ==
  /\ j = [stage |-> j.stage, legs |-> j.legs, next |-> j.next, found |-> j.found,
          tx |-> j.tx, summary |-> j.summary]
  /\ j.stage \in {"idle", "resolving", "built"}
  /\ j.stage = "idle" => j = Idle
  /\ j.stage = "resolving" => Resolving(j, U, ids)
  /\ j.stage = "built" => Created(j) \/ Cancelled(j, U, ids) \/ Taken(j, U, ids)

BuilderInv == Chain /\ JobOver(job, utxo, txids)

LEMMA IdleJob == ASSUME NEW U, NEW ids PROVE JobOver(Idle, U, ids)
  BY DEF Idle, JobOver

(* What was noted stays true when transactions enter the chain.            *)
LEMMA SeenAfter ==
  ASSUME NEW tx, NEW id, id \notin txids, Submit(tx, id), NEW r, NEW o, Seen(utxo, txids, r, o)
  PROVE  Seen(utxo', txids', r, o)
<1> DEFINE kept == DOMAIN utxo \ OrderInputs(tx)
           new  == NewRefs(tx, id)
<1>1. /\ txids' = txids \cup {id}
      /\ utxo' = [q \in kept \cup new |-> IF q \in new THEN tx.outputs[q[2]] ELSE utxo[q]]
  BY DEF Submit
<1>2. r \in txids \X Nat /\ o \in Outputs /\ WellFormedOrder(o) /\ (r \in DOMAIN utxo => utxo[r] = o)
  BY DEF Seen
<1>3. r \notin new
  <2>1. \A q \in new : q[1] = id
    BY DEF NewRefs
  <2>2. r[1] \in txids
    BY <1>2
  <2>3. QED
    BY <2>1, <2>2
<1> HIDE DEF new
<1>4. r \in DOMAIN utxo' => r \in DOMAIN utxo /\ utxo'[r] = utxo[r]
  BY <1>1, <1>3
<1>5. r \in txids' \X Nat
  BY <1>1, <1>2
<1>6. QED
  BY <1>2, <1>4, <1>5 DEF Seen

LEMMA JobAfter ==
  ASSUME NEW tx, NEW id, id \notin txids, Submit(tx, id), NEW j, JobOver(j, utxo, txids)
  PROVE  JobOver(j, utxo', txids')
<1>1. \A r, o : Seen(utxo, txids, r, o) => Seen(utxo', txids', r, o)
  BY SeenAfter
<1>2. \A i : SeenLeg(j, utxo, txids, i) => SeenLeg(j, utxo', txids', i)
  BY <1>1 DEF SeenLeg
<1>3. Resolving(j, utxo, txids) => Resolving(j, utxo', txids')
  BY <1>2 DEF Resolving
<1>4. Cancelled(j, utxo, txids) => Cancelled(j, utxo', txids')
  BY <1>1 DEF Cancelled
<1>5. Taken(j, utxo, txids) => Taken(j, utxo', txids')
  BY <1>2 DEF Taken
<1>6. QED
  BY <1>3, <1>4, <1>5 DEF JobOver

(* An order on the chain is one that was seen.                             *)
LEMMA OnChainSeen ==
  ASSUME Chain, NEW r \in DOMAIN utxo
  PROVE  Seen(utxo, txids, r, utxo[r])
  BY DEF Chain, TypeOK, BeaconsNeverLeak, Seen

(* The steps of a request.                                                 *)
LEMMA AskCreateKept ==
  ASSUME BuilderInv, NEW p \in CreateRequests, AskCreate(p)
  PROVE  JobOver(job', utxo', txids')
<1>1. job = Idle /\ create_ok(p)
  BY DEF AskCreate, BuilderInv, JobOver
<1>2. Placeable(p)
  BY <1>1 DEF create_ok, Placeable
<1>3. job' = [Idle EXCEPT !.stage = "built", !.tx = buildCreateOrder(p),
                          !.summary = [paymentAddress |-> p.paymentAddress]]
  BY <1>1 DEF AskCreate, Answer
<1> DEFINE tx == buildCreateOrder(p)
           sm == [paymentAddress |-> p.paymentAddress]
<1>4. job' = [stage |-> "built", legs |-> << >>, next |-> 1, found |-> << >>,
              tx |-> tx, summary |-> sm]
  BY <1>3 DEF Idle
<1> HIDE DEF tx, sm
<1>5. Created(job')
  BY <1>2, <1>4 DEF Created, tx
<1>6. QED
  BY <1>4, <1>5 DEF JobOver

LEMMA AskCancelKept ==
  ASSUME BuilderInv, NEW r \in DOMAIN utxo, AskCancel(r)
  PROVE  JobOver(job', utxo', txids')
<1>1. job = Idle /\ utxo' = utxo /\ txids' = txids
  BY DEF AskCancel, BuilderInv, JobOver, ledger
<1> DEFINE tx == buildCancelOrder(r, utxo[r])
<1>2. job' = [Idle EXCEPT !.stage = "built", !.tx = tx, !.summary = None]
  BY <1>1 DEF AskCancel, Answer
<1>3. job' = [stage |-> "built", legs |-> << >>, next |-> 1, found |-> << >>,
              tx |-> tx, summary |-> None]
  BY <1>2 DEF Idle
<1>4. Seen(utxo', txids', r, utxo[r])
  BY <1>1, OnChainSeen DEF BuilderInv
<1> HIDE DEF tx
<1>5. Cancelled(job', utxo', txids')
  BY <1>3, <1>4 DEF Cancelled, tx
<1>6. QED
  BY <1>3, <1>5 DEF JobOver

LEMMA AskTakeKept ==
  ASSUME NEW legs, AskTake(legs)
  PROVE  JobOver(job', utxo', txids')
<1>1. legs \in Seq(Legs) /\ Len(legs) \in 1..MaxOrdersPerTx
      /\ IsInjective([i \in DOMAIN legs |-> legs[i].ref])
  BY DEF AskTake, Legs
<1>2. Batch(legs)
  <2> DEFINE f == [i \in DOMAIN legs |-> legs[i].ref]
  <2>1. \A i, j \in DOMAIN legs : f[i] = f[j] => i = j
    <3>1. IsInjective(f) /\ DOMAIN f = DOMAIN legs
      BY <1>1
    <3> HIDE DEF f
    <3>2. QED
      BY <3>1 DEF IsInjective
  <2>2. QED
    BY <1>1, <2>1 DEF Batch
<1>3. legs # << >>
  BY <1>1
<1>4. job' = [stage |-> "resolving", legs |-> legs, next |-> 1, found |-> << >>,
              tx |-> None, summary |-> None]
  BY DEF AskTake, Idle
<1>5. \A i \in DOMAIN legs : ~(i < 1)
  BY <1>1
<1>6. Resolving(job', utxo', txids')
  BY <1>2, <1>3, <1>4, <1>5 DEF Resolving
<1>7. QED
  BY <1>4, <1>6 DEF JobOver

LEMMA ResolveKept ==
  ASSUME BuilderInv, Resolve
  PROVE  JobOver(job', utxo', txids')
<1> DEFINE r == job.legs[job.next].ref
           more == [q \in DOMAIN job.found \cup {r} |-> IF q = r THEN utxo[r] ELSE job.found[q]]
<1>1. /\ job.stage = "resolving" /\ Resolving(job, utxo, txids)
      /\ job = [stage |-> job.stage, legs |-> job.legs, next |-> job.next, found |-> job.found,
                tx |-> job.tx, summary |-> job.summary]
      /\ utxo' = utxo /\ txids' = txids /\ Chain
      /\ job.next <= Len(job.legs)
  BY DEF Resolve, BuilderInv, JobOver, ledger
<1>2. CASE ~(r \in DOMAIN utxo /\ resolves(utxo[r]))
  BY <1>2, IdleJob DEF Resolve, Refuse
<1>3. CASE r \in DOMAIN utxo /\ resolves(utxo[r])
  <2>1. job' = [job EXCEPT !.next = @ + 1, !.found = more]
    BY <1>3 DEF Resolve
  <2>2. job' = [stage |-> "resolving", legs |-> job.legs, next |-> job.next + 1, found |-> more,
                tx |-> job.tx, summary |-> job.summary]
    <3> HIDE DEF more
    <3>1. QED
      BY <1>1, <2>1
  <2>3. /\ Batch(job.legs) /\ job.legs # << >> /\ job.next \in Nat
        /\ \A i \in DOMAIN job.legs : i < job.next =>
             job.legs[i].ref \in DOMAIN job.found /\ SeenLeg(job, utxo, txids, i)
    BY <1>1 DEF Resolving
  <2>4. /\ job'.stage = "resolving" /\ job'.legs = job.legs /\ job'.next = job.next + 1
        /\ job'.found = more
    <3> HIDE DEF more
    <3>1. QED
      BY <2>2
  <2>5. ASSUME NEW i \in DOMAIN job.legs, i < job.next + 1
        PROVE  job.legs[i].ref \in DOMAIN more /\ SeenLeg(job', utxo', txids', i)
    <3> DEFINE q == job.legs[i].ref
    <3>1. i \in Nat
      BY <2>3 DEF Batch
    <3>2. CASE q = r
      <4>1. more[q] = utxo[r] /\ q \in DOMAIN more
        BY <3>2
      <4>2. Seen(utxo, txids, r, utxo[r])
        BY <1>1, <1>3, OnChainSeen
      <4>3. Seen(utxo', txids', q, more[q])
        BY <1>1, <3>2, <4>1, <4>2
      <4> HIDE DEF more, r
      <4>4. QED
        BY <2>4, <4>1, <4>3 DEF SeenLeg
    <3>3. CASE q # r
      <4>1. i < job.next
        <5>1. i # job.next
          BY <3>3
        <5>2. QED
          BY <2>3, <2>5, <3>1, <5>1
      <4>2. q \in DOMAIN job.found /\ Seen(utxo, txids, q, job.found[q])
        BY <2>3, <4>1 DEF SeenLeg
      <4>3. q \in DOMAIN more /\ more[q] = job.found[q]
        BY <3>3, <4>2
      <4>4. Seen(utxo', txids', q, more[q])
        BY <1>1, <4>2, <4>3
      <4> HIDE DEF more, r
      <4>5. QED
        BY <2>4, <4>3, <4>4 DEF SeenLeg
    <3>4. QED
      BY <3>2, <3>3
  <2>6. Resolving(job', utxo', txids')
    <3>1. job.next + 1 \in Nat
      BY <2>3
    <3> HIDE DEF more
    <3>2. QED
      BY <2>3, <2>4, <2>5, <3>1 DEF Resolving
  <2> HIDE DEF more
  <2>7. job' = [stage |-> job'.stage, legs |-> job'.legs, next |-> job'.next,
                found |-> job'.found, tx |-> job'.tx, summary |-> job'.summary]
    BY <2>2
  <2>8. QED
    BY <2>4, <2>6, <2>7 DEF JobOver
<1>4. QED
  BY <1>2, <1>3

LEMMA BuildTakeKept ==
  ASSUME BuilderInv, BuildTake
  PROVE  JobOver(job', utxo', txids')
<1> DEFINE ok == \A i \in DOMAIN job.legs : leg_ok(job.legs[i], job.found[job.legs[i].ref])
           tx == buildTakeManyOrders(job.legs, job.found)
           sm == summarise(sorted(job.legs), job.found)
<1>1. /\ job.stage = "resolving" /\ Resolving(job, utxo, txids)
      /\ job = [stage |-> job.stage, legs |-> job.legs, next |-> job.next, found |-> job.found,
                tx |-> job.tx, summary |-> job.summary]
      /\ utxo' = utxo /\ txids' = txids
      /\ job.next > Len(job.legs)
  BY DEF BuildTake, BuilderInv, JobOver, ledger
<1>2. CASE ~ok
  BY <1>2, IdleJob DEF BuildTake, Refuse
<1>3. CASE ok
  <2>1. job' = [job EXCEPT !.stage = "built", !.tx = tx, !.summary = sm]
    BY <1>3 DEF BuildTake, Answer
  <2> HIDE DEF tx, sm
  <2>2. job' = [stage |-> "built", legs |-> job.legs, next |-> job.next, found |-> job.found,
                tx |-> tx, summary |-> sm]
    BY <1>1, <2>1
  <2>3. /\ Batch(job.legs) /\ job.legs # << >> /\ job.next \in Nat
        /\ \A i \in DOMAIN job.legs : i < job.next => SeenLeg(job, utxo, txids, i)
    BY <1>1 DEF Resolving
  <2>4. job.legs \in Seq(Legs) /\ DOMAIN job.legs = 1..Len(job.legs) /\ Len(job.legs) \in Nat
        /\ \A i \in DOMAIN job.legs : job.legs[i] \in Legs
    BY <2>3 DEF Batch
  <2>5. \A i \in DOMAIN job.legs : i < job.next
    BY <1>1, <2>3, <2>4
  <2>6. ASSUME NEW i \in DOMAIN job.legs
        PROVE  /\ SeenLeg(job', utxo', txids', i)
               /\ Sound(job.legs[i], job.found[job.legs[i].ref])
    <3> DEFINE q == job.legs[i].ref
    <3>1. SeenLeg(job, utxo, txids, i)
      BY <2>3, <2>5
    <3>2. Seen(utxo, txids, q, job.found[q])
      BY <3>1 DEF SeenLeg
    <3>3. SeenLeg(job', utxo', txids', i)
      BY <1>1, <2>2, <3>2 DEF SeenLeg
    <3>4. leg_ok(job.legs[i], job.found[q])
      BY <1>3
    <3>5. QED
      BY <2>4, <3>2, <3>3, <3>4 DEF Seen, leg_ok, Sound
  <2>7. Taken(job', utxo', txids')
    BY <2>2, <2>3, <2>6 DEF Taken, tx, sm
  <2>8. QED
    BY <2>2, <2>7 DEF JobOver
<1>4. QED
  BY <1>2, <1>3

(* The answer to a take request, in terms of the batch in order.           *)
LEMMA TakenBatch ==
  ASSUME Taken(job, utxo, txids)
  PROVE  LET s == sorted(job.legs) IN
         /\ InOrder(s, job.found) /\ job.tx = TakeOf(s, job.found)
         /\ job.tx.upper_bound = deadline(s, job.found)
         /\ OrderInputs(job.tx) \subseteq DOMAIN utxo => Unspent(s, job.found)
<1> DEFINE legs == job.legs
           found == job.found
           s == sorted(legs)
<1>1. /\ Batch(legs) /\ job.tx = buildTakeManyOrders(legs, found)
      /\ \A i \in DOMAIN legs : Seen(utxo, txids, legs[i].ref, found[legs[i].ref])
                                /\ Sound(legs[i], found[legs[i].ref])
  BY DEF Taken, SeenLeg
<1>2. /\ InOrder(s, found) /\ buildTakeManyOrders(legs, found) = TakeOf(s, found)
      /\ {s[i].ref : i \in DOMAIN s} = {legs[i].ref : i \in DOMAIN legs}
      /\ Unspent(legs, found) => Unspent(s, found)
  BY <1>1, RequestInOrder
<1>3. OrderInputs(TakeOf(s, found)) = {s[i].ref : i \in DOMAIN s}
  BY <1>2, InputsOfTake
<1>4. ASSUME OrderInputs(job.tx) \subseteq DOMAIN utxo PROVE Unspent(legs, found)
  <2>1. \A i \in DOMAIN legs : legs[i].ref \in DOMAIN utxo
    BY <1>1, <1>2, <1>3, <1>4
  <2>2. QED
    BY <1>1, <2>1 DEF Seen, Unspent
<1>5. job.tx.upper_bound = deadline(s, found)
  BY <1>1, <1>2 DEF TakeOf
<1>6. QED
  BY <1>1, <1>2, <1>4, <1>5

LEMMA JobTyped ==
  ASSUME BuilderInv, job.stage = "built"
  PROVE  TypedTransaction(job.tx)
<1>1. Created(job) \/ Cancelled(job, utxo, txids) \/ Taken(job, utxo, txids)
  BY DEF BuilderInv, JobOver
<1>2. CASE Created(job)
  BY <1>2, CreateAccepted DEF Created
<1>3. CASE Cancelled(job, utxo, txids)
  <2>1. PICK r, o : Seen(utxo, txids, r, o) /\ job.tx = buildCancelOrder(r, o)
    BY <1>3 DEF Cancelled
  <2>2. txids \subseteq Nat
    BY TxIdsAssumption DEF BuilderInv, Chain, TypeOK
  <2>3. r \in Refs /\ o \in Outputs /\ WellFormedOrder(o)
    BY <2>1, <2>2 DEF Seen, Refs
  <2>4. QED
    BY <2>1, <2>3, CancelTyped
<1>4. CASE Taken(job, utxo, txids)
  BY <1>4, TakenBatch, TakeTyped
<1>5. QED
  BY <1>1, <1>2, <1>3, <1>4

LEMMA BuilderInitially == BuilderInit => BuilderInv
  BY InitChain, IdleJob DEF BuilderInit, BuilderInv

LEMMA BuilderKept == BuilderInv /\ [BuilderNext]_<<ledger, job>> => BuilderInv' \/ mixed'
<1> SUFFICES ASSUME BuilderInv, [BuilderNext]_<<ledger, job>>, ~mixed' PROVE BuilderInv'
  OBVIOUS
<1>1. Chain /\ JobOver(job, utxo, txids)
  BY DEF BuilderInv
<1>2. ASSUME UNCHANGED ledger PROVE Chain'
  <2>1. UNCHANGED vars
    BY <1>2 DEF ledger, vars
  <2>2. QED
    BY <1>1, <2>1, NextChain
<1>3. ASSUME UNCHANGED ledger PROVE utxo' = utxo /\ txids' = txids
  BY <1>3 DEF ledger
<1>4. CASE UNCHANGED <<ledger, job>>
  <2>1. Chain' /\ utxo' = utxo /\ txids' = txids /\ job' = job
    BY <1>2, <1>3, <1>4
  <2>2. JobOver(job', utxo', txids')
    BY <1>1, <2>1
  <2>3. QED
    BY <2>1, <2>2 DEF BuilderInv
<1>5. CASE Tick /\ UNCHANGED job
  <2>1. Chain'
    BY <1>1, <1>5, NextChain DEF Next
  <2>2. utxo' = utxo /\ txids' = txids /\ job' = job
    BY <1>5 DEF Tick
  <2>3. JobOver(job', utxo', txids')
    BY <1>1, <2>2
  <2>4. QED
    BY <2>1, <2>3 DEF BuilderInv
<1>6. ASSUME NEW p \in CreateRequests, AskCreate(p) PROVE BuilderInv'
  <2>1. Chain'
    BY <1>2, <1>6 DEF AskCreate
  <2>2. QED
    BY <1>6, <2>1, AskCreateKept DEF BuilderInv
<1>7. ASSUME NEW r \in DOMAIN utxo, AskCancel(r) PROVE BuilderInv'
  <2>1. Chain'
    BY <1>2, <1>7 DEF AskCancel
  <2>2. QED
    BY <1>7, <2>1, AskCancelKept DEF BuilderInv
<1>8. ASSUME NEW legs, AskTake(legs) PROVE BuilderInv'
  <2>1. Chain'
    BY <1>2, <1>8 DEF AskTake
  <2>2. QED
    BY <1>8, <2>1, AskTakeKept DEF BuilderInv
<1>9. CASE Resolve
  <2>1. Chain'
    BY <1>2, <1>9 DEF Resolve
  <2>2. QED
    BY <1>9, <2>1, ResolveKept DEF BuilderInv
<1>10. CASE BuildTake
  <2>1. Chain'
    BY <1>2, <1>10 DEF BuildTake
  <2>2. QED
    BY <1>10, <2>1, BuildTakeKept DEF BuilderInv
<1>11. CASE GiveUp
  <2>1. Chain' /\ job' = Idle
    BY <1>2, <1>11 DEF GiveUp, Refuse
  <2>2. QED
    BY <2>1, IdleJob DEF BuilderInv
<1>12. ASSUME NEW id \in TxIds \ txids, SubmitBuilt(id) PROVE BuilderInv'
  <2>1. job.stage = "built" /\ Accepted(job.tx) /\ Submit(job.tx, id) /\ job' = Idle
    BY <1>12 DEF SubmitBuilt, Servable
  <2>2. TypedTransaction(job.tx)
    BY <2>1, JobTyped
  <2>3. Chain'
    BY <1>1, <2>1, <2>2, SubmitChain DEF Submit
  <2>4. QED
    BY <2>1, <2>3, IdleJob DEF BuilderInv
<1>13. ASSUME NEW id \in TxIds \ txids, NEW tx \in Offered(utxo), Foreign(tx, id)
       PROVE  BuilderInv'
  <2>1. TypedTransaction(tx) /\ Accepted(tx) /\ Submit(tx, id) /\ job' = job
    BY <1>13 DEF Foreign
  <2>2. Chain'
    BY <1>1, <2>1, SubmitChain DEF Submit
  <2>3. JobOver(job, utxo', txids')
    BY <1>1, <2>1, JobAfter
  <2>4. JobOver(job', utxo', txids')
    BY <2>1, <2>3
  <2>5. QED
    BY <2>2, <2>4 DEF BuilderInv
<1>14. QED
  BY <1>4, <1>5, <1>6, <1>7, <1>8, <1>9, <1>10, <1>11, <1>12, <1>13 DEF BuilderNext

LEMMA BuilderMixedStays == mixed /\ [BuilderNext]_<<ledger, job>> => mixed'
<1> SUFFICES ASSUME mixed, [BuilderNext]_<<ledger, job>> PROVE mixed'
  OBVIOUS
<1>1. CASE Tick
  BY <1>1 DEF Tick
<1>2. ASSUME NEW tx, NEW id, Submit(tx, id) PROVE mixed'
  BY <1>2 DEF Submit
<1>3. CASE UNCHANGED ledger
  BY <1>3 DEF ledger
<1>4. QED
  BY <1>1, <1>2, <1>3
     DEF BuilderNext, AskCreate, AskCancel, AskTake, Resolve, BuildTake, GiveUp, SubmitBuilt, Foreign

LEMMA BuilderOrMixed == BuilderSpec => [](BuilderInv \/ mixed)
<1>1. BuilderInit => BuilderInv \/ mixed
  BY BuilderInitially
<1>2. (BuilderInv \/ mixed) /\ [BuilderNext]_<<ledger, job>> => (BuilderInv \/ mixed)'
  BY BuilderKept, BuilderMixedStays
<1>3. QED
  BY <1>1, <1>2, PTL DEF BuilderSpec

(* The answer is refused only when it is stale.                            *)
AnswerFresh ==
  /\ job.stage = "built"
  /\ OrderInputs(job.tx) \subseteq DOMAIN utxo
  /\ job.tx.upper_bound # None => clock < job.tx.upper_bound

LEMMA BuiltAccepted ==
  ASSUME BuilderInv, AnswerFresh
  PROVE  Accepted(job.tx)
<1>1. Chain /\ (Created(job) \/ Cancelled(job, utxo, txids) \/ Taken(job, utxo, txids))
  BY DEF BuilderInv, JobOver, AnswerFresh
<1>2. CASE Created(job)
  BY <1>2, CreateAccepted DEF Created
<1>3. CASE Cancelled(job, utxo, txids)
  <2>1. PICK r, o : Seen(utxo, txids, r, o) /\ job.tx = buildCancelOrder(r, o)
    BY <1>3 DEF Cancelled
  <2>2. OrderInputs(job.tx) = {r}
    <3>1. job.tx.imitations = << >> /\ Inputs(job.tx) = {r}
      BY <2>1 DEF Inputs, buildCancelOrder
    <3>2. QED
      BY <3>1, OrdersOnly
  <2>3. r \in DOMAIN utxo /\ utxo[r] = o
    BY <2>1, <2>2 DEF AnswerFresh, Seen
  <2>4. QED
    BY <1>1, <2>1, <2>3, CancelServed
<1>4. CASE Taken(job, utxo, txids)
  <2> DEFINE s == sorted(job.legs)
  <2>1. /\ InOrder(s, job.found) /\ job.tx = TakeOf(s, job.found)
        /\ job.tx.upper_bound = deadline(s, job.found) /\ Unspent(s, job.found)
    BY <1>4, TakenBatch DEF AnswerFresh
  <2> HIDE DEF s
  <2>2. deadline(s, job.found) # None => clock < deadline(s, job.found)
    BY <2>1 DEF AnswerFresh
  <2>3. QED
    BY <1>1, <2>1, <2>2, TakeAccepted
<1>5. QED
  BY <1>1, <1>2, <1>3, <1>4

(* Whatever transactions others try and whatever the ids sort like, the    *)
(* ledger and the scripts accept what the backend built - an order, a      *)
(* cancel, a batch of full and partial legs that was resolved one await    *)
(* after the other - for as long as the orders it names are there and its  *)
(* validity interval is open, on a chain that is not mixed.                *)
THEOREM OnlyStaleOrdersRefused ==
  BuilderSpec => [](~mixed /\ AnswerFresh => Accepted(job.tx))
<1>1. BuilderInv \/ mixed => (~mixed /\ AnswerFresh => Accepted(job.tx))
  BY BuiltAccepted
<1>2. QED
  BY BuilderOrMixed, <1>1, PTL

----------------------------------------------------------------------------
(***************************************************************************)
(* The minting policy reads neither the stake part of the payment address  *)
(* nor the lovelace of the deposit, so an order of someone else may have   *)
(* an address this backend does not decode, or a deposit below the floor   *)
(* of the output that must return it.  What is said of such orders is      *)
(* said where others place theirs as this backend does.                    *)
(***************************************************************************)
OthersPlaceAlike ==
  \A tx \in Offered(utxo) :
    tx.mint_redeemer = "MintBeacons" =>
      \A i \in beacon_bearing_outputs(tx, BeaconPolicy) : Serviceable(tx.outputs[i])

AllServiceable == \A r \in DOMAIN utxo : Serviceable(utxo[r])

(* A continuation is serviceable if the order it continues is.             *)
LEMMA SubmitServiceable ==
  ASSUME Chain, AllServiceable, NEW tx, TypedTransaction(tx), Accepted(tx), ~Mixed(tx),
         NEW id \in TxIds, Submit(tx, id),
         tx.mint_redeemer = "MintBeacons" =>
           \A i \in beacon_bearing_outputs(tx, BeaconPolicy) : Serviceable(tx.outputs[i])
  PROVE  AllServiceable'
<1> DEFINE kept == DOMAIN utxo \ OrderInputs(tx)
           new  == NewRefs(tx, id)
           B    == beacon_bearing_outputs(tx, BeaconPolicy)
<1>1. utxo' = [r \in kept \cup new |-> IF r \in new THEN tx.outputs[r[2]] ELSE utxo[r]]
  BY DEF Submit
<1>2. \A r \in new : r[2] \in B
  BY DEF NewRefs
<1>3. ASSUME NEW i \in B PROVE Serviceable(tx.outputs[i])
  <2>1. CASE Parents(tx, i) = {}
    BY <2>1, OthersMinted
  <2>2. CASE Parents(tx, i) # {}
    <3> DEFINE c == tx.outputs[i]
    <3>1. PICK r \in Parents(tx, i) : TRUE
      BY <2>2
    <3> DEFINE o == utxo[r]
               t == tx.spends[r].take_amount
    <3>2. /\ r \in DOMAIN utxo /\ o \in Outputs /\ WellFormedOrder(o)
          /\ t \in Int /\ t > 0 /\ t < o.datum.offer_amount
          /\ required_payment(t, o.datum.ask_amount, o.datum.offer_amount) < o.datum.ask_amount
          /\ c.address = o.address
          /\ c.value = continuation_value(o.datum, o.value, t)
          /\ c.datum = continuation_datum(o.datum, t)
      BY <3>1, ParentOf
    <3>3. c \in Outputs
      BY BearingOutputs
    <3> HIDE DEF c, o, t
    <3>4. deposit(c.datum, c.value) = deposit(o.datum, o.value)
      BY <3>2, <3>3, ContinuationWellFormed
    <3>5. c.datum.payment_address = o.datum.payment_address
      <4>1. o.datum \in OrderDatums
        BY <3>2 DEF WellFormedOrder
      <4>2. QED
        BY <3>2, <4>1 DEF continuation_datum, OrderDatums
    <3>6. Serviceable(o)
      BY <3>2 DEF AllServiceable, o
    <3>7. Serviceable(c)
      BY <3>4, <3>5, <3>6 DEF Serviceable
    <3>8. QED
      BY <3>7 DEF c
  <2>3. QED
    BY <2>1, <2>2
<1> HIDE DEF new, kept, B
<1>4. ASSUME NEW r \in DOMAIN utxo' PROVE Serviceable(utxo'[r])
  <2>1. CASE r \in new
    BY <1>1, <1>2, <1>3, <2>1
  <2>2. CASE r \notin new
    <3>1. r \in DOMAIN utxo /\ utxo'[r] = utxo[r]
      BY <1>1, <2>2 DEF kept
    <3>2. QED
      BY <3>1 DEF AllServiceable
  <2>3. QED
    BY <2>1, <2>2
<1>5. QED
  BY <1>4 DEF AllServiceable

(* The backend's own orders are.                                           *)
LEMMA BuiltServiceable ==
  ASSUME BuilderInv, job.stage = "built", job.tx.mint_redeemer = "MintBeacons",
         NEW i \in beacon_bearing_outputs(job.tx, BeaconPolicy)
  PROVE  Serviceable(job.tx.outputs[i])
<1>1. Created(job) \/ Cancelled(job, utxo, txids) \/ Taken(job, utxo, txids)
  BY DEF BuilderInv, JobOver
<1>2. ~Cancelled(job, utxo, txids)
  <2>1. \A r, o : buildCancelOrder(r, o).mint_redeemer = "BurnBeacons"
    BY DEF buildCancelOrder
  <2>2. QED
    BY <2>1 DEF Cancelled
<1>3. ~Taken(job, utxo, txids)
  <2>1. \A legs, found : buildTakeManyOrders(legs, found).mint_redeemer = "BurnBeacons"
    BY DEF buildTakeManyOrders
  <2>2. QED
    BY <2>1 DEF Taken
<1>4. PICK p : Placeable(p) /\ job.tx = buildCreateOrder(p)
  BY <1>1, <1>2, <1>3 DEF Created
<1>5. job.tx.outputs[i] = created_output(p)
  BY <1>4, CreateAccepted DEF beacon_bearing_outputs
<1>6. QED
  BY <1>4, <1>5, CreatedOrder

Served == BuilderInv /\ AllServiceable

LEMMA ServedInitially == BuilderInit => Served
<1> SUFFICES ASSUME BuilderInit PROVE Served
  OBVIOUS
<1>1. DOMAIN utxo = {}
  BY DEF BuilderInit, Init
<1>2. QED
  BY <1>1, BuilderInitially DEF Served, AllServiceable

LEMMA ServedKept ==
  Served /\ OthersPlaceAlike /\ [BuilderNext]_<<ledger, job>> => Served' \/ mixed'
<1> SUFFICES ASSUME Served, OthersPlaceAlike, [BuilderNext]_<<ledger, job>>, ~mixed'
             PROVE  AllServiceable'
  BY BuilderKept DEF Served
<1>1. BuilderInv /\ Chain /\ AllServiceable
  BY DEF Served, BuilderInv
<1>2. ASSUME utxo' = utxo PROVE AllServiceable'
  BY <1>1, <1>2 DEF AllServiceable
<1>3. ASSUME NEW id \in TxIds \ txids, SubmitBuilt(id) PROVE AllServiceable'
  <2>1. job.stage = "built" /\ Accepted(job.tx) /\ Submit(job.tx, id)
    BY <1>3 DEF SubmitBuilt, Servable
  <2>2. TypedTransaction(job.tx)
    BY <1>1, <2>1, JobTyped
  <2>3. job.tx.mint_redeemer = "MintBeacons" =>
          \A i \in beacon_bearing_outputs(job.tx, BeaconPolicy) : Serviceable(job.tx.outputs[i])
    BY <1>1, <2>1, BuiltServiceable
  <2>4. QED
    BY <1>1, <2>1, <2>2, <2>3, SubmitServiceable DEF Submit
<1>4. ASSUME NEW id \in TxIds \ txids, NEW tx \in Offered(utxo), Foreign(tx, id)
      PROVE  AllServiceable'
  <2>1. TypedTransaction(tx) /\ Accepted(tx) /\ Submit(tx, id)
    BY <1>4 DEF Foreign
  <2>2. tx.mint_redeemer = "MintBeacons" =>
          \A i \in beacon_bearing_outputs(tx, BeaconPolicy) : Serviceable(tx.outputs[i])
    BY DEF OthersPlaceAlike
  <2>3. QED
    BY <1>1, <2>1, <2>2, SubmitServiceable DEF Submit
<1>5. CASE \/ Tick \/ UNCHANGED <<ledger, job>>
           \/ \E p \in CreateRequests : AskCreate(p)
           \/ \E r \in DOMAIN utxo : AskCancel(r)
           \/ \E legs \in TakeRequests(utxo) : AskTake(legs)
           \/ Resolve \/ BuildTake \/ GiveUp
  BY <1>2, <1>5 DEF Tick, ledger, AskCreate, AskCancel, AskTake, Resolve, BuildTake, GiveUp
<1>6. QED
  BY <1>3, <1>4, <1>5 DEF BuilderNext

LEMMA ServedOrMixed == BuilderSpec /\ []OthersPlaceAlike => [](Served \/ mixed)
<1>1. BuilderInit => Served \/ mixed
  BY ServedInitially
<1>2. (Served \/ mixed) /\ OthersPlaceAlike /\ [BuilderNext]_<<ledger, job>>
        => (Served \/ mixed)'
  BY ServedKept, BuilderMixedStays
<1>3. QED
  BY <1>1, <1>2, PTL DEF BuilderSpec

(* The deposits returned by a batch that names orders on the chain.        *)
LEMMA FreshServable ==
  ASSUME Served, AnswerFresh
  PROVE  Servable(job.tx)
<1>1. BuilderInv /\ Chain /\ (Created(job) \/ Cancelled(job, utxo, txids) \/ Taken(job, utxo, txids))
  BY DEF Served, BuilderInv, JobOver, AnswerFresh
<1>2. Accepted(job.tx)
  BY <1>1, BuiltAccepted
<1>3. CASE Created(job)
  <2>1. MinAdaMet(job.tx)
    BY <1>3, CreateAccepted DEF Created
  <2>2. QED
    BY <1>2, <2>1 DEF Servable
<1>4. CASE Cancelled(job, utxo, txids)
  <2>1. job.tx.outputs = << >>
    BY <1>4 DEF Cancelled, buildCancelOrder
  <2>2. DOMAIN job.tx.outputs = {}
    BY <2>1
  <2>3. QED
    BY <1>2, <2>2 DEF Servable, MinAdaMet
<1>5. CASE Taken(job, utxo, txids)
  <2> DEFINE s == sorted(job.legs)
  <2>1. InOrder(s, job.found) /\ job.tx = TakeOf(s, job.found) /\ Unspent(s, job.found)
    BY <1>5, TakenBatch DEF AnswerFresh
  <2> HIDE DEF s
  <2>2. \A i \in DOMAIN s :
          LET o == job.found[s[i].ref] IN deposit(o.datum, o.value) >= MinAda
    BY <2>1 DEF Served, AllServiceable, Serviceable, Unspent
  <2>3. MinAdaMet(job.tx)
    BY <2>1, <2>2, TakeMeetsMinAda
  <2>4. QED
    BY <1>2, <2>3 DEF Servable
<1>6. QED
  BY <1>1, <1>3, <1>4, <1>5

(* And where others place their orders as this backend does, every output  *)
(* of it holds the ledger's minimum too: only what is stale is refused, on  *)
(* a chain that is not mixed.                                              *)
THEOREM BuiltRefusedOnlyWhenStale == BuilderSpec /\ []OthersPlaceAlike => []OnlyStaleRefused
<1>1. Served \/ mixed => OnlyStaleRefused
  BY FreshServable DEF OnlyStaleRefused, AnswerFresh
<1>2. QED
  BY ServedOrMixed, <1>1, PTL

----------------------------------------------------------------------------
(* A leg by itself is in order.                                            *)
LEMMA SingleBatch ==
  ASSUME NEW leg \in Legs
  PROVE  Batch(<<leg>>) /\ sorted(<<leg>>) = <<leg>>
<1> DEFINE legs == <<leg>>
           s    == sorted(legs)
<1>1. legs \in Seq(Legs) /\ DOMAIN legs = {1} /\ Len(legs) = 1 /\ legs[1] = leg
  OBVIOUS
<1> HIDE DEF legs
<1>2. Batch(legs)
  BY <1>1 DEF Batch
<1>3. s \in Seq(Legs) /\ DOMAIN s = {1} /\ Len(s) = 1
  BY <1>1, <1>2, SortedLegs
<1>4. s[1] = leg
  <2>1. \E p \in [{1} -> {1}] : \A n \in {1} : s[n] = legs[p[n]]
    BY <1>1, <1>2, SortedLegs
  <2>2. QED
    BY <1>1, <2>1
<1> HIDE DEF s
<1>5. s = <<leg>>
  BY <1>3, <1>4
<1>6. QED
  BY <1>2, <1>5 DEF legs, s

(* decodeOrderDatum, resolveOrder and validateAndMap know every order.     *)
LEMMA OrderRecognised ==
  ASSUME NEW o \in Outputs, WellFormedOrder(o), Serviceable(o)
  PROVE  validateAndMap_ok(o)
<1> DEFINE d == o.datum
<1>1. /\ d \in OrderDatums /\ d.owner \in Keys /\ d.version = 1
      /\ o.address = [payment |-> Script, stake |-> d.owner]
      /\ d.beacon_policy_id = BeaconPolicy /\ d.payment_address.payment \in Keys
      /\ d.offer_amount > 0 /\ d.ask_amount > 0
      /\ offer_covered(o) /\ o.value = expected_value(d, o.value[ADA])
  BY DEF WellFormedOrder
<1>2. d.payment_address.stake # Script
  BY DEF Serviceable
<1>3. d.offer \in Units /\ d.offer \notin beacon_set(d) /\ beacon_set(d) \subseteq BeaconNames
      /\ d.offer_amount \in Nat
  BY OrderUnits DEF Units, OrderDatums
<1>4. \A u \in beacon_set(d) : o.value[u] = 1
  BY <1>3, OneOfEach
<1>5. o.value[d.offer] >= d.offer_amount
  <2>1. CASE d.offer = ADA
    BY <1>1, <2>1 DEF offer_covered, is_ada
  <2>2. CASE d.offer # ADA
    <3>1. o.value[d.offer] = d.offer_amount
      BY <1>1, <1>3, <2>2 DEF expected_value
    <3>2. QED
      BY <1>3, <3>1
  <2>3. QED
    BY <2>1, <2>2
<1>6. QED
  BY <1>1, <1>2, <1>4, <1>5 DEF validateAndMap_ok, resolves, decodes, holds_beacons

(* The full take of one order.                                             *)
LEMMA SingleTakeServed ==
  ASSUME Served, NEW r \in DOMAIN utxo
  PROVE  LET o     == utxo[r]
             legs  == <<[ref |-> r, take |-> None]>>
             found == [q \in {r} |-> o]
             last  == deadline(legs, found)
         IN  last = None \/ clock < last => Servable(buildTakeManyOrders(legs, found))
<1> DEFINE o     == utxo[r]
           leg   == [ref |-> r, take |-> None]
           legs  == <<leg>>
           found == [q \in {r} |-> o]
<1>1. /\ Chain /\ r \in Refs /\ o \in Outputs /\ WellFormedOrder(o) /\ Serviceable(o)
  BY TxIdsAssumption DEF Served, AllServiceable, BuilderInv, Chain, TypeOK, BeaconsNeverLeak, Refs
<1>2. leg \in Legs /\ leg.ref = r /\ ~partial(leg)
  BY <1>1 DEF Legs, partial
<1>3. found[r] = o
  OBVIOUS
<1> HIDE DEF leg, found, o
<1>4. Batch(legs) /\ sorted(legs) = legs
  BY <1>2, SingleBatch
<1>5. DOMAIN legs = {1} /\ legs[1] = leg
  OBVIOUS
<1> HIDE DEF legs
<1>6. \A i \in DOMAIN legs : Sound(legs[i], found[legs[i].ref])
  BY <1>1, <1>2, <1>3, <1>5 DEF Sound
<1>7. Unspent(legs, found)
  BY <1>2, <1>3, <1>5 DEF Unspent, o
<1>8. InOrder(legs, found) /\ buildTakeManyOrders(legs, found) = TakeOf(legs, found)
  <2>1. /\ InOrder(sorted(legs), found)
        /\ buildTakeManyOrders(legs, found) = TakeOf(sorted(legs), found)
    BY <1>4, <1>6, RequestInOrder
  <2>2. QED
    BY <1>4, <2>1
<1>9. MinAdaMet(TakeOf(legs, found))
  <2>1. \A i \in DOMAIN legs : LET x == found[legs[i].ref] IN deposit(x.datum, x.value) >= MinAda
    BY <1>1, <1>2, <1>3, <1>5 DEF Serviceable
  <2>2. QED
    BY <1>8, <2>1, TakeMeetsMinAda
<1>10. ASSUME deadline(legs, found) = None \/ clock < deadline(legs, found)
       PROVE  Servable(TakeOf(legs, found))
  <2>1. Accepted(TakeOf(legs, found))
    BY <1>1, <1>7, <1>8, <1>10, TakeAccepted
  <2>2. QED
    BY <1>9, <2>1 DEF Servable
<1>11. deadline(legs, found) = None \/ clock < deadline(legs, found) =>
         Servable(buildTakeManyOrders(legs, found))
  BY <1>8, <1>10
<1>12. QED
  BY <1>11 DEF legs, leg, found, o

(* There every order on the chain is recognised off-chain, its owner gets  *)
(* a cancel transaction that is accepted, and until the slot of its        *)
(* expiration everyone gets a take transaction that is.  (No transaction of *)
(* others is mixed.)                                                       *)
THEOREM BookAlwaysServed == BuilderSpec /\ []OthersPlaceAlike => []BookServed
<1>1. Served \/ mixed => BookServed
  <2> SUFFICES ASSUME Served PROVE BookServed
    BY DEF BookServed
  <2>1. Chain /\ AllServiceable
    BY DEF Served, BuilderInv
  <2>2. \A r \in DOMAIN utxo : validateAndMap_ok(utxo[r])
    BY <2>1, OrderRecognised DEF Chain, TypeOK, BeaconsNeverLeak, AllServiceable
  <2>3. \A r \in DOMAIN utxo : Servable(buildCancelOrder(r, utxo[r]))
    BY <2>1, CancelServed DEF Servable
  <2>4. QED
    BY <2>2, <2>3, SingleTakeServed DEF BookServed
<1>2. QED
  BY ServedOrMixed, <1>1, PTL

----------------------------------------------------------------------------
(***************************************************************************)
(* What the taker is told of a leg.                                        *)
(***************************************************************************)
Kept(leg, o, a) == IF partial(leg) THEN continuation(leg, o).value[a] ELSE 0

LEMMA NetTyped ==
  ASSUME NEW leg, NEW o, Sound(leg, o), NEW a \in Assets
  PROVE  /\ o.value[a] \in Nat /\ payment(leg, o).value[a] \in Nat /\ Kept(leg, o, a) \in Nat
         /\ net(leg, o, a) = o.value[a] - payment(leg, o).value[a] - Kept(leg, o, a)
<1>1. a \in Units
  BY DEF Units
<1>2. o.value[a] \in Nat
  BY <1>1, Amounts DEF Values
<1>3. payment(leg, o).value[a] \in Nat
  <2>1. payment(leg, o) \in Outputs
    BY PaymentOf
  <2>2. QED
    BY <1>1, <2>1 DEF Outputs, Values
<1>4. partial(leg) => continuation(leg, o).value[a] \in Nat
  <2>1. partial(leg) => continuation(leg, o) \in Outputs
    BY ContinuationOf
  <2>2. QED
    BY <1>1, <2>1 DEF Outputs, Values
<1>5. QED
  BY <1>2, <1>3, <1>4 DEF net, Kept

LEMMA NetOf ==
  ASSUME NEW leg, NEW o, Sound(leg, o), NEW a \in Assets
  PROVE  LET d == o.datum IN
         /\ received(leg, d) \in Nat /\ paid(leg, d) \in Nat /\ Gift(leg, d) \in Nat
         /\ net(leg, o, a) = (IF d.offer = a THEN received(leg, d) ELSE 0)
                               - (IF d.ask = a THEN paid(leg, d) ELSE 0)
                               - (IF a = ADA THEN Gift(leg, d) ELSE 0)
<1> DEFINE d == o.datum
           price == required(leg, d)
           p == payment(leg, o)
<1>1. /\ d.offer \in Assets /\ d.ask \in Assets
      /\ d.offer_amount \in Nat /\ d.ask_amount \in Nat
      /\ partial(leg) => leg.take \in Nat /\ price \in Nat
  BY Amounts
<1>2. o.value[a] \in Nat /\ p.value[a] \in Nat
      /\ net(leg, o, a) = o.value[a] - p.value[a] - Kept(leg, o, a)
  BY NetTyped
<1>3. PartialPaymentLovelace \in Nat
  BY AmountsAssumption
<1>4. a \in Units /\ ADA \in Units
  BY UnitsAssumption DEF Units, Assets
<1>5. p.value[a] = IF a = ADA THEN payment_lovelace(leg, o)
                   ELSE IF a = d.ask THEN (IF partial(leg) THEN price ELSE d.ask_amount)
                   ELSE 0
  BY <1>4 DEF payment, Output
<1>6. received(leg, d) \in Nat /\ paid(leg, d) \in Nat
  BY <1>1 DEF received, paid
<1>7. Gift(leg, d) \in Nat
  <2> HIDE DEF d, price
  <2>1. CASE partial(leg)
    BY <1>1, <1>3, <2>1 DEF Gift, price
  <2>2. CASE ~partial(leg)
    BY <2>2 DEF Gift
  <2>3. QED
    BY <2>1, <2>2
<1>8. CASE partial(leg)
  <2>1. Kept(leg, o, a) = IF a = d.offer THEN o.value[a] - leg.take ELSE o.value[a]
    <3>1. continuation(leg, o).value = [o.value EXCEPT ![d.offer] = @ - leg.take]
      BY DEF continuation, Output
    <3>2. o.value \in Values
      BY Amounts
    <3>3. QED
      BY <1>4, <1>8, <3>1, <3>2 DEF Kept, Values
  <2>2. payment_lovelace(leg, o) = (IF is_ada(d.ask) THEN price ELSE 0) + Gift(leg, d)
    <3> HIDE DEF d, price
    <3>1. CASE is_ada(d.ask)
      BY <1>1, <1>3, <1>8, <3>1 DEF payment_lovelace, Gift, d, price
    <3>2. CASE ~is_ada(d.ask)
      BY <1>1, <1>3, <1>8, <3>2 DEF payment_lovelace, Gift, d, price
    <3>3. QED
      BY <3>1, <3>2
  <2>3. received(leg, d) = leg.take /\ paid(leg, d) = price
    BY <1>8 DEF received, paid
  <2>4. is_ada(d.ask) <=> d.ask = ADA
    BY DEF is_ada
  <2> HIDE DEF d, price, p
  <2>5. net(leg, o, a) = (IF d.offer = a THEN received(leg, d) ELSE 0)
                               - (IF d.ask = a THEN paid(leg, d) ELSE 0)
                               - (IF a = ADA THEN Gift(leg, d) ELSE 0)
    <3>1. CASE a = ADA
      BY <1>1, <1>2, <1>5, <1>7, <1>8, <2>1, <2>2, <2>3, <2>4, <3>1
    <3>2. CASE a # ADA
      BY <1>1, <1>2, <1>5, <1>7, <1>8, <2>1, <2>2, <2>3, <2>4, <3>2
    <3>3. QED
      BY <3>1, <3>2
  <2>6. QED
    BY <1>6, <1>7, <2>5 DEF d
<1>9. CASE ~partial(leg)
  <2>1. Kept(leg, o, a) = 0 /\ Gift(leg, d) = 0
        /\ received(leg, d) = d.offer_amount /\ paid(leg, d) = d.ask_amount
    BY <1>9 DEF Kept, Gift, received, paid
  <2>2. payment_lovelace(leg, o) = (IF is_ada(d.ask) THEN d.ask_amount ELSE 0) + deposit(d, o.value)
    BY <1>9 DEF payment_lovelace
  <2>3. o.value[ADA] \in Nat /\ deposit(d, o.value) \in Nat
    BY Amounts
  <2>4. deposit(d, o.value) = o.value[ADA] - (IF d.offer = ADA THEN d.offer_amount ELSE 0)
    BY <1>1, <2>3 DEF deposit, is_ada
  <2>5. a # ADA => o.value[a] = IF a = d.offer THEN d.offer_amount ELSE 0
    <3>1. o.value = expected_value(d, o.value[ADA]) /\ beacon_set(d) \subseteq BeaconNames
      BY OrderUnits DEF Sound, WellFormedOrder
    <3>2. a \notin beacon_set(d)
      BY <3>1, UnitsAssumption DEF Assets
    <3>3. QED
      BY <1>4, <3>1, <3>2 DEF expected_value
  <2>6. is_ada(d.ask) <=> d.ask = ADA
    BY DEF is_ada
  <2> HIDE DEF d, price, p
  <2>7. net(leg, o, a) = (IF d.offer = a THEN received(leg, d) ELSE 0)
                               - (IF d.ask = a THEN paid(leg, d) ELSE 0)
                               - (IF a = ADA THEN Gift(leg, d) ELSE 0)
    <3>1. CASE a = ADA
      BY <1>1, <1>2, <1>5, <1>9, <2>1, <2>2, <2>3, <2>4, <2>6, <3>1
    <3>2. CASE a # ADA
      BY <1>1, <1>2, <1>5, <1>9, <2>1, <2>5, <3>2
    <3>3. QED
      BY <3>1, <3>2
  <2>8. QED
    BY <1>6, <1>7, <2>7 DEF d
<1>10. QED
  BY <1>8, <1>9

(***************************************************************************)
(* The wallet's balance over a transaction is the sum of the nets.         *)
(***************************************************************************)
LEMMA InputsWorth ==
  ASSUME NEW s, NEW found, InOrder(s, found), Unspent(s, found), NEW a \in Assets
  PROVE  total([r \in OrderInputs(TakeOf(s, found)) |-> utxo[r].value[a]]) =
           SumFunctionOnSet([i \in DOMAIN s |-> found[s[i].ref].value[a]], DOMAIN s)
<1> DEFINE D == DOMAIN s
           I == OrderInputs(TakeOf(s, found))
           f == [i \in D |-> found[s[i].ref].value[a]]
           g == [r \in I |-> utxo[r].value[a]]
           h == [i \in D |-> s[i].ref]
<1>1. IsFiniteSet(D) /\ I = {s[i].ref : i \in D} /\ IsFiniteSet(I)
  BY InputsOfTake
<1>2. \A i \in D : f[i] \in Nat
  BY NetTyped DEF InOrder, AllSound
<1>3. \A i \in D : utxo[s[i].ref] = found[s[i].ref]
  BY DEF Unspent
<1>4. \A i, j \in D : s[i].ref = s[j].ref => i = j
  BY DEF InOrder
<1> HIDE DEF I
<1>5. h \in [D -> I] /\ (\A r \in I : \E i \in D : h[i] = r)
      /\ (\A i, j \in D : h[i] = h[j] => i = j)
  BY <1>1, <1>4
<1>6. \A i \in D : g[h[i]] = f[i]
  BY <1>1, <1>3
<1> HIDE DEF D, f, g, h
<1>7. SumFunctionOnSet(g, I) = SumFunctionOnSet(f, D)
  BY <1>1, <1>2, <1>5, <1>6, SumImage
<1>8. total(g) = SumFunctionOnSet(g, DOMAIN g) /\ DOMAIN g = I
  BY DEF total, SumFunction, g
<1>9. QED
  BY <1>7, <1>8 DEF f, g, D, I

LEMMA OutputsWorth ==
  ASSUME NEW s, NEW found, InOrder(s, found), NEW a \in Assets
  PROVE  LET outs == TakeOf(s, found).outputs
             o(i) == found[s[i].ref]
         IN  total([p \in DOMAIN outs |-> outs[p].value[a]]) =
               SumFunctionOnSet([i \in DOMAIN s |-> payment(s[i], o(i)).value[a]], DOMAIN s)
                 + SumFunctionOnSet([i \in DOMAIN s |-> Kept(s[i], o(i), a)], DOMAIN s)
<1> DEFINE D    == DOMAIN s
           outs == TakeOf(s, found).outputs
           O    == DOMAIN outs
           P    == partials(s)
           o(i) == found[s[i].ref]
           pay  == [i \in D |-> payment(s[i], o(i)).value[a]]
           kept == [i \in D |-> Kept(s[i], o(i), a)]
           g    == [p \in O |-> outs[p].value[a]]
<1>1. PICK at : LaidOut(s, found, Len(s), at, BatchOutputs(s, found))
  BY BatchLaidOut DEF InOrder
<1> DEFINE A == {at[i] : i \in D}
           C == {at[i] + 1 : i \in P}
<1>2. /\ outs = BatchOutputs(s, found) /\ O = 1..Len(outs) /\ Len(outs) \in Nat
      /\ \A i \in D : at[i] \in O /\ outs[at[i]] = payment(s[i], o(i))
      /\ \A i \in P : at[i] + 1 \in O /\ outs[at[i] + 1] = continuation(s[i], o(i))
  BY <1>1, OutputsOfTake
<1>3. D = 1..Len(s) /\ Len(s) \in Nat /\ IsFiniteSet(D) /\ P \subseteq D /\ IsFiniteSet(P)
      /\ \A i \in D : i \in P <=> partial(s[i])
  <2>1. D = 1..Len(s) /\ Len(s) \in Nat /\ IsFiniteSet(D)
    BY InputsOfTake
  <2>2. QED
    BY <2>1, FS_Subset DEF partials
<1>4. /\ at \in [D -> Nat]
      /\ \A i, j \in D : i < j => at[i] < at[j] /\ (i \in P => at[i] + 1 < at[j])
      /\ \A p \in O : \E i \in D : p = at[i] \/ (i \in P /\ p = at[i] + 1)
  BY <1>1, <1>2, <1>3 DEF LaidOut
<1>5. /\ \A i \in D : pay[i] \in Nat /\ kept[i] \in Nat
      /\ \A i \in P : kept[i] = continuation(s[i], o(i)).value[a]
      /\ \A i \in D \ P : kept[i] = 0
  <2>1. \A i \in D : Sound(s[i], o(i))
    BY DEF InOrder, AllSound
  <2>2. \A i \in D : payment(s[i], o(i)).value[a] \in Nat /\ Kept(s[i], o(i), a) \in Nat
    BY <2>1, NetTyped
  <2>3. QED
    BY <1>3, <2>2 DEF Kept
<1>6. /\ \A i \in D : g[at[i]] = pay[i]
      /\ \A i \in P : g[at[i] + 1] = kept[i]
  BY <1>2, <1>3, <1>5
<1>7. total(g) = SumFunctionOnSet(g, O)
  <2>1. DOMAIN g = O
    OBVIOUS
  <2> HIDE DEF g, O
  <2>2. QED
    BY <2>1 DEF total, SumFunction
<1> HIDE DEF pay, kept, g, outs, O, P, D, o
<1>8. \A i, j \in D : at[i] = at[j] => i = j
  BY <1>3, <1>4
<1>9. \A i \in D, j \in P : at[i] # at[j] + 1
  <2> SUFFICES ASSUME NEW i \in D, NEW j \in P, at[i] = at[j] + 1 PROVE FALSE
    OBVIOUS
  <2>1. j \in D /\ i \in Int /\ j \in Int /\ at[i] \in Nat /\ at[j] \in Nat
    BY <1>3, <1>4
  <2>2. CASE i < j
    BY <1>4, <2>1, <2>2
  <2>3. CASE j < i
    BY <1>4, <2>1, <2>3
  <2>4. CASE i = j
    BY <2>1, <2>4
  <2>5. QED
    BY <2>1, <2>2, <2>3, <2>4
<1>10. O = A \cup C /\ A \cap C = {}
  <2>1. A \subseteq O /\ C \subseteq O
    BY <1>2 DEF o
  <2>2. O \subseteq A \cup C
    BY <1>4
  <2>3. A \cap C = {}
    BY <1>9
  <2>4. QED
    BY <2>1, <2>2, <2>3
<1>11. IsFiniteSet(A) /\ IsFiniteSet(C)
  <2>1. IsFiniteSet(O)
    BY <1>2, FS_Interval
  <2> HIDE DEF A, C
  <2>2. QED
    BY <1>10, <2>1, FS_Subset
<1> DEFINE ha == [i \in D |-> at[i]]
           hc == [i \in P |-> at[i] + 1]
<1>12. SumFunctionOnSet(g, A) = SumFunctionOnSet(pay, D)
  <2>1. /\ ha \in [D -> A] /\ (\A p \in A : \E i \in D : ha[i] = p)
        /\ (\A i, j \in D : ha[i] = ha[j] => i = j)
        /\ (\A i \in D : g[ha[i]] = pay[i])
    BY <1>6, <1>8
  <2>2. \A i \in D : pay[i] \in Nat
    BY <1>5
  <2>3. IsFiniteSet(D) /\ IsFiniteSet(A)
    BY <1>3, <1>11
  <2> HIDE DEF ha, A
  <2>4. QED
    BY ONLY <2>1, <2>2, <2>3, SumImage
<1>13. SumFunctionOnSet(g, C) = SumFunctionOnSet(kept, P)
  <2>1. hc \in [P -> C] /\ (\A p \in C : \E i \in P : hc[i] = p)
        /\ (\A i \in P : g[hc[i]] = kept[i])
    BY <1>6
  <2>2. \A i, j \in P : hc[i] = hc[j] => i = j
    <3>1. \A i \in P : at[i] \in Nat
      BY <1>3, <1>4
    <3>2. QED
      BY <1>3, <1>8, <3>1
  <2>3. \A i \in P : kept[i] \in Nat
    BY <1>3, <1>5
  <2>4. IsFiniteSet(P) /\ IsFiniteSet(C)
    BY <1>3, <1>11
  <2> HIDE DEF hc, C
  <2>5. QED
    BY ONLY <2>1, <2>2, <2>3, <2>4, SumImage
<1>14. SumFunctionOnSet(kept, D) = SumFunctionOnSet(kept, P)
  <2> DEFINE R == D \ P
  <2>1. D = P \cup R /\ P \cap R = {} /\ IsFiniteSet(R)
    BY <1>3, FS_Subset
  <2>2. \A i \in P \cup R : kept[i] \in Nat
    BY <1>5, <2>1
  <2>3. \A i \in R : kept[i] = 0
    BY <1>5
  <2> HIDE DEF R
  <2>4. SumFunctionOnSet(kept, P \cup R) = SumFunctionOnSet(kept, P) + SumFunctionOnSet(kept, R)
    BY <1>3, <2>1, <2>2, SumUnion
  <2>5. SumFunctionOnSet(kept, R) = 0
    BY <2>1, <2>3, SumZero
  <2>6. SumFunctionOnSet(kept, P) \in Nat
    BY <1>3, <2>1, <2>2, SumType
  <2>7. QED
    BY <2>1, <2>4, <2>5, <2>6
<1>15. SumFunctionOnSet(g, A \cup C) = SumFunctionOnSet(g, A) + SumFunctionOnSet(g, C)
  <2>1. \A p \in A \cup C : g[p] \in Nat
    <3>1. \A i \in P : kept[i] \in Nat
      BY <1>3, <1>5
    <3>2. QED
      BY <1>5, <1>6, <3>1
  <2> HIDE DEF A, C
  <2>2. QED
    BY <1>10, <1>11, <2>1, SumUnion
<1>16. total(g) = SumFunctionOnSet(pay, D) + SumFunctionOnSet(kept, D)
  BY <1>7, <1>10, <1>12, <1>13, <1>14, <1>15
<1>17. QED
  BY <1>16 DEF pay, kept, g, outs, O, D, o

LEMMA BalanceOfTake ==
  ASSUME NEW s, NEW found, InOrder(s, found), Unspent(s, found), NEW a \in Assets
  PROVE  LET tx == TakeOf(s, found) IN
         total([r \in OrderInputs(tx) |-> utxo[r].value[a]])
             - total([p \in DOMAIN tx.outputs |-> tx.outputs[p].value[a]])
           = total([i \in DOMAIN s |-> net(s[i], found[s[i].ref], a)])
<1> DEFINE tx   == TakeOf(s, found)
           D    == DOMAIN s
           o(i) == found[s[i].ref]
           val  == [i \in D |-> o(i).value[a]]
           pay  == [i \in D |-> payment(s[i], o(i)).value[a]]
           kept == [i \in D |-> Kept(s[i], o(i), a)]
           left == [i \in D |-> val[i] - pay[i]]
           nets == [i \in D |-> net(s[i], o(i), a)]
           in   == total([r \in OrderInputs(tx) |-> utxo[r].value[a]])
           out  == total([p \in DOMAIN tx.outputs |-> tx.outputs[p].value[a]])
<1>1. in = SumFunctionOnSet(val, D)
  BY InputsWorth
<1>2. out = SumFunctionOnSet(pay, D) + SumFunctionOnSet(kept, D)
  BY OutputsWorth
<1>3. IsFiniteSet(D)
  BY InputsOfTake
<1>4. \A i \in D : /\ val[i] \in Nat /\ pay[i] \in Nat /\ kept[i] \in Nat
                   /\ nets[i] = val[i] - pay[i] - kept[i]
  BY NetTyped DEF InOrder, AllSound
<1>5. \A i \in D : left[i] = val[i] - pay[i]
  OBVIOUS
<1>6. total(nets) = SumFunctionOnSet(nets, D)
  <2>1. DOMAIN nets = D
    OBVIOUS
  <2> HIDE DEF nets, D
  <2>2. QED
    BY <2>1 DEF total, SumFunction
<1> HIDE DEF val, pay, kept, left, nets, D, in, out
<1>7. /\ SumFunctionOnSet(val, D) \in Int /\ SumFunctionOnSet(pay, D) \in Int
      /\ SumFunctionOnSet(left, D) = SumFunctionOnSet(val, D) - SumFunctionOnSet(pay, D)
  BY <1>3, <1>4, <1>5, SumDifference
<1>8. /\ SumFunctionOnSet(kept, D) \in Int
      /\ SumFunctionOnSet(nets, D) = SumFunctionOnSet(left, D) - SumFunctionOnSet(kept, D)
  <2>1. \A i \in D : left[i] \in Int /\ kept[i] \in Int /\ nets[i] = left[i] - kept[i]
    BY <1>4, <1>5
  <2>2. QED
    BY <1>3, <2>1, SumDifference
<1>9. in - out = total(nets)
  BY <1>1, <1>2, <1>6, <1>7, <1>8
<1>10. QED
  BY <1>9 DEF in, out, nets, D

(* The nets are the totals quoted, less the gifts.                         *)
LEMMA TotalsOfTake ==
  ASSUME NEW s, NEW found, InOrder(s, found), NEW a \in Assets,
         summarise(s, found).offered # None, summarise(s, found).requested # None
  PROVE  LET q == summarise(s, found)
             nets == [i \in DOMAIN s |-> net(s[i], found[s[i].ref], a)]
             gifts == [i \in DOMAIN s |-> Gift(s[i], found[s[i].ref].datum)]
         IN  total(nets) = (IF q.offered.asset = a THEN q.offered.amount ELSE 0)
                             - (IF q.requested.asset = a THEN q.requested.amount ELSE 0)
                             - (IF a = ADA THEN total(gifts) ELSE 0)
<1> DEFINE D     == DOMAIN s
           d(i)  == found[s[i].ref].datum
           A     == d(1).offer
           B     == d(1).ask
           ins   == [i \in D |-> received(s[i], d(i))]
           outs  == [i \in D |-> paid(s[i], d(i))]
           gifts == [i \in D |-> Gift(s[i], d(i))]
           nets  == [i \in D |-> net(s[i], found[s[i].ref], a)]
           fi    == [i \in D |-> IF A = a THEN ins[i] ELSE 0]
           fo    == [i \in D |-> IF B = a THEN outs[i] ELSE 0]
           fg    == [i \in D |-> IF a = ADA THEN gifts[i] ELSE 0]
           left  == [i \in D |-> fi[i] - fo[i]]
           q     == summarise(s, found)
<1>1. /\ \A i \in D : d(i).offer = A
      /\ \A i \in D : d(i).ask = B
      /\ q.offered.asset = A /\ q.offered.amount = total(ins)
      /\ q.requested.asset = B /\ q.requested.amount = total(outs)
  <2>1. q.offered = (IF \A i \in D : d(i).offer = A THEN [asset |-> A, amount |-> total(ins)] ELSE None)
    BY DEF summarise
  <2>2. q.requested = (IF \A i \in D : d(i).ask = B THEN [asset |-> B, amount |-> total(outs)] ELSE None)
    BY DEF summarise
  <2>3. \A i \in D : d(i).offer = A
    BY ONLY <2>1, q.offered # None
  <2>4. \A i \in D : d(i).ask = B
    BY ONLY <2>2, q.requested # None
  <2>5. q.offered = [asset |-> A, amount |-> total(ins)]
    BY ONLY <2>1, <2>3
  <2>6. q.requested = [asset |-> B, amount |-> total(outs)]
    BY ONLY <2>2, <2>4
  <2> HIDE DEF q, ins, outs
  <2>7. QED
    BY <2>3, <2>4, <2>5, <2>6
<1>2. IsFiniteSet(D)
  BY InputsOfTake
<1>3. \A i \in D : /\ ins[i] \in Nat /\ outs[i] \in Nat /\ gifts[i] \in Nat
                   /\ nets[i] = (IF A = a THEN ins[i] ELSE 0) - (IF B = a THEN outs[i] ELSE 0)
                                  - (IF a = ADA THEN gifts[i] ELSE 0)
  <2> SUFFICES ASSUME NEW i \in D
               PROVE  /\ ins[i] \in Nat /\ outs[i] \in Nat /\ gifts[i] \in Nat
                      /\ nets[i] = (IF A = a THEN ins[i] ELSE 0) - (IF B = a THEN outs[i] ELSE 0)
                                     - (IF a = ADA THEN gifts[i] ELSE 0)
    OBVIOUS
  <2> DEFINE leg == s[i]
             o == found[s[i].ref]
  <2>1. Sound(leg, o)
    BY DEF InOrder, AllSound
  <2>2. /\ received(leg, o.datum) \in Nat /\ paid(leg, o.datum) \in Nat /\ Gift(leg, o.datum) \in Nat
        /\ net(leg, o, a) = (IF o.datum.offer = a THEN received(leg, o.datum) ELSE 0)
                              - (IF o.datum.ask = a THEN paid(leg, o.datum) ELSE 0)
                              - (IF a = ADA THEN Gift(leg, o.datum) ELSE 0)
    BY <2>1, NetOf
  <2>3. o.datum.offer = A /\ o.datum.ask = B
    BY <1>1
  <2>4. /\ ins[i] = received(leg, o.datum) /\ outs[i] = paid(leg, o.datum)
        /\ gifts[i] = Gift(leg, o.datum) /\ nets[i] = net(leg, o, a)
    OBVIOUS
  <2> HIDE DEF ins, outs, gifts, nets, A, B, leg, o
  <2>5. QED
    BY <2>2, <2>3, <2>4
<1>4. \A i \in D : /\ fi[i] = (IF A = a THEN ins[i] ELSE 0) /\ fo[i] = (IF B = a THEN outs[i] ELSE 0)
                   /\ fg[i] = (IF a = ADA THEN gifts[i] ELSE 0) /\ left[i] = fi[i] - fo[i]
  <2> HIDE DEF ins, outs, gifts, A, B
  <2>1. QED
    OBVIOUS
<1>5. /\ total(nets) = SumFunctionOnSet(nets, D) /\ total(ins) = SumFunctionOnSet(ins, D)
      /\ total(outs) = SumFunctionOnSet(outs, D) /\ total(gifts) = SumFunctionOnSet(gifts, D)
  <2>1. DOMAIN nets = D /\ DOMAIN ins = D /\ DOMAIN outs = D /\ DOMAIN gifts = D
    OBVIOUS
  <2> HIDE DEF nets, ins, outs, gifts, D
  <2>2. QED
    BY <2>1 DEF total, SumFunction
<1> HIDE DEF ins, outs, gifts, nets, A, B, D, q
<1>6. /\ SumFunctionOnSet(fi, D) = (IF A = a THEN SumFunctionOnSet(ins, D) ELSE 0)
      /\ SumFunctionOnSet(fo, D) = (IF B = a THEN SumFunctionOnSet(outs, D) ELSE 0)
      /\ SumFunctionOnSet(fg, D) = (IF a = ADA THEN SumFunctionOnSet(gifts, D) ELSE 0)
  <2> DEFINE b == A = a
             c == B = a
             e == a = ADA
  <2>1. b \in BOOLEAN /\ c \in BOOLEAN /\ e \in BOOLEAN
    OBVIOUS
  <2>2. fi = [i \in D |-> IF b THEN ins[i] ELSE 0] /\ fo = [i \in D |-> IF c THEN outs[i] ELSE 0]
        /\ fg = [i \in D |-> IF e THEN gifts[i] ELSE 0]
    OBVIOUS
  <2>3. (\A i \in D : ins[i] \in Nat) /\ (\A i \in D : outs[i] \in Nat) /\ (\A i \in D : gifts[i] \in Nat)
    BY <1>3
  <2> HIDE DEF b, c, e, fi, fo, fg
  <2>4. SumFunctionOnSet(fi, D) = IF b THEN SumFunctionOnSet(ins, D) ELSE 0
    BY ONLY <1>2, <2>1, <2>2, <2>3, SumIf
  <2>5. SumFunctionOnSet(fo, D) = IF c THEN SumFunctionOnSet(outs, D) ELSE 0
    BY ONLY <1>2, <2>1, <2>2, <2>3, SumIf
  <2>6. SumFunctionOnSet(fg, D) = IF e THEN SumFunctionOnSet(gifts, D) ELSE 0
    BY ONLY <1>2, <2>1, <2>2, <2>3, SumIf
  <2>7. QED
    BY <2>4, <2>5, <2>6 DEF b, c, e
<1> HIDE DEF fi, fo, fg, left
<1>7. \A i \in D : /\ fi[i] \in Int /\ fo[i] \in Int /\ fg[i] \in Int /\ left[i] \in Int
                   /\ nets[i] = left[i] - fg[i] /\ left[i] = fi[i] - fo[i]
  BY <1>3, <1>4
<1>8. SumFunctionOnSet(left, D) = SumFunctionOnSet(fi, D) - SumFunctionOnSet(fo, D)
  BY <1>2, <1>7, SumDifference
<1>9. SumFunctionOnSet(nets, D) = SumFunctionOnSet(left, D) - SumFunctionOnSet(fg, D)
  BY <1>2, <1>7, SumDifference
<1>10. total(nets) = (IF q.offered.asset = a THEN q.offered.amount ELSE 0)
                       - (IF q.requested.asset = a THEN q.requested.amount ELSE 0)
                       - (IF a = ADA THEN total(gifts) ELSE 0)
  BY <1>1, <1>5, <1>6, <1>8, <1>9
<1>11. QED
  BY <1>10 DEF q, nets, gifts, D

(* The gifts of a batch do not depend on the order of its legs.            *)
LEMMA GiftsSorted ==
  ASSUME NEW legs, NEW found, Batch(legs),
         \A i \in DOMAIN legs : Sound(legs[i], found[legs[i].ref])
  PROVE  LET s == sorted(legs) IN
         total([i \in DOMAIN legs |-> Gift(legs[i], found[legs[i].ref].datum)]) =
           total([i \in DOMAIN s |-> Gift(s[i], found[s[i].ref].datum)])
<1> DEFINE s == sorted(legs)
           D == DOMAIN legs
           g == [i \in D |-> Gift(legs[i], found[legs[i].ref].datum)]
           f == [i \in D |-> Gift(s[i], found[s[i].ref].datum)]
<1>1. DOMAIN s = D
  BY SortedLegs
<1>2. PICK p \in [D -> D] : /\ \A n \in D : s[n] = legs[p[n]]
                            /\ \A m, n \in D : p[m] = p[n] => m = n
                            /\ \A i \in D : \E n \in D : p[n] = i
  BY SortedLegs
<1>3. \A i \in D : g[i] \in Nat
  <2> SUFFICES ASSUME NEW i \in D PROVE g[i] \in Nat
    OBVIOUS
  <2>1. ADA \in Assets
    BY UnitsAssumption DEF Assets
  <2>2. Gift(legs[i], found[legs[i].ref].datum) \in Nat
    BY <2>1, NetOf
  <2>3. QED
    BY <2>2
<1> HIDE DEF s
<1>4. \A i \in D : f[i] = g[p[i]]
  BY <1>2
<1>5. \A i \in D : f[i] \in Nat
  <2> HIDE DEF f, g
  <2>1. QED
    BY <1>2, <1>3, <1>4
<1>6. IsFiniteSet(D)
  <2>1. D = 1..Len(legs) /\ Len(legs) \in Nat
    BY DEF Batch
  <2>2. QED
    BY <2>1, FS_Interval
<1>7. DOMAIN f = D /\ DOMAIN g = D
  OBVIOUS
<1> HIDE DEF f, g, D
<1>8. /\ p \in [D -> D] /\ (\A m, n \in D : p[m] = p[n] => m = n)
      /\ (\A i \in D : \E n \in D : p[n] = i) /\ (\A i \in D : g[p[i]] = f[i])
  BY <1>2, <1>4
<1>9. SumFunctionOnSet(g, D) = SumFunctionOnSet(f, D)
  BY ONLY <1>5, <1>6, <1>8, SumImage
<1>10. total(g) = total(f)
  BY <1>7, <1>9 DEF total, SumFunction
<1>11. QED
  BY <1>1, <1>10 DEF f, g, s, D

LEMMA QuotedTake ==
  ASSUME BuilderInv, job.stage = "built", job.legs # << >>, OrderInputs(job.tx) \subseteq DOMAIN utxo,
         NEW a \in Assets
  PROVE  LET q       == job.summary
             balance == total([r \in OrderInputs(job.tx) |-> utxo[r].value[a]])
                          - total([i \in DOMAIN job.tx.outputs |-> job.tx.outputs[i].value[a]])
             gifts   == total([i \in DOMAIN job.legs |->
                                 Gift(job.legs[i], job.found[job.legs[i].ref].datum)])
         IN  /\ balance = q.takerNet[a]
             /\ q.offered # None /\ q.requested # None =>
                  balance = (IF q.offered.asset = a THEN q.offered.amount ELSE 0)
                              - (IF q.requested.asset = a THEN q.requested.amount ELSE 0)
                              - (IF a = ADA THEN gifts ELSE 0)
<1> DEFINE s == sorted(job.legs)
           found == job.found
           tx == job.tx
           q == job.summary
           balance == total([r \in OrderInputs(tx) |-> utxo[r].value[a]])
                        - total([i \in DOMAIN tx.outputs |-> tx.outputs[i].value[a]])
           gifts == total([i \in DOMAIN job.legs |-> Gift(job.legs[i], found[job.legs[i].ref].datum)])
           nets == total([i \in DOMAIN s |-> net(s[i], found[s[i].ref], a)])
<1>1. Taken(job, utxo, txids)
  BY DEF BuilderInv, JobOver, Created, Cancelled
<1>2. InOrder(s, found) /\ tx = TakeOf(s, found) /\ Unspent(s, found)
  BY <1>1, TakenBatch
<1>3. q = summarise(s, found)
  BY <1>1 DEF Taken
<1>4. balance = nets
  <2>1. LET x == TakeOf(s, found) IN
        total([r \in OrderInputs(x) |-> utxo[r].value[a]])
          - total([i \in DOMAIN x.outputs |-> x.outputs[i].value[a]]) = nets
    BY <1>2, BalanceOfTake
  <2>2. QED
    BY <1>2, <2>1
<1>5. summarise(s, found).takerNet[a] = nets
  BY DEF summarise
<1>6. gifts = total([i \in DOMAIN s |-> Gift(s[i], found[s[i].ref].datum)])
  BY <1>1, GiftsSorted DEF Taken
<1>7. ASSUME q.offered # None, q.requested # None
      PROVE  nets = (IF q.offered.asset = a THEN q.offered.amount ELSE 0)
                      - (IF q.requested.asset = a THEN q.requested.amount ELSE 0)
                      - (IF a = ADA THEN gifts ELSE 0)
  BY <1>2, <1>3, <1>6, <1>7, TotalsOfTake
<1> HIDE DEF s, nets, gifts, balance, tx
<1>8. /\ balance = q.takerNet[a]
      /\ q.offered # None /\ q.requested # None =>
           balance = (IF q.offered.asset = a THEN q.offered.amount ELSE 0)
                       - (IF q.requested.asset = a THEN q.requested.amount ELSE 0)
                       - (IF a = ADA THEN gifts ELSE 0)
  BY <1>3, <1>4, <1>5, <1>7
<1>9. QED
  BY <1>8 DEF balance, gifts, tx

(* The quote of a batch is honest whatever its legs: the wallet's balance  *)
(* over the transaction is the net quoted in every asset, and the totals   *)
(* quoted less the lovelace of the payments that return no deposit, on a   *)
(* chain that is not mixed.                                                *)
THEOREM QuotesAlwaysHonest == BuilderSpec => []QuoteHonest
<1>1. BuilderInv \/ mixed => QuoteHonest
  <2> SUFFICES ASSUME BuilderInv, job.stage = "built", job.legs # << >>,
                      OrderInputs(job.tx) \subseteq DOMAIN utxo
               PROVE  QuoteHonest
    BY DEF QuoteHonest
  <2>1. QED
    BY QuotedTake DEF QuoteHonest
<1>2. QED
  BY BuilderOrMixed, <1>1, PTL
=============================================================================
