---------------------------- MODULE Indexer_proofs -----------------------------
(***************************************************************************)
(* What the order indexer guarantees, for any number of transactions,      *)
(* owners and sessions and any faults whatever: what it has in its cache   *)
(* is of orders that there were, and a row that says how its order was     *)
(* spent says so truly; and that it finds the lineage of orders, so that   *)
(* the whole cache is true as long as no backfill is interrupted.  And     *)
(* what it may rely on, whatever provider it reads the chain through: both *)
(* tell the same of every chain there can be, and a call that fails or     *)
(* lacks a redeemer makes an order unknown, never another thing than it    *)
(* was.                                                                    *)
(***************************************************************************)
EXTENDS Provider, CountingTheorems

----------------------------------------------------------------------------
(***************************************************************************)
(* The chain.                                                              *)
(***************************************************************************)
Kinds == {"CancelOrder", "TakeOrder", "TakeOrderPartial"}

OutputRefs == Int \X Nat

Inputs  == [ref : OutputRefs, redeemer : Kinds \cup {None}]
Outputs == [owner : Owners \cup {None}, parent : Refs \cup {None}, root : Refs \cup {None}, fills : Nat]

Transactions == [inputs : Seq(Inputs), outputs : Seq(Outputs), height : Nat]

(* The inputs with a redeemer are those that spend an order.               *)
OrdersSpent(tx) ==
  \A i \in DOMAIN tx.inputs :
    /\ tx.inputs[i].redeemer # None <=> tx.inputs[i].ref \in Refs
    /\ tx.inputs[i].redeemer # None => tx.inputs[i].ref \in OrdersSeen

ChainInv ==
  /\ height \in Nat
  /\ EverSeen \subseteq TxIds /\ IsFiniteSet(EverSeen)
  /\ DOMAIN chain \cap DOMAIN mempool = {}
  /\ \A id \in EverSeen : Seen(id) \in Transactions
  /\ \A id \in EverSeen : OrdersSpent(Seen(id))

(* A transaction that was seen stays as it is, but for the block it is in. *)
ChainGrows ==
  /\ height \in Nat /\ height' \in Nat /\ height <= height'
  /\ EverSeen \subseteq EverSeen'
  /\ \A id \in EverSeen : /\ Seen(id)'.inputs = Seen(id).inputs
                          /\ Seen(id)'.outputs = Seen(id).outputs

LEMMA RefsOrdered ==
  ASSUME NEW S, S \subseteq OutputRefs
  PROVE  LET R == {e \in OutputRefs \X OutputRefs : RefLess(e[1], e[2])}
         IN  /\ TotallyOrders(R, S)
             /\ \A p \in S : before(R, S, p) = {q \in S : RefLess(q, p)}
<1> DEFINE R == {e \in OutputRefs \X OutputRefs : RefLess(e[1], e[2])}
<1>1. \A p, q \in OutputRefs : <<p, q>> \in R <=> RefLess(p, q)
  OBVIOUS
<1>2. \A p \in OutputRefs : p[1] \in Int /\ p[2] \in Int /\ p = <<p[1], p[2]>>
  BY DEF OutputRefs
<1>3. /\ \A p \in OutputRefs : ~RefLess(p, p)
      /\ \A p, q, r \in OutputRefs : RefLess(p, q) /\ RefLess(q, r) => RefLess(p, r)
      /\ \A p, q \in OutputRefs : p # q => RefLess(p, q) \/ RefLess(q, p)
  <2>1. \A p, q \in OutputRefs : p # q => p[1] # q[1] \/ p[2] # q[2]
    BY <1>2
  <2>2. QED
    BY <1>2, <2>1 DEF RefLess
<1> HIDE DEF R
<1>4. TotallyOrders(R, S)
  BY <1>1, <1>3 DEF TotallyOrders
<1>5. \A p \in S : before(R, S, p) = {q \in S : RefLess(q, p)}
  BY <1>1 DEF before
<1>6. QED
  BY <1>4, <1>5 DEF R

(* A finite set of references can be put in order.                         *)
LEMMA InOrderListsAll ==
  ASSUME NEW S, S \subseteq OutputRefs, IsFiniteSet(S)
  PROVE  /\ Cardinality(S) \in Nat
         /\ InOrder(S) \in [1..Cardinality(S) -> S]
         /\ \A i \in 1..Cardinality(S) : Cardinality({q \in S : RefLess(q, InOrder(S)[i])}) = i - 1
<1>1. Cardinality(S) \in Nat
  BY FS_CardinalityType
<1>2. ASSUME NEW i \in 1..Cardinality(S)
      PROVE  \E p \in S : Cardinality({q \in S : RefLess(q, p)}) = i - 1
  <2>1. i - 1 \in Nat /\ i - 1 < Cardinality(S)
    BY <1>1
  <2> DEFINE R == {e \in OutputRefs \X OutputRefs : RefLess(e[1], e[2])}
  <2>2. TotallyOrders(R, S) /\ \A p \in S : before(R, S, p) = {q \in S : RefLess(q, p)}
    BY RefsOrdered
  <2> HIDE DEF R
  <2>3. \E p \in S : Cardinality(before(R, S, p)) = i - 1
    BY <2>1, <2>2, RanksFill
  <2>4. QED
    BY <2>2, <2>3
<1>3. \A i \in 1..Cardinality(S) :
        InOrder(S)[i] = CHOOSE p \in S : Cardinality({q \in S : RefLess(q, p)}) = i - 1
  BY DEF InOrder
<1>4. QED
  BY <1>1, <1>2, <1>3 DEF InOrder

Numeric(S) == S \subseteq Int

LEMMA NumbersRanked ==
  ASSUME NEW S, IsFiniteSet(S), Numeric(S), NEW n \in Nat, n < Cardinality(S)
  PROVE  \E x \in S : Cardinality({y \in S : y < x}) = n
<1> DEFINE R == {e \in Int \X Int : e[1] < e[2]}
<1>1. TotallyOrders(R, S) /\ \A x \in S : before(R, S, x) = {y \in S : y < x}
  BY NumbersOrdered DEF Numeric
<1> HIDE DEF R
<1>2. \E x \in S : Cardinality(before(R, S, x)) = n
  BY <1>1, RanksFill
<1>3. QED
  BY <1>1, <1>2

(* The n-th of a finite set of numbers is one of them.                     *)
LEMMA NthIsMember ==
  ASSUME NEW S, S \subseteq Int, IsFiniteSet(S), NEW n \in Nat, n < Cardinality(S)
  PROVE  Nth(S, n) \in S /\ Rank(S, Nth(S, n)) = n
<1>1. \E x \in S : Cardinality({y \in S : y < x}) = n
  BY NumbersRanked DEF Numeric
<1>2. QED
  BY <1>1 DEF Nth, Rank

LEMMA RankIsNat ==
  ASSUME NEW S, IsFiniteSet(S), NEW x
  PROVE  Rank(S, x) \in Nat
BY FS_Subset, FS_CardinalityType DEF Rank

LEMMA PositionsFinite ==
  ASSUME NEW tx \in Transactions
  PROVE  /\ OrderOutputs(tx) \subseteq Nat /\ IsFiniteSet(OrderOutputs(tx))
         /\ PartialInputs(tx) \subseteq Nat /\ IsFiniteSet(PartialInputs(tx))
         /\ DOMAIN tx.inputs \subseteq Nat /\ DOMAIN tx.outputs \subseteq Nat
<1>1. PICK m \in Nat : DOMAIN tx.inputs = 1..m
  BY DEF Transactions
<1>2. PICK n \in Nat : DOMAIN tx.outputs = 1..n
  BY DEF Transactions
<1>3. IsFiniteSet(1..m) /\ IsFiniteSet(1..n)
  BY FS_Interval
<1>4. QED
  BY <1>1, <1>2, <1>3, FS_Subset DEF OrderOutputs, PartialInputs

LEMMA OrdersOfChain ==
  ASSUME ChainInv
  PROVE  /\ Orders \subseteq OrdersSeen /\ OrdersSeen \subseteq Refs /\ Unspent \subseteq Orders
         /\ Refs \subseteq OutputRefs
         /\ \A ref \in OrdersSeen : /\ ref = <<ref[1], ref[2]>> /\ ref[1] \in EverSeen
                                    /\ ref[2] \in OrderOutputs(Seen(ref[1]))
         /\ \A ref \in Orders : ref[1] \in DOMAIN chain
<1>1. \A id \in DOMAIN chain : id \in EverSeen /\ Seen(id) = chain[id]
  BY DEF EverSeen, Seen
<1>2. Orders \subseteq OrdersSeen
  BY <1>1 DEF Orders, OrdersSeen
<1>3. \A ref \in OrdersSeen : /\ ref = <<ref[1], ref[2]>> /\ ref[1] \in EverSeen
                              /\ ref[2] \in OrderOutputs(Seen(ref[1]))
  BY DEF OrdersSeen
<1>4. \A ref \in OrdersSeen : ref[1] \in TxIds /\ ref[2] \in Nat
  BY <1>3, PositionsFinite DEF ChainInv
<1>5. OrdersSeen \subseteq Refs
  BY <1>3, <1>4 DEF Refs
<1>6. Refs \subseteq OutputRefs
  BY ChainAssumption DEF Refs, OutputRefs
<1>7. \A ref \in Orders : ref[1] \in DOMAIN chain
  BY DEF Orders
<1>8. QED
  BY <1>2, <1>3, <1>5, <1>6, <1>7 DEF Unspent

LEMMA OrdersFinite ==
  ASSUME ChainInv
  PROVE  IsFiniteSet(Orders)
<1> DEFINE of(id) == {<<id, i>> : i \in OrderOutputs(chain[id])}
<1>1. IsFiniteSet(DOMAIN chain)
  BY FS_Subset DEF ChainInv, EverSeen
<1>2. ASSUME NEW id \in DOMAIN chain PROVE IsFiniteSet(of(id))
  <2>1. IsFiniteSet(OrderOutputs(chain[id]))
    BY PositionsFinite DEF ChainInv, EverSeen, Seen
  <2> DEFINE f == [i \in OrderOutputs(chain[id]) |-> <<id, i>>]
  <2>2. of(id) = {f[i] : i \in OrderOutputs(chain[id])}
    OBVIOUS
  <2>3. f \in [OrderOutputs(chain[id]) -> of(id)]
    OBVIOUS
  <2>4. f \in Surjection(OrderOutputs(chain[id]), of(id))
    BY <2>2, <2>3 DEF Surjection
  <2>5. QED
    BY <2>1, <2>4, FS_Surjection
<1> DEFINE g == [id \in DOMAIN chain |-> of(id)]
<1>3. g \in Surjection(DOMAIN chain, {of(id) : id \in DOMAIN chain})
  BY DEF Surjection
<1>4. IsFiniteSet({of(id) : id \in DOMAIN chain})
  BY <1>1, <1>3, FS_Surjection
<1>5. \A S \in {of(id) : id \in DOMAIN chain} : IsFiniteSet(S)
  BY <1>2
<1>6. IsFiniteSet(UNION {of(id) : id \in DOMAIN chain})
  BY <1>4, <1>5, FS_UNION
<1>7. QED
  BY <1>6 DEF Orders

(* What was seen stays, so do the orders in it.                            *)
LEMMA OrdersStay ==
  ASSUME ChainGrows
  PROVE  /\ OrdersSeen \subseteq OrdersSeen'
         /\ \A id \in EverSeen : OrdersSpent(Seen(id)) => OrdersSpent(Seen(id))'
<1>1. ASSUME NEW id \in EverSeen PROVE OrderOutputs(Seen(id))' = OrderOutputs(Seen(id))
  BY DEF ChainGrows, OrderOutputs
<1>2. OrdersSeen \subseteq OrdersSeen'
  <2> SUFFICES ASSUME NEW ref \in OrdersSeen PROVE ref \in OrdersSeen'
    OBVIOUS
  <2>1. PICK id \in EverSeen : \E i \in OrderOutputs(Seen(id)) : ref = <<id, i>>
    BY DEF OrdersSeen
  <2>2. id \in EverSeen' /\ \E i \in OrderOutputs(Seen(id))' : ref = <<id, i>>
    BY <1>1, <2>1 DEF ChainGrows
  <2>3. QED
    BY <2>2 DEF OrdersSeen
<1>3. ASSUME NEW id \in EverSeen, OrdersSpent(Seen(id)) PROVE OrdersSpent(Seen(id))'
  BY <1>2, <1>3 DEF OrdersSpent, ChainGrows
<1>4. QED
  BY <1>2, <1>3

LEMMA IncludeGrows ==
  ASSUME ChainInv, NEW id \in TxIds, NEW inputs \in Seq(Inputs), NEW outputs \in Seq(Outputs),
         \A i \in DOMAIN inputs : /\ inputs[i].redeemer # None <=> inputs[i].ref \in Refs
                                  /\ inputs[i].redeemer # None => inputs[i].ref \in OrdersSeen,
         Include(id, inputs, outputs)
  PROVE  ChainInv' /\ ChainGrows
<1> DEFINE tx == [inputs |-> inputs, outputs |-> outputs, height |-> height]
<1>1. /\ id \notin EverSeen /\ DOMAIN chain' = DOMAIN chain \cup {id}
      /\ chain'[id] = tx /\ \A t \in DOMAIN chain : chain'[t] = chain[t]
      /\ mempool' = mempool /\ height' = height
  BY DEF Include, EverSeen
<1>2. EverSeen' = EverSeen \cup {id} /\ IsFiniteSet(EverSeen')
  <2>1. EverSeen' = EverSeen \cup {id}
    BY <1>1 DEF EverSeen
  <2>2. QED
    BY <2>1, FS_AddElement DEF ChainInv
<1>3. \A t \in EverSeen : Seen(t)' = Seen(t)
  BY <1>1 DEF Seen, EverSeen
<1>4. Seen(id)' = tx /\ tx \in Transactions
  BY <1>1 DEF Seen, ChainInv, Transactions
<1>5. ChainGrows
  BY <1>1, <1>2, <1>3 DEF ChainGrows, ChainInv
<1>6. OrdersSpent(Seen(id))'
  <2>1. Seen(id)'.inputs = inputs
    BY <1>4
  <2>2. QED
    BY <2>1, <1>5, OrdersStay DEF OrdersSpent
<1>7. \A t \in EverSeen' : OrdersSpent(Seen(t))'
  BY <1>2, <1>5, <1>6, OrdersStay DEF ChainInv
<1>8. \A t \in EverSeen' : Seen(t)' \in Transactions
  BY <1>2, <1>3, <1>4 DEF ChainInv
<1>9. QED
  BY <1>1, <1>2, <1>5, <1>7, <1>8 DEF ChainInv, EverSeen

LEMMA CreateGrows ==
  ASSUME ChainInv, NEW id \in TxIds, NEW owner \in Owners, Create(id, owner)
  PROVE  ChainInv' /\ ChainGrows
<1> DEFINE order == [owner |-> owner, parent |-> None, root |-> <<id, 1>>, fills |-> 0]
<1>1. order \in Outputs
  BY DEF Outputs, Refs
<1>2. << >> \in Seq(Inputs) /\ <<order>> \in Seq(Outputs) /\ DOMAIN << >> = {}
  BY <1>1
<1>3. Include(id, << >>, <<order>>)
  BY DEF Create
<1> HIDE DEF order
<1>4. QED
  BY <1>2, <1>3, IncludeGrows

(* The outputs of a transaction that spends orders are of the right form.  *)
LEMMA LayoutTyped ==
  ASSUME ChainInv, NEW S, S \subseteq Orders, IsFiniteSet(S), NEW kinds, DOMAIN kinds = S
  PROVE  /\ InOrder(S) \in Seq(S) /\ Len(InOrder(S)) = Cardinality(S)
         /\ Layout(InOrder(S), kinds) \in Seq(Outputs)
<1> DEFINE legs == InOrder(S)
           filled == Filled(legs, kinds, Len(legs))
           size == Len(legs) + Cardinality(filled)
           ofLeg(k, n) == n = k + Cardinality(Filled(legs, kinds, k))
           out == Layout(legs, kinds)
<1>1. S \subseteq OutputRefs
  BY OrdersOfChain
<1>2. Cardinality(S) \in Nat /\ legs \in [1..Cardinality(S) -> S]
  BY <1>1, InOrderListsAll
<1>3. legs \in Seq(S) /\ Len(legs) = Cardinality(S)
  <2> HIDE DEF legs
  <2>1. QED
    BY <1>2
<1>4. Payment \in Outputs
  BY DEF Payment, Outputs
<1>5. ASSUME NEW ref \in S PROVE Continuation(ref) \in Outputs
  <2>1. ref \in OrdersSeen /\ ref \in Refs /\ ref[1] \in DOMAIN chain
        /\ ref[2] \in OrderOutputs(Seen(ref[1]))
    BY OrdersOfChain
  <2>2. chain[ref[1]] \in Transactions /\ ref[2] \in DOMAIN chain[ref[1]].outputs
    BY <2>1 DEF ChainInv, EverSeen, Seen, OrderOutputs
  <2>3. chain[ref[1]].outputs[ref[2]] \in Outputs
    BY <2>2 DEF Transactions
  <2>4. QED
    BY <2>1, <2>3 DEF Continuation, Outputs
<1> HIDE DEF legs
<1>6. filled \subseteq 1..Len(legs) /\ Cardinality(filled) \in Nat
  <2>1. filled \subseteq 1..Len(legs) /\ IsFiniteSet(1..Len(legs))
    BY <1>2, <1>3, FS_Interval DEF Filled
  <2>2. QED
    BY <2>1, FS_Subset, FS_CardinalityType
<1> HIDE DEF filled
<1>7. out = [n \in 1..size |-> IF \E k \in filled : ofLeg(k, n)
                               THEN Continuation(legs[CHOOSE k \in filled : ofLeg(k, n)])
                               ELSE Payment]
  BY DEF Layout, filled
<1>8. size \in Nat
  BY <1>2, <1>3, <1>6
<1>9. \A n \in 1..size : out[n] \in Outputs
  <2> SUFFICES ASSUME NEW n \in 1..size PROVE out[n] \in Outputs
    OBVIOUS
  <2>1. CASE \E k \in filled : ofLeg(k, n)
    <3> DEFINE k == CHOOSE k \in filled : ofLeg(k, n)
    <3>1. k \in filled
      BY <2>1
    <3>2. out[n] = Continuation(legs[k])
      BY <1>7, <2>1
    <3> HIDE DEF k
    <3>3. legs[k] \in S
      BY <1>2, <1>3, <1>6, <3>1
    <3>4. QED
      BY <1>5, <3>2, <3>3
  <2>2. CASE ~ \E k \in filled : ofLeg(k, n)
    BY <1>4, <1>7, <2>2
  <2>3. QED
    BY <2>1, <2>2
<1>10. out \in [1..size -> Outputs]
  <2> HIDE DEF size, ofLeg
  <2>1. out = [n \in 1..size |-> out[n]]
    BY <1>7
  <2> HIDE DEF out
  <2>2. QED
    BY <1>9, <2>1
<1>11. out \in Seq(Outputs)
  <2> HIDE DEF size, out
  <2>1. QED
    BY <1>8, <1>10
<1>12. QED
  BY <1>3, <1>11 DEF legs

LEMMA SpendGrows ==
  ASSUME ChainInv, NEW id \in TxIds, NEW S \in SUBSET Unspent, NEW kinds \in [S -> Kinds],
         NEW w \in SUBSET Wallet, IsFiniteSet(w), Spend(id, kinds, w)
  PROVE  ChainInv' /\ ChainGrows
<1> DEFINE all == S \cup w
           refs == InOrder(all)
           inputs == [i \in DOMAIN refs |->
                        [ref |-> refs[i], redeemer |-> IF refs[i] \in S THEN kinds[refs[i]] ELSE None]]
           out == Layout(InOrder(S), kinds)
<1>1. S \subseteq Orders /\ IsFiniteSet(S) /\ DOMAIN kinds = S
  BY OrdersOfChain, OrdersFinite, FS_Subset
<1>2. all \subseteq OutputRefs /\ IsFiniteSet(all)
  <2>1. S \subseteq OutputRefs
    BY <1>1, OrdersOfChain
  <2>2. w \subseteq OutputRefs
    BY ChainAssumption DEF OutputRefs
  <2>3. QED
    BY <1>1, <2>1, <2>2, FS_Union
<1>3. Cardinality(all) \in Nat /\ refs \in [1..Cardinality(all) -> all]
  BY <1>2, InOrderListsAll
<1>4. Include(id, inputs, out)
  BY <1>1 DEF Spend
<1>5. out \in Seq(Outputs)
  BY <1>1, LayoutTyped
<1> HIDE DEF refs, out
<1>6. ASSUME NEW i \in 1..Cardinality(all)
      PROVE  /\ inputs[i] \in Inputs
             /\ inputs[i].redeemer # None <=> inputs[i].ref \in Refs
             /\ inputs[i].redeemer # None => inputs[i].ref \in OrdersSeen
  <2>1. refs[i] \in all /\ refs[i] \in OutputRefs
    BY <1>2, <1>3
  <2>2. inputs[i].ref = refs[i]
        /\ inputs[i].redeemer = (IF refs[i] \in S THEN kinds[refs[i]] ELSE None)
        /\ inputs[i] = [ref |-> refs[i], redeemer |-> inputs[i].redeemer]
    BY <1>3
  <2>3. CASE refs[i] \in S
    <3>1. kinds[refs[i]] \in Kinds /\ kinds[refs[i]] # None
      BY <2>3, ChainAssumption DEF Kinds
    <3>2. refs[i] \in OrdersSeen /\ refs[i] \in Refs
      BY <1>1, <2>3, OrdersOfChain
    <3>3. QED
      BY <2>1, <2>2, <2>3, <3>1, <3>2 DEF Inputs
  <2>4. CASE refs[i] \notin S
    <3>1. refs[i] \in Wallet
      BY <2>1, <2>4
    <3>2. refs[i] \notin Refs
      BY <3>1, ChainAssumption DEF Refs
    <3>3. QED
      BY <2>1, <2>2, <2>4, <3>2 DEF Inputs
  <2>5. QED
    BY <2>3, <2>4
<1>7. DOMAIN inputs = 1..Cardinality(all)
  BY <1>3
<1>8. inputs \in Seq(Inputs)
  <2>1. inputs \in [1..Cardinality(all) -> Inputs]
    BY <1>3, <1>6
  <2> HIDE DEF inputs, all
  <2>2. QED
    BY <1>3, <2>1
<1> HIDE DEF inputs, all
<1>9. QED
  BY <1>4, <1>5, <1>6, <1>7, <1>8, IncludeGrows

LEMMA BlockGrows == ASSUME ChainInv, Block PROVE ChainInv' /\ ChainGrows
<1>1. chain' = chain /\ mempool' = mempool /\ height' = height + 1 /\ height \in Nat
  BY DEF Block, ChainInv
<1>2. EverSeen' = EverSeen /\ \A id \in EverSeen : Seen(id)' = Seen(id)
  BY <1>1 DEF EverSeen, Seen
<1>3. ChainGrows
  BY <1>1, <1>2 DEF ChainGrows
<1>4. \A id \in EverSeen' : OrdersSpent(Seen(id))'
  BY <1>2, <1>3, OrdersStay DEF ChainInv
<1>5. QED
  BY <1>1, <1>2, <1>3, <1>4 DEF ChainInv

(* Between chain and mempool transactions only move.                       *)
LEMMA MovedGrows ==
  ASSUME ChainInv, EverSeen' = EverSeen, DOMAIN chain' \cap DOMAIN mempool' = {},
         height' = height,
         \A id \in EverSeen : /\ Seen(id)' \in Transactions
                              /\ Seen(id)'.inputs = Seen(id).inputs
                              /\ Seen(id)'.outputs = Seen(id).outputs
  PROVE  ChainInv' /\ ChainGrows
<1>1. ChainGrows
  BY DEF ChainGrows, ChainInv
<1>2. \A id \in EverSeen' : OrdersSpent(Seen(id))'
  BY <1>1, OrdersStay DEF ChainInv
<1>3. QED
  BY <1>1, <1>2 DEF ChainInv

LEMMA ReincludeGrows ==
  ASSUME ChainInv, NEW id \in DOMAIN mempool, Reinclude(id)
  PROVE  ChainInv' /\ ChainGrows
<1> DEFINE tx == [mempool[id] EXCEPT !.height = height]
<1>1. /\ DOMAIN chain' = DOMAIN chain \cup {id} /\ DOMAIN mempool' = DOMAIN mempool \ {id}
      /\ \A t \in DOMAIN mempool \ {id} : mempool'[t] = mempool[t]
      /\ height' = height
  BY DEF Reinclude
<1>2. id \notin DOMAIN chain
  BY DEF ChainInv
<1>3. chain'[id] = tx /\ \A t \in DOMAIN chain : chain'[t] = chain[t]
  BY <1>2 DEF Reinclude
<1>4. Seen(id) = mempool[id] /\ Seen(id) \in Transactions /\ Seen(id)' = tx
  BY <1>1, <1>2, <1>3 DEF Seen, ChainInv, EverSeen
<1>5. tx \in Transactions /\ tx.inputs = Seen(id).inputs /\ tx.outputs = Seen(id).outputs
  BY <1>4 DEF Transactions, ChainInv
<1>6. EverSeen' = EverSeen /\ DOMAIN chain' \cap DOMAIN mempool' = {}
  BY <1>1 DEF EverSeen, ChainInv
<1>7. \A t \in EverSeen \ {id} : Seen(t)' = Seen(t) /\ Seen(t) \in Transactions
  BY <1>1, <1>3 DEF Seen, EverSeen, ChainInv
<1> HIDE DEF tx
<1>8. QED
  BY <1>1, <1>4, <1>5, <1>6, <1>7, MovedGrows

LEMMA RollbackGrows == ASSUME ChainInv, Rollback PROVE ChainInv' /\ ChainGrows
<1> DEFINE undone == {id \in DOMAIN chain : chain[id].height = height}
<1>1. /\ DOMAIN chain' = DOMAIN chain \ undone /\ DOMAIN mempool' = DOMAIN mempool \cup undone
      /\ \A id \in DOMAIN chain \ undone : chain'[id] = chain[id]
      /\ \A id \in DOMAIN mempool \cup undone :
           mempool'[id] = IF id \in undone THEN chain[id] ELSE mempool[id]
      /\ height' = height
  BY DEF Rollback
<1>2. undone \subseteq DOMAIN chain /\ DOMAIN chain \cap DOMAIN mempool = {}
  BY DEF ChainInv
<1> HIDE DEF undone
<1>3. EverSeen' = EverSeen /\ DOMAIN chain' \cap DOMAIN mempool' = {}
  BY <1>1, <1>2 DEF EverSeen
<1>4. \A id \in EverSeen : Seen(id)' = Seen(id)
  BY <1>1, <1>2 DEF EverSeen, Seen
<1>5. QED
  BY <1>1, <1>3, <1>4, MovedGrows DEF ChainInv

LEMMA ChainStepGrows == ASSUME ChainInv, ChainStep PROVE ChainInv' /\ ChainGrows
<1>1. CASE Block
  BY <1>1, BlockGrows
<1>2. ASSUME NEW id \in TxIds, NEW o \in Owners, Create(id, o) PROVE ChainInv' /\ ChainGrows
  BY <1>2, CreateGrows
<1>3. \A w \in {{}} \cup {{v} : v \in Wallet} : w \in SUBSET Wallet /\ IsFiniteSet(w)
  BY FS_EmptySet, FS_Singleton
<1>4. ASSUME NEW id \in TxIds, NEW w \in {{}} \cup {{v} : v \in Wallet},
             NEW S \in SUBSET Unspent \ {{}},
             NEW kinds \in [S -> {"TakeOrder", "TakeOrderPartial"}], Spend(id, kinds, w)
      PROVE  ChainInv' /\ ChainGrows
  <2>1. kinds \in [S -> Kinds]
    BY DEF Kinds
  <2>2. w \in SUBSET Wallet /\ IsFiniteSet(w) /\ S \in SUBSET Unspent
    BY <1>3
  <2>3. QED
    BY <1>4, <2>1, <2>2, SpendGrows
<1>5. ASSUME NEW id \in TxIds, NEW r \in Unspent, NEW w \in {{}} \cup {{v} : v \in Wallet},
             Spend(id, [x \in {r} |-> "CancelOrder"], w)
      PROVE  ChainInv' /\ ChainGrows
  <2> DEFINE kinds == [x \in {r} |-> "CancelOrder"]
  <2>1. kinds \in [{r} -> Kinds] /\ {r} \in SUBSET Unspent
    BY DEF Kinds
  <2>2. w \in SUBSET Wallet /\ IsFiniteSet(w)
    BY <1>3
  <2> HIDE DEF kinds
  <2>3. QED
    BY <1>5, <2>1, <2>2, SpendGrows DEF kinds
<1>6. ASSUME NEW id \in DOMAIN mempool, Reinclude(id) PROVE ChainInv' /\ ChainGrows
  BY <1>6, ReincludeGrows
<1>7. QED
  BY <1>1, <1>2, <1>4, <1>5, <1>6 DEF ChainStep

LEMMA ChainStays == ASSUME ChainInv, UNCHANGED chainVars PROVE ChainInv' /\ ChainGrows
<1>1. EverSeen' = EverSeen /\ \A id \in EverSeen : Seen(id)' = Seen(id)
  BY DEF chainVars, EverSeen, Seen
<1>2. QED
  BY <1>1, MovedGrows DEF ChainInv, chainVars

----------------------------------------------------------------------------
(***************************************************************************)
(* The cache and the processes.                                            *)
(***************************************************************************)
Points ==
  { "idle", "fetch", "scan", "confirm", "walk", "reopen", "close", "link",
    "list", "vanished", "mark", "lineage", "surface", "repair" }

Links    == [child : Refs, parent : Refs]
Verdicts == [status : Statuses \cup {None}, tx : TxIds \cup {None}, child : Refs \cup {None}]

Processes ==
  [ pc : Points, tip : Nat, holders : SUBSET (Owners \cup {None}), page : SUBSET Refs,
    seen : SUBSET Refs, todo : SUBSET Refs, cur : Refs \cup {None}, known : BOOLEAN,
    links : Seq(Links), root : Refs \cup {None}, verdict : Verdicts ]

(* Transaction id spends ref under that redeemer.                          *)
SpentUnder(ref, id, redeemer) ==
  id \in EverSeen /\ [ref |-> ref, redeemer |-> redeemer] \in ToSet(Seen(id).inputs)

(* The creating transaction of the child takes the parent in part.         *)
LinkTrue(link) ==
  /\ link.child \in OrdersSeen /\ link.parent \in OrdersSeen
  /\ SpentUnder(link.parent, link.child[1], "TakeOrderPartial")

VerdictTrue(ref, v) ==
  /\ v.status \in Statuses \ {"open"}
  /\ v.tx \in EverSeen \cup {None}
  /\ v.child \in OrdersSeen \cup {None}
  /\ v.status # "unknown" => SpentUnder(ref, v.tx, RedeemerOf(v.status))

(* What a process remembers.                                               *)
Remembers(r) ==
  /\ r.tip <= height
  /\ r.page \cup r.seen \cup r.todo \subseteq OrdersSeen
  /\ r.cur \in OrdersSeen \cup {None}
  /\ r.pc \in {"confirm", "walk", "reopen", "close", "link", "mark", "lineage", "surface"}
       => r.cur \in OrdersSeen
  /\ \A i \in DOMAIN r.links : LinkTrue(r.links[i])
  /\ r.pc \in {"reopen", "close", "link"} => r.links # << >> /\ r.root \in OrdersSeen
  /\ r.pc = "mark" => VerdictTrue(r.cur, r.verdict)
  /\ r.pc \in {"lineage", "surface"} => r.verdict.child \in OrdersSeen

RowsTrue ==
  /\ DOMAIN row \subseteq OrdersSeen
  /\ \A ref \in DOMAIN row : row[ref] \in [status : Statuses, tx : EverSeen \cup {None}]
  /\ StatusTrue

LineageTyped ==
  /\ DOMAIN lineage \subseteq OrdersSeen
  /\ \A ref \in DOMAIN lineage : lineage[ref] \in [parent : OrdersSeen, root : OrdersSeen]

ProcsTrue ==
  /\ proc \in [Procs -> Processes]
  /\ \A p \in Procs : Remembers(proc[p])

CacheInv ==
  ChainInv /\ RowsTrue /\ LineageTyped /\ ProcsTrue /\ current \in Sessions

LEMMA FrontLast ==
  ASSUME NEW X, NEW s \in Seq(X), s # << >>
  PROVE  /\ Front(s) \in Seq(X) /\ Len(Front(s)) = Len(s) - 1 /\ Len(s) \in Nat \ {0}
         /\ \A i \in DOMAIN Front(s) : i \in DOMAIN s /\ Front(s)[i] = s[i]
         /\ Last(s) \in X /\ Len(s) \in DOMAIN s /\ Last(s) = s[Len(s)]
         /\ Len(s) = 1 <=> Front(s) = << >>
<1>1. Len(s) \in Nat \ {0} /\ DOMAIN s = 1..Len(s)
  OBVIOUS
<1>2. Front(s) = [i \in 1..(Len(s) - 1) |-> s[i]]
  BY <1>1 DEF Front
<1>3. Front(s) \in Seq(X) /\ Len(Front(s)) = Len(s) - 1
  BY <1>1, <1>2
<1>4. \A i \in DOMAIN Front(s) : i \in DOMAIN s /\ Front(s)[i] = s[i]
  BY <1>1, <1>2
<1>5. Last(s) = s[Len(s)] /\ Last(s) \in X /\ Len(s) \in DOMAIN s
  BY <1>1 DEF Last
<1>6. Len(s) = 1 <=> Front(s) = << >>
  <2> DEFINE f == Front(s)
  <2>1. f = << >> <=> Len(f) = 0
    <3>1. f \in Seq(X)
      BY <1>3
    <3> HIDE DEF f
    <3>2. QED
      BY <3>1
  <2>2. QED
    BY <1>1, <1>3, <2>1
<1>7. QED
  BY <1>1, <1>3, <1>4, <1>5, <1>6

LEMMA SpentUnderStays ==
  ASSUME ChainGrows, NEW ref, NEW id, NEW redeemer, SpentUnder(ref, id, redeemer)
  PROVE  SpentUnder(ref, id, redeemer)'
BY DEF SpentUnder, ChainGrows

LEMMA LinkStays ==
  ASSUME ChainGrows, NEW link, LinkTrue(link)
  PROVE  LinkTrue(link)'
BY OrdersStay, SpentUnderStays DEF LinkTrue

LEMMA RemembersStays ==
  ASSUME ChainGrows, NEW r \in Processes, Remembers(r)
  PROVE  Remembers(r)'
<1>1. OrdersSeen \subseteq OrdersSeen' /\ EverSeen \subseteq EverSeen' /\ r.tip <= height'
  <2>1. r.tip \in Nat /\ r.tip <= height
    BY DEF Processes, Remembers
  <2>2. QED
    BY <2>1, OrdersStay DEF ChainGrows
<1>2. \A i \in DOMAIN r.links : LinkTrue(r.links[i])'
  BY LinkStays DEF Remembers
<1>3. r.pc = "mark" => VerdictTrue(r.cur, r.verdict)'
  BY <1>1, SpentUnderStays DEF VerdictTrue, Remembers
<1>4. QED
  BY <1>1, <1>2, <1>3 DEF Remembers

(* StatusTrue in other words.                                              *)
RowsSpent ==
  \A ref \in DOMAIN row : \A id, redeemer :
    /\ row[ref].status \notin {"open", "unknown"}
    /\ id = row[ref].tx /\ redeemer = RedeemerOf(row[ref].status)
    => SpentUnder(ref, id, redeemer)

LEMMA StatusFromRows == StatusTrue <=> RowsSpent
BY DEF StatusTrue, RowsSpent, SpentUnder

LEMMA RowsStay == ASSUME ChainGrows, RowsTrue, row' = row PROVE RowsTrue'
<1>1. RowsSpent
  BY StatusFromRows DEF RowsTrue
<1>2. RowsSpent'
  BY <1>1, SpentUnderStays DEF RowsSpent, RedeemerOf
<1>3. StatusTrue'
  <2>1. (StatusTrue <=> RowsSpent)'
    BY StatusFromRows, PTL
  <2>2. QED
    BY <1>2, <2>1
<1>4. QED
  BY <1>3, OrdersStay DEF RowsTrue, ChainGrows

LEMMA LineageStays == ASSUME ChainGrows, LineageTyped, lineage' = lineage PROVE LineageTyped'
BY OrdersStay DEF LineageTyped

(* A process that goes on with what it remembers.                          *)
LEMMA GoesOn ==
  ASSUME CacheInv, NEW p \in Procs, NEW r \in Processes, Remembers(r), Becomes(p, r),
         UNCHANGED chainVars
  PROVE  ChainInv' /\ ChainGrows /\ ProcsTrue'
<1>1. ChainInv' /\ ChainGrows
  BY ChainStays DEF CacheInv
<1>2. proc' \in [Procs -> Processes] /\ \A q \in Procs : proc'[q] \in {proc[q], r}
  BY DEF Becomes, CacheInv, ProcsTrue
<1>3. \A q \in Procs : proc[q] \in Processes /\ Remembers(proc[q])
  BY DEF CacheInv, ProcsTrue
<1>4. ASSUME NEW q \in Procs PROVE Remembers(proc[q])'
  <2>1. ASSUME NEW x \in Processes, Remembers(x) PROVE Remembers(x)'
    BY <1>1, <2>1, RemembersStays
  <2>2. CASE proc'[q] = proc[q]
    BY <1>3, <2>1, <2>2
  <2>3. CASE proc'[q] = r
    BY <2>1, <2>3
  <2>4. QED
    BY <1>2, <2>2, <2>3
<1>5. QED
  BY <1>1, <1>2, <1>4 DEF ProcsTrue

----------------------------------------------------------------------------
(***************************************************************************)
(* Reading the chain, and writing to the cache.                            *)
(***************************************************************************)
LEMMA PartialInput ==
  ASSUME ChainInv, NEW id \in DOMAIN chain, NEW n \in Nat, n < Cardinality(PartialInputs(chain[id]))
  PROVE  LET k == Nth(PartialInputs(chain[id]), n) IN
         /\ k \in PartialInputs(chain[id]) /\ chain[id].inputs[k] \in Inputs
         /\ SpentUnder(chain[id].inputs[k].ref, id, "TakeOrderPartial")
<1> DEFINE tx == chain[id]
           k == Nth(PartialInputs(tx), n)
<1>1. tx \in Transactions /\ Seen(id) = tx /\ id \in EverSeen
  BY DEF ChainInv, EverSeen, Seen
<1>2. PartialInputs(tx) \subseteq Int /\ IsFiniteSet(PartialInputs(tx))
  BY <1>1, PositionsFinite
<1> HIDE DEF tx
<1>3. k \in PartialInputs(tx)
  BY <1>2, NthIsMember DEF tx
<1> HIDE DEF k
<1>4. k \in DOMAIN tx.inputs /\ tx.inputs[k] \in Inputs /\ tx.inputs[k].redeemer = "TakeOrderPartial"
  BY <1>1, <1>3 DEF PartialInputs, Transactions
<1>5. tx.inputs[k] = [ref |-> tx.inputs[k].ref, redeemer |-> "TakeOrderPartial"]
  BY <1>4 DEF Inputs
<1>6. [ref |-> tx.inputs[k].ref, redeemer |-> "TakeOrderPartial"] \in ToSet(Seen(id).inputs)
  BY <1>1, <1>4, <1>5 DEF ToSet
<1>7. QED
  BY <1>1, <1>3, <1>4, <1>6 DEF SpentUnder, tx, k

LEMMA ParentTrue ==
  ASSUME ChainInv, NEW ref \in OrdersSeen, ParentOnChain(ref) # None
  PROVE  LET link == [child |-> ref, parent |-> ParentOnChain(ref)]
         IN  link \in Links /\ LinkTrue(link) /\ ParentOnChain(ref) \in Orders
<1> DEFINE tx == chain[ref[1]]
           rank == Rank(OrderOutputs(tx), ref[2])
           parent == tx.inputs[Nth(PartialInputs(tx), rank)].ref
<1>1. OnChain(ref)
  BY DEF ParentOnChain
<1>2. ref[1] \in DOMAIN chain /\ tx \in Transactions
  BY <1>1 DEF OnChain, ChainInv, EverSeen, Seen
<1>3. rank < Cardinality(PartialInputs(tx)) /\ parent \in Orders /\ ParentOnChain(ref) = parent
  <2>1. rank \in Nat /\ Cardinality(PartialInputs(tx)) \in Nat
    BY <1>2, PositionsFinite, RankIsNat, FS_CardinalityType
  <2>2. ~(rank >= Cardinality(PartialInputs(tx)))
    BY <1>1 DEF ParentOnChain
  <2>3. ParentOnChain(ref) = IF parent \in Orders THEN parent ELSE None
    BY <1>1, <2>2 DEF ParentOnChain
  <2>4. QED
    BY <2>1, <2>2, <2>3
<1>4. rank \in Nat
  BY <1>2, PositionsFinite, RankIsNat
<1> HIDE DEF rank
<1>5. SpentUnder(parent, ref[1], "TakeOrderPartial")
  BY <1>2, <1>3, <1>4, PartialInput
<1>6. parent \in OrdersSeen /\ parent \in Refs /\ ref \in Refs
  BY <1>3, OrdersOfChain
<1> HIDE DEF parent
<1>7. QED
  BY <1>3, <1>5, <1>6 DEF Links, LinkTrue

LEMMA UnknownTrue ==
  ASSUME NEW ref, NEW id \in EverSeen \cup {None}, EverSeen \subseteq TxIds
  PROVE  Unknown(id) \in Verdicts /\ VerdictTrue(ref, Unknown(id))
BY DEF Unknown, Verdicts, VerdictTrue, Statuses

(* How an order is told to have been spent is how it was.                  *)
LEMMA ClassifyTrue ==
  ASSUME ChainInv, NEW ref \in OrdersSeen
  PROVE  classifySpend(ref) \in Verdicts /\ VerdictTrue(ref, classifySpend(ref))
<1> DEFINE id == CHOOSE t \in SpentBy(ref) : TRUE
           tx == chain[id]
           at == CHOOSE i \in DOMAIN tx.inputs : tx.inputs[i].ref = ref
           kind == tx.inputs[at].redeemer
           rank == Rank(PartialInputs(tx), at)
           child == IF rank < Cardinality(OrderOutputs(tx))
                    THEN <<id, Nth(OrderOutputs(tx), rank)>> ELSE None
<1>1. CASE ~OnChain(ref) \/ SpentBy(ref) = {}
  <2>1. classifySpend(ref) = Unknown(None)
    BY <1>1 DEF classifySpend
  <2>2. QED
    BY <2>1, UnknownTrue DEF ChainInv
<1>2. CASE OnChain(ref) /\ SpentBy(ref) # {}
  <2>1. id \in DOMAIN chain /\ Spends(tx, ref)
    BY <1>2 DEF SpentBy
  <2>2. tx \in Transactions /\ Seen(id) = tx /\ id \in EverSeen /\ id \in TxIds
        /\ OrdersSpent(tx)
    BY <2>1 DEF ChainInv, EverSeen, Seen
  <2>3. classifySpend(ref) =
          CASE kind = "CancelOrder" -> [status |-> "cancelled", tx |-> id, child |-> None]
            [] kind = "TakeOrder"   -> [status |-> "taken", tx |-> id, child |-> None]
            [] kind = "TakeOrderPartial" ->
                 [status |-> "partially_filled", tx |-> id, child |-> child]
    BY <1>2 DEF classifySpend
  <2>4. ref \in Refs
    BY OrdersOfChain
  <2> HIDE DEF id
  <2>5. at \in DOMAIN tx.inputs /\ tx.inputs[at].ref = ref
    BY <2>1 DEF Spends
  <2> HIDE DEF at
  <2>6. tx.inputs[at] \in Inputs /\ tx.inputs[at] = [ref |-> ref, redeemer |-> kind]
    <3>1. tx.inputs \in Seq(Inputs)
      BY <2>2 DEF Transactions
    <3> HIDE DEF tx
    <3>2. tx.inputs[at] \in Inputs
      BY <2>5, <3>1
    <3>3. QED
      BY <2>5, <3>2 DEF Inputs
  <2>7. kind \in Kinds
    BY <2>2, <2>4, <2>5, <2>6 DEF OrdersSpent, Inputs
  <2>8. SpentUnder(ref, id, kind)
    BY <2>2, <2>5, <2>6 DEF SpentUnder, ToSet
  <2>9. child \in OrdersSeen \cup {None}
    <3>1. rank \in Nat /\ OrderOutputs(tx) \subseteq Int /\ IsFiniteSet(OrderOutputs(tx))
      BY <2>2, PositionsFinite, RankIsNat
    <3> HIDE DEF rank, tx
    <3>2. rank < Cardinality(OrderOutputs(tx)) => Nth(OrderOutputs(tx), rank) \in OrderOutputs(tx)
      BY <3>1, NthIsMember
    <3>3. QED
      BY <2>2, <3>2 DEF OrdersSeen
  <2> HIDE DEF child, kind
  <2>10. child \in Refs \cup {None}
    BY <2>9, OrdersOfChain
  <2>11. CASE kind = "CancelOrder"
    <3>1. classifySpend(ref) = [status |-> "cancelled", tx |-> id, child |-> None]
      BY <2>3, <2>11
    <3>2. QED
      BY <2>2, <2>8, <2>11, <3>1 DEF Verdicts, VerdictTrue, Statuses, RedeemerOf
  <2>12. CASE kind = "TakeOrder"
    <3>1. classifySpend(ref) = [status |-> "taken", tx |-> id, child |-> None]
      BY <2>3, <2>12
    <3>2. QED
      BY <2>2, <2>8, <2>12, <3>1 DEF Verdicts, VerdictTrue, Statuses, RedeemerOf
  <2>13. CASE kind = "TakeOrderPartial"
    <3>1. classifySpend(ref) = [status |-> "partially_filled", tx |-> id, child |-> child]
      BY <2>3, <2>13
    <3>2. QED
      BY <2>2, <2>8, <2>9, <2>10, <2>13, <3>1 DEF Verdicts, VerdictTrue, Statuses, RedeemerOf
  <2>14. QED
    BY <2>7, <2>11, <2>12, <2>13 DEF Kinds
<1>3. QED
  BY <1>1, <1>2

LEMMA UpsertKeeps ==
  ASSUME RowsTrue, ChainGrows, NEW ref \in OrdersSeen, upsertOpenOrder(ref)
  PROVE  RowsTrue'
<1> DEFINE new == [status |-> "open", tx |-> IF Durable /\ ref \in DOMAIN row THEN row[ref].tx ELSE None]
<1>1. /\ DOMAIN row' = DOMAIN row \cup {ref} /\ row'[ref] = new
      /\ \A r \in DOMAIN row \ {ref} : row'[r] = row[r]
  BY DEF upsertOpenOrder, Put
<1>2. new \in [status : Statuses, tx : EverSeen' \cup {None}]
  BY DEF RowsTrue, Statuses, ChainGrows
<1>3. \A r \in DOMAIN row \ {ref} : row[r] \in [status : Statuses, tx : EverSeen' \cup {None}]
  BY DEF RowsTrue, ChainGrows
<1>4. RowsSpent
  BY StatusFromRows DEF RowsTrue
<1>5. StatusTrue'
  <2>1. ASSUME NEW r \in DOMAIN row', NEW id, NEW redeemer, row'[r].status \notin {"open", "unknown"},
               id = row'[r].tx, redeemer = RedeemerOf(row'[r].status)
        PROVE  SpentUnder(r, id, redeemer)'
    <3>1. r \in DOMAIN row \ {ref} /\ row'[r] = row[r]
      BY <1>1, <2>1
    <3>2. SpentUnder(r, id, redeemer)
      BY <1>4, <2>1, <3>1 DEF RowsSpent
    <3>3. QED
      BY <3>2, SpentUnderStays
  <2>2. RowsSpent'
    BY <2>1 DEF RowsSpent, RedeemerOf
  <2>3. (StatusTrue <=> RowsSpent)'
    BY StatusFromRows, PTL
  <2>4. QED
    BY <2>2, <2>3
<1>6. QED
  BY <1>1, <1>2, <1>3, <1>5, OrdersStay DEF RowsTrue

LEMMA MarkKeeps ==
  ASSUME RowsTrue, ChainGrows, NEW ref, NEW status \in Statuses \ {"open"},
         NEW tx \in EverSeen \cup {None}, markSpent(ref, status, tx),
         status # "unknown" => SpentUnder(ref, tx, RedeemerOf(status)),
         EverSeen \subseteq TxIds
  PROVE  RowsTrue'
<1>1. CASE ref \notin DOMAIN row
  <2>1. row' = row
    BY <1>1 DEF markSpent
  <2>2. QED
    BY <2>1, RowsStay
<1>2. CASE ref \in DOMAIN row
  <2> DEFINE new == [status |-> status, tx |-> IF Durable \/ tx # None THEN tx ELSE row[ref].tx]
  <2>1. /\ DOMAIN row' = DOMAIN row /\ row'[ref] = new
        /\ \A r \in DOMAIN row \ {ref} : row'[r] = row[r]
    BY <1>2 DEF markSpent
  <2>2. new \in [status : Statuses, tx : EverSeen' \cup {None}]
    BY <1>2 DEF RowsTrue, ChainGrows
  <2>3. \A r \in DOMAIN row \ {ref} : row[r] \in [status : Statuses, tx : EverSeen' \cup {None}]
    BY DEF RowsTrue, ChainGrows
  <2>4. RowsSpent
    BY StatusFromRows DEF RowsTrue
  <2>5. status # "unknown" => new.tx = tx
    BY ChainAssumption DEF SpentUnder
  <2>6. StatusTrue'
    <3>1. ASSUME NEW r \in DOMAIN row', NEW id, NEW redeemer, row'[r].status \notin {"open", "unknown"},
                 id = row'[r].tx, redeemer = RedeemerOf(row'[r].status)
          PROVE  SpentUnder(r, id, redeemer)'
      <4>1. CASE r # ref
        <5>1. r \in DOMAIN row \ {ref} /\ row'[r] = row[r]
          BY <2>1, <3>1, <4>1
        <5>2. SpentUnder(r, id, redeemer)
          BY <2>4, <3>1, <5>1 DEF RowsSpent
        <5>3. QED
          BY <5>2, SpentUnderStays
      <4>2. CASE r = ref
        <5>1. status # "unknown" /\ id = tx /\ redeemer = RedeemerOf(status)
          BY <2>1, <2>5, <3>1, <4>2
        <5>2. SpentUnder(r, id, redeemer)
          BY <4>2, <5>1
        <5>3. QED
          BY <5>2, SpentUnderStays
      <4>3. QED
        BY <4>1, <4>2
    <3>2. RowsSpent'
      BY <3>1 DEF RowsSpent, RedeemerOf
    <3>3. (StatusTrue <=> RowsSpent)'
      BY StatusFromRows, PTL
    <3>4. QED
      BY <3>2, <3>3
  <2>7. QED
    BY <2>1, <2>2, <2>3, <2>6, OrdersStay DEF RowsTrue
<1>3. QED
  BY <1>1, <1>2

LEMMA SetLineageKeeps ==
  ASSUME LineageTyped, ChainGrows, NEW child \in OrdersSeen, NEW parent \in OrdersSeen,
         NEW root \in OrdersSeen, setLineage(child, parent, root)
  PROVE  LineageTyped'
<1>1. /\ DOMAIN lineage' \subseteq DOMAIN lineage \cup {child}
      /\ \A ref \in DOMAIN lineage' :
           \/ ref \in DOMAIN lineage /\ lineage'[ref] = lineage[ref]
           \/ lineage'[ref] = [parent |-> parent, root |-> root]
  BY DEF setLineage, Put
<1>2. \A ref \in DOMAIN lineage' : lineage'[ref] \in [parent : OrdersSeen, root : OrdersSeen]
  BY <1>1 DEF LineageTyped
<1>3. QED
  BY <1>1, <1>2, OrdersStay DEF LineageTyped

----------------------------------------------------------------------------
(***************************************************************************)
(* The actions keep the invariant.                                         *)
(***************************************************************************)
LEMMA OneProcess ==
  ASSUME CacheInv, NEW p \in Procs
  PROVE  /\ proc[p] \in Processes /\ Remembers(proc[p])
         /\ ChainInv /\ RowsTrue /\ LineageTyped /\ EverSeen \subseteq TxIds
         /\ OrdersSeen \subseteq Refs /\ Unspent \subseteq OrdersSeen
         /\ open \subseteq OrdersSeen
BY OrdersOfChain DEF CacheInv, ProcsTrue, ChainInv, RowsTrue, open

LEMMA ProcessTyped == ASSUME CacheInv, NEW p \in Procs PROVE proc[p] \in Processes
  BY OneProcess

LEMMA IdleRemembers == Idle \in Processes /\ (height \in Nat => Remembers(Idle))
BY DEF Idle, Processes, Points, Verdicts, Remembers

(* A process that goes on and writes nothing.                              *)
LEMMA OnlyReads ==
  ASSUME CacheInv, NEW p \in Procs, NEW r \in Processes, Remembers(r), Becomes(p, r),
         UNCHANGED chainVars, UNCHANGED <<row, lineage, current>>
  PROVE  CacheInv'
<1>1. ChainInv' /\ ChainGrows /\ ProcsTrue'
  BY GoesOn
<1>2. RowsTrue' /\ LineageTyped'
  BY <1>1, RowsStay, LineageStays DEF CacheInv
<1>3. QED
  BY <1>1, <1>2 DEF CacheInv

MarksTruly(ref, status, tx) ==
  /\ status \in Statuses \ {"open"} /\ tx \in EverSeen \cup {None}
  /\ markSpent(ref, status, tx)
  /\ status # "unknown" => SpentUnder(ref, tx, RedeemerOf(status))

(* A process that writes to the table of orders.                           *)
LEMMA WritesRows ==
  ASSUME CacheInv, NEW p \in Procs, NEW r \in Processes, Remembers(r), Becomes(p, r),
         UNCHANGED chainVars, UNCHANGED <<lineage, current>>,
         \/ \E ref \in OrdersSeen : upsertOpenOrder(ref)
         \/ \E ref, status, tx : MarksTruly(ref, status, tx)
  PROVE  CacheInv'
<1>1. ChainInv' /\ ChainGrows /\ ProcsTrue'
  BY GoesOn
<1>2. RowsTrue'
  <2>1. CASE \E ref \in OrdersSeen : upsertOpenOrder(ref)
    BY <1>1, <2>1, UpsertKeeps DEF CacheInv
  <2>2. ASSUME NEW ref, NEW status, NEW tx, MarksTruly(ref, status, tx) PROVE RowsTrue'
    BY <1>1, <2>2, MarkKeeps DEF MarksTruly, CacheInv, ChainInv
  <2>3. QED
    BY <2>1, <2>2
<1>3. LineageTyped'
  BY <1>1, LineageStays DEF CacheInv
<1>4. QED
  BY <1>1, <1>2, <1>3 DEF CacheInv

(* A process that writes to the table of lineage.                          *)
LEMMA WritesLineage ==
  ASSUME CacheInv, NEW p \in Procs, NEW r \in Processes, Remembers(r), Becomes(p, r),
         UNCHANGED chainVars, UNCHANGED <<row, current>>,
         NEW child \in OrdersSeen, NEW parent \in OrdersSeen, NEW root \in OrdersSeen,
         setLineage(child, parent, root)
  PROVE  CacheInv'
<1>1. ChainInv' /\ ChainGrows /\ ProcsTrue'
  BY GoesOn
<1>2. RowsTrue' /\ LineageTyped'
  BY <1>1, RowsStay, SetLineageKeeps DEF CacheInv
<1>3. QED
  BY <1>1, <1>2 DEF CacheInv

LEMMA BeginKeeps == ASSUME CacheInv, NEW p \in Procs, Begin(p) PROVE CacheInv'
<1> DEFINE r == [Idle EXCEPT !.pc = "fetch", !.tip = height,
                             !.holders = {OwnerOf(ref) : ref \in Unspent}]
<1>1. {OwnerOf(ref) : ref \in Unspent} \subseteq Owners \cup {None}
  <2> SUFFICES ASSUME NEW ref \in Unspent PROVE OwnerOf(ref) \in Owners \cup {None}
    OBVIOUS
  <2>1. ref[1] \in DOMAIN chain /\ ref \in OrdersSeen
    BY OrdersOfChain DEF CacheInv
  <2>2. chain[ref[1]] \in Transactions /\ ref[2] \in OrderOutputs(chain[ref[1]])
    BY <2>1, OrdersOfChain DEF CacheInv, ChainInv, EverSeen, Seen
  <2>3. chain[ref[1]].outputs[ref[2]] \in Outputs
    BY <2>2 DEF Transactions, OrderOutputs
  <2>4. QED
    BY <2>3 DEF OwnerOf, Outputs
<1>2. height \in Nat
  BY DEF CacheInv, ChainInv
<1>3. r \in Processes
  BY <1>1, <1>2, IdleRemembers DEF Processes, Points
<1>4. Remembers(r)
  BY <1>2 DEF Idle, Remembers
<1>5. Becomes(p, r) /\ UNCHANGED chainVars /\ UNCHANGED <<row, lineage, current>>
  BY DEF Begin, Elsewhere, chainVars
<1> HIDE DEF r
<1>6. QED
  BY <1>3, <1>4, <1>5, OnlyReads

LEMMA NoHoldersKeeps == ASSUME CacheInv, NEW p \in Procs, NoHolders(p) PROVE CacheInv'
<1> DEFINE r == [proc[p] EXCEPT !.pc = "list"]
<1>1. r \in Processes /\ Remembers(r)
  <2>1. r \in Processes
    BY ProcessTyped, ZenonT(60) DEF Processes, Points
  <2>2. Remembers(r)
    BY OneProcess DEF Processes, Points, Remembers
  <2>3. QED
    BY <2>1, <2>2
<1>2. Becomes(p, r) /\ UNCHANGED chainVars /\ UNCHANGED <<row, lineage, current>>
  BY DEF NoHolders, Elsewhere, chainVars
<1> HIDE DEF r
<1>3. QED
  BY <1>1, <1>2, OnlyReads

(* A page of orders that are open on the chain, or of none.                *)
LEMMA PageKeeps ==
  ASSUME CacheInv, NEW p \in Procs, NEW h, NEW page \in SUBSET OrdersSeen,
         Becomes(p, [proc[p] EXCEPT !.pc = "scan", !.holders = @ \ {h},
                                    !.page = page, !.seen = @ \cup page]),
         UNCHANGED chainVars, UNCHANGED <<row, lineage, current>>
  PROVE  CacheInv'
<1> DEFINE r == [proc[p] EXCEPT !.pc = "scan", !.holders = @ \ {h},
                                !.page = page, !.seen = @ \cup page]
<1>1. page \subseteq Refs
  BY OneProcess
<1>2. r \in Processes
  BY <1>1, ProcessTyped, ZenonT(60) DEF Processes, Points
<1>3. Remembers(r)
  BY OneProcess DEF Remembers, Processes
<1> HIDE DEF r
<1>4. QED
  BY <1>2, <1>3, OnlyReads DEF r

LEMMA FetchKeeps == ASSUME CacheInv, NEW p \in Procs, Fetch(p) PROVE CacheInv'
<1>1. PICK h : Becomes(p, [proc[p] EXCEPT !.pc = "scan", !.holders = @ \ {h},
                                          !.page = {ref \in Unspent : OwnerOf(ref) = h},
                                          !.seen = @ \cup {ref \in Unspent : OwnerOf(ref) = h}])
  BY DEF Fetch
<1>2. {ref \in Unspent : OwnerOf(ref) = h} \in SUBSET OrdersSeen
  BY OneProcess
<1>3. UNCHANGED chainVars /\ UNCHANGED <<row, lineage, current>>
  BY DEF Fetch, Elsewhere, chainVars
<1>4. QED
  BY <1>1, <1>2, <1>3, PageKeeps

LEMMA FetchFailsKeeps == ASSUME CacheInv, NEW p \in Procs, FetchFails(p) PROVE CacheInv'
<1>1. PICK h : Becomes(p, [proc[p] EXCEPT !.pc = "scan", !.holders = @ \ {h}, !.page = {}])
  BY DEF FetchFails
<1> DEFINE r == [proc[p] EXCEPT !.pc = "scan", !.holders = @ \ {h}, !.page = {}]
<1>2. r \in Processes /\ Remembers(r)
  <2>1. r \in Processes
    BY ProcessTyped, ZenonT(60) DEF Processes, Points
  <2>2. Remembers(r)
    BY OneProcess DEF Processes, Points, Remembers
  <2>3. QED
    BY <2>1, <2>2
<1>3. UNCHANGED chainVars /\ UNCHANGED <<row, lineage, current>>
  BY DEF FetchFails, chainVars
<1> HIDE DEF r
<1>4. QED
  BY <1>1, <1>2, <1>3, OnlyReads DEF r

LEMMA ScanKeeps == ASSUME CacheInv, NEW p \in Procs, Scan(p) PROVE CacheInv'
<1>1. UNCHANGED chainVars /\ UNCHANGED <<row, lineage, current>>
  BY DEF Scan, Elsewhere, chainVars
<1>2. ASSUME NEW ref \in proc[p].page,
             Becomes(p, [proc[p] EXCEPT !.page = @ \ {ref},
                           !.cur   = IF cached_open(ref) THEN @ ELSE ref,
                           !.known = ~cached_open(ref) /\ ref \in DOMAIN row,
                           !.pc    = IF cached_open(ref) THEN @ ELSE "confirm"]),
             At(p, "scan")
      PROVE  CacheInv'
  <2> DEFINE cur   == IF cached_open(ref) THEN proc[p].cur ELSE ref
             known == ~cached_open(ref) /\ ref \in DOMAIN row
             pc    == IF cached_open(ref) THEN proc[p].pc ELSE "confirm"
             r     == [proc[p] EXCEPT !.page = @ \ {ref}, !.cur = cur, !.known = known, !.pc = pc]
  <2>1. ref \in OrdersSeen /\ ref \in Refs
    BY OneProcess DEF Remembers
  <2>2. Becomes(p, r)
    BY <1>2
  <2>3. cur \in Refs \cup {None} /\ known \in BOOLEAN /\ pc \in {"scan", "confirm"}
        /\ cur \in OrdersSeen \cup {None} /\ (pc = "confirm" => cur \in OrdersSeen)
    BY <1>2, <2>1, OneProcess DEF At, Processes, Remembers
  <2> HIDE DEF cur, known, pc
  <2>4. r \in Processes
    BY <2>3, ProcessTyped, ZenonT(60) DEF Processes, Points
  <2>5. Remembers(r)
    BY <2>3, OneProcess DEF Processes, Remembers
  <2> HIDE DEF r
  <2>6. QED
    BY <1>1, <2>2, <2>4, <2>5, OnlyReads
<1>3. CASE Becomes(p, [proc[p] EXCEPT !.pc = IF proc[p].holders = {} THEN "list" ELSE "fetch"])
  <2> DEFINE r == [proc[p] EXCEPT !.pc = IF proc[p].holders = {} THEN "list" ELSE "fetch"]
  <2>1. r \in Processes /\ Remembers(r)
    <3>1. r \in Processes
      BY ProcessTyped, ZenonT(60) DEF Processes, Points
    <3>2. Remembers(r)
      BY OneProcess DEF Processes, Points, Remembers
    <3>3. QED
      BY <3>1, <3>2
  <2> HIDE DEF r
  <2>2. QED
    BY <1>1, <1>3, <2>1, OnlyReads DEF r
<1>4. QED
  BY <1>2, <1>3 DEF Scan

LEMMA ConfirmKeeps == ASSUME CacheInv, NEW p \in Procs, Confirm(p) PROVE CacheInv'
<1>1. UNCHANGED chainVars /\ UNCHANGED <<lineage, current>> /\ At(p, "confirm")
  BY DEF Confirm, Elsewhere, chainVars
<1>2. CASE Confirmed(p, proc[p].cur)
  <2> DEFINE pc == IF proc[p].known THEN "scan" ELSE "walk"
             r  == [proc[p] EXCEPT !.known = FALSE, !.pc = pc]
  <2>1. proc[p].cur \in OrdersSeen
    BY <1>1, OneProcess DEF Remembers, At
  <2>2. upsertOpenOrder(proc[p].cur) /\ Becomes(p, r)
    BY <1>2 DEF Confirm
  <2>3. pc \in {"scan", "walk"}
    OBVIOUS
  <2> HIDE DEF pc
  <2>4. r \in Processes
    BY <2>3, ProcessTyped, ZenonT(60) DEF Processes, Points
  <2>5. Remembers(r)
    BY <2>1, <2>3, OneProcess DEF Processes, Remembers
  <2> HIDE DEF r
  <2>6. QED
    BY <1>1, <2>1, <2>2, <2>4, <2>5, WritesRows
<1>3. CASE ~Confirmed(p, proc[p].cur)
  <2> DEFINE r == [proc[p] EXCEPT !.known = FALSE, !.pc = "scan"]
  <2>1. r \in Processes /\ Remembers(r)
    <3>1. r \in Processes
      BY ProcessTyped, ZenonT(60) DEF Processes, Points
    <3>2. Remembers(r)
      BY OneProcess DEF Processes, Points, Remembers
    <3>3. QED
      BY <3>1, <3>2
  <2>2. Becomes(p, r) /\ row' = row
    BY <1>3 DEF Confirm
  <2> HIDE DEF r
  <2>3. QED
    BY <1>1, <2>1, <2>2, OnlyReads
<1>4. QED
  BY <1>2, <1>3

LEMMA AfterReadsKeeps ==
  ASSUME CacheInv, NEW p \in Procs, At(p, "walk"), NEW root \in OrdersSeen \cup {None},
         AfterReads(p, root), UNCHANGED chainVars, UNCHANGED <<row, lineage, current>>
  PROVE  CacheInv'
<1>1. root \in Refs \cup {None}
  BY OneProcess
<1>2. CASE proc[p].links = << >> \/ root = None
  <2> DEFINE r == [proc[p] EXCEPT !.pc = AfterWalk(p), !.links = << >>]
  <2>1. AfterWalk(p) \in {"repair", "scan"} /\ << >> \in Seq(Links) /\ DOMAIN << >> = {}
    BY DEF AfterWalk
  <2>2. r \in Processes
    BY <2>1, ProcessTyped, ZenonT(60) DEF Processes, Points
  <2>3. Remembers(r)
    BY <2>1, OneProcess DEF Processes, Remembers
  <2>4. Becomes(p, r)
    BY <1>2 DEF AfterReads
  <2> HIDE DEF r
  <2>5. QED
    BY <2>2, <2>3, <2>4, OnlyReads
<1>3. CASE ~(proc[p].links = << >> \/ root = None)
  <2> DEFINE r == [proc[p] EXCEPT !.pc = "reopen", !.root = root]
  <2>1. r \in Processes
    BY <1>1, <1>3, ProcessTyped, ZenonT(60) DEF Processes, Points
  <2>2. Remembers(r)
    BY <1>1, <1>3, OneProcess DEF Processes, Remembers, At
  <2>3. Becomes(p, r)
    BY <1>3 DEF AfterReads
  <2> HIDE DEF r
  <2>4. QED
    BY <2>1, <2>2, <2>3, OnlyReads
<1>4. QED
  BY <1>2, <1>3

(* The links of a walk, and the order it has come to, are there.           *)
LEMMA LastLink ==
  ASSUME CacheInv, NEW p \in Procs, proc[p].links # << >>
  PROVE  /\ Last(proc[p].links) \in Links /\ LinkTrue(Last(proc[p].links))
         /\ Front(proc[p].links) \in Seq(Links)
         /\ \A i \in DOMAIN Front(proc[p].links) : LinkTrue(Front(proc[p].links)[i])
         /\ Len(proc[p].links) # 1 => Front(proc[p].links) # << >>
<1> DEFINE links == proc[p].links
<1>1. links \in Seq(Links) /\ \A i \in DOMAIN links : LinkTrue(links[i])
  BY OneProcess DEF Processes, Remembers
<1> HIDE DEF links
<1>2. links # << >>
  BY DEF links
<1>3. /\ Front(links) \in Seq(Links) /\ Last(links) \in Links
      /\ \A i \in DOMAIN Front(links) : i \in DOMAIN links /\ Front(links)[i] = links[i]
      /\ Len(links) \in DOMAIN links /\ Last(links) = links[Len(links)]
      /\ Len(links) = 1 <=> Front(links) = << >>
  BY <1>1, <1>2, FrontLast
<1>4. QED
  BY <1>1, <1>3 DEF links

LEMMA ReachedSeen ==
  ASSUME CacheInv, NEW p \in Procs, At(p, "walk")
  PROVE  Reached(p) \in OrdersSeen
BY LastLink, OneProcess DEF Reached, LinkTrue, Remembers, At

LEMMA WalkKeeps == ASSUME CacheInv, NEW p \in Procs, Walk(p) PROVE CacheInv'
<1> DEFINE node == Reached(p)
           parent == ParentOnChain(node)
<1>1. /\ UNCHANGED chainVars /\ UNCHANGED <<row, lineage, current>> /\ At(p, "walk")
      /\ \/ AfterReads(p, None)
         \/ node \in DOMAIN lineage /\ AfterReads(p, lineage[node].root)
         \/ AfterReads(p, node)
         \/ /\ parent # None
            /\ Becomes(p, [proc[p] EXCEPT !.links = Append(@, [child |-> node, parent |-> parent])])
  BY DEF Walk, Elsewhere, chainVars
<1>2. node \in OrdersSeen
  BY <1>1, ReachedSeen
<1>3. node \in DOMAIN lineage => lineage[node].root \in OrdersSeen
  BY DEF CacheInv, LineageTyped
<1>4. ASSUME parent # None,
             Becomes(p, [proc[p] EXCEPT !.links = Append(@, [child |-> node, parent |-> parent])])
      PROVE  CacheInv'
  <2> DEFINE link == [child |-> node, parent |-> parent]
             r == [proc[p] EXCEPT !.links = Append(@, link)]
  <2>1. link \in Links /\ LinkTrue(link)
    BY <1>2, <1>4, ParentTrue DEF CacheInv
  <2> HIDE DEF link
  <2>2. proc[p] \in Processes /\ Remembers(proc[p]) /\ proc[p].links \in Seq(Links)
    BY OneProcess DEF Processes
  <2>3. r \in Processes
    <3>1. Append(proc[p].links, link) \in Seq(Links)
      BY <2>1, <2>2
    <3>2. QED
      BY <2>2, <3>1 DEF Processes
  <2>4. \A i \in DOMAIN Append(proc[p].links, link) : LinkTrue(Append(proc[p].links, link)[i])
    <3>1. \A i \in DOMAIN proc[p].links : LinkTrue(proc[p].links[i])
      BY <2>2 DEF Remembers
    <3>2. QED
      BY <2>1, <2>2, <3>1
  <2>5. Remembers(r)
    BY <1>1, <2>2, <2>4 DEF Remembers, At, Processes
  <2>6. Becomes(p, r)
    BY <1>4 DEF link
  <2> HIDE DEF r
  <2>7. QED
    BY <1>1, <2>3, <2>5, <2>6, OnlyReads
<1> HIDE DEF node, parent
<1>5. QED
  BY <1>1, <1>2, <1>3, <1>4, AfterReadsKeeps DEF node, parent

LEMMA ReopenKeeps == ASSUME CacheInv, NEW p \in Procs, Reopen(p) PROVE CacheInv'
<1> DEFINE r == [proc[p] EXCEPT !.pc = "close"]
<1>1. UNCHANGED chainVars /\ UNCHANGED <<lineage, current>> /\ At(p, "reopen") /\ Becomes(p, r)
      /\ upsertOpenOrder(Last(proc[p].links).parent)
  BY DEF Reopen, Elsewhere, chainVars
<1>2. proc[p].links # << >>
  BY <1>1, OneProcess DEF Remembers, At
<1>3. Last(proc[p].links).parent \in OrdersSeen
  BY <1>2, LastLink DEF LinkTrue
<1>4. r \in Processes
  BY ProcessTyped, ZenonT(60) DEF Processes, Points
<1>5. Remembers(r)
  BY <1>1, OneProcess DEF Remembers, At, Processes
<1> HIDE DEF r
<1>6. QED
  BY <1>1, <1>3, <1>4, <1>5, WritesRows

LEMMA CloseKeeps == ASSUME CacheInv, NEW p \in Procs, Close(p) PROVE CacheInv'
<1> DEFINE r    == [proc[p] EXCEPT !.pc = "link"]
           link == Last(proc[p].links)
<1>1. UNCHANGED chainVars /\ UNCHANGED <<lineage, current>> /\ At(p, "close") /\ Becomes(p, r)
      /\ markSpent(link.parent, "partially_filled", link.child[1])
  BY DEF Close, Elsewhere, chainVars
<1>2. proc[p].links # << >>
  BY <1>1, OneProcess DEF Remembers, At
<1>3. link \in Links /\ LinkTrue(link)
  BY <1>2, LastLink
<1>4. r \in Processes
  BY ProcessTyped, ZenonT(60) DEF Processes, Points
<1>5. Remembers(r)
  BY <1>1, OneProcess DEF Remembers, At, Processes
<1> HIDE DEF r, link
<1>6. link.child[1] \in EverSeen
      /\ SpentUnder(link.parent, link.child[1], RedeemerOf("partially_filled"))
  BY <1>3 DEF LinkTrue, SpentUnder, RedeemerOf
<1>7. MarksTruly(link.parent, "partially_filled", link.child[1])
  BY <1>1, <1>6 DEF MarksTruly, Statuses
<1>8. QED
  BY <1>1, <1>4, <1>5, <1>7, WritesRows

LEMMA LinkKeeps == ASSUME CacheInv, NEW p \in Procs, Link(p) PROVE CacheInv'
<1> DEFINE front == Front(proc[p].links)
           pc    == IF Len(proc[p].links) = 1 THEN AfterWalk(p) ELSE "reopen"
           r     == [proc[p] EXCEPT !.pc = pc, !.links = front]
           link  == Last(proc[p].links)
<1>1. UNCHANGED chainVars /\ UNCHANGED <<row, current>> /\ At(p, "link") /\ Becomes(p, r)
      /\ setLineage(link.child, link.parent, proc[p].root)
  BY DEF Link, Elsewhere, chainVars
<1>2. proc[p].links # << >> /\ proc[p].root \in OrdersSeen
  BY <1>1, OneProcess DEF Remembers, At
<1>3. link.child \in OrdersSeen /\ link.parent \in OrdersSeen
  BY <1>2, LastLink DEF LinkTrue
<1>4. front \in Seq(Links) /\ \A i \in DOMAIN front : LinkTrue(front[i])
  BY <1>2, LastLink
<1>5. pc \in {"scan", "repair", "reopen"} /\ (pc = "reopen" => front # << >>)
  BY <1>2, LastLink DEF AfterWalk
<1> HIDE DEF front, pc, link
<1>6. r \in Processes
  BY <1>4, <1>5, ProcessTyped, ZenonT(60) DEF Processes, Points
<1>7. Remembers(r)
  BY <1>1, <1>2, <1>4, <1>5, OneProcess DEF Remembers, Processes, At
<1> HIDE DEF r
<1>8. QED
  BY <1>1, <1>2, <1>3, <1>6, <1>7, WritesLineage

LEMMA ListOpenKeeps == ASSUME CacheInv, NEW p \in Procs, ListOpen(p) PROVE CacheInv'
<1> DEFINE r == [proc[p] EXCEPT !.pc = "vanished", !.todo = open]
<1>1. UNCHANGED chainVars /\ UNCHANGED <<row, lineage, current>> /\ Becomes(p, r)
  BY DEF ListOpen, Elsewhere, chainVars
<1>2. open \subseteq Refs /\ open \subseteq OrdersSeen
  BY OneProcess
<1>3. r \in Processes
  BY <1>2, ProcessTyped, ZenonT(60) DEF Processes, Points
<1>4. Remembers(r)
  BY <1>2, OneProcess DEF Remembers, Processes
<1> HIDE DEF r
<1>5. QED
  BY <1>1, <1>3, <1>4, OnlyReads

(* A vanished order is classified, truly or as unknown.                    *)
LEMMA VerdictKeeps ==
  ASSUME CacheInv, NEW p \in Procs, NEW ref \in proc[p].todo, NEW v \in Verdicts,
         VerdictTrue(ref, v),
         Becomes(p, [proc[p] EXCEPT !.todo = @ \ {ref}, !.pc = "mark", !.cur = ref, !.verdict = v]),
         UNCHANGED chainVars, UNCHANGED <<row, lineage, current>>
  PROVE  CacheInv'
<1> DEFINE r == [proc[p] EXCEPT !.todo = @ \ {ref}, !.pc = "mark", !.cur = ref, !.verdict = v]
<1>1. ref \in OrdersSeen /\ ref \in Refs
  BY OneProcess DEF Remembers
<1>2. r \in Processes
  BY <1>1, ProcessTyped, ZenonT(60) DEF Processes, Points
<1>3. Remembers(r)
  BY <1>1, OneProcess DEF Remembers, Processes
<1> HIDE DEF r
<1>4. QED
  BY <1>2, <1>3, OnlyReads DEF r

LEMMA VanishedKeeps == ASSUME CacheInv, NEW p \in Procs, Vanished(p) PROVE CacheInv'
<1>1. UNCHANGED chainVars /\ UNCHANGED <<row, lineage, current>> /\ At(p, "vanished")
  BY DEF Vanished, Elsewhere, chainVars
<1>2. PICK ref \in proc[p].todo :
        Becomes(p, IF ref \in proc[p].seen
                   THEN [proc[p] EXCEPT !.todo = @ \ {ref}]
                   ELSE [proc[p] EXCEPT !.todo = @ \ {ref}, !.pc = "mark", !.cur = ref,
                                        !.verdict = classifySpend(ref)])
  BY DEF Vanished
<1>3. CASE ref \in proc[p].seen
  <2> DEFINE r == [proc[p] EXCEPT !.todo = @ \ {ref}]
  <2>1. r \in Processes
    BY OneProcess DEF Processes
  <2>2. Remembers(r)
    BY <1>1, OneProcess DEF Remembers, Processes, At
  <2>3. Becomes(p, r)
    BY <1>2, <1>3
  <2> HIDE DEF r
  <2>4. QED
    BY <1>1, <2>1, <2>2, <2>3, OnlyReads
<1>4. CASE ref \notin proc[p].seen
  <2>1. ref \in OrdersSeen
    BY OneProcess DEF Remembers
  <2>2. classifySpend(ref) \in Verdicts /\ VerdictTrue(ref, classifySpend(ref))
    BY <2>1, ClassifyTrue DEF CacheInv
  <2>3. QED
    BY <1>1, <1>2, <1>4, <2>2, VerdictKeeps
<1>5. QED
  BY <1>3, <1>4

LEMMA ClassifyThrowsKeeps == ASSUME CacheInv, NEW p \in Procs, ClassifyThrows(p) PROVE CacheInv'
<1>1. UNCHANGED chainVars /\ UNCHANGED <<row, lineage, current>>
  BY DEF ClassifyThrows, chainVars
<1>2. PICK ref \in proc[p].todo :
        Becomes(p, [proc[p] EXCEPT !.todo = @ \ {ref}, !.pc = "mark", !.cur = ref,
                                   !.verdict = Unknown(None)])
  BY DEF ClassifyThrows
<1>3. Unknown(None) \in Verdicts /\ VerdictTrue(ref, Unknown(None))
  BY UnknownTrue, OneProcess
<1>4. QED
  BY <1>1, <1>2, <1>3, VerdictKeeps

LEMMA MarkStepKeeps == ASSUME CacheInv, NEW p \in Procs, Mark(p) PROVE CacheInv'
<1> DEFINE v  == proc[p].verdict
           pc == IF v.child # None THEN "lineage" ELSE "vanished"
           r  == [proc[p] EXCEPT !.pc = pc]
<1>1. UNCHANGED chainVars /\ UNCHANGED <<lineage, current>> /\ At(p, "mark") /\ Becomes(p, r)
      /\ markSpent(proc[p].cur, v.status, v.tx)
  BY DEF Mark, Elsewhere, chainVars
<1>2. VerdictTrue(proc[p].cur, v) /\ proc[p].cur \in OrdersSeen
  BY <1>1, OneProcess DEF Remembers, At
<1>3. pc \in {"lineage", "vanished"} /\ (pc = "lineage" => v.child \in OrdersSeen)
  BY <1>2 DEF VerdictTrue
<1> HIDE DEF pc
<1>4. r \in Processes
  BY <1>3, ProcessTyped, ZenonT(60) DEF Processes, Points
<1>5. Remembers(r)
  BY <1>2, <1>3, OneProcess DEF Remembers, Processes
<1> HIDE DEF r
<1>6. MarksTruly(proc[p].cur, v.status, v.tx)
  BY <1>1, <1>2 DEF VerdictTrue, MarksTruly
<1> HIDE DEF v
<1>7. QED
  BY <1>1, <1>4, <1>5, <1>6, WritesRows

LEMMA InheritKeeps == ASSUME CacheInv, NEW p \in Procs, Inherit(p) PROVE CacheInv'
<1> DEFINE child == proc[p].verdict.child
           pc    == IF child \in proc[p].seen THEN "vanished" ELSE "surface"
           r     == [proc[p] EXCEPT !.pc = pc]
<1>1. UNCHANGED chainVars /\ UNCHANGED <<row, current>> /\ At(p, "lineage") /\ Becomes(p, r)
      /\ setLineage(child, proc[p].cur, RootFor(proc[p].cur))
  BY DEF Inherit, Elsewhere, chainVars
<1>2. child \in OrdersSeen /\ proc[p].cur \in OrdersSeen
  BY <1>1, OneProcess DEF Remembers, At
<1>3. RootFor(proc[p].cur) \in OrdersSeen
  BY <1>2 DEF RootFor, CacheInv, LineageTyped
<1>4. pc \in {"vanished", "surface"}
  OBVIOUS
<1> HIDE DEF pc
<1>5. r \in Processes
  BY <1>4, ProcessTyped, ZenonT(60) DEF Processes, Points
<1>6. Remembers(r)
  BY <1>2, <1>4, OneProcess DEF Remembers, Processes
<1> HIDE DEF r
<1>7. QED
  BY <1>1, <1>2, <1>3, <1>5, <1>6, WritesLineage

LEMMA SurfaceKeeps == ASSUME CacheInv, NEW p \in Procs, Surface(p) PROVE CacheInv'
<1> DEFINE child == proc[p].verdict.child
<1>1. UNCHANGED chainVars /\ UNCHANGED <<lineage, current>> /\ At(p, "surface")
  BY DEF Surface, Elsewhere, chainVars
<1>2. CASE child \in Unspent
  <2> DEFINE r == [proc[p] EXCEPT !.pc = "vanished", !.seen = @ \cup {child}]
  <2>1. Becomes(p, r) /\ upsertOpenOrder(child)
    BY <1>2 DEF Surface
  <2>2. child \in OrdersSeen /\ child \in Refs
    BY <1>2, OneProcess
  <2> HIDE DEF child
  <2>3. r \in Processes
    BY <2>2, ProcessTyped, ZenonT(60) DEF Processes, Points
  <2>4. Remembers(r)
    BY <2>2, OneProcess DEF Remembers, Processes
  <2> HIDE DEF r
  <2>5. QED
    BY <1>1, <2>1, <2>2, <2>3, <2>4, WritesRows
<1>3. CASE child \notin Unspent
  <2> DEFINE r == [proc[p] EXCEPT !.pc = "vanished"]
  <2>1. Becomes(p, r) /\ row' = row
    BY <1>3 DEF Surface
  <2>2. r \in Processes
    BY ProcessTyped, ZenonT(60) DEF Processes, Points
  <2>3. Remembers(r)
    BY OneProcess DEF Remembers, Processes
  <2> HIDE DEF r
  <2>4. QED
    BY <1>1, <2>1, <2>2, <2>3, OnlyReads
<1>4. QED
  BY <1>2, <1>3

LEMMA FinishKeeps == ASSUME CacheInv, NEW p \in Procs, Finish(p) PROVE CacheInv'
<1>1. UNCHANGED chainVars /\ UNCHANGED <<row, lineage, current>> /\ Becomes(p, Idle)
  BY DEF Finish, Elsewhere, chainVars
<1>2. QED
  BY <1>1, IdleRemembers, OnlyReads DEF CacheInv, ChainInv

LEMMA RepairKeeps == ASSUME CacheInv, BeginRepair \/ RepairNext PROVE CacheInv'
<1>1. UNCHANGED chainVars /\ UNCHANGED <<row, lineage, current>> /\ Repair \in Procs
  BY DEF BeginRepair, RepairNext, Elsewhere, chainVars, Procs
<1>2. CASE BeginRepair
  <2> DEFINE r == [Idle EXCEPT !.pc = "repair", !.todo = open]
  <2>1. open \subseteq Refs /\ open \subseteq OrdersSeen /\ height \in Nat
    BY <1>1, OneProcess DEF ChainInv
  <2>2. r \in Processes
    BY <2>1, IdleRemembers DEF Processes, Points
  <2>3. Remembers(r)
    BY <2>1 DEF Idle, Remembers
  <2>4. Becomes(Repair, r)
    BY <1>2 DEF BeginRepair
  <2> HIDE DEF r
  <2>5. QED
    BY <1>1, <2>2, <2>3, <2>4, OnlyReads
<1>3. ASSUME NEW ref \in proc[Repair].todo, At(Repair, "repair"),
             Becomes(Repair, [proc[Repair] EXCEPT !.todo = @ \ {ref}, !.cur = ref,
                                !.pc = IF ref \in DOMAIN lineage THEN @ ELSE "walk"])
      PROVE  CacheInv'
  <2> DEFINE pc == IF ref \in DOMAIN lineage THEN "repair" ELSE "walk"
             r  == [proc[Repair] EXCEPT !.todo = @ \ {ref}, !.cur = ref, !.pc = pc]
  <2>1. ref \in OrdersSeen /\ ref \in Refs
    BY <1>1, OneProcess DEF Remembers
  <2>2. Becomes(Repair, r)
    BY <1>3 DEF At
  <2>3. pc \in {"repair", "walk"}
    OBVIOUS
  <2> HIDE DEF pc
  <2>4. r \in Processes
    BY <1>1, <2>1, <2>3, ProcessTyped, ZenonT(60) DEF Processes, Points
  <2>5. Remembers(r)
    BY <1>1, <2>1, <2>3, OneProcess DEF Remembers, Processes
  <2> HIDE DEF r
  <2>6. QED
    BY <1>1, <2>2, <2>4, <2>5, OnlyReads
<1>4. CASE Becomes(Repair, Idle)
  BY <1>1, <1>4, IdleRemembers, OnlyReads DEF CacheInv, ChainInv
<1>5. QED
  BY <1>2, <1>3, <1>4 DEF RepairNext

LEMMA ThrowsKeeps == ASSUME CacheInv, NEW p \in Procs, Throws(p) PROVE CacheInv'
<1>1. UNCHANGED chainVars /\ UNCHANGED <<row, lineage, current>>
  BY DEF Throws, chainVars
<1>2. CASE At(p, "walk")
  BY <1>1, <1>2, AfterReadsKeeps DEF Throws
<1>3. CASE ~At(p, "walk")
  BY <1>1, <1>3, IdleRemembers, OnlyReads DEF Throws, CacheInv, ChainInv
<1>4. QED
  BY <1>2, <1>3

LEMMA WalkCutShortKeeps == ASSUME CacheInv, NEW p \in Procs, WalkCutShort(p) PROVE CacheInv'
<1>1. UNCHANGED chainVars /\ UNCHANGED <<row, lineage, current>> /\ At(p, "walk")
      /\ AfterReads(p, Reached(p))
  BY DEF WalkCutShort, chainVars
<1>2. QED
  BY <1>1, ReachedSeen, AfterReadsKeeps

LEMMA RestartKeeps == ASSUME CacheInv, Restart PROVE CacheInv'
<1>1. UNCHANGED chainVars /\ current' = current /\ proc' = [p \in Procs |-> Idle]
  BY DEF Restart, chainVars
<1>2. ChainInv' /\ ChainGrows
  BY <1>1, ChainStays DEF CacheInv
<1>3. Remembers(Idle)'
  BY <1>2 DEF Idle, Remembers, ChainGrows
<1>4. ProcsTrue'
  BY <1>1, <1>3, IdleRemembers DEF ProcsTrue
<1>5. CASE Durable
  BY <1>1, <1>2, <1>4, <1>5, RowsStay, LineageStays DEF Restart, CacheInv
<1>6. CASE ~Durable
  <2>1. row' = << >> /\ lineage' = << >> /\ DOMAIN << >> = {}
    BY <1>6 DEF Restart
  <2>2. RowsTrue' /\ LineageTyped'
    BY <2>1 DEF RowsTrue, StatusTrue, LineageTyped
  <2>3. QED
    BY <1>1, <1>2, <1>4, <2>2 DEF CacheInv
<1>7. QED
  BY <1>5, <1>6

(* The chain moves on, and the processes and the tables stay.              *)
LEMMA GrowthKeeps ==
  ASSUME CacheInv, ChainInv', ChainGrows, UNCHANGED <<row, lineage, proc>>, current' \in Sessions
  PROVE  CacheInv'
<1>1. ASSUME NEW p \in Procs PROVE proc'[p] = proc[p] /\ Remembers(proc[p])'
  BY RemembersStays, OneProcess
<1>2. ProcsTrue'
  BY <1>1 DEF CacheInv, ProcsTrue
<1>3. RowsTrue' /\ LineageTyped'
  BY RowsStay, LineageStays DEF CacheInv
<1>4. QED
  BY <1>2, <1>3 DEF CacheInv

LEMMA StepKeeps == ASSUME CacheInv, NEW p \in Procs, Step(p) PROVE CacheInv'
BY BeginKeeps, NoHoldersKeeps, FetchKeeps, ScanKeeps, ConfirmKeeps, WalkKeeps, ReopenKeeps,
   CloseKeeps, LinkKeeps, ListOpenKeeps, VanishedKeeps, MarkStepKeeps, InheritKeeps,
   SurfaceKeeps, FinishKeeps DEF Step

LEMMA InitCache == Init => CacheInv
<1> SUFFICES ASSUME Init PROVE CacheInv
  OBVIOUS
<1>1. chain = << >> /\ mempool = << >> /\ row = << >> /\ lineage = << >> /\ height = 1
      /\ proc = [p \in Procs |-> Idle] /\ current = First
  BY DEF Init, ChainInit
<1>2. DOMAIN chain = {} /\ DOMAIN mempool = {} /\ DOMAIN row = {} /\ DOMAIN lineage = {}
  BY <1>1
<1>3. EverSeen = {}
  BY <1>2 DEF EverSeen
<1>4. ChainInv
  BY <1>1, <1>2, <1>3, FS_EmptySet DEF ChainInv
<1>5. RowsTrue /\ LineageTyped
  BY <1>2 DEF RowsTrue, StatusTrue, LineageTyped
<1>6. ProcsTrue
  BY <1>1, IdleRemembers DEF ProcsTrue
<1>7. QED
  BY <1>1, <1>4, <1>5, <1>6, IndexerAssumption DEF CacheInv

LEMMA NextCache == CacheInv /\ [Next]_vars => CacheInv'
<1> SUFFICES ASSUME CacheInv, [Next]_vars PROVE CacheInv'
  OBVIOUS
<1>1. CASE ChainStep /\ UNCHANGED <<repository, row, lineage, proc, current, faults>>
  BY <1>1, ChainStepGrows, GrowthKeeps DEF CacheInv
<1>2. ASSUME NEW p \in Procs,
             Step(p) \/ Throws(p) \/ ClassifyThrows(p) \/ FetchFails(p) \/ WalkCutShort(p)
      PROVE  CacheInv'
  BY <1>2, StepKeeps, ThrowsKeeps, ClassifyThrowsKeeps, FetchFailsKeeps, WalkCutShortKeeps
<1>3. CASE BeginRepair \/ RepairNext
  BY <1>3, RepairKeeps
<1>4. CASE Restart
  BY <1>4, RestartKeeps
<1>5. CASE HotSwap
  <2>1. UNCHANGED chainVars /\ UNCHANGED <<row, lineage, proc>> /\ current' \in Sessions
    BY <1>5 DEF HotSwap, chainVars
  <2>2. QED
    BY <2>1, ChainStays, GrowthKeeps DEF CacheInv
<1>6. CASE Reorg
  BY <1>6, RollbackGrows, GrowthKeeps DEF Reorg, CacheInv
<1>7. CASE UNCHANGED vars
  BY <1>7, ChainStays, GrowthKeeps DEF vars, chainVars, CacheInv
<1>8. QED
  BY <1>1, <1>2, <1>3, <1>4, <1>5, <1>6, <1>7 DEF Next

THEOREM CacheInvariant == Spec => []CacheInv
<1>1. QED
  BY InitCache, NextCache, PTL DEF Spec

(* Type correctness: whatever the indexer has cached or remembers is of    *)
(* orders that were once on the chain.                                     *)
THEOREM TypeCorrect == Spec => []TypeOK
<1>1. CacheInv => TypeOK
  <2> SUFFICES ASSUME CacheInv PROVE TypeOK
    OBVIOUS
  <2>1. ASSUME NEW p \in Procs
        PROVE  /\ proc[p].tip \in 0..height
               /\ proc[p].page \cup proc[p].seen \cup proc[p].todo \subseteq OrdersSeen
               /\ proc[p].cur \in OrdersSeen \cup {None}
    BY OneProcess DEF Processes, Remembers, ChainInv
  <2>2. QED
    BY <2>1 DEF CacheInv, RowsTrue, LineageTyped, TypeOK
<1>2. QED
  BY <1>1, CacheInvariant, PTL

(* A row that says how its order was spent says so truly, whatever faults  *)
(* there were: calls that threw, lost pages, restarts, swapped sessions    *)
(* and blocks that were rolled back.                                       *)
THEOREM StatusAlwaysTrue == Spec => []StatusTrue
<1>1. CacheInv => StatusTrue
  BY DEF CacheInv, RowsTrue
<1>2. QED
  BY <1>1, CacheInvariant, PTL

----------------------------------------------------------------------------
(***************************************************************************)
(* A live order is never hidden, as long as no page of orders is lost, no  *)
(* session is replaced, no block is rolled back, and no restart loses the  *)
(* cache.                                                                  *)
(***************************************************************************)
Undisturbed ==
  /\ FaultKinds \cap {"fetch", "swap", "reorg"} = {}
  /\ "restart" \in FaultKinds => Repositories \subseteq {"postgres"}

(* From the reading of the holders to the listing of the open orders.      *)
Reading == {"fetch", "scan", "confirm", "walk", "reopen", "close", "link", "list"}

RepairPoints == {"idle", "repair", "walk", "reopen", "close", "link"}

(* What a sync has seen of the orders that are live and cached.            *)
SyncTrue(r) ==
  /\ r.pc # "repair"
  /\ r.page \subseteq r.seen
  /\ r.pc = "confirm" => r.cur \in r.seen
  /\ r.pc \in Reading =>
       \A ref \in open \cap Unspent : ref \in r.seen \/ OwnerOf(ref) \in r.holders
  /\ r.pc = "list" => r.holders = {}
  /\ r.pc \in {"vanished", "mark", "lineage", "surface"} => r.todo \cap Unspent \subseteq r.seen
  /\ r.pc = "mark" => r.cur \notin Unspent

LiveInv ==
  /\ CacheInv
  /\ repository \in Repositories
  /\ DOMAIN mempool = {}
  /\ current = First
  /\ \A s \in Sessions \ {First} : At(s, "idle")
  /\ proc[Repair].pc \in RepairPoints
  /\ SyncTrue(proc[First])

(* Orders that are spent stay so, and those that are not stay as they are. *)
OnlySpends ==
  /\ Unspent' \cap OrdersSeen \subseteq Unspent
  /\ \A ref \in Unspent \cap Unspent' : OwnerOf(ref)' = OwnerOf(ref)

HidesNone == \A ref \in open \cap Unspent \cap Unspent' : ref \in open'

LEMMA LinkSpent ==
  ASSUME DOMAIN mempool = {}, NEW link, LinkTrue(link)
  PROVE  link.parent \notin Unspent
<1>1. PICK id \in DOMAIN chain : [ref |-> link.parent, redeemer |-> "TakeOrderPartial"]
                                 \in ToSet(chain[id].inputs)
  BY DEF LinkTrue, SpentUnder, EverSeen, Seen
<1>2. \E i \in DOMAIN chain[id].inputs : chain[id].inputs[i].ref = link.parent
  BY <1>1 DEF ToSet
<1>3. id \in SpentBy(link.parent)
  BY <1>2 DEF SpentBy, Spends
<1>4. QED
  BY <1>3 DEF Unspent

LEMMA OpenUpserted ==
  ASSUME NEW ref, upsertOpenOrder(ref)
  PROVE  open' = open \cup {ref}
<1>1. DOMAIN row' = DOMAIN row \cup {ref} /\ row'[ref].status = "open"
      /\ \A r \in DOMAIN row \ {ref} : row'[r] = row[r]
  BY DEF upsertOpenOrder, Put
<1>2. QED
  BY <1>1 DEF open

LEMMA OpenMarked ==
  ASSUME NEW ref, NEW status, NEW tx, markSpent(ref, status, tx), status # "open"
  PROVE  open' = open \ {ref}
<1>1. CASE ref \in DOMAIN row
  <2>1. DOMAIN row' = DOMAIN row /\ row'[ref].status = status
        /\ \A r \in DOMAIN row \ {ref} : row'[r] = row[r]
    BY <1>1 DEF markSpent
  <2>2. QED
    BY <2>1 DEF open
<1>2. CASE ref \notin DOMAIN row
  BY <1>2 DEF markSpent, open
<1>3. QED
  BY <1>1, <1>2

LEMMA OpenStays == row' = row => open' = open
BY DEF open

LEMMA SeenStays == UNCHANGED chainVars => OrdersSeen' = OrdersSeen
BY DEF OrdersSeen, EverSeen, Seen, chainVars

LEMMA StillSpends == UNCHANGED chainVars => OnlySpends /\ Unspent' = Unspent
BY DEF OnlySpends, Unspent, Orders, SpentBy, OwnerOf, chainVars

(* What a sync has seen is enough for the next state too.                  *)
LEMMA SyncStays ==
  ASSUME ChainInv, OnlySpends, NEW r, SyncTrue(r),
         r.todo \subseteq OrdersSeen, r.pc = "mark" => r.cur \in OrdersSeen,
         \A ref \in open' \ open :
           ref \in OrdersSeen => ref \notin Unspent \/ r.pc \notin Reading \/ ref \in r.seen,
         open' \subseteq OrdersSeen
  PROVE  SyncTrue(r)'
<1>1. r.pc \in Reading =>
        \A ref \in open' \cap Unspent' : ref \in r.seen \/ OwnerOf(ref)' \in r.holders
  BY DEF SyncTrue, OnlySpends
<1>2. r.pc \in {"vanished", "mark", "lineage", "surface"} => r.todo \cap Unspent' \subseteq r.seen
  BY DEF SyncTrue, OnlySpends
<1>3. r.pc = "mark" => r.cur \notin Unspent'
  BY DEF SyncTrue, OnlySpends
<1>4. QED
  BY <1>1, <1>2, <1>3 DEF SyncTrue, Reading

(* The session goes on.                                                    *)
LEMMA SyncGoesOn ==
  ASSUME LiveInv, CacheInv', NEW r, Becomes(First, r), SyncTrue(r),
         UNCHANGED chainVars, UNCHANGED <<repository, current>>,
         open \cap Unspent \subseteq open',
         \A ref \in open' \ open :
           ref \in OrdersSeen => ref \notin Unspent \/ r.pc \notin Reading \/ ref \in r.seen
  PROVE  LiveInv' /\ HidesNone
<1>1. OnlySpends /\ First \in Procs /\ Repair \in Procs /\ Repair # First /\ Sessions \subseteq Procs
      /\ proc \in [Procs -> Processes]
  BY StillSpends, IndexerAssumption DEF Procs, LiveInv, CacheInv, ProcsTrue
<1>2. proc'[First] = r /\ \A p \in Procs \ {First} : proc'[p] = proc[p]
  BY <1>1 DEF Becomes
<1>3. SyncTrue(r)'
  <2>1. OrdersSeen' = OrdersSeen /\ open' \subseteq OrdersSeen
    BY SeenStays DEF CacheInv, RowsTrue, open
  <2>2. r.todo \subseteq OrdersSeen /\ r.cur \in OrdersSeen \cup {None}
        /\ (r.pc = "mark" => r.cur \in OrdersSeen)
    BY <1>1, <1>2, <2>1 DEF CacheInv, ProcsTrue, Remembers
  <2>3. QED
    BY <1>1, <2>1, <2>2, SyncStays DEF LiveInv, CacheInv
<1>4. SyncTrue(proc[First])'
  BY <1>2, <1>3
<1>5. \A s \in Sessions \ {First} : At(s, "idle")'
  BY <1>1, <1>2 DEF At, LiveInv
<1>6. proc'[Repair].pc \in RepairPoints
  BY <1>1, <1>2 DEF LiveInv
<1>7. DOMAIN mempool' = {}
  BY DEF LiveInv, chainVars
<1>8. QED
  BY <1>4, <1>5, <1>6, <1>7, StillSpends DEF LiveInv, HidesNone

(* The repair goes on.                                                     *)
LEMMA RepairGoesOn ==
  ASSUME LiveInv, CacheInv', NEW r, Becomes(Repair, r), r.pc \in RepairPoints,
         UNCHANGED chainVars, UNCHANGED <<repository, current>>,
         open \cap Unspent \subseteq open', \A ref \in open' \ open : ref \notin Unspent
  PROVE  LiveInv' /\ HidesNone
<1>1. OnlySpends /\ First \in Procs /\ Repair \in Procs /\ Repair # First /\ Sessions \subseteq Procs
      /\ Repair \notin Sessions /\ proc \in [Procs -> Processes]
  BY StillSpends, IndexerAssumption DEF Procs, LiveInv, CacheInv, ProcsTrue
<1>2. proc'[Repair] = r /\ \A p \in Procs \ {Repair} : proc'[p] = proc[p]
  BY <1>1 DEF Becomes
<1>3. SyncTrue(proc[First])'
  <2>1. PICK x : x = proc[First]
    OBVIOUS
  <2>2. Remembers(x) /\ SyncTrue(x)
    BY <1>1, <2>1, OneProcess DEF LiveInv
  <2>3. SyncTrue(x)'
    <3>1. open' \subseteq OrdersSeen
      BY SeenStays DEF CacheInv, RowsTrue, open
    <3>2. x.todo \subseteq OrdersSeen /\ (x.pc = "mark" => x.cur \in OrdersSeen)
      BY <2>2 DEF Remembers
    <3>3. QED
      BY <1>1, <2>2, <3>1, <3>2, SyncStays DEF LiveInv, CacheInv
  <2>4. QED
    BY <1>1, <1>2, <2>1, <2>3
<1>4. \A s \in Sessions \ {First} : At(s, "idle")'
  BY <1>1, <1>2 DEF At, LiveInv
<1>5. DOMAIN mempool' = {}
  BY DEF LiveInv, chainVars
<1>6. QED
  BY <1>2, <1>3, <1>4, <1>5, StillSpends DEF LiveInv, HidesNone

LEMMA ChainExtends ==
  ASSUME ChainInv, DOMAIN mempool = {}, DOMAIN chain \subseteq DOMAIN chain',
         \A id \in DOMAIN chain : chain'[id] = chain[id]
  PROVE  OnlySpends
<1>1. ASSUME NEW ref \in Unspent' \cap OrdersSeen PROVE ref \in Unspent
  <2>1. ref = <<ref[1], ref[2]>> /\ ref[1] \in DOMAIN chain /\ ref[2] \in OrderOutputs(chain[ref[1]])
    BY OrdersOfChain DEF EverSeen, Seen
  <2>2. ref \in Orders
    BY <2>1 DEF Orders
  <2>3. \A id \in DOMAIN chain : Spends(chain[id], ref) => Spends(chain'[id], ref)
    OBVIOUS
  <2>4. SpentBy(ref) = {}
    BY <2>3 DEF SpentBy, Unspent
  <2>5. QED
    BY <2>2, <2>4 DEF Unspent
<1>2. \A ref \in Unspent : ref[1] \in DOMAIN chain
  BY OrdersOfChain
<1>3. QED
  BY <1>1, <1>2 DEF OnlySpends, OwnerOf

LEMMA ChainStepSpends ==
  ASSUME ChainInv, DOMAIN mempool = {}, ChainStep
  PROVE  OnlySpends /\ DOMAIN mempool' = {}
<1>1. ASSUME NEW id, NEW inputs, NEW outputs, Include(id, inputs, outputs)
      PROVE  OnlySpends /\ DOMAIN mempool' = {}
  BY <1>1, ChainExtends DEF Include
<1>2. CASE Block
  BY <1>2, ChainExtends DEF Block
<1>3. QED
  BY <1>1, <1>2 DEF ChainStep, Create, Spend

(* A step that leaves cache and processes as they are.                     *)
LEMMA ChainGoesOn ==
  ASSUME LiveInv, CacheInv', OnlySpends, DOMAIN mempool' = {},
         UNCHANGED <<repository, row, lineage, proc, current>>
  PROVE  LiveInv' /\ HidesNone
<1>1. open' = open /\ open \subseteq OrdersSeen
  BY OpenStays DEF LiveInv, CacheInv, RowsTrue, open
<1>2. PICK x : x = proc[First]
  OBVIOUS
<1>3. Remembers(x) /\ SyncTrue(x)
  BY <1>2, OneProcess, IndexerAssumption DEF LiveInv, Procs
<1>4. SyncTrue(x)'
  <2>1. x.todo \subseteq OrdersSeen /\ (x.pc = "mark" => x.cur \in OrdersSeen)
    BY <1>3 DEF Remembers
  <2>2. QED
    BY <1>1, <1>3, <2>1, SyncStays DEF LiveInv, CacheInv
<1>5. SyncTrue(proc[First])'
  BY <1>2, <1>4
<1>6. \A s \in Sessions \ {First} : At(s, "idle")'
  BY DEF At, LiveInv
<1>7. QED
  BY <1>1, <1>5, <1>6 DEF LiveInv, HidesNone

LEMMA TheSync ==
  ASSUME LiveInv
  PROVE  /\ First \in Procs /\ Repair \in Procs /\ First # Repair
         /\ proc[First] \in Processes /\ Remembers(proc[First]) /\ SyncTrue(proc[First])
         /\ CacheInv /\ DOMAIN mempool = {} /\ open \subseteq OrdersSeen
BY OneProcess, IndexerAssumption DEF LiveInv, Procs

(* The parts of a step that only goes on.                                  *)
JustGoesOn(p, r) ==
  /\ Becomes(p, r)
  /\ UNCHANGED chainVars /\ UNCHANGED <<repository, current>>

LEMMA SyncReads ==
  ASSUME LiveInv, CacheInv', NEW r, JustGoesOn(First, r), SyncTrue(r), row' = row
  PROVE  LiveInv' /\ HidesNone
<1>1. open' = open
  BY OpenStays
<1>2. QED
  BY <1>1, SyncGoesOn DEF JustGoesOn

LEMMA RepairReads ==
  ASSUME LiveInv, CacheInv', NEW r, JustGoesOn(Repair, r), r.pc \in RepairPoints, row' = row
  PROVE  LiveInv' /\ HidesNone
<1>1. open' = open
  BY OpenStays
<1>2. QED
  BY <1>1, RepairGoesOn DEF JustGoesOn

LEMMA BeginSync == ASSUME LiveInv, CacheInv', Begin(First) PROVE LiveInv' /\ HidesNone
<1> DEFINE r == [Idle EXCEPT !.pc = "fetch", !.tip = height,
                             !.holders = {OwnerOf(ref) : ref \in Unspent}]
<1>1. JustGoesOn(First, r) /\ row' = row
  BY DEF Begin, Elsewhere, chainVars, JustGoesOn
<1>2. SyncTrue(r)
  BY DEF SyncTrue, Idle, Reading
<1> HIDE DEF r
<1>3. QED
  BY <1>1, <1>2, SyncReads

LEMMA NoHoldersSync == ASSUME LiveInv, CacheInv', NoHolders(First) PROVE LiveInv' /\ HidesNone
<1> DEFINE r == [proc[First] EXCEPT !.pc = "list"]
<1>1. JustGoesOn(First, r) /\ row' = row /\ At(First, "fetch") /\ proc[First].holders = {}
  BY DEF NoHolders, Elsewhere, chainVars, JustGoesOn
<1>2. SyncTrue(r)
  BY <1>1, TheSync DEF SyncTrue, Reading, Processes, At
<1> HIDE DEF r
<1>3. QED
  BY <1>1, <1>2, SyncReads

LEMMA FetchSync == ASSUME LiveInv, CacheInv', Fetch(First) PROVE LiveInv' /\ HidesNone
<1>1. UNCHANGED chainVars /\ UNCHANGED <<repository, current>> /\ row' = row /\ At(First, "fetch")
  BY DEF Fetch, Elsewhere, chainVars
<1>2. PICK h : Becomes(First, [proc[First] EXCEPT !.pc = "scan", !.holders = @ \ {h},
                                 !.page = {ref \in Unspent : OwnerOf(ref) = h},
                                 !.seen = @ \cup {ref \in Unspent : OwnerOf(ref) = h}])
  BY DEF Fetch
<1> DEFINE page == {ref \in Unspent : OwnerOf(ref) = h}
           r == [proc[First] EXCEPT !.pc = "scan", !.holders = @ \ {h},
                                    !.page = page, !.seen = @ \cup page]
<1>3. SyncTrue(r)
  BY <1>1, TheSync DEF SyncTrue, Reading, Processes, At
<1>4. JustGoesOn(First, r)
  BY <1>1, <1>2 DEF JustGoesOn
<1> HIDE DEF r
<1>5. QED
  BY <1>1, <1>3, <1>4, SyncReads

LEMMA ScanSync == ASSUME LiveInv, CacheInv', Scan(First) PROVE LiveInv' /\ HidesNone
<1>1. UNCHANGED chainVars /\ UNCHANGED <<repository, current>> /\ row' = row /\ At(First, "scan")
  BY DEF Scan, Elsewhere, chainVars
<1>2. ASSUME NEW ref \in proc[First].page,
             Becomes(First, [proc[First] EXCEPT !.page = @ \ {ref},
                               !.cur   = IF cached_open(ref) THEN @ ELSE ref,
                               !.known = ~cached_open(ref) /\ ref \in DOMAIN row,
                               !.pc    = IF cached_open(ref) THEN @ ELSE "confirm"])
      PROVE  LiveInv' /\ HidesNone
  <2> DEFINE cur   == IF cached_open(ref) THEN proc[First].cur ELSE ref
             known == ~cached_open(ref) /\ ref \in DOMAIN row
             pc    == IF cached_open(ref) THEN proc[First].pc ELSE "confirm"
             r     == [proc[First] EXCEPT !.page = @ \ {ref}, !.cur = cur, !.known = known, !.pc = pc]
  <2>1. JustGoesOn(First, r)
    BY <1>1, <1>2 DEF JustGoesOn
  <2>2. ref \in proc[First].seen
    BY TheSync DEF SyncTrue
  <2>3. pc \in {"scan", "confirm"} /\ (pc = "confirm" => cur \in proc[First].seen)
    BY <1>1, <2>2 DEF At
  <2> HIDE DEF cur, known, pc
  <2>4. SyncTrue(r)
    BY <1>1, <2>3, TheSync DEF SyncTrue, Reading, Processes, At
  <2> HIDE DEF r
  <2>5. QED
    BY <1>1, <2>1, <2>4, SyncReads
<1>3. CASE Becomes(First, [proc[First] EXCEPT !.pc = IF proc[First].holders = {} THEN "list" ELSE "fetch"])
  <2> DEFINE pc == IF proc[First].holders = {} THEN "list" ELSE "fetch"
             r  == [proc[First] EXCEPT !.pc = pc]
  <2>1. JustGoesOn(First, r)
    BY <1>1, <1>3 DEF JustGoesOn
  <2>2. pc \in {"list", "fetch"} /\ (pc = "list" => proc[First].holders = {})
    OBVIOUS
  <2> HIDE DEF pc
  <2>3. SyncTrue(r)
    BY <1>1, <2>2, TheSync DEF SyncTrue, Reading, Processes, At
  <2> HIDE DEF r
  <2>4. QED
    BY <1>1, <2>1, <2>3, SyncReads
<1>4. QED
  BY <1>2, <1>3 DEF Scan

LEMMA ConfirmSync == ASSUME LiveInv, CacheInv', Confirm(First) PROVE LiveInv' /\ HidesNone
<1>1. UNCHANGED chainVars /\ UNCHANGED <<repository, current>> /\ At(First, "confirm")
  BY DEF Confirm, Elsewhere, chainVars
<1>2. CASE Confirmed(First, proc[First].cur)
  <2> DEFINE pc == IF proc[First].known THEN "scan" ELSE "walk"
             r  == [proc[First] EXCEPT !.known = FALSE, !.pc = pc]
  <2>1. JustGoesOn(First, r) /\ upsertOpenOrder(proc[First].cur)
    BY <1>1, <1>2 DEF Confirm, JustGoesOn
  <2>2. pc \in {"scan", "walk"}
    OBVIOUS
  <2> HIDE DEF pc
  <2>3. SyncTrue(r) /\ proc[First].cur \in r.seen
    BY <1>1, <2>2, TheSync DEF SyncTrue, Reading, Processes, At
  <2> HIDE DEF r
  <2>4. open' = open \cup {proc[First].cur}
    BY <2>1, OpenUpserted
  <2>5. QED
    BY <2>1, <2>3, <2>4, SyncGoesOn DEF JustGoesOn
<1>3. CASE ~Confirmed(First, proc[First].cur)
  <2> DEFINE r == [proc[First] EXCEPT !.known = FALSE, !.pc = "scan"]
  <2>1. JustGoesOn(First, r) /\ row' = row
    BY <1>1, <1>3 DEF Confirm, JustGoesOn
  <2>2. SyncTrue(r)
    BY <1>1, TheSync DEF SyncTrue, Reading, Processes, At
  <2> HIDE DEF r
  <2>3. QED
    BY <2>1, <2>2, SyncReads
<1>4. QED
  BY <1>2, <1>3

(* A walk, by the sync or by the repair.                                   *)
Walking == {"walk", "reopen", "close", "link"}

LEMMA WalkerGoesOn ==
  ASSUME LiveInv, CacheInv', NEW p \in {First, Repair}, proc[p].pc \in Walking,
         NEW r, r.pc \in Walking \cup {AfterWalk(p)}, r.page = proc[p].page,
         r.seen = proc[p].seen, r.holders = proc[p].holders, JustGoesOn(p, r),
         open \cap Unspent \subseteq open', \A ref \in open' \ open : ref \notin Unspent
  PROVE  LiveInv' /\ HidesNone
<1>1. CASE p = First
  <2>1. r.pc \in {"walk", "reopen", "close", "link", "scan"}
    BY <1>1, TheSync DEF Walking, AfterWalk
  <2>2. SyncTrue(r)
    BY <1>1, <2>1, TheSync DEF SyncTrue, Reading, Walking
  <2>3. QED
    BY <1>1, <2>2, SyncGoesOn DEF JustGoesOn
<1>2. CASE p = Repair
  <2>1. r.pc \in RepairPoints
    BY <1>2 DEF Walking, AfterWalk, RepairPoints
  <2>2. QED
    BY <1>2, <2>1, RepairGoesOn DEF JustGoesOn
<1>3. QED
  BY <1>1, <1>2

LEMMA AfterReadsLive ==
  ASSUME LiveInv, CacheInv', NEW p \in {First, Repair}, At(p, "walk"), NEW root,
         AfterReads(p, root), UNCHANGED chainVars, UNCHANGED <<repository, row, current>>
  PROVE  LiveInv' /\ HidesNone
<1>1. open' = open /\ proc[p].pc \in Walking /\ proc[p] \in Processes
  BY OpenStays, TheSync, OneProcess DEF At, Walking
<1>2. CASE proc[p].links = << >> \/ root = None
  <2> DEFINE r == [proc[p] EXCEPT !.pc = AfterWalk(p), !.links = << >>]
  <2>1. JustGoesOn(p, r)
    BY <1>2 DEF AfterReads, JustGoesOn
  <2>2. /\ r.pc \in Walking \cup {AfterWalk(p)} /\ r.page = proc[p].page
        /\ r.seen = proc[p].seen /\ r.holders = proc[p].holders
    BY <1>1 DEF Processes
  <2> HIDE DEF r
  <2>3. QED
    BY <1>1, <2>1, <2>2, WalkerGoesOn
<1>3. CASE ~(proc[p].links = << >> \/ root = None)
  <2> DEFINE r == [proc[p] EXCEPT !.pc = "reopen", !.root = root]
  <2>1. JustGoesOn(p, r)
    BY <1>3 DEF AfterReads, JustGoesOn
  <2>2. /\ r.pc \in Walking \cup {AfterWalk(p)} /\ r.page = proc[p].page
        /\ r.seen = proc[p].seen /\ r.holders = proc[p].holders
    BY <1>1 DEF Processes, Walking
  <2> HIDE DEF r
  <2>3. QED
    BY <1>1, <2>1, <2>2, WalkerGoesOn
<1>4. QED
  BY <1>2, <1>3

LEMMA WalkLive == ASSUME LiveInv, CacheInv', NEW p \in {First, Repair}, Walk(p) PROVE LiveInv' /\ HidesNone
<1>1. At(p, "walk") /\ UNCHANGED chainVars /\ UNCHANGED <<repository, row, current>>
  BY DEF Walk, Elsewhere, chainVars
<1>2. ASSUME NEW root, AfterReads(p, root) PROVE LiveInv' /\ HidesNone
  BY <1>1, <1>2, AfterReadsLive
<1>3. ASSUME NEW link, Becomes(p, [proc[p] EXCEPT !.links = Append(@, link)])
      PROVE  LiveInv' /\ HidesNone
  <2> DEFINE r == [proc[p] EXCEPT !.links = Append(@, link)]
  <2>1. open' = open /\ proc[p].pc \in Walking /\ proc[p] \in Processes
    BY <1>1, OpenStays, TheSync, OneProcess DEF At, Walking
  <2>2. JustGoesOn(p, r)
    BY <1>1, <1>3 DEF JustGoesOn
  <2>3. /\ r.pc \in Walking \cup {AfterWalk(p)} /\ r.page = proc[p].page
        /\ r.seen = proc[p].seen /\ r.holders = proc[p].holders
    BY <2>1 DEF Processes
  <2> HIDE DEF r
  <2>4. QED
    BY <2>1, <2>2, <2>3, WalkerGoesOn
<1>4. QED
  BY <1>2, <1>3 DEF Walk

LEMMA WritesLinkLive ==
  ASSUME LiveInv, CacheInv', NEW p \in {First, Repair}, Reopen(p) \/ Close(p) \/ Link(p)
  PROVE  LiveInv' /\ HidesNone
<1>1. p \in Procs /\ proc[p] \in Processes /\ Remembers(proc[p]) /\ proc[p].pc \in Walking
      /\ UNCHANGED chainVars /\ UNCHANGED <<repository, current>>
  BY TheSync, OneProcess DEF Reopen, Close, Link, At, Walking, Elsewhere, chainVars
<1>2. proc[p].links # << >>
  BY <1>1 DEF Remembers, Reopen, Close, Link, At
<1>3. Last(proc[p].links).parent \notin Unspent
  BY <1>1, <1>2, LastLink, LinkSpent DEF LiveInv
<1>4. CASE Reopen(p)
  <2> DEFINE r == [proc[p] EXCEPT !.pc = "close"]
  <2>1. JustGoesOn(p, r) /\ open' = open \cup {Last(proc[p].links).parent}
    BY <1>1, <1>4, OpenUpserted DEF Reopen, JustGoesOn
  <2>2. /\ r.pc \in Walking \cup {AfterWalk(p)} /\ r.page = proc[p].page
        /\ r.seen = proc[p].seen /\ r.holders = proc[p].holders
    BY <1>1 DEF Processes, Walking
  <2> HIDE DEF r
  <2>3. QED
    BY <1>1, <1>3, <2>1, <2>2, WalkerGoesOn
<1>5. CASE Close(p)
  <2> DEFINE r == [proc[p] EXCEPT !.pc = "link"]
  <2>1. JustGoesOn(p, r) /\ open' = open \ {Last(proc[p].links).parent}
    BY <1>1, <1>5, OpenMarked DEF Close, JustGoesOn
  <2>2. /\ r.pc \in Walking \cup {AfterWalk(p)} /\ r.page = proc[p].page
        /\ r.seen = proc[p].seen /\ r.holders = proc[p].holders
    BY <1>1 DEF Processes, Walking
  <2> HIDE DEF r
  <2>3. QED
    BY <1>1, <1>3, <2>1, <2>2, WalkerGoesOn
<1>6. CASE Link(p)
  <2> DEFINE pc == IF Len(proc[p].links) = 1 THEN AfterWalk(p) ELSE "reopen"
             front == Front(proc[p].links)
             r == [proc[p] EXCEPT !.pc = pc, !.links = front]
  <2>1. JustGoesOn(p, r) /\ open' = open
    BY <1>1, <1>6, OpenStays DEF Link, JustGoesOn
  <2>2. pc \in Walking \cup {AfterWalk(p)}
    BY DEF Walking
  <2> HIDE DEF pc, front
  <2>3. /\ r.pc \in Walking \cup {AfterWalk(p)} /\ r.page = proc[p].page
        /\ r.seen = proc[p].seen /\ r.holders = proc[p].holders
    BY <1>1, <2>2 DEF Processes
  <2> HIDE DEF r
  <2>4. QED
    BY <1>1, <2>1, <2>3, WalkerGoesOn
<1>7. QED
  BY <1>4, <1>5, <1>6

LEMMA ListOpenSync == ASSUME LiveInv, CacheInv', ListOpen(First) PROVE LiveInv' /\ HidesNone
<1> DEFINE r == [proc[First] EXCEPT !.pc = "vanished", !.todo = open]
<1>1. JustGoesOn(First, r) /\ row' = row /\ At(First, "list")
  BY DEF ListOpen, Elsewhere, chainVars, JustGoesOn
<1>2. open \cap Unspent \subseteq proc[First].seen
  BY <1>1, TheSync DEF SyncTrue, Reading, At
<1>3. SyncTrue(r)
  BY <1>2, TheSync DEF SyncTrue, Reading, Processes
<1> HIDE DEF r
<1>4. QED
  BY <1>1, <1>3, SyncReads

(* A listed order that was not seen is not live, and is taken off.         *)
LEMMA VerdictSync ==
  ASSUME LiveInv, CacheInv', NEW ref \in proc[First].todo, ref \notin proc[First].seen, NEW v,
         At(First, "vanished"), row' = row,
         JustGoesOn(First, [proc[First] EXCEPT !.todo = @ \ {ref}, !.pc = "mark", !.cur = ref,
                                               !.verdict = v])
  PROVE  LiveInv' /\ HidesNone
<1> DEFINE r == [proc[First] EXCEPT !.todo = @ \ {ref}, !.pc = "mark", !.cur = ref, !.verdict = v]
<1>1. ref \notin Unspent
  BY TheSync DEF SyncTrue, At
<1>2. SyncTrue(r)
  BY <1>1, TheSync DEF SyncTrue, Reading, Processes, At
<1> HIDE DEF r
<1>3. QED
  BY <1>2, SyncReads DEF r

LEMMA VanishedSync == ASSUME LiveInv, CacheInv', Vanished(First) PROVE LiveInv' /\ HidesNone
<1>1. UNCHANGED chainVars /\ UNCHANGED <<repository, current>> /\ row' = row /\ At(First, "vanished")
  BY DEF Vanished, Elsewhere, chainVars
<1>2. PICK ref \in proc[First].todo :
        Becomes(First, IF ref \in proc[First].seen
                       THEN [proc[First] EXCEPT !.todo = @ \ {ref}]
                       ELSE [proc[First] EXCEPT !.todo = @ \ {ref}, !.pc = "mark", !.cur = ref,
                                                !.verdict = classifySpend(ref)])
  BY DEF Vanished
<1>3. CASE ref \in proc[First].seen
  <2> DEFINE r == [proc[First] EXCEPT !.todo = @ \ {ref}]
  <2>1. JustGoesOn(First, r)
    BY <1>1, <1>2, <1>3 DEF JustGoesOn
  <2>2. SyncTrue(r)
    BY <1>1, TheSync DEF SyncTrue, Reading, Processes, At
  <2> HIDE DEF r
  <2>3. QED
    BY <1>1, <2>1, <2>2, SyncReads
<1>4. CASE ref \notin proc[First].seen
  BY <1>1, <1>2, <1>4, VerdictSync DEF JustGoesOn
<1>5. QED
  BY <1>3, <1>4

LEMMA ClassifyThrowsSync ==
  ASSUME LiveInv, CacheInv', ClassifyThrows(First)
  PROVE  LiveInv' /\ HidesNone
<1>1. UNCHANGED chainVars /\ UNCHANGED <<repository, current>> /\ row' = row /\ At(First, "vanished")
  BY DEF ClassifyThrows, chainVars
<1>2. PICK ref \in proc[First].todo \ proc[First].seen :
        Becomes(First, [proc[First] EXCEPT !.todo = @ \ {ref}, !.pc = "mark", !.cur = ref,
                                           !.verdict = Unknown(None)])
  BY DEF ClassifyThrows
<1>3. QED
  BY <1>1, <1>2, VerdictSync DEF JustGoesOn

LEMMA MarkSync == ASSUME LiveInv, CacheInv', Mark(First) PROVE LiveInv' /\ HidesNone
<1> DEFINE v  == proc[First].verdict
           pc == IF v.child # None THEN "lineage" ELSE "vanished"
           r  == [proc[First] EXCEPT !.pc = pc]
<1>1. JustGoesOn(First, r) /\ At(First, "mark") /\ markSpent(proc[First].cur, v.status, v.tx)
  BY DEF Mark, Elsewhere, chainVars, JustGoesOn
<1>2. pc \in {"lineage", "vanished"}
  OBVIOUS
<1>3. v.status # "open" /\ proc[First].cur \notin Unspent
  BY <1>1, TheSync DEF SyncTrue, Remembers, VerdictTrue, At
<1>4. open' = open \ {proc[First].cur}
  BY <1>1, <1>3, OpenMarked
<1> HIDE DEF pc, v
<1>5. SyncTrue(r)
  BY <1>1, <1>2, TheSync DEF SyncTrue, Reading, Processes, At
<1> HIDE DEF r
<1>6. QED
  BY <1>1, <1>3, <1>4, <1>5, SyncGoesOn DEF JustGoesOn

LEMMA InheritSync == ASSUME LiveInv, CacheInv', Inherit(First) PROVE LiveInv' /\ HidesNone
<1> DEFINE pc == IF proc[First].verdict.child \in proc[First].seen THEN "vanished" ELSE "surface"
           r  == [proc[First] EXCEPT !.pc = pc]
<1>1. JustGoesOn(First, r) /\ row' = row /\ At(First, "lineage")
  BY DEF Inherit, Elsewhere, chainVars, JustGoesOn
<1>2. pc \in {"vanished", "surface"}
  OBVIOUS
<1> HIDE DEF pc
<1>3. SyncTrue(r)
  BY <1>1, <1>2, TheSync DEF SyncTrue, Reading, Processes, At
<1> HIDE DEF r
<1>4. QED
  BY <1>1, <1>3, SyncReads

LEMMA SurfaceSync == ASSUME LiveInv, CacheInv', Surface(First) PROVE LiveInv' /\ HidesNone
<1> DEFINE child == proc[First].verdict.child
<1>1. UNCHANGED chainVars /\ UNCHANGED <<repository, current>> /\ At(First, "surface")
  BY DEF Surface, Elsewhere, chainVars
<1>2. CASE child \in Unspent
  <2> DEFINE r == [proc[First] EXCEPT !.pc = "vanished", !.seen = @ \cup {child}]
  <2>1. JustGoesOn(First, r) /\ open' = open \cup {child}
    BY <1>1, <1>2, OpenUpserted DEF Surface, JustGoesOn
  <2> HIDE DEF child
  <2>2. SyncTrue(r) /\ r.pc \notin Reading
    BY <1>1, TheSync DEF SyncTrue, Reading, Processes, At
  <2> HIDE DEF r
  <2>3. QED
    BY <2>1, <2>2, SyncGoesOn DEF JustGoesOn
<1>3. CASE child \notin Unspent
  <2> DEFINE r == [proc[First] EXCEPT !.pc = "vanished"]
  <2>1. JustGoesOn(First, r) /\ row' = row
    BY <1>1, <1>3 DEF Surface, JustGoesOn
  <2>2. SyncTrue(r)
    BY <1>1, TheSync DEF SyncTrue, Reading, Processes, At
  <2> HIDE DEF r
  <2>3. QED
    BY <2>1, <2>2, SyncReads
<1>4. QED
  BY <1>2, <1>3

LEMMA IdleSync == SyncTrue(Idle)
BY DEF Idle, SyncTrue, Reading

LEMMA FinishSync == ASSUME LiveInv, CacheInv', Finish(First) PROVE LiveInv' /\ HidesNone
<1>1. JustGoesOn(First, Idle) /\ row' = row
  BY DEF Finish, Elsewhere, chainVars, JustGoesOn
<1>2. QED
  BY <1>1, IdleSync, SyncReads

LEMMA RepairLive == ASSUME LiveInv, CacheInv', BeginRepair \/ RepairNext PROVE LiveInv' /\ HidesNone
<1>1. UNCHANGED chainVars /\ UNCHANGED <<repository, current>> /\ row' = row
      /\ proc[Repair] \in Processes
  BY TheSync, OneProcess DEF BeginRepair, RepairNext, Elsewhere, chainVars
<1>2. CASE BeginRepair
  <2> DEFINE r == [Idle EXCEPT !.pc = "repair", !.todo = open]
  <2>1. JustGoesOn(Repair, r) /\ r.pc \in RepairPoints
    BY <1>1, <1>2 DEF BeginRepair, JustGoesOn, RepairPoints, Idle
  <2> HIDE DEF r
  <2>2. QED
    BY <1>1, <2>1, RepairReads
<1>3. ASSUME NEW ref, At(Repair, "repair"),
             Becomes(Repair, [proc[Repair] EXCEPT !.todo = @ \ {ref}, !.cur = ref,
                                !.pc = IF ref \in DOMAIN lineage THEN @ ELSE "walk"])
      PROVE  LiveInv' /\ HidesNone
  <2> DEFINE pc == IF ref \in DOMAIN lineage THEN "repair" ELSE "walk"
             r  == [proc[Repair] EXCEPT !.todo = @ \ {ref}, !.cur = ref, !.pc = pc]
  <2>1. JustGoesOn(Repair, r)
    BY <1>1, <1>3 DEF At, JustGoesOn
  <2>2. r.pc \in RepairPoints
    BY <1>1 DEF RepairPoints, Processes
  <2> HIDE DEF r
  <2>3. QED
    BY <1>1, <2>1, <2>2, RepairReads
<1>4. CASE Becomes(Repair, Idle)
  <2>1. JustGoesOn(Repair, Idle) /\ Idle.pc \in RepairPoints
    BY <1>1, <1>4 DEF JustGoesOn, Idle, RepairPoints
  <2>2. QED
    BY <1>1, <2>1, RepairReads
<1>5. QED
  BY <1>2, <1>3, <1>4 DEF RepairNext

LEMMA ThrowsLive == ASSUME LiveInv, CacheInv', NEW p \in {First, Repair}, Throws(p) PROVE LiveInv' /\ HidesNone
<1>1. UNCHANGED chainVars /\ UNCHANGED <<repository, current>> /\ row' = row
  BY DEF Throws, chainVars
<1>2. CASE At(p, "walk")
  BY <1>1, <1>2, AfterReadsLive DEF Throws
<1>3. CASE ~At(p, "walk")
  <2>1. JustGoesOn(p, Idle)
    BY <1>1, <1>3 DEF Throws, JustGoesOn
  <2>2. Idle.pc \in RepairPoints
    BY DEF Idle, RepairPoints
  <2>3. QED
    BY <1>1, <2>1, <2>2, IdleSync, SyncReads, RepairReads
<1>4. QED
  BY <1>2, <1>3

LEMMA WalkCutShortLive ==
  ASSUME LiveInv, CacheInv', NEW p \in {First, Repair}, WalkCutShort(p)
  PROVE  LiveInv' /\ HidesNone
BY AfterReadsLive DEF WalkCutShort, chainVars

LEMMA RestartLive ==
  ASSUME Undisturbed, LiveInv, CacheInv', Restart
  PROVE  LiveInv' /\ HidesNone
<1>1. Durable
  BY DEF Restart, Fault, Undisturbed, LiveInv, Durable
<1>2. UNCHANGED chainVars /\ UNCHANGED <<repository, row, lineage, current>>
      /\ proc' = [p \in Procs |-> Idle]
  BY <1>1 DEF Restart, chainVars
<1>3. open' = open /\ OnlySpends /\ open \subseteq OrdersSeen
  BY <1>2, OpenStays, StillSpends, TheSync
<1>4. proc'[First] = Idle /\ proc'[Repair] = Idle /\ \A s \in Sessions : proc'[s] = Idle
  BY <1>2, TheSync DEF Procs
<1>5. SyncTrue(proc[First])'
  <2>1. SyncTrue(Idle)'
    BY DEF Idle, SyncTrue, Reading
  <2>2. QED
    BY <1>4, <2>1
<1>6. Idle.pc = "idle" /\ "idle" \in RepairPoints
  BY DEF Idle, RepairPoints
<1>7. QED
  BY <1>2, <1>3, <1>4, <1>5, <1>6 DEF LiveInv, HidesNone, At, chainVars

(* Only the session of the boot and the repair are ever at work.           *)
LEMMA TwoAtWork ==
  ASSUME LiveInv, NEW p \in Procs,
         Step(p) \/ Throws(p) \/ ClassifyThrows(p) \/ FetchFails(p) \/ WalkCutShort(p)
  PROVE  /\ p \in {First, Repair}
         /\ p = Repair => Walk(p) \/ Reopen(p) \/ Close(p) \/ Link(p) \/ Throws(p) \/ WalkCutShort(p)
<1>1. CASE p \in Sessions \ {First}
  <2>1. proc[p].pc = "idle" /\ p # current
    BY <1>1 DEF LiveInv, At
  <2>2. QED
    BY <2>1 DEF Step, Begin, NoHolders, Fetch, Scan, Confirm, Walk, Reopen, Close, Link, ListOpen,
                Vanished, Mark, Inherit, Surface, Finish, Throws, ClassifyThrows, FetchFails,
                WalkCutShort, At
<1>2. CASE p = Repair
  <2>1. proc[p].pc \in RepairPoints /\ p # current
    BY <1>2, TheSync DEF LiveInv
  <2>2. QED
    BY <1>2, <2>1 DEF Step, Begin, NoHolders, Fetch, Scan, Confirm, ListOpen, Vanished, Mark, Inherit,
                Surface, Finish, ClassifyThrows, FetchFails, At, RepairPoints
<1>3. QED
  BY <1>1, <1>2 DEF Procs

LEMMA NextLive ==
  ASSUME Undisturbed, LiveInv, [Next]_vars
  PROVE  LiveInv' /\ HidesNone
<1>1. CacheInv'
  BY NextCache DEF LiveInv
<1>2. CASE ChainStep /\ UNCHANGED <<repository, row, lineage, proc, current, faults>>
  BY <1>1, <1>2, ChainStepSpends, ChainGoesOn DEF LiveInv, CacheInv
<1>3. ASSUME NEW p \in Procs,
             Step(p) \/ Throws(p) \/ ClassifyThrows(p) \/ FetchFails(p) \/ WalkCutShort(p)
      PROVE  LiveInv' /\ HidesNone
  <2>1. p \in {First, Repair}
        /\ (p = Repair => Walk(p) \/ Reopen(p) \/ Close(p) \/ Link(p) \/ Throws(p) \/ WalkCutShort(p))
    BY <1>3, TwoAtWork
  <2>2. CASE Walk(p) \/ Reopen(p) \/ Close(p) \/ Link(p) \/ Throws(p) \/ WalkCutShort(p)
    BY <1>1, <2>1, <2>2, WalkLive, WritesLinkLive, ThrowsLive, WalkCutShortLive
  <2>3. CASE p = First /\ Step(p)
    BY <1>1, <2>1, <2>2, <2>3, BeginSync, NoHoldersSync, FetchSync, ScanSync, ConfirmSync, ListOpenSync,
       VanishedSync, MarkSync, InheritSync, SurfaceSync, FinishSync DEF Step
  <2>4. CASE p = First /\ ClassifyThrows(p)
    BY <1>1, <2>4, ClassifyThrowsSync
  <2>5. ~FetchFails(p)
    BY DEF FetchFails, Fault, Undisturbed
  <2>6. QED
    BY <1>3, <2>1, <2>2, <2>3, <2>4, <2>5
<1>4. CASE BeginRepair \/ RepairNext
  BY <1>1, <1>4, RepairLive
<1>5. CASE Restart
  BY <1>1, <1>5, RestartLive
<1>6. ~HotSwap /\ ~Reorg
  BY DEF HotSwap, Reorg, Fault, Undisturbed
<1>7. CASE UNCHANGED vars
  <2>1. UNCHANGED chainVars /\ UNCHANGED <<repository, row, lineage, proc, current>> /\ DOMAIN mempool' = {}
    BY <1>7 DEF vars, chainVars, LiveInv
  <2>2. QED
    BY <1>1, <2>1, StillSpends, ChainGoesOn
<1>8. QED
  BY <1>2, <1>3, <1>4, <1>5, <1>6, <1>7 DEF Next

LEMMA InitLive == Init => LiveInv
<1> SUFFICES ASSUME Init PROVE LiveInv
  OBVIOUS
<1>1. CacheInv
  BY InitCache
<1>2. /\ proc = [p \in Procs |-> Idle] /\ current = First /\ repository \in Repositories
      /\ DOMAIN mempool = {}
  BY DEF Init, ChainInit
<1>3. proc[First] = Idle /\ proc[Repair] = Idle /\ \A s \in Sessions : proc[s] = Idle
  BY <1>2, IndexerAssumption DEF Procs
<1>4. Idle.pc = "idle" /\ "idle" \in RepairPoints
  BY DEF Idle, RepairPoints
<1>5. SyncTrue(proc[First])
  BY <1>3, IdleSync
<1>6. QED
  BY <1>1, <1>2, <1>3, <1>4, <1>5 DEF LiveInv, At

(* A live order that is in the book stays there, through calls that throw, *)
(* histories cut short, restarts and repairs at any point of a sync.       *)
THEOREM LiveNeverHidden == Undisturbed => (Spec => NeverHidesLive)
<1> SUFFICES ASSUME Undisturbed PROVE Spec => NeverHidesLive
  OBVIOUS
<1>1. Init => LiveInv
  BY InitLive
<1>2. LiveInv /\ [Next]_vars => LiveInv' /\ HidesNone
  BY NextLive
<1>3. HidesNone => [\A ref \in open \cap Unspent \cap Unspent' : ref \in open']_vars
  BY DEF HidesNone
<1>4. QED
  BY <1>1, <1>2, <1>3, PTL DEF Spec, NeverHidesLive

----------------------------------------------------------------------------
(***************************************************************************)
(* The indexer finds the lineage of orders by ranks: the n-th partial take *)
(* of a transaction, in the order of its inputs, is continued by the n-th  *)
(* order among its outputs.  Here it is proved that this is right for      *)
(* batches of any size and mixture, and that, as long as no backfill is    *)
(* interrupted, the whole cache is true.                                   *)
(***************************************************************************)

(* Ranks.                                                                  *)
LEMMA ImageSize ==
  ASSUME NEW A, IsFiniteSet(A), NEW f, \A x, y \in A : f[x] = f[y] => x = y
  PROVE  /\ IsFiniteSet({f[x] : x \in A})
         /\ Cardinality({f[x] : x \in A}) = Cardinality(A)
<1> DEFINE B == {f[x] : x \in A}
           g == [x \in A |-> f[x]]
<1>1. g \in Bijection(A, B)
  <2>1. g \in [A -> B]
    OBVIOUS
  <2>2. \A b \in B : \E x \in A : g[x] = b
    OBVIOUS
  <2>3. \A x, y \in A : g[x] = g[y] => x = y
    OBVIOUS
  <2> HIDE DEF g, B
  <2>4. QED
    BY <2>1, <2>2, <2>3 DEF Bijection, Injection, Surjection, IsInjective
<1>2. ExistsBijection(A, B)
  BY <1>1 DEF ExistsBijection
<1>3. QED
  BY <1>2, FS_Bijection

(* InOrder is sorted, and leaves nothing out.                              *)
LEMMA InOrderSorted ==
  ASSUME NEW S, S \subseteq OutputRefs, IsFiniteSet(S)
  PROVE  /\ \A i, j \in 1..Cardinality(S) : i < j <=> RefLess(InOrder(S)[i], InOrder(S)[j])
         /\ \A i, j \in 1..Cardinality(S) : InOrder(S)[i] = InOrder(S)[j] => i = j
         /\ \A p \in S : \E i \in 1..Cardinality(S) : InOrder(S)[i] = p
<1> DEFINE R == {e \in OutputRefs \X OutputRefs : RefLess(e[1], e[2])}
           refs == InOrder(S)
           m == Cardinality(S)
<1>1. TotallyOrders(R, S) /\ \A p \in S : before(R, S, p) = {q \in S : RefLess(q, p)}
  BY RefsOrdered
<1>2. \A p, q \in S : <<p, q>> \in R <=> RefLess(p, q)
  OBVIOUS
<1>3. /\ m \in Nat /\ refs \in [1..m -> S]
      /\ \A i \in 1..m : Cardinality({q \in S : RefLess(q, refs[i])}) = i - 1
  BY InOrderListsAll
<1> HIDE DEF R, refs
<1>4. \A i \in 1..m : refs[i] \in S /\ Cardinality(before(R, S, refs[i])) = i - 1
  BY <1>1, <1>3
<1> HIDE DEF m
<1>5. /\ \A p \in S : Cardinality(before(R, S, p)) \in Nat
      /\ \A p, q \in S : <<p, q>> \in R => Cardinality(before(R, S, p)) < Cardinality(before(R, S, q))
  BY <1>1, RanksIncrease
<1>6. \A p, q \in S : Cardinality(before(R, S, p)) = Cardinality(before(R, S, q)) => p = q
  BY <1>1, RanksDiffer
<1>7. ASSUME NEW i \in 1..m, NEW j \in 1..m
      PROVE  i < j <=> RefLess(refs[i], refs[j])
  <2>1. CASE RefLess(refs[i], refs[j])
    <3>1. i - 1 < j - 1
      BY <1>2, <1>4, <1>5, <2>1
    <3>2. QED
      BY <1>3, <2>1, <3>1
  <2>2. CASE i < j /\ ~RefLess(refs[i], refs[j])
    <3>1. refs[i] # refs[j]
      BY <1>3, <1>4, <2>2
    <3>2. <<refs[j], refs[i]>> \in R
      BY <1>1, <1>2, <1>4, <2>2, <3>1 DEF TotallyOrders
    <3>3. j - 1 < i - 1
      BY <1>4, <1>5, <3>2
    <3>4. QED
      BY <1>3, <2>2, <3>3
  <2>3. QED
    BY <2>1, <2>2
<1>8. \A i, j \in 1..m : refs[i] = refs[j] => i = j
  BY <1>3, <1>4
<1>9. ASSUME NEW p \in S PROVE \E i \in 1..m : refs[i] = p
  <2> DEFINE n == Cardinality(before(R, S, p))
  <2>1. n \in Nat /\ before(R, S, p) \subseteq S /\ p \notin before(R, S, p)
    BY <1>1, <1>5 DEF before, TotallyOrders
  <2>2. n < m
    BY <1>3, <2>1, FS_Subset DEF m
  <2>3. n + 1 \in 1..m
    BY <1>3, <2>1, <2>2
  <2>4. Cardinality(before(R, S, refs[n + 1])) = n /\ refs[n + 1] \in S
    BY <1>4, <2>1, <2>3
  <2>5. QED
    BY <1>6, <2>3, <2>4
<1>10. QED
  BY <1>7, <1>8, <1>9 DEF refs, m

(* The places of some of the references, and how many come before one.     *)
PlacesOf(P, S) == {j \in 1..Cardinality(S) : InOrder(S)[j] \in P}

LEMMA RanksOfPlaces ==
  ASSUME NEW S, S \subseteq OutputRefs, IsFiniteSet(S), NEW P \in SUBSET S,
         NEW i \in 1..Cardinality(S)
  PROVE  /\ IsFiniteSet(PlacesOf(P, S))
         /\ Rank(PlacesOf(P, S), i) = Cardinality({q \in P : RefLess(q, InOrder(S)[i])})
<1> DEFINE A == PlacesOf(P, S)
           refs == InOrder(S)
           m == Cardinality(S)
           lower == {j \in A : j < i}
<1>1. m \in Nat /\ refs \in [1..m -> S]
  BY InOrderListsAll
<1>2. /\ \A j, k \in 1..m : j < k <=> RefLess(refs[j], refs[k])
      /\ \A j, k \in 1..m : refs[j] = refs[k] => j = k
      /\ \A p \in S : \E j \in 1..m : refs[j] = p
  BY InOrderSorted
<1>3. IsFiniteSet(A) /\ IsFiniteSet(lower)
  <2>1. IsFiniteSet(1..m)
    BY <1>1, FS_Interval
  <2>2. QED
    BY <2>1, FS_Subset DEF PlacesOf
<1> HIDE DEF refs
<1>4. {refs[j] : j \in lower} = {q \in P : RefLess(q, refs[i])}
  BY <1>2 DEF refs, PlacesOf
<1>5. Cardinality({refs[j] : j \in lower}) = Cardinality(lower)
  <2>1. lower \subseteq 1..m
    BY DEF PlacesOf
  <2> HIDE DEF lower
  <2>2. \A a, b \in lower : refs[a] = refs[b] => a = b
    BY <1>2, <2>1
  <2>3. QED
    BY <1>3, <2>2, ImageSize DEF lower
<1>6. QED
  BY <1>3, <1>4, <1>5 DEF Rank, refs

(* Members are told apart by their ranks.                                  *)
LEMMA NumberRanks ==
  ASSUME NEW S, IsFiniteSet(S), Numeric(S)
  PROVE  /\ \A x \in S : Rank(S, x) \in Nat /\ Rank(S, x) < Cardinality(S)
         /\ \A x, y \in S : Rank(S, x) = Rank(S, y) => x = y
<1> DEFINE R == {e \in Int \X Int : e[1] < e[2]}
<1>1. TotallyOrders(R, S) /\ \A x \in S : before(R, S, x) = {y \in S : y < x}
  BY NumbersOrdered DEF Numeric
<1> HIDE DEF R
<1>2. \A x \in S : before(R, S, x) \subseteq S /\ x \notin before(R, S, x)
  BY <1>1 DEF before, TotallyOrders
<1>3. \A x \in S : /\ Cardinality(before(R, S, x)) \in Nat
                   /\ Cardinality(before(R, S, x)) < Cardinality(S)
  BY <1>1, <1>2, RanksIncrease, FS_Subset, FS_CardinalityType
<1>4. \A x, y \in S : Cardinality(before(R, S, x)) = Cardinality(before(R, S, y)) => x = y
  BY <1>1, RanksDiffer
<1>5. QED
  BY <1>1, <1>3, <1>4 DEF Rank

LEMMA NthOfRank ==
  ASSUME NEW S, IsFiniteSet(S), S \subseteq Int, NEW x \in S
  PROVE  Nth(S, Rank(S, x)) = x
<1>1. \A y, z \in S : Rank(S, y) = Rank(S, z) => y = z
  BY NumberRanks DEF Numeric
<1> DEFINE n == Rank(S, x)
<1>2. \E y \in S : Rank(S, y) = n
  OBVIOUS
<1> HIDE DEF n
<1>3. Nth(S, n) \in S /\ Rank(S, Nth(S, n)) = n
  BY <1>2 DEF Nth, Rank
<1>4. QED
  BY <1>1, <1>3 DEF n

----------------------------------------------------------------------------
(***************************************************************************)
(* Inputs and outputs of a transaction that spends orders.                 *)
(***************************************************************************)
(* The places of the continuations among the outputs.                      *)
Places(legs, kinds, size) == [k \in 1..size |-> k + Cardinality(Filled(legs, kinds, k))]

LEMMA PlacesOfContinuations ==
  ASSUME NEW legs, NEW kinds, NEW size \in Nat, Len(legs) = size,
         \A k \in 1..size : Continuation(legs[k]).owner # None,
         NEW tx, tx.outputs = Layout(legs, kinds)
  PROVE  LET filled == Filled(legs, kinds, size)
             place  == Places(legs, kinds, size)
         IN  /\ OrderOutputs(tx) = {place[k] : k \in filled}
             /\ \A k \in filled : /\ tx.outputs[place[k]] = Continuation(legs[k])
                                 /\ Rank(OrderOutputs(tx), place[k]) = Rank(filled, k)
<1> DEFINE filled == Filled(legs, kinds, size)
           place  == Places(legs, kinds, size)
<1> DEFINE upto(k) == Filled(legs, kinds, k)
           many == Cardinality(filled)
<1>0. \A k \in 1..size : place[k] = k + Cardinality(upto(k))
  BY DEF Places
<1> HIDE DEF place
<1>1. \A k \in 1..size : IsFiniteSet(upto(k)) /\ Cardinality(upto(k)) \in Nat
  <2> SUFFICES ASSUME NEW k \in 1..size PROVE IsFiniteSet(upto(k)) /\ Cardinality(upto(k)) \in Nat
    OBVIOUS
  <2>1. upto(k) \subseteq 1..k /\ IsFiniteSet(1..k)
    BY FS_Interval DEF Filled
  <2>2. QED
    BY <2>1, FS_Subset, FS_CardinalityType
<1>2. IsFiniteSet(filled) /\ many \in Nat /\ filled \subseteq 1..size
  <2>1. filled \subseteq 1..size /\ IsFiniteSet(1..size)
    BY FS_Interval DEF Filled
  <2> HIDE DEF filled
  <2>2. QED
    BY <2>1, FS_Subset, FS_CardinalityType
<1>3. ASSUME NEW k \in 1..size, NEW l \in 1..size, k < l PROVE place[k] < place[l]
  <2>1. upto(k) \subseteq upto(l)
    BY <1>3 DEF Filled
  <2>2. Cardinality(upto(k)) <= Cardinality(upto(l))
    BY <1>1, <2>1, FS_Subset
  <2> HIDE DEF upto
  <2>3. place[k] = k + Cardinality(upto(k)) /\ place[l] = l + Cardinality(upto(l))
    BY <1>0
  <2>4. QED
    BY <1>1, <1>3, <2>2, <2>3
<1>4. ASSUME NEW k \in 1..size PROVE place[k] \in 1..(size + many)
  <2>1. upto(k) \subseteq filled
    BY DEF Filled
  <2> HIDE DEF filled
  <2>2. Cardinality(upto(k)) <= many
    BY <1>2, <2>1, FS_Subset
  <2> HIDE DEF upto, many
  <2>3. place[k] = k + Cardinality(upto(k))
    BY <1>0
  <2>4. QED
    BY <1>1, <1>2, <2>2, <2>3
<1>5. \A k, l \in 1..size : place[k] = place[l] => k = l
  <2> SUFFICES ASSUME NEW k \in 1..size, NEW l \in 1..size, place[k] = place[l] PROVE k = l
    OBVIOUS
  <2>1. ~(k < l) /\ ~(l < k)
    BY <1>3, <1>4
  <2>2. QED
    BY <2>1
<1> DEFINE new(n) == IF \E k \in filled : n = place[k]
                     THEN Continuation(legs[CHOOSE k \in filled : n = place[k]]) ELSE Payment
<1>6. tx.outputs = [n \in 1..(size + many) |-> new(n)]
  <2> DEFINE old(n) == IF \E k \in filled : n = k + Cardinality(upto(k))
                       THEN Continuation(legs[CHOOSE k \in filled : n = k + Cardinality(upto(k))])
                       ELSE Payment
  <2>1. \A k \in filled : place[k] = k + Cardinality(upto(k))
    BY <1>0, <1>2
  <2>2. tx.outputs = [n \in 1..(size + many) |-> old(n)]
    BY DEF Layout
  <2> HIDE DEF upto, many, filled
  <2>3. ASSUME NEW n PROVE old(n) = new(n)
    <3>1. (\E k \in filled : n = k + Cardinality(upto(k))) <=> (\E k \in filled : n = place[k])
      BY <2>1
    <3>2. (CHOOSE k \in filled : n = k + Cardinality(upto(k))) = (CHOOSE k \in filled : n = place[k])
      BY <2>1
    <3>3. QED
      BY <3>1, <3>2
  <2> HIDE DEF old, new
  <2>4. QED
    BY <2>2, <2>3
<1> HIDE DEF filled, many
<1>7. ASSUME NEW k \in filled PROVE tx.outputs[place[k]] = Continuation(legs[k])
  <2>1. (CHOOSE l \in filled : place[k] = place[l]) = k
    BY <1>2, <1>5
  <2>2. new(place[k]) = Continuation(legs[k])
    BY <2>1
  <2> HIDE DEF new
  <2>3. QED
    BY <1>2, <1>4, <1>6, <2>2
<1>8. OrderOutputs(tx) = {place[k] : k \in filled}
  <2>1. ASSUME NEW n \in 1..(size + many), \A k \in filled : n # place[k]
        PROVE  tx.outputs[n].owner = None
    <3>1. new(n) = Payment
      BY <2>1
    <3> HIDE DEF new
    <3>2. QED
      BY <1>6, <3>1 DEF Payment
  <2>2. \A k \in filled : place[k] \in 1..(size + many) /\ tx.outputs[place[k]].owner # None
    BY <1>2, <1>4, <1>7
  <2> HIDE DEF new
  <2>3. DOMAIN tx.outputs = 1..(size + many)
    BY <1>6
  <2>4. OrderOutputs(tx) \subseteq {place[k] : k \in filled}
    BY <2>1, <2>3 DEF OrderOutputs
  <2>5. {place[k] : k \in filled} \subseteq OrderOutputs(tx)
    BY <2>2, <2>3 DEF OrderOutputs
  <2>6. QED
    BY <2>4, <2>5
<1>9. ASSUME NEW k \in filled PROVE Rank(OrderOutputs(tx), place[k]) = Rank(filled, k)
  <2> DEFINE lower == {l \in filled : l < k}
  <2>1. {n \in OrderOutputs(tx) : n < place[k]} = {place[l] : l \in lower}
    <3>1. \A l \in filled : place[l] < place[k] <=> l < k
      <4> SUFFICES ASSUME NEW l \in filled PROVE place[l] < place[k] <=> l < k
        OBVIOUS
      <4>1. l \in 1..size /\ k \in 1..size /\ place[l] \in Int /\ place[k] \in Int
        BY <1>2, <1>4
      <4>2. l < k \/ l = k \/ k < l
        BY <4>1
      <4>3. QED
        BY <1>3, <4>1, <4>2
    <3>2. {n \in {place[l] : l \in filled} : n < place[k]} = {place[l] : l \in lower}
      BY <3>1
    <3>3. QED
      BY <1>8, <3>2
  <2>2. IsFiniteSet(lower) /\ lower \subseteq 1..size
    BY <1>2, FS_Subset
  <2> HIDE DEF lower
  <2>3. Cardinality({place[l] : l \in lower}) = Cardinality(lower)
    <3>1. \A a, b \in lower : place[a] = place[b] => a = b
      BY <1>5, <2>2
    <3>2. QED
      BY <2>2, <3>1, ImageSize
  <2>4. QED
    BY <2>1, <2>3 DEF Rank, lower
<1>10. QED
  BY <1>7, <1>8, <1>9 DEF filled, place

(* The n-th partial take is continued by the n-th order output.            *)
InputsOf(S, kinds, w) ==
  [i \in DOMAIN InOrder(S \cup w) |->
     [ref |-> InOrder(S \cup w)[i],
      redeemer |-> IF InOrder(S \cup w)[i] \in S THEN kinds[InOrder(S \cup w)[i]] ELSE None]]

LEMMA SpendPairs ==
  ASSUME ChainInv, NEW S, S \subseteq Orders, IsFiniteSet(S), NEW kinds \in [S -> Kinds],
         NEW w, w \subseteq OutputRefs, IsFiniteSet(w), NEW tx,
         tx.inputs = InputsOf(S, kinds, w),
         tx.outputs = Layout(InOrder(S), kinds)
  PROVE  \A n \in OrderOutputs(tx) :
           \E ref \in S :
             /\ tx.outputs[n] = Continuation(ref)
             /\ Rank(OrderOutputs(tx), n) < Cardinality(PartialInputs(tx))
             /\ tx.inputs[Nth(PartialInputs(tx), Rank(OrderOutputs(tx), n))].ref = ref
<1> DEFINE P == {ref \in S : kinds[ref] = "TakeOrderPartial"}
           all == S \cup w
           refs == InOrder(all)
           legs == InOrder(S)
           size == Cardinality(S)
           filled == Filled(legs, kinds, size)
           place == Places(legs, kinds, size)
<1>1. S \subseteq OutputRefs /\ all \subseteq OutputRefs /\ IsFiniteSet(all)
  BY OrdersOfChain, FS_Union
<1>2. size \in Nat /\ legs \in [1..size -> S] /\ Cardinality(all) \in Nat /\ refs \in [1..Cardinality(all) -> all]
  BY <1>1, InOrderListsAll
<1>3. Len(legs) = size
  <2> HIDE DEF legs, size
  <2>1. QED
    BY <1>2
<1>4. P \in SUBSET S /\ P \in SUBSET all
  OBVIOUS
<1> HIDE DEF legs, refs
<1>5. filled = {k \in 1..size : legs[k] \in P}
  BY <1>2 DEF Filled
<1>6. PartialInputs(tx) = {i \in 1..Cardinality(all) : refs[i] \in P}
  <2>1. DOMAIN tx.inputs = 1..Cardinality(all)
    BY <1>2 DEF refs, InputsOf
  <2>2. None # "TakeOrderPartial"
    BY ChainAssumption
  <2>3. ASSUME NEW i \in 1..Cardinality(all)
        PROVE  tx.inputs[i].redeemer = "TakeOrderPartial" <=> refs[i] \in P
    <3>1. tx.inputs[i].redeemer = IF refs[i] \in S THEN kinds[refs[i]] ELSE None
      BY <1>2 DEF refs, InputsOf
    <3>2. QED
      BY <2>2, <3>1
  <2> HIDE DEF P, all
  <2>4. QED
    BY <2>1, <2>3 DEF PartialInputs
<1>7. \A i \in 1..Cardinality(all) : tx.inputs[i].ref = refs[i]
  BY <1>2 DEF refs, InputsOf
<1>8. \A k \in 1..size : Continuation(legs[k]).owner # None
  <2> SUFFICES ASSUME NEW ref \in S PROVE Continuation(ref).owner # None
    BY <1>2
  <2>1. ref[1] \in DOMAIN chain /\ ref[2] \in OrderOutputs(chain[ref[1]])
    BY OrdersOfChain DEF Seen
  <2>2. QED
    BY <2>1 DEF Continuation, OrderOutputs
<1> DEFINE outs == OrderOutputs(tx)
           ins == PartialInputs(tx)
<1>9. /\ outs = {place[k] : k \in filled}
      /\ \A k \in filled : tx.outputs[place[k]] = Continuation(legs[k]) /\ Rank(outs, place[k]) = Rank(filled, k)
  <2> HIDE DEF size
  <2>1. tx.outputs = Layout(legs, kinds)
    BY DEF legs
  <2>2. QED
    BY <1>2, <1>3, <1>8, <2>1, PlacesOfContinuations
<1>10. IsFiniteSet(ins) /\ ins \subseteq Int
  <2>1. ins \subseteq 1..Cardinality(all) /\ IsFiniteSet(1..Cardinality(all))
    BY <1>2, <1>6, FS_Interval
  <2> HIDE DEF ins
  <2>2. IsFiniteSet(ins)
    BY <2>1, FS_Subset
  <2>3. QED
    BY <1>2, <2>1, <2>2
<1> HIDE DEF place, ins, outs
<1>11. ASSUME NEW k \in filled
       PROVE  /\ Rank(outs, place[k]) < Cardinality(ins)
              /\ tx.inputs[Nth(ins, Rank(outs, place[k]))].ref = legs[k]
              /\ legs[k] \in S
  <2>1. k \in 1..size /\ legs[k] \in P
    BY <1>5
  <2>2. Rank(filled, k) = Cardinality({q \in P : RefLess(q, legs[k])})
    <3>1. filled = PlacesOf(P, S) /\ k \in 1..Cardinality(S)
      BY <1>5, <2>1 DEF legs, PlacesOf
    <3> HIDE DEF P, size, filled
    <3>2. Rank(filled, k) = Cardinality({q \in P : RefLess(q, InOrder(S)[k])})
      BY <1>1, <1>4, <3>1, RanksOfPlaces
    <3>3. QED
      BY <3>2 DEF legs
  <2>3. PICK i \in 1..Cardinality(all) : refs[i] = legs[k]
    BY <1>1, <2>1, InOrderSorted DEF refs
  <2>4. i \in ins
    BY <1>6, <2>1, <2>3 DEF ins
  <2>5. Rank(ins, i) = Cardinality({q \in P : RefLess(q, refs[i])})
    <3>1. ins = PlacesOf(P, all)
      BY <1>6 DEF ins, refs, PlacesOf
    <3> HIDE DEF P, all
    <3>2. Rank(ins, i) = Cardinality({q \in P : RefLess(q, InOrder(all)[i])})
      BY <1>1, <1>4, <3>1, RanksOfPlaces
    <3>3. QED
      BY <3>2 DEF refs
  <2> HIDE DEF P, all, size, filled
  <2>6. Rank(outs, place[k]) = Rank(ins, i)
    BY <1>9, <2>2, <2>3, <2>5
  <2>7. Rank(ins, i) < Cardinality(ins) /\ Nth(ins, Rank(ins, i)) = i
    BY <1>10, <2>4, NumberRanks, NthOfRank DEF Numeric
  <2>8. QED
    BY <1>7, <2>1, <2>3, <2>6, <2>7 DEF P, all
<1>12. QED
  <2> SUFFICES ASSUME NEW n \in outs
               PROVE  \E ref \in S : /\ tx.outputs[n] = Continuation(ref)
                                    /\ Rank(outs, n) < Cardinality(ins)
                                    /\ tx.inputs[Nth(ins, Rank(outs, n))].ref = ref
    BY DEF outs, ins
  <2> HIDE DEF filled
  <2>1. PICK k \in filled : n = place[k]
    BY <1>9
  <2>2. QED
    BY <1>9, <1>11, <2>1

----------------------------------------------------------------------------
(***************************************************************************)
(* Descent: each order of the chain is one that its seller placed, or the  *)
(* continuation of one by the ranks.                                       *)
(***************************************************************************)
FillsOf(ref) == Seen(ref[1]).outputs[ref[2]].fills

PlacedAt(tx, id, i) ==
  /\ tx.outputs[i].parent = None /\ tx.outputs[i].root = <<id, i>> /\ tx.outputs[i].fills = 0
  /\ PartialInputs(tx) = {}

ContinuesOrder(tx, i, ref) ==
  /\ tx.outputs[i].parent = ref /\ tx.outputs[i].root = RootOf(ref)
  /\ tx.outputs[i].fills = FillsOf(ref) + 1
  /\ Rank(OrderOutputs(tx), i) < Cardinality(PartialInputs(tx))
  /\ tx.inputs[Nth(PartialInputs(tx), Rank(OrderOutputs(tx), i))].ref = ref

Descends(tx, id, i) ==
  PlacedAt(tx, id, i) \/ \E ref \in OrdersSeen : ContinuesOrder(tx, i, ref)

ChainPaired ==
  \A id \in EverSeen : \A i \in OrderOutputs(Seen(id)) :
    Descends(Seen(id), id, i)

LEMMA AttributesStay ==
  ASSUME ChainInv, ChainGrows, NEW ref \in OrdersSeen
  PROVE  /\ ParentOf(ref)' = ParentOf(ref) /\ RootOf(ref)' = RootOf(ref) /\ FillsOf(ref)' = FillsOf(ref)
         /\ FillsOf(ref) \in Nat
<1>1. ref[1] \in EverSeen /\ ref[2] \in OrderOutputs(Seen(ref[1]))
  BY OrdersOfChain
<1>2. Seen(ref[1]) \in Transactions /\ ref[2] \in DOMAIN Seen(ref[1]).outputs
  BY <1>1 DEF ChainInv, OrderOutputs
<1>3. Seen(ref[1]).outputs[ref[2]] \in Outputs
  BY <1>2 DEF Transactions
<1>4. QED
  BY <1>1, <1>3 DEF ChainGrows, ParentOf, RootOf, FillsOf, Outputs

(* A transaction that enters the chain, with its orders by the ranks.      *)
LEMMA IncludePairs ==
  ASSUME ChainInv, ChainPaired, ChainInv', ChainGrows, NEW id, NEW inputs, NEW outputs,
         Include(id, inputs, outputs), NEW tx,
         tx = [inputs |-> inputs, outputs |-> outputs, height |-> height],
         \A i \in OrderOutputs(tx) : Descends(tx, id, i)
  PROVE  ChainPaired'
<1>1. /\ id \notin EverSeen /\ EverSeen' = EverSeen \cup {id} /\ Seen(id)' = tx
      /\ \A t \in EverSeen : Seen(t)' = Seen(t)
  BY DEF Include, EverSeen, Seen
<1>2. ASSUME NEW t, NEW u, NEW i, Descends(t, u, i) PROVE Descends(t, u, i)'
  BY <1>2, AttributesStay, OrdersStay DEF Descends, PlacedAt, ContinuesOrder
<1>3. ASSUME NEW t \in EverSeen, NEW i \in OrderOutputs(Seen(t))
      PROVE  Descends(Seen(t), t, i)'
  <2>1. PICK x : x = Seen(t)
    OBVIOUS
  <2>2. Descends(x, t, i)'
    BY <1>2, <2>1 DEF ChainPaired
  <2>3. Seen(t)' = x
    BY <1>1, <2>1
  <2>4. QED
    BY <2>2, <2>3
<1>4. ASSUME NEW i \in OrderOutputs(tx)
      PROVE  Descends(Seen(id), id, i)'
  <2>1. Descends(tx, id, i)'
    BY <1>2
  <2>2. QED
    BY <1>1, <2>1
<1>5. QED
  <2>1. ASSUME NEW t \in EverSeen', NEW i \in OrderOutputs(Seen(t))'
        PROVE  Descends(Seen(t), t, i)'
    <3>1. CASE t = id
      BY <1>1, <1>4, <3>1
    <3>2. CASE t # id
      <4>1. t \in EverSeen /\ OrderOutputs(Seen(t))' = OrderOutputs(Seen(t))
        BY <1>1, <3>2 DEF OrderOutputs
      <4>2. QED
        BY <1>3, <4>1
    <3>3. QED
      BY <3>1, <3>2
  <2>2. QED
    BY <2>1 DEF ChainPaired

LEMMA SpendDescends ==
  ASSUME ChainInv, NEW id, NEW S \in SUBSET Unspent, NEW kinds \in [S -> Kinds],
         NEW w \in SUBSET Wallet, IsFiniteSet(w), Spend(id, kinds, w),
         ChainPaired, ChainInv', ChainGrows
  PROVE  ChainPaired'
<1> DEFINE inputs == InputsOf(S, kinds, w)
           out == Layout(InOrder(S), kinds)
           tx == [inputs |-> inputs, outputs |-> out, height |-> height]
<1>1. S \subseteq Orders /\ IsFiniteSet(S) /\ DOMAIN kinds = S
  BY OrdersOfChain, OrdersFinite, FS_Subset
<1>2. Include(id, inputs, out)
  BY <1>1 DEF Spend, InputsOf
<1>3. w \subseteq OutputRefs
  BY ChainAssumption DEF OutputRefs
<1>4. tx.inputs = inputs /\ tx.outputs = out
  OBVIOUS
<1> HIDE DEF tx
<1>5. \A n \in OrderOutputs(tx) :
        \E ref \in S : /\ tx.outputs[n] = Continuation(ref)
                      /\ Rank(OrderOutputs(tx), n) < Cardinality(PartialInputs(tx))
                      /\ tx.inputs[Nth(PartialInputs(tx), Rank(OrderOutputs(tx), n))].ref = ref
  BY <1>1, <1>3, <1>4, SpendPairs
<1> HIDE DEF inputs, out
<1>6. ASSUME NEW n \in OrderOutputs(tx) PROVE Descends(tx, id, n)
  <2>1. PICK ref \in S : /\ tx.outputs[n] = Continuation(ref)
                         /\ Rank(OrderOutputs(tx), n) < Cardinality(PartialInputs(tx))
                         /\ tx.inputs[Nth(PartialInputs(tx), Rank(OrderOutputs(tx), n))].ref = ref
    BY <1>5
  <2>2. ref \in OrdersSeen /\ ref[1] \in DOMAIN chain
    BY <1>1, OrdersOfChain
  <2>3. /\ tx.outputs[n].parent = ref /\ tx.outputs[n].root = RootOf(ref)
        /\ tx.outputs[n].fills = FillsOf(ref) + 1
    BY <2>1, <2>2 DEF Continuation, RootOf, FillsOf, Seen
  <2>4. QED
    BY <2>1, <2>2, <2>3 DEF Descends, ContinuesOrder
<1>7. tx = [inputs |-> inputs, outputs |-> out, height |-> height]
  BY DEF tx
<1>8. QED
  BY <1>2, <1>6, <1>7, IncludePairs

LEMMA CreateDescends ==
  ASSUME ChainInv, NEW id, NEW owner, Create(id, owner), ChainPaired, ChainInv', ChainGrows
  PROVE  ChainPaired'
<1> DEFINE order == [owner |-> owner, parent |-> None, root |-> <<id, 1>>, fills |-> 0]
           tx == [inputs |-> << >>, outputs |-> <<order>>, height |-> height]
<1>1. Include(id, << >>, <<order>>)
  BY DEF Create
<1>2. tx.inputs = << >> /\ tx.outputs = <<order>>
  OBVIOUS
<1>3. ASSUME NEW i \in OrderOutputs(tx) PROVE Descends(tx, id, i)
  <2>1. i = 1 /\ tx.outputs[i] = order
    BY <1>2 DEF OrderOutputs
  <2>2. PartialInputs(tx) = {}
    BY <1>2 DEF PartialInputs
  <2>3. QED
    BY <2>1, <2>2 DEF Descends, PlacedAt
<1>4. tx = [inputs |-> << >>, outputs |-> <<order>>, height |-> height]
  OBVIOUS
<1> HIDE DEF tx, order
<1>5. QED
  BY <1>1, <1>3, <1>4, IncludePairs

LEMMA PairingStays ==
  ASSUME ChainInv, ChainPaired, ChainGrows, chain' = chain, mempool' = mempool
  PROVE  ChainPaired'
<1>1. EverSeen' = EverSeen /\ \A t \in EverSeen : Seen(t)' = Seen(t)
  BY DEF EverSeen, Seen
<1>2. ASSUME NEW t, NEW u, NEW i, Descends(t, u, i) PROVE Descends(t, u, i)'
  BY <1>2, AttributesStay, OrdersStay DEF Descends, PlacedAt, ContinuesOrder
<1>3. ASSUME NEW t \in EverSeen', NEW i \in OrderOutputs(Seen(t))'
      PROVE  Descends(Seen(t), t, i)'
  <2>1. PICK x : x = Seen(t)
    OBVIOUS
  <2>2. Seen(t)' = x /\ t \in EverSeen /\ i \in OrderOutputs(x)
    BY <1>1, <2>1 DEF OrderOutputs
  <2>3. Descends(x, t, i)
    BY <2>1, <2>2 DEF ChainPaired
  <2>4. Descends(x, t, i)'
    BY <1>2, <2>3
  <2>5. QED
    BY <2>2, <2>4
<1>4. QED
  BY <1>3 DEF ChainPaired

LEMMA ChainStepPairs ==
  ASSUME ChainInv, ChainPaired, DOMAIN mempool = {}, ChainStep
  PROVE  ChainPaired'
<1>1. ChainInv' /\ ChainGrows
  BY ChainStepGrows
<1>2. CASE Block
  BY <1>1, <1>2, PairingStays DEF Block
<1>3. ASSUME NEW id \in TxIds, NEW o \in Owners, Create(id, o) PROVE ChainPaired'
  BY <1>1, <1>3, CreateDescends
<1>4. \A w \in {{}} \cup {{v} : v \in Wallet} : w \in SUBSET Wallet /\ IsFiniteSet(w)
  BY FS_EmptySet, FS_Singleton
<1>5. ASSUME NEW id \in TxIds, NEW w \in {{}} \cup {{v} : v \in Wallet},
             NEW S \in SUBSET Unspent \ {{}},
             NEW kinds \in [S -> {"TakeOrder", "TakeOrderPartial"}], Spend(id, kinds, w)
      PROVE  ChainPaired'
  <2>1. kinds \in [S -> Kinds]
    BY DEF Kinds
  <2>2. w \in SUBSET Wallet /\ IsFiniteSet(w) /\ S \in SUBSET Unspent
    BY <1>4
  <2>3. QED
    BY <1>1, <1>5, <2>1, <2>2, SpendDescends
<1>6. ASSUME NEW id \in TxIds, NEW r \in Unspent, NEW w \in {{}} \cup {{v} : v \in Wallet},
             Spend(id, [x \in {r} |-> "CancelOrder"], w)
      PROVE  ChainPaired'
  <2> DEFINE kinds == [x \in {r} |-> "CancelOrder"]
  <2>1. kinds \in [{r} -> Kinds] /\ {r} \in SUBSET Unspent
    BY DEF Kinds
  <2>2. w \in SUBSET Wallet /\ IsFiniteSet(w)
    BY <1>4
  <2> HIDE DEF kinds
  <2>3. QED
    BY <1>1, <1>6, <2>1, <2>2, SpendDescends DEF kinds
<1>7. QED
  BY <1>2, <1>3, <1>5, <1>6 DEF ChainStep

(* What follows for an order.                                              *)
LEMMA Descent ==
  ASSUME ChainInv, ChainPaired, NEW ref \in OrdersSeen
  PROVE  /\ FillsOf(ref) \in Nat
         /\ ParentOf(ref) = None => RootOf(ref) = ref
         /\ ParentOf(ref) # None => /\ ParentOf(ref) \in OrdersSeen
                                    /\ RootOf(ref) = RootOf(ParentOf(ref))
                                    /\ FillsOf(ref) = FillsOf(ParentOf(ref)) + 1
<1>1. /\ ref = <<ref[1], ref[2]>> /\ ref[1] \in EverSeen /\ ref[2] \in OrderOutputs(Seen(ref[1]))
      /\ OrdersSeen \subseteq Refs
  BY OrdersOfChain
<1>2. Seen(ref[1]) \in Transactions /\ ref[2] \in DOMAIN Seen(ref[1]).outputs
  BY <1>1 DEF ChainInv, OrderOutputs
<1>3. Seen(ref[1]).outputs[ref[2]] \in Outputs
  BY <1>2 DEF Transactions
<1>4. Descends(Seen(ref[1]), ref[1], ref[2])
  BY <1>1 DEF ChainPaired
<1>5. None \notin Refs
  BY ChainAssumption DEF Refs
<1>6. FillsOf(ref) \in Nat
  BY <1>3 DEF FillsOf, Outputs
<1>7. CASE PlacedAt(Seen(ref[1]), ref[1], ref[2])
  <2>1. ParentOf(ref) = None /\ RootOf(ref) = ref
    BY <1>1, <1>7 DEF PlacedAt, ParentOf, RootOf
  <2>2. QED
    BY <1>1, <1>5, <1>6, <2>1
<1>8. ASSUME NEW p \in OrdersSeen, ContinuesOrder(Seen(ref[1]), ref[2], p)
      PROVE  /\ ParentOf(ref) = p /\ p # None /\ RootOf(ref) = RootOf(p)
             /\ FillsOf(ref) = FillsOf(p) + 1
  BY <1>1, <1>5, <1>8 DEF ContinuesOrder, ParentOf, RootOf, FillsOf
<1>9. QED
  BY <1>4, <1>6, <1>7, <1>8 DEF Descends

(* The ranks lead back to the order that is continued ...                  *)
LEMMA ParentFound ==
  ASSUME ChainInv, ChainPaired, DOMAIN mempool = {}, NEW ref \in OrdersSeen
  PROVE  ParentOnChain(ref) = ParentOf(ref)
<1> DEFINE tx == chain[ref[1]]
           rank == Rank(OrderOutputs(tx), ref[2])
<1>1. ref[1] \in DOMAIN chain /\ Seen(ref[1]) = tx /\ ref[2] \in OrderOutputs(tx) /\ tx \in Transactions
  BY OrdersOfChain DEF EverSeen, Seen, ChainInv
<1>2. Descends(tx, ref[1], ref[2]) /\ ParentOf(ref) = tx.outputs[ref[2]].parent
  BY <1>1 DEF ChainPaired, ParentOf, EverSeen
<1>3. rank \in Nat /\ Cardinality(PartialInputs(tx)) \in Nat
  BY <1>1, PositionsFinite, RankIsNat, FS_CardinalityType
<1>4. CASE PlacedAt(tx, ref[1], ref[2])
  <2>1. Cardinality(PartialInputs(tx)) = 0 /\ ParentOf(ref) = None
    BY <1>2, <1>4, FS_EmptySet DEF PlacedAt
  <2>2. rank >= Cardinality(PartialInputs(tx))
    BY <1>3, <2>1
  <2>3. QED
    BY <1>1, <2>1, <2>2 DEF ParentOnChain, OnChain
<1>5. ASSUME NEW p \in OrdersSeen, ContinuesOrder(tx, ref[2], p)
      PROVE  ParentOnChain(ref) = ParentOf(ref)
  <2>1. /\ rank < Cardinality(PartialInputs(tx)) /\ ParentOf(ref) = p
        /\ tx.inputs[Nth(PartialInputs(tx), rank)].ref = p
    BY <1>2, <1>5 DEF ContinuesOrder
  <2>2. p \in Orders
    <3>1. p = <<p[1], p[2]>> /\ p[1] \in DOMAIN chain /\ p[2] \in OrderOutputs(chain[p[1]])
      BY OrdersOfChain DEF EverSeen, Seen
    <3>2. QED
      BY <3>1 DEF Orders
  <2>3. ~(rank >= Cardinality(PartialInputs(tx)))
    BY <1>3, <2>1
  <2>4. QED
    BY <1>1, <2>1, <2>2, <2>3 DEF ParentOnChain, OnChain
<1>6. QED
  BY <1>2, <1>4, <1>5 DEF Descends

(* ... and forward to its continuation.                                    *)
LEMMA ChildFound ==
  ASSUME ChainInv, ChainPaired, NEW ref \in OrdersSeen, classifySpend(ref).child # None
  PROVE  classifySpend(ref).child \in OrdersSeen /\ ParentOf(classifySpend(ref).child) = ref
<1> DEFINE id == CHOOSE t \in SpentBy(ref) : TRUE
           tx == chain[id]
           at == CHOOSE i \in DOMAIN tx.inputs : tx.inputs[i].ref = ref
           kind == tx.inputs[at].redeemer
           rank == Rank(PartialInputs(tx), at)
           child == IF rank < Cardinality(OrderOutputs(tx))
                    THEN <<id, Nth(OrderOutputs(tx), rank)>> ELSE None
<1>1. OnChain(ref) /\ SpentBy(ref) # {}
  BY DEF classifySpend, Unknown
<1>2. id \in DOMAIN chain /\ Spends(tx, ref)
  BY <1>1 DEF SpentBy
<1>3. tx \in Transactions /\ Seen(id) = tx /\ id \in EverSeen /\ OrdersSpent(tx)
  BY <1>2 DEF ChainInv, EverSeen, Seen
<1>4. classifySpend(ref) =
        CASE kind = "CancelOrder" -> [status |-> "cancelled", tx |-> id, child |-> None]
          [] kind = "TakeOrder"   -> [status |-> "taken", tx |-> id, child |-> None]
          [] kind = "TakeOrderPartial" ->
               [status |-> "partially_filled", tx |-> id, child |-> child]
  BY <1>1 DEF classifySpend
<1> HIDE DEF id
<1>5. at \in DOMAIN tx.inputs /\ tx.inputs[at].ref = ref
  BY <1>2 DEF Spends
<1> HIDE DEF at
<1>6. kind \in Kinds
  <2>1. tx.inputs \in Seq(Inputs)
    BY <1>3 DEF Transactions
  <2> HIDE DEF tx
  <2>2. tx.inputs[at] \in Inputs
    BY <1>5, <2>1
  <2>3. ref \in Refs
    BY OrdersOfChain
  <2>4. QED
    BY <1>3, <1>5, <2>2, <2>3 DEF OrdersSpent, Inputs
<1> HIDE DEF child
<1>7. kind = "TakeOrderPartial" /\ classifySpend(ref).child = child
  <2> HIDE DEF kind
  <2>1. CASE kind = "CancelOrder"
    BY <1>4, <2>1
  <2>2. CASE kind = "TakeOrder"
    BY <1>4, <2>2
  <2>3. CASE kind = "TakeOrderPartial"
    BY <1>4, <2>3
  <2>4. QED
    BY <1>6, <2>1, <2>2, <2>3 DEF Kinds
<1>8. at \in PartialInputs(tx)
  BY <1>5, <1>7 DEF PartialInputs
<1>9. /\ OrderOutputs(tx) \subseteq Int /\ IsFiniteSet(OrderOutputs(tx))
      /\ PartialInputs(tx) \subseteq Int /\ IsFiniteSet(PartialInputs(tx))
      /\ rank \in Nat
  BY <1>3, PositionsFinite, RankIsNat
<1>10. rank < Cardinality(OrderOutputs(tx)) /\ child = <<id, Nth(OrderOutputs(tx), rank)>>
  BY <1>7 DEF child
<1> DEFINE i == Nth(OrderOutputs(tx), rank)
<1> HIDE DEF tx
<1>11. i \in OrderOutputs(tx) /\ Rank(OrderOutputs(tx), i) = rank
  <2> HIDE DEF rank
  <2>1. QED
    BY <1>9, <1>10, NthIsMember
<1>12. Nth(PartialInputs(tx), rank) = at
  BY <1>8, <1>9, NthOfRank
<1> HIDE DEF i, rank
<1>13. child \in OrdersSeen /\ ParentOf(child) = tx.outputs[i].parent
  BY <1>3, <1>10, <1>11 DEF OrdersSeen, ParentOf, i
<1>14. Descends(tx, id, i)
  BY <1>3, <1>11 DEF ChainPaired
<1>15. tx.outputs[i].parent = ref
  <2>1. PartialInputs(tx) # {}
    BY <1>8
  <2>2. QED
    BY <1>5, <1>11, <1>12, <1>14, <2>1 DEF Descends, PlacedAt, ContinuesOrder
<1>16. QED
  BY <1>7, <1>13, <1>15

----------------------------------------------------------------------------
(***************************************************************************)
(* The cache is true if no backfill is interrupted (no call throws, no     *)
(* history is cut short, nothing restarts and no block is rolled back; a   *)
(* page of orders may be lost), as long as no order has been filled more   *)
(* often than a walk goes.                                                 *)
(***************************************************************************)
Uninterrupted == FaultKinds \subseteq {"fetch"}

WithinReach == \A ref \in OrdersSeen : FillsOf(ref) < MaxAncestry

(* A walk goes up link by link from the order it began with, and when it   *)
(* is written down it has come to the root or to an order that is linked.  *)
WalkTrue(r, linked) ==
  /\ r.pc \notin Walking => r.links = << >>
  /\ r.pc \in Walking =>
       \A i \in DOMAIN r.links :
         /\ r.links[i].child = IF i = 1 THEN r.cur ELSE r.links[i - 1].parent
         /\ r.links[i].parent = ParentOf(r.links[i].child)
         /\ RootOf(r.links[i].parent) = RootOf(r.cur)
         /\ FillsOf(r.links[i].parent) + i = FillsOf(r.cur)
  /\ r.pc \in {"reopen", "close", "link"} =>
       /\ r.root = RootOf(r.cur)
       /\ LET top == r.links[Len(r.links)].parent
          IN  ParentOf(top) = None \/ top \in linked

(* What the sync has in hand is of cached orders.                          *)
SyncLinked(r, rows, linked) ==
  /\ r.pc # "repair"
  /\ r.todo \subseteq rows
  /\ r.pc = "confirm" /\ r.known => r.cur \in rows
  /\ r.pc \in {"mark", "lineage"} =>
       r.cur \in rows /\ (r.verdict.child # None => ParentOf(r.verdict.child) = r.cur)
  /\ r.pc = "surface" => r.verdict.child \in linked

(* Every cached continuation is linked, but for one the sync is about.     *)
RowsLinked(r, rows, linked) ==
  \A ref \in rows :
    \/ ParentOf(ref) = None \/ ref \in linked
    \/ r.pc \in Walking /\ ref = r.cur

BackInv ==
  /\ CacheInv /\ ChainPaired
  /\ DOMAIN mempool = {}
  /\ current = First
  /\ \A s \in Sessions \ {First} : At(s, "idle")
  /\ proc[Repair].pc \in RepairPoints
  /\ WalkTrue(proc[First], DOMAIN lineage) /\ WalkTrue(proc[Repair], DOMAIN lineage)
  /\ SyncLinked(proc[First], DOMAIN row, DOMAIN lineage)
  /\ RowsLinked(proc[First], DOMAIN row, DOMAIN lineage)
  /\ LineageTrue

LEMMA InHand ==
  ASSUME BackInv
  PROVE  /\ First \in Procs /\ Repair \in Procs /\ First # Repair
         /\ CacheInv /\ ChainInv /\ ChainPaired
         /\ proc \in [Procs -> Processes]
         /\ \A p \in Procs : proc[p] \in Processes /\ Remembers(proc[p])
         /\ OrdersSeen \subseteq Refs /\ open \subseteq DOMAIN row /\ DOMAIN row \subseteq OrdersSeen
BY OneProcess, IndexerAssumption DEF BackInv, CacheInv, ProcsTrue, RowsTrue, Procs, open

LEMMA AttributesSame ==
  ASSUME UNCHANGED chainVars, NEW ref
  PROVE  ParentOf(ref)' = ParentOf(ref) /\ RootOf(ref)' = RootOf(ref) /\ FillsOf(ref)' = FillsOf(ref)
BY DEF ParentOf, RootOf, FillsOf, Seen, chainVars

LEMMA WalkGrows ==
  ASSUME NEW r, NEW L, NEW M, L \subseteq M, WalkTrue(r, L)
  PROVE  WalkTrue(r, M)
BY DEF WalkTrue

LEMMA SyncGrows ==
  ASSUME NEW r, NEW R, NEW S, R \subseteq S, NEW L, NEW M, L \subseteq M, SyncLinked(r, R, L)
  PROVE  SyncLinked(r, S, M)
BY DEF SyncLinked

(* What is true while the chain stands still stays true.                   *)
LEMMA SameChain ==
  ASSUME UNCHANGED chainVars, NEW r, NEW R, NEW L
  PROVE  /\ WalkTrue(r, L) => WalkTrue(r, L)'
         /\ SyncLinked(r, R, L) => SyncLinked(r, R, L)'
         /\ RowsLinked(r, R, L) => RowsLinked(r, R, L)'
BY AttributesSame DEF WalkTrue, SyncLinked, RowsLinked

WritesTrueLink ==
  \/ lineage' = lineage
  \/ \E child \in OrdersSeen : setLineage(child, ParentOf(child), RootOf(child))

LEMMA LinksWritten ==
  ASSUME LineageTrue, WritesTrueLink, UNCHANGED chainVars
  PROVE  LineageTrue' /\ DOMAIN lineage \subseteq DOMAIN lineage'
<1>1. ASSUME NEW ref \in DOMAIN lineage'
      PROVE  lineage'[ref] = [parent |-> ParentOf(ref), root |-> RootOf(ref)]
  BY DEF WritesTrueLink, setLineage, Put, LineageTrue
<1>2. LineageTrue'
  BY <1>1, AttributesSame DEF LineageTrue
<1>3. DOMAIN lineage \subseteq DOMAIN lineage'
  BY DEF WritesTrueLink, setLineage, Put
<1>4. QED
  BY <1>2, <1>3

(* A step of the sync.                                                     *)
LEMMA BackBySync ==
  ASSUME BackInv, CacheInv', NEW r, JustGoesOn(First, r), WritesTrueLink,
         WalkTrue(r, DOMAIN lineage'), SyncLinked(r, DOMAIN row', DOMAIN lineage'),
         RowsLinked(r, DOMAIN row', DOMAIN lineage')
  PROVE  BackInv'
<1>1. UNCHANGED chainVars /\ current' = current
  BY DEF JustGoesOn
<1>2. LineageTrue' /\ DOMAIN lineage \subseteq DOMAIN lineage'
  BY <1>1, LinksWritten DEF BackInv
<1>3. proc'[First] = r /\ \A p \in Procs \ {First} : proc'[p] = proc[p]
  BY InHand DEF JustGoesOn, Becomes
<1>4. PICK L, R, x : L = DOMAIN lineage' /\ R = DOMAIN row' /\ x = proc[Repair]
  OBVIOUS
<1>5. WalkTrue(r, L)' /\ SyncLinked(r, R, L)' /\ RowsLinked(r, R, L)' /\ WalkTrue(x, L)'
  <2>1. WalkTrue(x, L)
    BY <1>2, <1>4, WalkGrows DEF BackInv
  <2>2. QED
    BY <1>1, <1>4, <2>1, SameChain
<1>6. WalkTrue(proc[First], DOMAIN lineage)' /\ SyncLinked(proc[First], DOMAIN row, DOMAIN lineage)'
      /\ RowsLinked(proc[First], DOMAIN row, DOMAIN lineage)'
  BY <1>3, <1>4, <1>5
<1>7. WalkTrue(proc[Repair], DOMAIN lineage)' /\ proc'[Repair].pc \in RepairPoints
  BY <1>3, <1>4, <1>5, InHand DEF BackInv
<1>8. \A s \in Sessions \ {First} : At(s, "idle")'
  BY <1>3, InHand DEF BackInv, At, Procs
<1>9. ChainPaired' /\ DOMAIN mempool' = {}
  BY <1>1, ChainStays, PairingStays, InHand DEF BackInv, chainVars
<1>10. QED
  BY <1>1, <1>2, <1>6, <1>7, <1>8, <1>9 DEF BackInv

(* A step of the repair.                                                   *)
LEMMA BackByRepair ==
  ASSUME BackInv, CacheInv', NEW r, JustGoesOn(Repair, r), WritesTrueLink, r.pc \in RepairPoints,
         WalkTrue(r, DOMAIN lineage'), DOMAIN row \subseteq DOMAIN row',
         RowsLinked(proc[First], DOMAIN row', DOMAIN lineage')
  PROVE  BackInv'
<1>1. UNCHANGED chainVars /\ current' = current
  BY DEF JustGoesOn
<1>2. LineageTrue' /\ DOMAIN lineage \subseteq DOMAIN lineage'
  BY <1>1, LinksWritten DEF BackInv
<1>3. proc'[Repair] = r /\ \A p \in Procs \ {Repair} : proc'[p] = proc[p]
  BY InHand DEF JustGoesOn, Becomes
<1>4. PICK L, R, x : L = DOMAIN lineage' /\ R = DOMAIN row' /\ x = proc[First]
  OBVIOUS
<1>5. WalkTrue(r, L)' /\ SyncLinked(x, R, L)' /\ RowsLinked(x, R, L)' /\ WalkTrue(x, L)'
  <2>1. WalkTrue(x, L) /\ SyncLinked(x, R, L)
    BY <1>2, <1>4, WalkGrows, SyncGrows DEF BackInv
  <2>2. QED
    BY <1>1, <1>4, <2>1, SameChain
<1>6. proc'[First] = x
  BY <1>3, <1>4, InHand
<1>7. WalkTrue(proc[First], DOMAIN lineage)' /\ SyncLinked(proc[First], DOMAIN row, DOMAIN lineage)'
      /\ RowsLinked(proc[First], DOMAIN row, DOMAIN lineage)'
  BY <1>4, <1>5, <1>6
<1>8. WalkTrue(proc[Repair], DOMAIN lineage)' /\ proc'[Repair].pc \in RepairPoints
  BY <1>3, <1>4, <1>5
<1>9. \A s \in Sessions \ {First} : At(s, "idle")'
  BY <1>3, IndexerAssumption DEF BackInv, At, Procs
<1>10. ChainPaired' /\ DOMAIN mempool' = {}
  BY <1>1, ChainStays, PairingStays, InHand DEF BackInv, chainVars
<1>11. QED
  BY <1>1, <1>2, <1>7, <1>8, <1>9, <1>10 DEF BackInv

(* The chain moves on.                                                     *)
LEMMA BackByChain ==
  ASSUME BackInv, CacheInv', ChainGrows, ChainPaired', DOMAIN mempool' = {},
         UNCHANGED <<row, lineage, proc, current>>
  PROVE  BackInv'
<1>1. \A ref \in OrdersSeen : /\ ParentOf(ref)' = ParentOf(ref) /\ RootOf(ref)' = RootOf(ref)
                            /\ FillsOf(ref)' = FillsOf(ref)
  BY AttributesStay, InHand
<1>2. ASSUME NEW r \in Processes, Remembers(r), NEW L, WalkTrue(r, L) PROVE WalkTrue(r, L)'
  <2>1. CASE r.pc \in Walking
    <3>1. r.cur \in OrdersSeen
      BY <1>2, <2>1 DEF Remembers, Walking
    <3>2. \A i \in DOMAIN r.links : r.links[i].child \in OrdersSeen /\ r.links[i].parent \in OrdersSeen
      BY <1>2 DEF Remembers, LinkTrue
    <3>3. r.pc \in {"reopen", "close", "link"} => Len(r.links) \in DOMAIN r.links
      <4>1. r.links \in Seq(Links)
        BY DEF Processes
      <4>2. r.links # << >> => Len(r.links) \in DOMAIN r.links
        BY <4>1
      <4>3. QED
        BY <1>2, <4>2 DEF Remembers
    <3>4. QED
      BY <1>1, <1>2, <3>1, <3>2, <3>3 DEF WalkTrue
  <2>2. CASE r.pc \notin Walking
    BY <1>2, <2>2 DEF WalkTrue, Walking
  <2>3. QED
    BY <2>1, <2>2
<1>3. ASSUME NEW r, Remembers(r), NEW R, NEW L, SyncLinked(r, R, L) PROVE SyncLinked(r, R, L)'
  <2>1. ASSUME r.pc \in {"mark", "lineage"}, r.verdict.child # None
        PROVE  r.verdict.child \in OrdersSeen
    BY <1>3, <2>1 DEF Remembers, VerdictTrue
  <2>2. QED
    BY <1>1, <1>3, <2>1 DEF SyncLinked
<1>4. ASSUME NEW r, NEW R \in SUBSET OrdersSeen, NEW L, RowsLinked(r, R, L) PROVE RowsLinked(r, R, L)'
  BY <1>1, <1>4 DEF RowsLinked
<1>5. PICK L, R, x, y : L = DOMAIN lineage /\ R = DOMAIN row /\ x = proc[First] /\ y = proc[Repair]
  OBVIOUS
<1>6. WalkTrue(x, L)' /\ WalkTrue(y, L)' /\ SyncLinked(x, R, L)' /\ RowsLinked(x, R, L)'
  BY <1>2, <1>3, <1>4, <1>5, InHand DEF BackInv
<1>7. LineageTrue'
  <2>1. DOMAIN lineage \subseteq OrdersSeen
    BY DEF BackInv, CacheInv, LineageTyped
  <2>2. QED
    BY <1>1, <2>1 DEF BackInv, LineageTrue
<1>8. WalkTrue(proc[First], DOMAIN lineage)' /\ WalkTrue(proc[Repair], DOMAIN lineage)'
      /\ SyncLinked(proc[First], DOMAIN row, DOMAIN lineage)'
      /\ RowsLinked(proc[First], DOMAIN row, DOMAIN lineage)'
  BY <1>5, <1>6
<1>9. QED
  BY <1>7, <1>8 DEF BackInv, At

(* A step of the sync outside a walk.                                      *)
LEMMA SyncMoves ==
  ASSUME BackInv, CacheInv', proc[First].pc \notin Walking, NEW r, JustGoesOn(First, r),
         WritesTrueLink, r.pc \notin {"reopen", "close", "link"}, r.links = << >>,
         SyncLinked(r, DOMAIN row', DOMAIN lineage'),
         \A ref \in DOMAIN row' \ DOMAIN row :
           ParentOf(ref) = None \/ ref \in DOMAIN lineage' \/ (r.pc \in Walking /\ ref = r.cur)
  PROVE  BackInv'
<1>1. DOMAIN lineage \subseteq DOMAIN lineage'
  BY LinksWritten DEF BackInv, JustGoesOn
<1>2. WalkTrue(r, DOMAIN lineage')
  BY DEF WalkTrue
<1>3. RowsLinked(r, DOMAIN row', DOMAIN lineage')
  BY <1>1 DEF RowsLinked, BackInv
<1>4. QED
  BY <1>2, <1>3, BackBySync

LEMMA SyncLooks ==
  ASSUME BackInv, CacheInv', proc[First].pc \notin Walking, NEW r, JustGoesOn(First, r),
         DOMAIN row' = DOMAIN row, lineage' = lineage,
         r.pc \notin {"reopen", "close", "link"}, r.links = << >>,
         SyncLinked(r, DOMAIN row, DOMAIN lineage)
  PROVE  BackInv'
BY SyncMoves DEF WritesTrueLink

(* A step of a walk.                                                       *)
LEMMA WalkerMoves ==
  ASSUME BackInv, CacheInv', NEW p \in {First, Repair}, proc[p].pc \in Walking, NEW r,
         JustGoesOn(p, r), WritesTrueLink, r.pc \in Walking \cup {AfterWalk(p)},
         r.cur = proc[p].cur, r.todo = proc[p].todo,
         WalkTrue(r, DOMAIN lineage'), DOMAIN row \subseteq DOMAIN row',
         \A ref \in DOMAIN row' \ DOMAIN row : ParentOf(ref) = None \/ ref \in DOMAIN lineage',
         r.pc \in Walking \/ ParentOf(r.cur) = None \/ r.cur \in DOMAIN lineage'
  PROVE  BackInv'
<1>1. DOMAIN lineage \subseteq DOMAIN lineage'
  BY LinksWritten DEF BackInv, JustGoesOn
<1>2. CASE p = First
  <2>1. r.pc \in {"walk", "reopen", "close", "link", "scan"}
    BY <1>2, InHand DEF Walking, AfterWalk
  <2>2. SyncLinked(r, DOMAIN row', DOMAIN lineage')
    BY <1>2, <2>1 DEF SyncLinked, BackInv
  <2>3. RowsLinked(r, DOMAIN row', DOMAIN lineage')
    BY <1>1, <1>2 DEF RowsLinked, BackInv
  <2>4. QED
    BY <1>2, <2>2, <2>3, BackBySync
<1>3. CASE p = Repair
  <2>1. r.pc \in RepairPoints
    BY <1>3 DEF Walking, AfterWalk, RepairPoints
  <2>2. RowsLinked(proc[First], DOMAIN row', DOMAIN lineage')
    BY <1>1 DEF RowsLinked, BackInv
  <2>3. QED
    BY <1>3, <2>1, <2>2, BackByRepair
<1>4. QED
  BY <1>2, <1>3

LEMMA BeginBack == ASSUME BackInv, CacheInv', Begin(First) PROVE BackInv'
<1> DEFINE r == [Idle EXCEPT !.pc = "fetch", !.tip = height,
                             !.holders = {OwnerOf(ref) : ref \in Unspent}]
<1>1. JustGoesOn(First, r) /\ row' = row /\ lineage' = lineage /\ At(First, "idle")
  BY DEF Begin, Elsewhere, chainVars, JustGoesOn
<1>2. r.links = << >> /\ r.pc = "fetch" /\ SyncLinked(r, DOMAIN row, DOMAIN lineage)
  BY DEF SyncLinked, Idle
<1> HIDE DEF r
<1>3. QED
  BY <1>1, <1>2, SyncLooks DEF At, Walking

(* Outside a walk nothing of a walk is left.                               *)
LEMMA NoLinks ==
  ASSUME BackInv, proc[First].pc \notin Walking
  PROVE  /\ proc[First].links = << >> /\ proc[First] \in Processes
         /\ SyncLinked(proc[First], DOMAIN row, DOMAIN lineage)
BY InHand DEF BackInv, WalkTrue

LEMMA NoHoldersBack == ASSUME BackInv, CacheInv', NoHolders(First) PROVE BackInv'
<1> DEFINE r == [proc[First] EXCEPT !.pc = "list"]
<1>1. /\ JustGoesOn(First, r) /\ row' = row /\ lineage' = lineage
      /\ proc[First].pc = "fetch" /\ proc[First].pc \notin Walking
  BY DEF NoHolders, Elsewhere, chainVars, JustGoesOn, At, Walking
<1>2. r.links = << >> /\ r.pc = "list" /\ SyncLinked(r, DOMAIN row, DOMAIN lineage)
  BY <1>1, NoLinks DEF SyncLinked, Processes
<1> HIDE DEF r
<1>3. QED
  BY <1>1, <1>2, SyncLooks

(* A page is read, the whole or nothing of it.                             *)
LEMMA PageBack ==
  ASSUME BackInv, CacheInv', At(First, "fetch"), row' = row, lineage' = lineage,
         NEW h, NEW page, NEW seen,
         JustGoesOn(First, [proc[First] EXCEPT !.pc = "scan", !.holders = @ \ {h},
                                               !.page = page, !.seen = seen])
  PROVE  BackInv'
<1> DEFINE r == [proc[First] EXCEPT !.pc = "scan", !.holders = @ \ {h}, !.page = page, !.seen = seen]
<1>1. proc[First].pc = "fetch" /\ proc[First].pc \notin Walking
  BY DEF At, Walking
<1>2. r.links = << >> /\ r.pc = "scan" /\ SyncLinked(r, DOMAIN row, DOMAIN lineage)
  BY <1>1, NoLinks DEF SyncLinked, Processes
<1>3. JustGoesOn(First, r)
  OBVIOUS
<1> HIDE DEF r
<1>4. QED
  BY <1>1, <1>2, <1>3, SyncLooks

LEMMA FetchBack == ASSUME BackInv, CacheInv', Fetch(First) \/ FetchFails(First) PROVE BackInv'
<1>1. /\ UNCHANGED chainVars /\ UNCHANGED <<repository, current>> /\ row' = row /\ lineage' = lineage
      /\ At(First, "fetch")
  BY DEF Fetch, FetchFails, Elsewhere, chainVars
<1>2. CASE Fetch(First)
  <2>1. PICK h : Becomes(First, [proc[First] EXCEPT !.pc = "scan", !.holders = @ \ {h},
                                   !.page = {ref \in Unspent : OwnerOf(ref) = h},
                                   !.seen = @ \cup {ref \in Unspent : OwnerOf(ref) = h}])
    BY <1>2 DEF Fetch
  <2> DEFINE page == {ref \in Unspent : OwnerOf(ref) = h}
             seen == proc[First].seen \cup page
  <2>2. JustGoesOn(First, [proc[First] EXCEPT !.pc = "scan", !.holders = @ \ {h},
                                              !.page = page, !.seen = seen])
    BY <1>1, <2>1 DEF JustGoesOn
  <2> HIDE DEF page, seen
  <2>3. QED
    BY <1>1, <2>2, PageBack
<1>3. CASE FetchFails(First)
  <2>1. PICK h : Becomes(First, [proc[First] EXCEPT !.pc = "scan", !.holders = @ \ {h}, !.page = {}])
    BY <1>3 DEF FetchFails
  <2> DEFINE seen == proc[First].seen
  <2>2. [proc[First] EXCEPT !.pc = "scan", !.holders = @ \ {h}, !.page = {}]
        = [proc[First] EXCEPT !.pc = "scan", !.holders = @ \ {h}, !.page = {}, !.seen = seen]
    BY InHand DEF Processes
  <2>3. JustGoesOn(First, [proc[First] EXCEPT !.pc = "scan", !.holders = @ \ {h},
                                              !.page = {}, !.seen = seen])
    BY <1>1, <2>1, <2>2 DEF JustGoesOn
  <2> HIDE DEF seen
  <2>4. QED
    BY <1>1, <2>3, PageBack
<1>4. QED
  BY <1>2, <1>3

LEMMA ScanBack == ASSUME BackInv, CacheInv', Scan(First) PROVE BackInv'
<1>1. /\ UNCHANGED chainVars /\ UNCHANGED <<repository, current>> /\ row' = row /\ lineage' = lineage
      /\ proc[First].pc = "scan" /\ proc[First].pc \notin Walking
  BY DEF Scan, Elsewhere, chainVars, At, Walking
<1>2. ASSUME NEW ref \in proc[First].page,
             Becomes(First, [proc[First] EXCEPT !.page = @ \ {ref},
                               !.cur   = IF cached_open(ref) THEN @ ELSE ref,
                               !.known = ~cached_open(ref) /\ ref \in DOMAIN row,
                               !.pc    = IF cached_open(ref) THEN @ ELSE "confirm"])
      PROVE  BackInv'
  <2> DEFINE cur   == IF cached_open(ref) THEN proc[First].cur ELSE ref
             known == ~cached_open(ref) /\ ref \in DOMAIN row
             pc    == IF cached_open(ref) THEN proc[First].pc ELSE "confirm"
             r     == [proc[First] EXCEPT !.page = @ \ {ref}, !.cur = cur, !.known = known, !.pc = pc]
  <2>1. JustGoesOn(First, r)
    BY <1>1, <1>2 DEF JustGoesOn
  <2>2. pc \in {"scan", "confirm"} /\ (pc = "confirm" /\ known => cur \in DOMAIN row)
    BY <1>1
  <2> HIDE DEF cur, known, pc
  <2>3. r.links = << >> /\ r.pc \in {"scan", "confirm"} /\ SyncLinked(r, DOMAIN row, DOMAIN lineage)
    BY <1>1, <2>2, NoLinks DEF SyncLinked, Processes
  <2> HIDE DEF r
  <2>4. QED
    BY <1>1, <2>1, <2>3, SyncLooks
<1>3. CASE Becomes(First, [proc[First] EXCEPT !.pc = IF proc[First].holders = {} THEN "list" ELSE "fetch"])
  <2> DEFINE pc == IF proc[First].holders = {} THEN "list" ELSE "fetch"
             r  == [proc[First] EXCEPT !.pc = pc]
  <2>1. JustGoesOn(First, r)
    BY <1>1, <1>3 DEF JustGoesOn
  <2>2. pc \in {"list", "fetch"}
    OBVIOUS
  <2> HIDE DEF pc
  <2>3. r.links = << >> /\ r.pc \in {"list", "fetch"} /\ SyncLinked(r, DOMAIN row, DOMAIN lineage)
    BY <1>1, <2>2, NoLinks DEF SyncLinked, Processes
  <2> HIDE DEF r
  <2>4. QED
    BY <1>1, <2>1, <2>3, SyncLooks
<1>4. QED
  BY <1>2, <1>3 DEF Scan

(* An order that is cached for the first time is walked at once.           *)
LEMMA ConfirmBack == ASSUME BackInv, CacheInv', Confirm(First) PROVE BackInv'
<1>1. /\ UNCHANGED chainVars /\ UNCHANGED <<repository, current>> /\ lineage' = lineage
      /\ proc[First].pc = "confirm" /\ proc[First].pc \notin Walking
  BY DEF Confirm, Elsewhere, chainVars, At, Walking
<1>2. CASE Confirmed(First, proc[First].cur)
  <2> DEFINE pc == IF proc[First].known THEN "scan" ELSE "walk"
             r  == [proc[First] EXCEPT !.known = FALSE, !.pc = pc]
  <2>1. JustGoesOn(First, r) /\ upsertOpenOrder(proc[First].cur)
    BY <1>1, <1>2 DEF Confirm, JustGoesOn
  <2>2. DOMAIN row' = DOMAIN row \cup {proc[First].cur}
    BY <2>1 DEF upsertOpenOrder, Put
  <2>3. pc \in {"scan", "walk"} /\ (pc = "scan" => proc[First].cur \in DOMAIN row)
    BY <1>1, NoLinks DEF SyncLinked
  <2> HIDE DEF pc
  <2>4. /\ r.links = << >> /\ r.pc = pc /\ r.cur = proc[First].cur
        /\ SyncLinked(r, DOMAIN row', DOMAIN lineage)
    BY <1>1, <2>2, <2>3, NoLinks DEF SyncLinked, Processes
  <2> HIDE DEF r
  <2>5. \A ref \in DOMAIN row' \ DOMAIN row : r.pc \in Walking /\ ref = r.cur
    BY <2>2, <2>3, <2>4 DEF Walking
  <2>6. QED
    BY <1>1, <2>1, <2>3, <2>4, <2>5, SyncMoves DEF WritesTrueLink
<1>3. CASE ~Confirmed(First, proc[First].cur)
  <2> DEFINE r == [proc[First] EXCEPT !.known = FALSE, !.pc = "scan"]
  <2>1. JustGoesOn(First, r) /\ row' = row
    BY <1>1, <1>3 DEF Confirm, JustGoesOn
  <2>2. r.links = << >> /\ r.pc = "scan" /\ SyncLinked(r, DOMAIN row, DOMAIN lineage)
    BY <1>1, NoLinks DEF SyncLinked, Processes
  <2> HIDE DEF r
  <2>3. QED
    BY <1>1, <2>1, <2>2, SyncLooks
<1>4. QED
  BY <1>2, <1>3

(* The order a walk has come to.                                           *)
LEMMA ReachedTrue ==
  ASSUME BackInv, WithinReach, NEW p \in {First, Repair}, At(p, "walk")
  PROVE  /\ Reached(p) \in OrdersSeen /\ RootOf(Reached(p)) = RootOf(proc[p].cur)
         /\ FillsOf(Reached(p)) \in Nat /\ FillsOf(proc[p].cur) \in Nat
         /\ FillsOf(Reached(p)) + Len(proc[p].links) = FillsOf(proc[p].cur)
         /\ Len(proc[p].links) < MaxAncestry
<1>1. p \in Procs /\ proc[p] \in Processes /\ Remembers(proc[p]) /\ WalkTrue(proc[p], DOMAIN lineage)
      /\ proc[p].pc = "walk" /\ proc[p].pc \in Walking
  BY InHand DEF BackInv, At, Walking
<1>2. proc[p].cur \in OrdersSeen /\ Reached(p) \in OrdersSeen /\ proc[p].links \in Seq(Links)
  BY <1>1, ReachedSeen, InHand DEF Remembers, Processes
<1>3. /\ FillsOf(Reached(p)) \in Nat
      /\ FillsOf(proc[p].cur) \in Nat /\ FillsOf(proc[p].cur) < MaxAncestry
  BY <1>2, Descent, InHand DEF WithinReach
<1>4. RootOf(Reached(p)) = RootOf(proc[p].cur)
      /\ FillsOf(Reached(p)) + Len(proc[p].links) = FillsOf(proc[p].cur)
  <2>1. CASE proc[p].links = << >>
    <3>1. Reached(p) = proc[p].cur /\ Len(proc[p].links) = 0
      BY <2>1 DEF Reached
    <3>2. QED
      BY <1>3, <3>1
  <2>2. CASE proc[p].links # << >>
    <3>1. /\ Len(proc[p].links) \in DOMAIN proc[p].links
          /\ Reached(p) = proc[p].links[Len(proc[p].links)].parent
      BY <1>2, <2>2, FrontLast DEF Reached
    <3>2. QED
      BY <1>1, <3>1 DEF WalkTrue
  <2>3. QED
    BY <2>1, <2>2
<1>5. Len(proc[p].links) \in Nat /\ MaxAncestry \in Nat
  BY <1>2, IndexerAssumption
<1>6. QED
  BY <1>2, <1>3, <1>4, <1>5

(* The reads end at the root, or at an order that is linked.               *)
LEMMA AfterReadsBack ==
  ASSUME BackInv, CacheInv', NEW p \in {First, Repair}, At(p, "walk"),
         NEW root, root = RootOf(proc[p].cur), root # None, AfterReads(p, root),
         ParentOf(Reached(p)) = None \/ Reached(p) \in DOMAIN lineage,
         UNCHANGED chainVars, UNCHANGED <<repository, row, lineage, current>>
  PROVE  BackInv'
<1>1. /\ p \in Procs /\ proc[p] \in Processes /\ WalkTrue(proc[p], DOMAIN lineage)
      /\ proc[p].pc = "walk" /\ proc[p].pc \in Walking /\ proc[p].links \in Seq(Links)
  BY InHand DEF BackInv, At, Walking, Processes
<1>2. CASE proc[p].links = << >>
  <2> DEFINE r == [proc[p] EXCEPT !.pc = AfterWalk(p), !.links = << >>]
  <2>1. JustGoesOn(p, r)
    BY <1>2 DEF AfterReads, JustGoesOn
  <2>2. /\ r.pc = AfterWalk(p) /\ r.links = << >> /\ r.cur = proc[p].cur /\ r.todo = proc[p].todo
    BY <1>1 DEF Processes
  <2> HIDE DEF r
  <2>3. AfterWalk(p) \in {"repair", "scan"} /\ AfterWalk(p) \notin Walking
    BY DEF AfterWalk, Walking
  <2>4. WalkTrue(r, DOMAIN lineage)
    BY <2>2, <2>3 DEF WalkTrue, Walking
  <2>5. ParentOf(r.cur) = None \/ r.cur \in DOMAIN lineage
    BY <1>2, <2>2 DEF Reached
  <2>6. QED
    BY <1>1, <2>1, <2>2, <2>4, <2>5, WalkerMoves DEF WritesTrueLink
<1>3. CASE proc[p].links # << >>
  <2> DEFINE r == [proc[p] EXCEPT !.pc = "reopen", !.root = root]
  <2>1. JustGoesOn(p, r)
    BY <1>3 DEF AfterReads, JustGoesOn
  <2>2. /\ r.pc = "reopen" /\ r.links = proc[p].links /\ r.cur = proc[p].cur /\ r.todo = proc[p].todo
        /\ r.root = root
    BY <1>1 DEF Processes
  <2> HIDE DEF r
  <2>3. Reached(p) = r.links[Len(r.links)].parent
    BY <1>1, <1>3, <2>2, FrontLast DEF Reached
  <2>4. WalkTrue(r, DOMAIN lineage) /\ r.pc \in Walking
    BY <1>1, <2>2, <2>3 DEF WalkTrue, Walking
  <2>5. QED
    BY <1>1, <2>1, <2>2, <2>4, WalkerMoves DEF WritesTrueLink
<1>4. QED
  BY <1>2, <1>3

(* One more link.                                                          *)
LEMMA LinkAdded ==
  ASSUME BackInv, WithinReach, NEW p \in {First, Repair}, At(p, "walk"),
         ParentOf(Reached(p)) # None,
         NEW link, link = [child |-> Reached(p), parent |-> ParentOf(Reached(p))]
  PROVE  WalkTrue([proc[p] EXCEPT !.links = Append(@, link)], DOMAIN lineage)
<1> DEFINE links == proc[p].links
           more  == Append(links, link)
           r     == [proc[p] EXCEPT !.links = more]
           cur   == proc[p].cur
<1>1. /\ p \in Procs /\ proc[p] \in Processes /\ WalkTrue(proc[p], DOMAIN lineage)
      /\ proc[p].pc = "walk" /\ proc[p].pc \in Walking /\ links \in Seq(Links)
  BY InHand DEF BackInv, At, Walking, Processes
<1>2. r.pc = "walk" /\ r.links = more /\ r.cur = cur
  BY <1>1 DEF Processes
<1>3. /\ Reached(p) \in OrdersSeen /\ RootOf(Reached(p)) = RootOf(cur)
      /\ FillsOf(Reached(p)) + Len(links) = FillsOf(cur) /\ Len(links) \in Nat
  BY <1>1, ReachedTrue
<1>4. /\ RootOf(Reached(p)) = RootOf(ParentOf(Reached(p))) /\ ParentOf(Reached(p)) \in OrdersSeen
      /\ FillsOf(Reached(p)) = FillsOf(ParentOf(Reached(p))) + 1
      /\ FillsOf(ParentOf(Reached(p))) \in Nat
  BY <1>3, Descent, InHand
<1>5. Reached(p) = IF links = << >> THEN cur ELSE links[Len(links)].parent
  BY <1>1, FrontLast DEF Reached
<1>6. \A i \in DOMAIN links :
         /\ links[i].child = (IF i = 1 THEN cur ELSE links[i - 1].parent)
         /\ links[i].parent = ParentOf(links[i].child)
         /\ RootOf(links[i].parent) = RootOf(cur)
         /\ FillsOf(links[i].parent) + i = FillsOf(cur)
  BY <1>1 DEF WalkTrue
<1> HIDE DEF links, cur, r
<1>7. /\ DOMAIN more = 1..(Len(links) + 1) /\ DOMAIN links = 1..Len(links)
      /\ more[Len(links) + 1] = link /\ \A i \in 1..Len(links) : more[i] = links[i]
  BY <1>1
<1>8. ASSUME NEW i \in 1..Len(links)
      PROVE  /\ more[i].child = (IF i = 1 THEN cur ELSE more[i - 1].parent)
             /\ more[i].parent = ParentOf(more[i].child)
             /\ RootOf(more[i].parent) = RootOf(cur)
             /\ FillsOf(more[i].parent) + i = FillsOf(cur)
  <2>1. more[i] = links[i] /\ (i # 1 => more[i - 1] = links[i - 1])
    BY <1>3, <1>7
  <2>2. QED
    BY <1>6, <1>7, <2>1
<1>9. /\ link.child = Reached(p) /\ link.parent = ParentOf(Reached(p))
  OBVIOUS
<1>10. LET i == Len(links) + 1
       IN  /\ more[i].child = (IF i = 1 THEN cur ELSE more[i - 1].parent)
           /\ more[i].parent = ParentOf(more[i].child)
           /\ RootOf(more[i].parent) = RootOf(cur)
           /\ FillsOf(more[i].parent) + i = FillsOf(cur)
  <2>1. Len(links) = 0 <=> links = << >>
    BY <1>1
  <2>2. ASSUME Len(links) # 0 PROVE more[Len(links)] = links[Len(links)]
    <3>1. Len(links) \in 1..Len(links)
      BY <1>3, <2>2
    <3>2. QED
      BY <1>7, <3>1
  <2>3. link.child = (IF Len(links) + 1 = 1 THEN cur ELSE more[Len(links)].parent)
    BY <1>3, <1>5, <1>9, <2>1, <2>2
  <2>4. FillsOf(link.parent) + (Len(links) + 1) = FillsOf(cur) /\ RootOf(link.parent) = RootOf(cur)
    BY <1>3, <1>4, <1>9
  <2>5. (Len(links) + 1) - 1 = Len(links)
    BY <1>3
  <2>6. QED
    BY <1>7, <1>9, <2>3, <2>4, <2>5
<1>11. \A i \in DOMAIN more :
         /\ more[i].child = (IF i = 1 THEN cur ELSE more[i - 1].parent)
         /\ more[i].parent = ParentOf(more[i].child)
         /\ RootOf(more[i].parent) = RootOf(cur)
         /\ FillsOf(more[i].parent) + i = FillsOf(cur)
  <2>1. \A i \in DOMAIN more : i \in 1..Len(links) \/ i = Len(links) + 1
    BY <1>3, <1>7
  <2>2. QED
    BY <1>8, <1>10, <2>1
<1> HIDE DEF more
<1>12. WalkTrue(r, DOMAIN lineage)
  BY <1>2, <1>11 DEF WalkTrue, Walking
<1>13. QED
  BY <1>12 DEF r, more, links

LEMMA WalkBack ==
  ASSUME BackInv, CacheInv', WithinReach, NEW p \in {First, Repair}, Walk(p)
  PROVE  BackInv'
<1> DEFINE node == Reached(p)
           parent == ParentOnChain(node)
<1>1. At(p, "walk") /\ UNCHANGED chainVars /\ UNCHANGED <<repository, row, lineage, current>>
  BY DEF Walk, Elsewhere, chainVars
<1>2. node \in OrdersSeen /\ RootOf(node) = RootOf(proc[p].cur) /\ Len(proc[p].links) < MaxAncestry
      /\ Len(proc[p].links) \in Nat /\ MaxAncestry \in Nat
  <2>1. proc[p].links \in Seq(Links)
    BY InHand DEF Processes
  <2>2. QED
    BY <1>1, <2>1, ReachedTrue, IndexerAssumption
<1>3. parent = ParentOf(node)
  BY <1>2, ParentFound, InHand DEF BackInv
<1>4. node # None /\ \A ref \in DOMAIN lineage : lineage[ref].root = RootOf(ref) /\ lineage[ref].root # None
  <2>1. None \notin OrdersSeen
    BY InHand, ChainAssumption DEF Refs
  <2>2. QED
    BY <1>2, <2>1, InHand DEF BackInv, LineageTrue, CacheInv, LineageTyped
<1>5. CASE node \in DOMAIN lineage /\ AfterReads(p, lineage[node].root)
  BY <1>1, <1>2, <1>4, <1>5, AfterReadsBack
<1>6. CASE node \notin DOMAIN lineage /\ parent = None /\ AfterReads(p, node)
  <2>1. node = RootOf(proc[p].cur)
    BY <1>2, <1>3, <1>6, Descent, InHand
  <2>2. QED
    BY <1>1, <1>3, <1>4, <1>6, <2>1, AfterReadsBack
<1>7. CASE /\ parent # None
           /\ Becomes(p, [proc[p] EXCEPT !.links = Append(@, [child |-> node, parent |-> parent])])
  <2> DEFINE link == [child |-> node, parent |-> parent]
             r == [proc[p] EXCEPT !.links = Append(@, link)]
  <2>1. JustGoesOn(p, r)
    BY <1>1, <1>7 DEF JustGoesOn
  <2>2. WalkTrue(r, DOMAIN lineage)
    BY <1>1, <1>3, <1>7, LinkAdded
  <2>3. proc[p].pc \in Walking /\ r.pc \in Walking /\ r.cur = proc[p].cur /\ r.todo = proc[p].todo
    BY <1>1, InHand DEF Processes, At, Walking
  <2> HIDE DEF r
  <2>4. QED
    BY <1>1, <2>1, <2>2, <2>3, WalkerMoves DEF WritesTrueLink
<1> HIDE DEF node, parent
<1>8. ~(Len(proc[p].links) >= MaxAncestry)
  BY <1>2
<1>9. QED
  BY <1>5, <1>6, <1>7, <1>8 DEF Walk, node, parent

(* The link that is written down next.                                     *)
LEMMA TopLink ==
  ASSUME BackInv, NEW p \in {First, Repair}, proc[p].pc \in {"reopen", "close", "link"}
  PROVE  LET links == proc[p].links
             top   == Last(links)
         IN  /\ p \in Procs /\ proc[p] \in Processes /\ proc[p].pc \in Walking
             /\ links \in Seq(Links) /\ links # << >> /\ Len(links) \in DOMAIN links
             /\ top = links[Len(links)]
             /\ top.child \in OrdersSeen /\ top.parent = ParentOf(top.child)
             /\ proc[p].root = RootOf(proc[p].cur)
             /\ ParentOf(top.parent) = None \/ top.parent \in DOMAIN lineage
             /\ RootOf(top.parent) = RootOf(proc[p].cur) /\ ParentOf(top.child) # None
<1>1. /\ p \in Procs /\ proc[p] \in Processes /\ Remembers(proc[p]) /\ proc[p].pc \in Walking
      /\ WalkTrue(proc[p], DOMAIN lineage)
  BY InHand DEF BackInv, Walking
<1>2. proc[p].links \in Seq(Links) /\ proc[p].links # << >>
  BY <1>1 DEF Processes, Remembers
<1>3. /\ Len(proc[p].links) \in DOMAIN proc[p].links
      /\ Last(proc[p].links) = proc[p].links[Len(proc[p].links)]
  BY <1>2, FrontLast
<1>4. LinkTrue(Last(proc[p].links))
  BY <1>1, <1>2, LastLink, InHand
<1>5. None \notin OrdersSeen
  BY InHand, ChainAssumption DEF Refs
<1>6. /\ Last(proc[p].links).child \in OrdersSeen /\ Last(proc[p].links).parent \in OrdersSeen
  BY <1>4 DEF LinkTrue
<1>7. LET top == proc[p].links[Len(proc[p].links)]
      IN  /\ top.parent = ParentOf(top.child) /\ RootOf(top.parent) = RootOf(proc[p].cur)
          /\ proc[p].root = RootOf(proc[p].cur)
          /\ ParentOf(top.parent) = None \/ top.parent \in DOMAIN lineage
  BY <1>1, <1>3 DEF WalkTrue
<1>8. QED
  BY <1>1, <1>2, <1>3, <1>5, <1>6, <1>7

LEMMA ReopenBack == ASSUME BackInv, CacheInv', NEW p \in {First, Repair}, Reopen(p) PROVE BackInv'
<1> DEFINE r == [proc[p] EXCEPT !.pc = "close"]
           top == Last(proc[p].links)
<1>1. JustGoesOn(p, r) /\ lineage' = lineage /\ upsertOpenOrder(top.parent) /\ proc[p].pc = "reopen"
  BY DEF Reopen, Elsewhere, chainVars, JustGoesOn, At
<1>2. DOMAIN row' = DOMAIN row \cup {top.parent}
  BY <1>1 DEF upsertOpenOrder, Put
<1>3. /\ proc[p] \in Processes /\ proc[p].pc \in Walking
      /\ ParentOf(top.parent) = None \/ top.parent \in DOMAIN lineage
  BY <1>1, TopLink
<1>4. WalkTrue(proc[p], DOMAIN lineage)
  BY InHand DEF BackInv
<1>5. /\ r.pc = "close" /\ r.links = proc[p].links /\ r.cur = proc[p].cur /\ r.todo = proc[p].todo
      /\ r.root = proc[p].root
  BY <1>3 DEF Processes
<1> HIDE DEF r, top
<1>6. WalkTrue(r, DOMAIN lineage) /\ r.pc \in Walking
  BY <1>1, <1>4, <1>5 DEF WalkTrue, Walking
<1>7. QED
  BY <1>1, <1>2, <1>3, <1>5, <1>6, WalkerMoves DEF WritesTrueLink

LEMMA MarkedRows ==
  ASSUME NEW ref, NEW status, NEW tx, markSpent(ref, status, tx)
  PROVE  DOMAIN row' = DOMAIN row
BY DEF markSpent

LEMMA CloseBack == ASSUME BackInv, CacheInv', NEW p \in {First, Repair}, Close(p) PROVE BackInv'
<1> DEFINE r == [proc[p] EXCEPT !.pc = "link"]
<1>1. JustGoesOn(p, r) /\ lineage' = lineage /\ DOMAIN row' = DOMAIN row /\ proc[p].pc = "close"
  BY MarkedRows DEF Close, Elsewhere, chainVars, JustGoesOn, At
<1>2. proc[p] \in Processes /\ proc[p].pc \in Walking
  BY <1>1, TopLink
<1>3. WalkTrue(proc[p], DOMAIN lineage)
  BY InHand DEF BackInv
<1>4. /\ r.pc = "link" /\ r.links = proc[p].links /\ r.cur = proc[p].cur /\ r.todo = proc[p].todo
      /\ r.root = proc[p].root
  BY <1>2 DEF Processes
<1> HIDE DEF r
<1>5. WalkTrue(r, DOMAIN lineage) /\ r.pc \in Walking
  BY <1>1, <1>3, <1>4 DEF WalkTrue, Walking
<1>6. QED
  BY <1>1, <1>2, <1>4, <1>5, WalkerMoves DEF WritesTrueLink

LEMMA LinkBack == ASSUME BackInv, CacheInv', NEW p \in {First, Repair}, Link(p) PROVE BackInv'
<1> DEFINE links == proc[p].links
           front == Front(links)
           pc    == IF Len(links) = 1 THEN AfterWalk(p) ELSE "reopen"
           r     == [proc[p] EXCEPT !.pc = pc, !.links = front]
           top   == Last(links)
<1>1. JustGoesOn(p, r) /\ row' = row /\ proc[p].pc = "link"
      /\ setLineage(top.child, top.parent, proc[p].root)
  BY DEF Link, Elsewhere, chainVars, JustGoesOn, At
<1>2. /\ p \in Procs /\ proc[p] \in Processes /\ proc[p].pc \in Walking
      /\ links \in Seq(Links) /\ links # << >> /\ Len(links) \in DOMAIN links
      /\ top = links[Len(links)] /\ top.child \in OrdersSeen /\ top.parent = ParentOf(top.child)
      /\ proc[p].root = RootOf(proc[p].cur)
      /\ RootOf(top.parent) = RootOf(proc[p].cur) /\ ParentOf(top.child) # None
  BY <1>1, TopLink
<1>3. proc[p].root = RootOf(top.child)
  BY <1>2, Descent, InHand
<1>4. WritesTrueLink /\ top.child \in DOMAIN lineage'
  BY <1>1, <1>2, <1>3 DEF WritesTrueLink, setLineage, Put
<1>5. /\ front \in Seq(Links) /\ Len(front) = Len(links) - 1 /\ Len(links) \in Nat \ {0}
      /\ \A i \in DOMAIN front : i \in DOMAIN links /\ front[i] = links[i]
      /\ Len(links) = 1 <=> front = << >>
  BY <1>2, FrontLast
<1>6. WalkTrue(proc[p], DOMAIN lineage)
  BY InHand DEF BackInv
<1>7. \A i \in DOMAIN links :
         /\ links[i].child = (IF i = 1 THEN proc[p].cur ELSE links[i - 1].parent)
         /\ links[i].parent = ParentOf(links[i].child)
         /\ RootOf(links[i].parent) = RootOf(proc[p].cur)
         /\ FillsOf(links[i].parent) + i = FillsOf(proc[p].cur)
  BY <1>2, <1>6 DEF WalkTrue
<1>8. /\ r.pc = pc /\ r.links = front /\ r.cur = proc[p].cur /\ r.todo = proc[p].todo
      /\ r.root = proc[p].root
  BY <1>2 DEF Processes
<1>9. CASE Len(links) = 1
  <2>1. pc \in {"repair", "scan"} /\ pc = AfterWalk(p)
    BY <1>9 DEF AfterWalk
  <2>2. top.child = proc[p].cur
    BY <1>2, <1>7, <1>9
  <2> HIDE DEF links, front, pc, r, top
  <2>3. WalkTrue(r, DOMAIN lineage')
    BY <1>5, <1>8, <1>9, <2>1 DEF WalkTrue, Walking
  <2>4. QED
    BY <1>1, <1>2, <1>4, <1>8, <2>1, <2>2, <2>3, WalkerMoves
<1>10. CASE Len(links) # 1
  <2>1. pc = "reopen"
    BY <1>10
  <2> HIDE DEF front, pc, r, top, links
  <2>2. /\ DOMAIN front = 1..(Len(links) - 1) /\ DOMAIN links = 1..Len(links)
        /\ Len(front) \in DOMAIN front
    BY <1>2, <1>5, <1>10
  <2>3. front[Len(front)].parent = top.child
    <3>1. front[Len(front)] = links[Len(links) - 1]
      BY <1>5, <2>2
    <3>2. QED
      BY <1>2, <1>7, <1>10, <3>1
  <2>4. ASSUME NEW i \in DOMAIN front
        PROVE  /\ front[i].child = (IF i = 1 THEN proc[p].cur ELSE front[i - 1].parent)
               /\ front[i].parent = ParentOf(front[i].child)
               /\ RootOf(front[i].parent) = RootOf(proc[p].cur)
               /\ FillsOf(front[i].parent) + i = FillsOf(proc[p].cur)
    <3>1. i \in DOMAIN links /\ front[i] = links[i]
      BY <1>5
    <3>2. i # 1 => front[i - 1] = links[i - 1]
      <4>1. i # 1 => i - 1 \in DOMAIN front
        BY <1>5, <2>2
      <4>2. QED
        BY <1>5, <4>1
    <3>3. QED
      BY <1>7, <3>1, <3>2
  <2>5. WalkTrue(r, DOMAIN lineage')
    BY <1>2, <1>4, <1>8, <2>1, <2>3, <2>4 DEF WalkTrue, Walking
  <2>6. r.pc \in Walking
    BY <1>8, <2>1 DEF Walking
  <2>7. QED
    BY <1>1, <1>2, <1>4, <1>8, <2>5, <2>6, WalkerMoves
<1>11. QED
  BY <1>9, <1>10

LEMMA ListOpenBack == ASSUME BackInv, CacheInv', ListOpen(First) PROVE BackInv'
<1> DEFINE r == [proc[First] EXCEPT !.pc = "vanished", !.todo = open]
<1>1. /\ JustGoesOn(First, r) /\ row' = row /\ lineage' = lineage
      /\ proc[First].pc = "list" /\ proc[First].pc \notin Walking
  BY DEF ListOpen, Elsewhere, chainVars, JustGoesOn, At, Walking
<1>2. r.links = << >> /\ r.pc = "vanished" /\ SyncLinked(r, DOMAIN row, DOMAIN lineage)
  BY <1>1, NoLinks, InHand DEF SyncLinked, Processes
<1> HIDE DEF r
<1>3. QED
  BY <1>1, <1>2, SyncLooks

LEMMA VanishedBack == ASSUME BackInv, CacheInv', Vanished(First) PROVE BackInv'
<1>1. /\ UNCHANGED chainVars /\ UNCHANGED <<repository, current>> /\ row' = row /\ lineage' = lineage
      /\ proc[First].pc = "vanished" /\ proc[First].pc \notin Walking
  BY DEF Vanished, Elsewhere, chainVars, At, Walking
<1>2. PICK ref \in proc[First].todo :
        Becomes(First, IF ref \in proc[First].seen
                       THEN [proc[First] EXCEPT !.todo = @ \ {ref}]
                       ELSE [proc[First] EXCEPT !.todo = @ \ {ref}, !.pc = "mark", !.cur = ref,
                                                !.verdict = classifySpend(ref)])
  BY DEF Vanished
<1>3. ref \in DOMAIN row /\ ref \in OrdersSeen
  BY <1>1, NoLinks, InHand DEF SyncLinked
<1>4. CASE ref \in proc[First].seen
  <2> DEFINE r == [proc[First] EXCEPT !.todo = @ \ {ref}]
  <2>1. JustGoesOn(First, r)
    BY <1>1, <1>2, <1>4 DEF JustGoesOn
  <2>2. r.links = << >> /\ r.pc = "vanished" /\ SyncLinked(r, DOMAIN row, DOMAIN lineage)
    BY <1>1, NoLinks DEF SyncLinked, Processes
  <2> HIDE DEF r
  <2>3. QED
    BY <1>1, <2>1, <2>2, SyncLooks
<1>5. CASE ref \notin proc[First].seen
  <2> DEFINE v == classifySpend(ref)
             r == [proc[First] EXCEPT !.todo = @ \ {ref}, !.pc = "mark", !.cur = ref, !.verdict = v]
  <2>1. JustGoesOn(First, r)
    BY <1>1, <1>2, <1>5 DEF JustGoesOn
  <2>2. v.child # None => ParentOf(v.child) = ref
    BY <1>3, ChildFound, InHand
  <2> HIDE DEF v
  <2>3. /\ r.links = << >> /\ r.pc = "mark" /\ r.cur = ref /\ r.verdict = v
        /\ r.todo \subseteq DOMAIN row
    BY <1>1, NoLinks DEF SyncLinked, Processes
  <2> HIDE DEF r
  <2>4. SyncLinked(r, DOMAIN row, DOMAIN lineage)
    BY <1>3, <2>2, <2>3 DEF SyncLinked
  <2>5. QED
    BY <1>1, <2>1, <2>3, <2>4, SyncLooks
<1>6. QED
  BY <1>4, <1>5

LEMMA MarkBack == ASSUME BackInv, CacheInv', Mark(First) PROVE BackInv'
<1> DEFINE v  == proc[First].verdict
           pc == IF v.child # None THEN "lineage" ELSE "vanished"
           r  == [proc[First] EXCEPT !.pc = pc]
<1>1. /\ JustGoesOn(First, r) /\ lineage' = lineage /\ DOMAIN row' = DOMAIN row
      /\ proc[First].pc = "mark" /\ proc[First].pc \notin Walking
  BY MarkedRows DEF Mark, Elsewhere, chainVars, JustGoesOn, At, Walking
<1>2. pc \in {"lineage", "vanished"}
  OBVIOUS
<1> HIDE DEF pc, v
<1>3. r.links = << >> /\ r.pc = pc /\ SyncLinked(r, DOMAIN row, DOMAIN lineage)
  BY <1>1, <1>2, NoLinks DEF SyncLinked, Processes
<1> HIDE DEF r
<1>4. QED
  BY <1>1, <1>2, <1>3, SyncLooks

(* The continuation is linked to the order and to the root of the order.   *)
LEMMA InheritBack == ASSUME BackInv, CacheInv', Inherit(First) PROVE BackInv'
<1> DEFINE parent == proc[First].cur
           child  == proc[First].verdict.child
           pc     == IF child \in proc[First].seen THEN "vanished" ELSE "surface"
           r      == [proc[First] EXCEPT !.pc = pc]
<1>1. /\ JustGoesOn(First, r) /\ row' = row
      /\ proc[First].pc = "lineage" /\ proc[First].pc \notin Walking
      /\ setLineage(child, parent, RootFor(parent))
  BY DEF Inherit, Elsewhere, chainVars, JustGoesOn, At, Walking
<1>2. parent \in OrdersSeen /\ child \in OrdersSeen /\ parent # None /\ child # None
  <2>1. parent \in OrdersSeen /\ child \in OrdersSeen
    BY <1>1, InHand DEF Remembers
  <2>2. QED
    BY <2>1, InHand, ChainAssumption DEF Refs
<1>3. ParentOf(child) = parent /\ parent \in DOMAIN row
  BY <1>1, <1>2, NoLinks DEF SyncLinked
<1>4. RootFor(parent) = RootOf(parent)
  <2>1. CASE parent \in DOMAIN lineage
    BY <2>1 DEF RootFor, BackInv, LineageTrue
  <2>2. CASE parent \notin DOMAIN lineage
    <3>1. ParentOf(parent) = None
      BY <1>1, <1>3, <2>2 DEF BackInv, RowsLinked
    <3>2. QED
      BY <1>2, <2>2, <3>1, Descent, InHand DEF RootFor
  <2>3. QED
    BY <2>1, <2>2
<1>5. RootOf(child) = RootOf(parent)
  BY <1>2, <1>3, Descent, InHand
<1>6. WritesTrueLink /\ child \in DOMAIN lineage'
  BY <1>1, <1>2, <1>3, <1>4, <1>5 DEF WritesTrueLink, setLineage, Put
<1>7. pc \in {"vanished", "surface"}
  OBVIOUS
<1>8. /\ r.links = << >> /\ r.pc = pc /\ r.verdict.child = child /\ r.todo \subseteq DOMAIN row
  BY <1>1, NoLinks DEF SyncLinked, Processes
<1> HIDE DEF pc, r, child
<1>9. SyncLinked(r, DOMAIN row', DOMAIN lineage')
  BY <1>1, <1>6, <1>7, <1>8 DEF SyncLinked
<1>10. QED
  BY <1>1, <1>6, <1>7, <1>8, <1>9, SyncMoves

LEMMA SurfaceBack == ASSUME BackInv, CacheInv', Surface(First) PROVE BackInv'
<1> DEFINE child == proc[First].verdict.child
<1>1. /\ UNCHANGED chainVars /\ UNCHANGED <<repository, current>> /\ lineage' = lineage
      /\ proc[First].pc = "surface" /\ proc[First].pc \notin Walking
  BY DEF Surface, Elsewhere, chainVars, At, Walking
<1>2. child \in DOMAIN lineage
  BY <1>1, NoLinks DEF SyncLinked
<1>3. CASE child \in Unspent
  <2> DEFINE r == [proc[First] EXCEPT !.pc = "vanished", !.seen = @ \cup {child}]
  <2>1. JustGoesOn(First, r) /\ DOMAIN row' = DOMAIN row \cup {child}
    BY <1>1, <1>3 DEF Surface, JustGoesOn, upsertOpenOrder, Put
  <2> HIDE DEF child
  <2>2. /\ r.links = << >> /\ r.pc = "vanished" /\ SyncLinked(r, DOMAIN row', DOMAIN lineage)
    BY <1>1, <2>1, NoLinks DEF SyncLinked, Processes
  <2> HIDE DEF r
  <2>3. QED
    BY <1>1, <1>2, <2>1, <2>2, SyncMoves DEF WritesTrueLink
<1>4. CASE child \notin Unspent
  <2> DEFINE r == [proc[First] EXCEPT !.pc = "vanished"]
  <2>1. JustGoesOn(First, r) /\ row' = row
    BY <1>1, <1>4 DEF Surface, JustGoesOn
  <2>2. r.links = << >> /\ r.pc = "vanished" /\ SyncLinked(r, DOMAIN row, DOMAIN lineage)
    BY <1>1, NoLinks DEF SyncLinked, Processes
  <2> HIDE DEF r
  <2>3. QED
    BY <1>1, <2>1, <2>2, SyncLooks
<1>5. QED
  BY <1>3, <1>4

LEMMA IdleLinked ==
  /\ \A L : WalkTrue(Idle, L)
  /\ \A R, L : SyncLinked(Idle, R, L)
  /\ Idle.pc = "idle" /\ Idle.links = << >> /\ "idle" \in RepairPoints
BY DEF Idle, WalkTrue, SyncLinked, Walking, RepairPoints

LEMMA FinishBack == ASSUME BackInv, CacheInv', Finish(First) PROVE BackInv'
<1>1. /\ JustGoesOn(First, Idle) /\ row' = row /\ lineage' = lineage
      /\ proc[First].pc \notin Walking
  BY DEF Finish, Elsewhere, chainVars, JustGoesOn, At, Walking
<1>2. QED
  BY <1>1, IdleLinked, SyncLooks

LEMMA RepairBack == ASSUME BackInv, CacheInv', BeginRepair \/ RepairNext PROVE BackInv'
<1>1. /\ UNCHANGED chainVars /\ UNCHANGED <<repository, current>> /\ row' = row /\ lineage' = lineage
      /\ proc[Repair] \in Processes /\ WalkTrue(proc[Repair], DOMAIN lineage)
      /\ RowsLinked(proc[First], DOMAIN row, DOMAIN lineage)
  BY InHand DEF BeginRepair, RepairNext, Elsewhere, chainVars, BackInv
<1>2. ASSUME NEW r, Becomes(Repair, r), r.pc \in {"idle", "repair", "walk"}, r.links = << >>
      PROVE  BackInv'
  <2>1. JustGoesOn(Repair, r)
    BY <1>1, <1>2 DEF JustGoesOn
  <2>2. WalkTrue(r, DOMAIN lineage) /\ r.pc \in RepairPoints
    BY <1>2 DEF WalkTrue, RepairPoints
  <2>3. QED
    BY <1>1, <2>1, <2>2, BackByRepair DEF WritesTrueLink
<1>3. CASE BeginRepair
  <2> DEFINE r == [Idle EXCEPT !.pc = "repair", !.todo = open]
  <2>1. Becomes(Repair, r) /\ r.pc = "repair" /\ r.links = << >>
    BY <1>3 DEF BeginRepair, Idle
  <2> HIDE DEF r
  <2>2. QED
    BY <1>2, <2>1
<1>4. ASSUME NEW ref, At(Repair, "repair"),
             Becomes(Repair, [proc[Repair] EXCEPT !.todo = @ \ {ref}, !.cur = ref,
                                !.pc = IF ref \in DOMAIN lineage THEN @ ELSE "walk"])
      PROVE  BackInv'
  <2> DEFINE pc == IF ref \in DOMAIN lineage THEN "repair" ELSE "walk"
             r  == [proc[Repair] EXCEPT !.todo = @ \ {ref}, !.cur = ref, !.pc = pc]
  <2>1. Becomes(Repair, r)
    BY <1>1, <1>4 DEF At
  <2>2. r.pc \in {"repair", "walk"} /\ r.links = << >>
    BY <1>1, <1>4 DEF Processes, WalkTrue, At, Walking
  <2> HIDE DEF r
  <2>3. QED
    BY <1>2, <2>1, <2>2
<1>5. CASE Becomes(Repair, Idle)
  BY <1>2, <1>5, IdleLinked
<1>6. QED
  BY <1>3, <1>4, <1>5 DEF RepairNext

(* Only the session of the boot and the repair are ever at work.           *)
LEMMA TwoWalkers ==
  ASSUME BackInv, NEW p \in Procs, Step(p) \/ FetchFails(p)
  PROVE  /\ p \in {First, Repair}
         /\ p = Repair => Walk(p) \/ Reopen(p) \/ Close(p) \/ Link(p)
<1>1. CASE p \in Sessions \ {First}
  <2>1. proc[p].pc = "idle" /\ p # current
    BY <1>1 DEF BackInv, At
  <2>2. QED
    BY <2>1 DEF Step, Begin, NoHolders, Fetch, Scan, Confirm, Walk, Reopen, Close, Link, ListOpen,
                Vanished, Mark, Inherit, Surface, Finish, FetchFails, At
<1>2. CASE p = Repair
  <2>1. proc[p].pc \in RepairPoints /\ p # current
    BY <1>2, InHand DEF BackInv
  <2>2. QED
    BY <1>2, <2>1 DEF Step, Begin, NoHolders, Fetch, Scan, Confirm, ListOpen, Vanished, Mark, Inherit,
                Surface, Finish, FetchFails, At, RepairPoints
<1>3. QED
  BY <1>1, <1>2 DEF Procs

LEMMA NextBack ==
  ASSUME Uninterrupted, WithinReach, BackInv, [Next]_vars
  PROVE  BackInv'
<1>1. CacheInv'
  BY NextCache DEF BackInv
<1>2. CASE ChainStep /\ UNCHANGED <<repository, row, lineage, proc, current, faults>>
  <2>1. ChainGrows /\ ChainPaired' /\ DOMAIN mempool' = {}
    BY <1>2, InHand, ChainStepGrows, ChainStepPairs, ChainStepSpends DEF BackInv
  <2>2. QED
    BY <1>1, <1>2, <2>1, BackByChain
<1>3. ASSUME NEW p \in Procs, Step(p) \/ FetchFails(p)
      PROVE  BackInv'
  <2>1. p \in {First, Repair} /\ (p = Repair => Walk(p) \/ Reopen(p) \/ Close(p) \/ Link(p))
    BY <1>3, TwoWalkers
  <2>2. CASE Walk(p) \/ Reopen(p) \/ Close(p) \/ Link(p)
    BY <1>1, <2>1, <2>2, WalkBack, ReopenBack, CloseBack, LinkBack
  <2>3. CASE p = First
    BY <1>1, <1>3, <2>1, <2>2, <2>3, BeginBack, NoHoldersBack, FetchBack, ScanBack, ConfirmBack,
       ListOpenBack, VanishedBack, MarkBack, InheritBack, SurfaceBack, FinishBack DEF Step
  <2>4. QED
    BY <2>1, <2>2, <2>3
<1>4. CASE BeginRepair \/ RepairNext
  BY <1>1, <1>4, RepairBack
<1>5. /\ \A p \in Procs : ~Throws(p) /\ ~ClassifyThrows(p) /\ ~WalkCutShort(p)
      /\ ~Restart /\ ~HotSwap /\ ~Reorg
  BY DEF Throws, ClassifyThrows, WalkCutShort, Restart, HotSwap, Reorg, Fault, Uninterrupted
<1>6. CASE UNCHANGED vars
  <2>1. UNCHANGED chainVars /\ UNCHANGED <<row, lineage, proc, current>>
    BY <1>6 DEF vars, chainVars
  <2>2. ChainGrows /\ ChainPaired' /\ DOMAIN mempool' = {}
    BY <2>1, ChainStays, PairingStays, InHand DEF BackInv, chainVars
  <2>3. QED
    BY <1>1, <2>1, <2>2, BackByChain
<1>7. QED
  BY <1>2, <1>3, <1>4, <1>5, <1>6 DEF Next

LEMMA InitBack == Init => BackInv
<1> SUFFICES ASSUME Init PROVE BackInv
  OBVIOUS
<1>1. CacheInv
  BY InitCache
<1>2. /\ proc = [p \in Procs |-> Idle] /\ current = First /\ DOMAIN mempool = {}
      /\ DOMAIN chain = {} /\ DOMAIN row = {} /\ DOMAIN lineage = {}
  BY DEF Init, ChainInit
<1>3. proc[First] = Idle /\ proc[Repair] = Idle /\ \A s \in Sessions : proc[s] = Idle
  BY <1>2, IndexerAssumption DEF Procs
<1>4. ChainPaired
  BY <1>2 DEF ChainPaired, EverSeen
<1>5. LineageTrue /\ RowsLinked(proc[First], DOMAIN row, DOMAIN lineage)
  BY <1>2 DEF LineageTrue, RowsLinked
<1>6. QED
  BY <1>1, <1>2, <1>3, <1>4, <1>5, IdleLinked DEF BackInv, At

LEMMA TrueFromBack == BackInv => CacheTrue
<1> SUFFICES ASSUME BackInv PROVE CacheTrue
  OBVIOUS
<1>1. StatusTrue /\ LineageTrue
  BY DEF BackInv, CacheInv, RowsTrue
<1>2. ContinuationsLinked
  <2> SUFFICES ASSUME \A p \in Procs : At(p, "idle"), NEW ref \in open, ParentOf(ref) # None
               PROVE  ref \in DOMAIN lineage
    BY DEF ContinuationsLinked
  <2>1. proc[First].pc \notin Walking
    BY InHand DEF At, Walking
  <2>2. QED
    BY <2>1, InHand DEF BackInv, RowsLinked
<1>3. QED
  BY <1>1, <1>2 DEF CacheTrue

(* The cache is true of every order that was spent, of every link to the   *)
(* order that is continued and to the order the seller placed, and between *)
(* syncs no link of an open order is lacking: however the syncs, the       *)
(* repairs and the chain interleave, and though pages of orders are lost.  *)
THEOREM CacheAlwaysTrue == Uninterrupted => (Spec /\ []WithinReach => []CacheTrue)
<1> SUFFICES ASSUME Uninterrupted PROVE Spec /\ []WithinReach => []CacheTrue
  OBVIOUS
<1>1. Init => BackInv
  BY InitBack
<1>2. BackInv /\ WithinReach /\ [Next]_vars => BackInv'
  BY NextBack
<1>3. QED
  BY <1>1, <1>2, TrueFromBack, PTL DEF Spec


----------------------------------------------------------------------------
(***************************************************************************)
(* The history of an order on the chain: it is spent at most once, by      *)
(* another transaction, in its block or a later one.  Koios finds the      *)
(* spending transaction by searching from there on.                        *)
(***************************************************************************)
HistoryInv ==
  /\ \A id \in DOMAIN chain : chain[id].height <= height
  /\ \A ref \in Refs : \A id \in SpentBy(ref) :
       /\ ref \in Orders /\ ref[1] # id
       /\ chain[ref[1]].height <= chain[id].height
       /\ SpentBy(ref) = {id}

(* No transaction has more inputs than a batch and one of the wallet.      *)
BatchInv == \A id \in EverSeen : Len(Seen(id).inputs) <= MaxBatch + 1

LEMMA OrderOnChain ==
  /\ \A ref \in Orders : /\ ref = <<ref[1], ref[2]>> /\ ref[1] \in DOMAIN chain
                         /\ ref[2] \in OrderOutputs(chain[ref[1]])
  /\ \A id \in DOMAIN chain : \A i \in OrderOutputs(chain[id]) : <<id, i>> \in Orders
BY DEF Orders

LEMMA ChainTyped ==
  ASSUME ChainInv, NEW id \in DOMAIN chain
  PROVE  /\ chain[id] \in Transactions /\ OrdersSpent(chain[id]) /\ id \in TxIds
         /\ chain[id].height \in Nat
<1>1. id \in EverSeen /\ Seen(id) = chain[id]
  BY DEF EverSeen, Seen
<1>2. chain[id] \in Transactions /\ OrdersSpent(chain[id]) /\ id \in TxIds
  BY <1>1 DEF ChainInv
<1>3. QED
  BY <1>2 DEF Transactions

(* A transaction enters the chain at its tip, and spends unspent orders.   *)
LEMMA EntersHistory ==
  ASSUME ChainInv, HistoryInv, NEW id, id \notin DOMAIN chain, NEW tx, tx.height = height,
         DOMAIN chain' = DOMAIN chain \cup {id}, chain'[id] = tx,
         \A t \in DOMAIN chain : chain'[t] = chain[t], height' = height,
         \A ref \in Refs : Spends(tx, ref) => ref \in Unspent
  PROVE  HistoryInv'
<1>1. \A t \in DOMAIN chain' : chain'[t].height <= height'
  BY DEF HistoryInv, ChainInv
<1>2. Orders \subseteq Orders'
  <2> SUFFICES ASSUME NEW ref \in Orders PROVE ref \in Orders'
    OBVIOUS
  <2>1. ref = <<ref[1], ref[2]>> /\ ref[1] \in DOMAIN chain /\ ref[2] \in OrderOutputs(chain[ref[1]])
    BY OrderOnChain
  <2>2. ref[1] \in DOMAIN chain' /\ ref[2] \in OrderOutputs(chain'[ref[1]])
    BY <2>1
  <2>3. QED
    BY <2>1, <2>2 DEF Orders
<1>3. ASSUME NEW ref \in Refs, NEW t \in SpentBy(ref)'
      PROVE  /\ ref \in Orders' /\ ref[1] # t
             /\ chain'[ref[1]].height <= chain'[t].height
             /\ SpentBy(ref)' = {t}
  <2>1. CASE Spends(tx, ref)
    <3>1. ref \in Orders /\ SpentBy(ref) = {}
      BY <2>1 DEF Unspent
    <3>2. SpentBy(ref)' = {id}
      BY <2>1, <3>1 DEF SpentBy, Spends
    <3>3. ref[1] \in DOMAIN chain
      BY <3>1, OrderOnChain
    <3>4. QED
      BY <1>2, <3>1, <3>2, <3>3 DEF HistoryInv
  <2>2. CASE ~Spends(tx, ref)
    <3>1. SpentBy(ref)' = SpentBy(ref)
      BY <2>2 DEF SpentBy, Spends
    <3>2. t \in DOMAIN chain /\ ref \in Orders /\ ref[1] \in DOMAIN chain
      BY <3>1, OrderOnChain DEF HistoryInv, SpentBy
    <3>3. QED
      BY <1>2, <3>1, <3>2 DEF HistoryInv
  <2>3. QED
    BY <2>1, <2>2
<1>4. QED
  BY <1>1, <1>3 DEF HistoryInv, Refs

LEMMA IncludeHistory ==
  ASSUME ChainInv, HistoryInv, NEW id, NEW inputs, NEW outputs, Include(id, inputs, outputs),
         \A i \in DOMAIN inputs : inputs[i].ref \in Refs => inputs[i].ref \in Unspent
  PROVE  HistoryInv'
<1> DEFINE tx == [inputs |-> inputs, outputs |-> outputs, height |-> height]
<1>1. id \notin DOMAIN chain /\ height' = height /\ DOMAIN chain' = DOMAIN chain \cup {id}
      /\ chain'[id] = tx /\ \A t \in DOMAIN chain : chain'[t] = chain[t]
  BY DEF Include
<1>2. tx.height = height /\ \A ref \in Refs : Spends(tx, ref) => ref \in Unspent
  BY DEF Spends
<1> HIDE DEF tx
<1>3. QED
  BY <1>1, <1>2, EntersHistory

LEMMA SpendHistory ==
  ASSUME ChainInv, HistoryInv, NEW id, NEW S \in SUBSET Unspent, NEW kinds, DOMAIN kinds = S,
         NEW w \in SUBSET Wallet, IsFiniteSet(w), Spend(id, kinds, w)
  PROVE  HistoryInv'
<1> DEFINE all == S \cup w
           refs == InOrder(all)
           inputs == [i \in DOMAIN refs |->
                        [ref |-> refs[i], redeemer |-> IF refs[i] \in S THEN kinds[refs[i]] ELSE None]]
           out == Layout(InOrder(S), kinds)
<1>1. all \subseteq OutputRefs /\ IsFiniteSet(all)
  <2>1. S \subseteq OutputRefs /\ IsFiniteSet(S)
    BY OrdersOfChain, OrdersFinite, FS_Subset
  <2>2. w \subseteq OutputRefs
    BY ChainAssumption DEF OutputRefs
  <2>3. QED
    BY <2>1, <2>2, FS_Union
<1>2. refs \in [1..Cardinality(all) -> all]
  BY <1>1, InOrderListsAll
<1>3. Include(id, inputs, out)
  BY DEF Spend
<1> HIDE DEF refs, out
<1>4. ASSUME NEW i \in DOMAIN inputs, inputs[i].ref \in Refs PROVE inputs[i].ref \in Unspent
  <2>1. inputs[i].ref = refs[i] /\ refs[i] \in all
    BY <1>2
  <2>2. refs[i] \notin Wallet
    BY <1>4, <2>1, ChainAssumption DEF Refs
  <2>3. QED
    BY <2>1, <2>2
<1> HIDE DEF inputs
<1>5. QED
  BY <1>3, <1>4, IncludeHistory

LEMMA ReincludeHistory ==
  ASSUME ChainInv, HistoryInv, NEW id \in DOMAIN mempool, Reinclude(id)
  PROVE  HistoryInv'
<1> DEFINE tx == [mempool[id] EXCEPT !.height = height]
<1>1. id \notin DOMAIN chain /\ id \in EverSeen /\ Seen(id) = mempool[id]
  BY DEF ChainInv, EverSeen, Seen
<1>2. mempool[id] \in Transactions /\ OrdersSpent(mempool[id])
  BY <1>1 DEF ChainInv
<1>3. tx.height = height /\ tx.inputs = mempool[id].inputs
  BY <1>2 DEF Transactions
<1>4. DOMAIN chain' = DOMAIN chain \cup {id} /\ height' = height
      /\ chain'[id] = tx /\ \A t \in DOMAIN chain : chain'[t] = chain[t]
  BY <1>1 DEF Reinclude
<1> HIDE DEF tx
<1>5. ASSUME NEW ref \in Refs, Spends(tx, ref) PROVE ref \in Unspent
  <2>1. PICK i \in DOMAIN mempool[id].inputs : mempool[id].inputs[i].ref = ref
    BY <1>3, <1>5 DEF Spends
  <2>2. mempool[id].inputs[i].redeemer # None
    BY <1>2, <2>1 DEF OrdersSpent
  <2>3. QED
    BY <2>1, <2>2 DEF Reinclude
<1>6. QED
  BY <1>1, <1>3, <1>4, <1>5, EntersHistory

(* Whoever spends an order of the latest block is undone with it.          *)
LEMMA RollbackHistory == ASSUME ChainInv, HistoryInv, Rollback PROVE HistoryInv'
<1> DEFINE undone == {id \in DOMAIN chain : chain[id].height = height}
<1>1. DOMAIN chain' = DOMAIN chain \ undone /\ height' = height
      /\ \A id \in DOMAIN chain \ undone : chain'[id] = chain[id]
  BY DEF Rollback
<1>2. \A id \in DOMAIN chain : id \in undone <=> chain[id].height = height
  OBVIOUS
<1> HIDE DEF undone
<1>3. \A id \in DOMAIN chain' : chain'[id].height <= height'
  BY <1>1 DEF HistoryInv
<1>4. ASSUME NEW ref \in Refs, NEW id \in SpentBy(ref)'
      PROVE  /\ ref \in Orders' /\ ref[1] # id
             /\ chain'[ref[1]].height <= chain'[id].height
             /\ SpentBy(ref)' = {id}
  <2>1. id \in DOMAIN chain \ undone /\ Spends(chain[id], ref) /\ chain'[id] = chain[id]
    BY <1>1 DEF SpentBy, Spends
  <2>2. id \in SpentBy(ref)
    BY <2>1 DEF SpentBy
  <2>3. ref \in Orders /\ ref[1] # id /\ chain[ref[1]].height <= chain[id].height /\ SpentBy(ref) = {id}
    BY <2>2 DEF HistoryInv
  <2>4. ref = <<ref[1], ref[2]>> /\ ref[1] \in DOMAIN chain /\ ref[2] \in OrderOutputs(chain[ref[1]])
    BY <2>3, OrderOnChain
  <2>5. ref[1] \notin undone
    <3>1. chain[ref[1]].height \in Nat /\ chain[id].height \in Nat /\ height \in Nat
      BY <2>1, <2>4, ChainTyped DEF ChainInv
    <3>2. chain[id].height <= height /\ chain[id].height # height
      BY <1>2, <2>1 DEF HistoryInv
    <3>3. QED
      BY <1>2, <2>3, <2>4, <3>1, <3>2
  <2>6. ref[1] \in DOMAIN chain' /\ chain'[ref[1]] = chain[ref[1]]
    BY <1>1, <2>4, <2>5
  <2>7. ref \in Orders'
    BY <2>4, <2>6 DEF Orders
  <2>8. SpentBy(ref)' \subseteq SpentBy(ref)
    BY <1>1 DEF SpentBy, Spends
  <2>9. QED
    BY <2>1, <2>3, <2>6, <2>7, <2>8
<1>5. QED
  BY <1>3, <1>4 DEF HistoryInv, Refs

LEMMA ChainStepHistory == ASSUME ChainInv, HistoryInv, ChainStep PROVE HistoryInv'
<1>1. CASE Block
  <2>1. chain' = chain /\ height' = height + 1 /\ height \in Nat
    BY <1>1 DEF Block, ChainInv
  <2>2. \A id \in DOMAIN chain : chain[id].height \in Nat
    BY ChainTyped
  <2>3. \A id \in DOMAIN chain : chain[id].height <= height + 1
    BY <2>1, <2>2 DEF HistoryInv
  <2>4. Orders' = Orders /\ \A ref \in Refs : SpentBy(ref)' = SpentBy(ref)
    BY <2>1 DEF Orders, SpentBy
  <2>5. QED
    BY <2>1, <2>3, <2>4 DEF HistoryInv, Refs
<1>2. ASSUME NEW id \in TxIds, NEW o \in Owners, Create(id, o) PROVE HistoryInv'
  <2>1. DOMAIN << >> = {}
    OBVIOUS
  <2>2. QED
    BY <1>2, <2>1, IncludeHistory DEF Create
<1>3. \A w \in {{}} \cup {{v} : v \in Wallet} : w \in SUBSET Wallet /\ IsFiniteSet(w)
  BY FS_EmptySet, FS_Singleton
<1>4. ASSUME NEW id \in TxIds, NEW w \in {{}} \cup {{v} : v \in Wallet},
             NEW S \in SUBSET Unspent \ {{}},
             NEW kinds \in [S -> {"TakeOrder", "TakeOrderPartial"}], Spend(id, kinds, w)
      PROVE  HistoryInv'
  BY <1>3, <1>4, SpendHistory
<1>5. ASSUME NEW id \in TxIds, NEW r \in Unspent, NEW w \in {{}} \cup {{v} : v \in Wallet},
             Spend(id, [x \in {r} |-> "CancelOrder"], w)
      PROVE  HistoryInv'
  <2> DEFINE kinds == [x \in {r} |-> "CancelOrder"]
  <2>1. DOMAIN kinds = {r} /\ {r} \in SUBSET Unspent
    OBVIOUS
  <2> HIDE DEF kinds
  <2>2. QED
    BY <1>3, <1>5, <2>1, SpendHistory DEF kinds
<1>6. ASSUME NEW id \in DOMAIN mempool, Reinclude(id) PROVE HistoryInv'
  BY <1>6, ReincludeHistory
<1>7. QED
  BY <1>1, <1>2, <1>4, <1>5, <1>6 DEF ChainStep

LEMMA HistoryStays == ASSUME HistoryInv, UNCHANGED chainVars PROVE HistoryInv'
BY DEF HistoryInv, chainVars, Orders, SpentBy, Refs

LEMMA WorkLeavesChain ==
  ASSUME NEW p \in Procs,
         Step(p) \/ Throws(p) \/ ClassifyThrows(p) \/ FetchFails(p) \/ WalkCutShort(p)
  PROVE  UNCHANGED chainVars
BY DEF Step, Begin, NoHolders, Fetch, Scan, Confirm, Walk, Reopen, Close, Link, ListOpen,
       Vanished, Mark, Inherit, Surface, Finish, Throws, ClassifyThrows, FetchFails,
       WalkCutShort, Elsewhere, chainVars

LEMMA NextHistory == CacheInv /\ HistoryInv /\ [Next]_vars => HistoryInv'
<1> SUFFICES ASSUME CacheInv, HistoryInv, [Next]_vars PROVE HistoryInv'
  OBVIOUS
<1>1. ChainInv
  BY DEF CacheInv
<1>2. ASSUME NEW p \in Procs,
             Step(p) \/ Throws(p) \/ ClassifyThrows(p) \/ FetchFails(p) \/ WalkCutShort(p)
      PROVE  UNCHANGED chainVars
  BY <1>2, WorkLeavesChain
<1>3. CASE BeginRepair \/ RepairNext \/ Restart \/ HotSwap \/ UNCHANGED vars
  BY <1>3, HistoryStays DEF BeginRepair, RepairNext, Restart, HotSwap, Elsewhere, vars, chainVars
<1>4. CASE Reorg
  BY <1>1, <1>4, RollbackHistory DEF Reorg
<1>5. CASE ChainStep
  BY <1>1, <1>5, ChainStepHistory
<1>6. QED
  BY <1>2, <1>3, <1>4, <1>5, HistoryStays DEF Next

(* What was seen keeps its inputs, so only what is new matters.            *)
LEMMA BatchStays ==
  ASSUME BatchInv, ChainGrows, \A id \in EverSeen' \ EverSeen : Len(Seen(id)'.inputs) <= MaxBatch + 1
  PROVE  BatchInv'
BY DEF BatchInv, ChainGrows

LEMMA IncludeBatch ==
  ASSUME BatchInv, ChainGrows, NEW id, NEW inputs, NEW outputs, Include(id, inputs, outputs),
         Len(inputs) <= MaxBatch + 1
  PROVE  BatchInv'
<1>1. EverSeen' = EverSeen \cup {id} /\ Seen(id)' = [inputs |-> inputs, outputs |-> outputs, height |-> height]
  BY DEF Include, EverSeen, Seen
<1>2. Seen(id)'.inputs = inputs
  BY <1>1
<1>3. QED
  BY <1>1, <1>2, BatchStays

LEMMA SpendBatch ==
  ASSUME ChainInv, BatchInv, ChainGrows, NEW id, NEW S \in SUBSET Unspent, NEW kinds, DOMAIN kinds = S,
         Cardinality(S) <= MaxBatch, NEW w \in {{}} \cup {{v} : v \in Wallet}, Spend(id, kinds, w)
  PROVE  BatchInv'
<1> DEFINE all == S \cup w
           refs == InOrder(all)
           inputs == [i \in DOMAIN refs |->
                        [ref |-> refs[i], redeemer |-> IF refs[i] \in S THEN kinds[refs[i]] ELSE None]]
           out == Layout(InOrder(S), kinds)
<1>1. IsFiniteSet(S) /\ S \subseteq OutputRefs
  BY OrdersOfChain, OrdersFinite, FS_Subset
<1>2. w \subseteq OutputRefs /\ IsFiniteSet(w) /\ Cardinality(w) \in Nat /\ Cardinality(w) <= 1
  <2>1. w \subseteq Wallet /\ Wallet \subseteq OutputRefs
    BY ChainAssumption DEF OutputRefs
  <2>2. CASE w = {}
    <3>1. IsFiniteSet({}) /\ Cardinality({}) = 0
      BY FS_EmptySet
    <3>2. QED
      BY <2>2, <3>1
  <2>3. CASE w # {}
    <3>1. PICK v : w = {v}
      BY <2>3
    <3>2. IsFiniteSet({v}) /\ Cardinality({v}) = 1
      BY FS_Singleton
    <3>3. QED
      BY <2>1, <3>1, <3>2
  <2>4. QED
    BY <2>2, <2>3
<1>3. all \subseteq OutputRefs /\ IsFiniteSet(all)
  BY <1>1, <1>2, FS_Union
<1>4. Cardinality(all) \in Nat /\ Cardinality(all) <= MaxBatch + 1
  <2>1. Cardinality(all) = Cardinality(S) + Cardinality(w) - Cardinality(S \cap w)
    BY <1>1, <1>2, FS_Union
  <2>2. IsFiniteSet(S \cap w)
    BY <1>1, FS_Intersection
  <2>3. Cardinality(S) \in Nat /\ Cardinality(S \cap w) \in Nat /\ Cardinality(all) \in Nat
    BY <1>1, <1>3, <2>2, FS_CardinalityType
  <2>4. QED
    BY <1>2, <2>1, <2>3, ChainAssumption
<1>5. refs \in [1..Cardinality(all) -> all]
  BY <1>3, InOrderListsAll
<1>6. Include(id, inputs, out)
  BY DEF Spend
<1> HIDE DEF refs, out, all
<1>7. DOMAIN inputs = 1..Cardinality(all)
  BY <1>5
<1>8. Len(inputs) = Cardinality(all)
  <2>1. inputs \in Seq({inputs[i] : i \in 1..Cardinality(all)})
    <3>1. inputs = [i \in 1..Cardinality(all) |-> inputs[i]]
      BY <1>5
    <3> HIDE DEF inputs
    <3>2. QED
      BY <1>4, <3>1
  <2> HIDE DEF inputs
  <2>2. QED
    BY <1>4, <1>7, <2>1
<1> HIDE DEF inputs
<1>9. QED
  BY <1>4, <1>6, <1>8, IncludeBatch

LEMMA NextBatch == ChainInv /\ BatchInv /\ [Next]_vars => BatchInv'
<1> SUFFICES ASSUME ChainInv, BatchInv, [Next]_vars PROVE BatchInv'
  OBVIOUS
<1>1. ASSUME NEW p \in Procs,
             Step(p) \/ Throws(p) \/ ClassifyThrows(p) \/ FetchFails(p) \/ WalkCutShort(p)
      PROVE  UNCHANGED chainVars
  BY <1>1, WorkLeavesChain
<1>2. ASSUME UNCHANGED chainVars PROVE BatchInv'
  BY <1>2 DEF BatchInv, chainVars, EverSeen, Seen
<1>3. CASE BeginRepair \/ RepairNext \/ Restart \/ HotSwap \/ UNCHANGED vars
  BY <1>2, <1>3 DEF BeginRepair, RepairNext, Restart, HotSwap, Elsewhere, vars, chainVars
<1>4. CASE Reorg
  <2>1. ChainGrows /\ EverSeen' = EverSeen
    BY <1>4, RollbackGrows DEF Reorg, Rollback, EverSeen
  <2>2. QED
    BY <2>1, BatchStays
<1>5. CASE ChainStep
  <2>1. ChainGrows
    BY <1>5, ChainStepGrows
  <2>2. CASE Block
    BY <2>1, <2>2, BatchStays DEF Block, EverSeen
  <2>3. ASSUME NEW id \in TxIds, NEW o \in Owners, Create(id, o) PROVE BatchInv'
    BY <2>1, <2>3, IncludeBatch, ChainAssumption DEF Create
  <2>4. ASSUME NEW id \in TxIds, NEW w \in {{}} \cup {{v} : v \in Wallet},
               NEW S \in SUBSET Unspent \ {{}}, Cardinality(S) <= MaxBatch,
               NEW kinds \in [S -> {"TakeOrder", "TakeOrderPartial"}], Spend(id, kinds, w)
        PROVE  BatchInv'
    BY <2>1, <2>4, SpendBatch
  <2>5. ASSUME NEW id \in TxIds, NEW r \in Unspent, NEW w \in {{}} \cup {{v} : v \in Wallet},
               Spend(id, [x \in {r} |-> "CancelOrder"], w)
        PROVE  BatchInv'
    <3> DEFINE kinds == [x \in {r} |-> "CancelOrder"]
    <3>1. DOMAIN kinds = {r} /\ {r} \in SUBSET Unspent
      OBVIOUS
    <3>2. Cardinality({r}) <= MaxBatch
      <4>1. Cardinality({r}) = 1
        BY FS_Singleton
      <4>2. MaxBatch \in Nat \ {0}
        BY ChainAssumption
      <4>3. QED
        BY <4>1, <4>2
    <3> HIDE DEF kinds
    <3>3. QED
      BY <2>1, <2>5, <3>1, <3>2, SpendBatch DEF kinds
  <2>6. ASSUME NEW id \in DOMAIN mempool, Reinclude(id) PROVE BatchInv'
    BY <2>1, <2>6, BatchStays DEF Reinclude, EverSeen
  <2>7. QED
    BY <1>5, <2>2, <2>3, <2>4, <2>5, <2>6 DEF ChainStep
<1>6. QED
  BY <1>1, <1>2, <1>3, <1>4, <1>5 DEF Next

LEMMA HistoryInvariant == Spec => [](ChainInv /\ HistoryInv /\ BatchInv)
<1>1. Init => HistoryInv /\ BatchInv
  <2> SUFFICES ASSUME Init PROVE HistoryInv /\ BatchInv
    OBVIOUS
  <2>1. chain = << >> /\ mempool = << >>
    BY DEF Init, ChainInit
  <2>2. DOMAIN chain = {} /\ DOMAIN mempool = {}
    BY <2>1
  <2>3. QED
    BY <2>2 DEF HistoryInv, SpentBy, BatchInv, EverSeen
<1>2. CacheInv => ChainInv
  BY DEF CacheInv
<1>3. QED
  BY <1>1, <1>2, NextHistory, NextBatch, CacheInvariant, PTL DEF Spec

----------------------------------------------------------------------------
(***************************************************************************)
(* What a provider says of a transaction on the chain.                     *)
(***************************************************************************)
(* The one that spent an order, as its search finds it.                    *)
LEMMA SpenderFound ==
  ASSUME ChainInv, HistoryInv, NEW ref \in Orders, NEW down
  PROVE  /\ consumedBy(ref) \in TxIds \cup {None}
         /\ SpentBy(ref) = {} <=> consumedBy(ref) = None
         /\ SpentBy(ref) # {} => findSpendingTx(ref, down) \in {consumedBy(ref), None}
         /\ SpentBy(ref) # {} /\ down = {} => findSpendingTx(ref, down) = consumedBy(ref)
<1>1. CASE SpentBy(ref) = {}
  BY <1>1 DEF consumedBy
<1>2. CASE SpentBy(ref) # {}
  <2>1. ref \in Refs /\ ref[1] \in DOMAIN chain
    BY OrdersOfChain, OrderOnChain
  <2>2. PICK s : s \in SpentBy(ref)
    BY <1>2
  <2>3. SpentBy(ref) = {s} /\ ref[1] # s /\ chain[ref[1]].height <= chain[s].height
    BY <2>1, <2>2 DEF HistoryInv
  <2>4. consumedBy(ref) = s
    BY <2>3 DEF consumedBy
  <2>5. s \in DOMAIN chain /\ s \in TxIds /\ s # None /\ OrdersSpent(chain[s])
    BY <2>2, ChainTyped, ChainAssumption DEF SpentBy
  <2>6. PICK i \in DOMAIN chain[s].inputs : chain[s].inputs[i].ref = ref
    BY <2>2 DEF SpentBy, Spends
  <2>7. chain[s].inputs[i].redeemer # None
    BY <2>1, <2>5, <2>6 DEF OrdersSpent
  <2>8. s \in touches(OwnerOf(ref))
    BY <2>5, <2>6, <2>7 DEF touches
  <2> DEFINE candidates == {id \in touches(OwnerOf(ref)) \ {ref[1]} :
                              chain[id].height >= chain[ref[1]].height}
             spending == {id \in candidates : ref \in ToSet(inputsOf(id))}
  <2>9. s \in candidates
    <3>1. chain[s].height \in Nat /\ chain[ref[1]].height \in Nat
      BY <2>1, <2>5, ChainTyped
    <3>2. QED
      BY <2>3, <2>8, <3>1
  <2>10. \A id \in DOMAIN chain : ref \in ToSet(inputsOf(id)) <=> id \in SpentBy(ref)
    BY DEF ToSet, inputsOf, SpentBy, Spends
  <2>11. candidates \subseteq DOMAIN chain
    BY DEF touches
  <2>12. spending = {s}
    BY <2>3, <2>5, <2>9, <2>10, <2>11
  <2>13. findSpendingTx(ref, down) =
           IF down \cap {"tx_info", "address_txs", "tx_utxos"} # {} \/ spending = {} THEN None
           ELSE CHOOSE id \in spending : \A t \in spending : chain[id].height <= chain[t].height
    BY DEF findSpendingTx
  <2> HIDE DEF spending, candidates
  <2>14. (CHOOSE id \in spending : \A t \in spending : chain[id].height <= chain[t].height) = s
    <3>1. chain[s].height <= chain[s].height
      BY <2>5, ChainTyped
    <3>2. QED
      BY <2>12, <3>1
  <2>15. QED
    BY <1>2, <2>4, <2>5, <2>12, <2>13, <2>14
<1>3. QED
  BY <1>1, <1>2

(* Of a transaction: all its inputs and outputs, the orders among them,    *)
(* and who spent those unless an endpoint fails.                           *)
ToldOf(id, answer, down) ==
  /\ answer # None /\ answer # Thrown
  /\ answer.inputs = inputsOf(id)
  /\ DOMAIN answer.outputs = DOMAIN chain[id].outputs
  /\ \A i \in DOMAIN answer.outputs : answer.outputs[i].beacon <=> i \in OrderOutputs(chain[id])
  /\ \A i \in OrderOutputs(chain[id]) :
       /\ answer.outputs[i].consumedByTx \in {consumedBy(<<id, i>>), None}
       /\ down = {} => answer.outputs[i].consumedByTx = consumedBy(<<id, i>>)

LEMMA Told ==
  ASSUME ChainInv, HistoryInv, NEW id \in DOMAIN chain, NEW down, NEW spenders,
         NEW n \in Nat, DOMAIN chain[id].outputs = 1..n,
         spenders \in [1..n -> TxIds \cup {None}],
         \A i \in OrderOutputs(chain[id]) :
           /\ spenders[i] \in {consumedBy(<<id, i>>), None}
           /\ down = {} => spenders[i] = consumedBy(<<id, i>>)
  PROVE  ToldOf(id, [inputs |-> inputsOf(id), outputs |-> outputsOf(id, spenders)], down)
<1> DEFINE answer == [inputs |-> inputsOf(id), outputs |-> outputsOf(id, spenders)]
<1>1. chain[id] \in Transactions
  BY ChainTyped
<1>2. inputsOf(id) \in Seq(Int \X Nat)
  <2>1. PICK m \in Nat : DOMAIN chain[id].inputs = 1..m
    BY <1>1 DEF Transactions
  <2>2. \A i \in 1..m : chain[id].inputs[i].ref \in Int \X Nat
    <3>1. PICK ins : ins = chain[id].inputs
      OBVIOUS
    <3>2. ins \in Seq(Inputs) /\ DOMAIN ins = 1..m
      BY <1>1, <2>1, <3>1 DEF Transactions
    <3>3. \A i \in 1..m : ins[i] \in Inputs
      BY <3>2
    <3>4. QED
      BY <3>1, <3>3 DEF Inputs, OutputRefs
  <2>3. inputsOf(id) \in [1..m -> Int \X Nat]
    BY <2>1, <2>2 DEF inputsOf
  <2>4. QED
    BY <2>3
<1>3. DOMAIN spenders = 1..n
  OBVIOUS
<1> DEFINE out == outputsOf(id, spenders)
<1>4. out = [i \in 1..n |-> [beacon |-> i \in OrderOutputs(chain[id]), consumedByTx |-> spenders[i]]]
  BY <1>3 DEF outputsOf
<1>5. out \in Seq([beacon : BOOLEAN, consumedByTx : TxIds \cup {None}])
  <2>1. \A i \in 1..n : spenders[i] \in TxIds \cup {None}
    OBVIOUS
  <2>2. \A i \in 1..n : (i \in OrderOutputs(chain[id])) \in BOOLEAN
    OBVIOUS
  <2>3. out \in [1..n -> [beacon : BOOLEAN, consumedByTx : TxIds \cup {None}]]
    <3> DEFINE b == [i \in 1..n |-> i \in OrderOutputs(chain[id])]
    <3>1. \A i \in 1..n : b[i] \in BOOLEAN
      BY <2>2
    <3>2. out = [i \in 1..n |-> [beacon |-> b[i], consumedByTx |-> spenders[i]]]
      BY <1>4
    <3> HIDE DEF b, out
    <3>3. QED
      BY <2>1, <3>1, <3>2
  <2>4. PICK R : R = [beacon : BOOLEAN, consumedByTx : TxIds \cup {None}]
    OBVIOUS
  <2>5. out \in [1..n -> R]
    BY <2>3, <2>4
  <2> HIDE DEF out
  <2>6. out \in Seq(R)
    BY <2>5
  <2>7. QED
    BY <2>4, <2>6
<1>6. answer \in Answers
  BY <1>2, <1>5 DEF Answers
<1>7. answer # None /\ answer # Thrown
  <2> HIDE DEF answer
  <2>1. QED
    BY <1>6, ProviderAssumption
<1>8. OrderOutputs(chain[id]) \subseteq 1..n
  BY DEF OrderOutputs
<1>9. /\ DOMAIN out = 1..n
      /\ \A i \in 1..n : (out[i].beacon <=> i \in OrderOutputs(chain[id])) /\ out[i].consumedByTx = spenders[i]
  <2> SUFFICES ASSUME NEW i \in 1..n
               PROVE  (out[i].beacon <=> i \in OrderOutputs(chain[id])) /\ out[i].consumedByTx = spenders[i]
    BY <1>4
  <2>1. PICK b : b = (i \in OrderOutputs(chain[id]))
    OBVIOUS
  <2>2. out[i] = [beacon |-> b, consumedByTx |-> spenders[i]]
    BY <1>4, <2>1, Zenon
  <2>3. out[i].beacon = b /\ out[i].consumedByTx = spenders[i]
    BY <2>2
  <2>4. QED
    BY <2>1, <2>3
<1>10. answer.inputs = inputsOf(id) /\ answer.outputs = out
  OBVIOUS
<1> HIDE DEF answer, out
<1>11. QED
  BY <1>7, <1>8, <1>9, <1>10 DEF ToldOf, answer, out

LEMMA UtxosTold ==
  ASSUME ChainInv, HistoryInv, NEW id \in DOMAIN chain, NEW down, NEW provider \in Providers,
         NEW answer, answer = getTxUtxos(provider, id, down)
  PROVE  /\ answer = Thrown \/ ToldOf(id, answer, down)
         /\ down = {} => ToldOf(id, answer, down)
<1>1. PICK n \in Nat : DOMAIN chain[id].outputs = 1..n
  BY ChainTyped DEF Transactions
<1>2. \A i \in OrderOutputs(chain[id]) : <<id, i>> \in Orders /\ i \in 1..n
  BY <1>1, OrderOnChain DEF OrderOutputs
<1>3. CASE provider = "blockfrost"
  <2> DEFINE spenders == [i \in 1..n |-> consumedBy(<<id, i>>)]
  <2>1. spenders \in [1..n -> TxIds \cup {None}]
    <3>1. ASSUME NEW ref PROVE consumedBy(ref) \in TxIds \cup {None}
      <4>1. SpentBy(ref) \subseteq TxIds
        BY ChainTyped DEF SpentBy
      <4>2. QED
        BY <4>1 DEF consumedBy
    <3>2. QED
      BY <3>1
  <2>2. \A i \in OrderOutputs(chain[id]) : spenders[i] = consumedBy(<<id, i>>)
    BY <1>2
  <2>3. answer = IF "utxos" \in down THEN Thrown
                 ELSE [inputs |-> inputsOf(id), outputs |-> outputsOf(id, spenders)]
    BY <1>1, <1>3 DEF getTxUtxos, blockfrostTxUtxos
  <2> HIDE DEF spenders
  <2>4. ToldOf(id, [inputs |-> inputsOf(id), outputs |-> outputsOf(id, spenders)], down)
    BY <1>1, <2>1, <2>2, Told
  <2>5. QED
    BY <2>3, <2>4
<1>4. CASE provider = "koios"
  <2> DEFINE spender(ref) == IF ref \in Orders /\ isSpent(ref) THEN findSpendingTx(ref, down) ELSE None
             spenders == [i \in 1..n |-> spender(<<id, i>>)]
  <2>1. ASSUME NEW ref
        PROVE  /\ spender(ref) \in TxIds \cup {None}
               /\ ref \in Orders => spender(ref) \in {consumedBy(ref), None}
               /\ ref \in Orders /\ down = {} => spender(ref) = consumedBy(ref)
    <3>1. CASE ref \in Orders /\ isSpent(ref)
      <4>1. /\ consumedBy(ref) \in TxIds \cup {None}
            /\ findSpendingTx(ref, down) \in {consumedBy(ref), None}
            /\ down = {} => findSpendingTx(ref, down) = consumedBy(ref)
        BY <3>1, SpenderFound DEF isSpent
      <4>2. spender(ref) = findSpendingTx(ref, down)
        BY <3>1
      <4>3. QED
        BY <4>1, <4>2
    <3>2. CASE ~(ref \in Orders /\ isSpent(ref))
      <4>1. spender(ref) = None
        BY <3>2
      <4>2. ref \in Orders => consumedBy(ref) = None
        BY <3>2 DEF isSpent, consumedBy
      <4>3. QED
        BY <4>1, <4>2
    <3>3. QED
      BY <3>1, <3>2
  <2>2. answer = IF "tx_utxos" \in down \/ "utxo_info" \in down THEN Thrown
                 ELSE [inputs |-> inputsOf(id), outputs |-> outputsOf(id, spenders)]
    BY <1>1, <1>4 DEF getTxUtxos, koiosTxUtxos
  <2> HIDE DEF spender
  <2>3. spenders \in [1..n -> TxIds \cup {None}]
    BY <2>1
  <2>4. \A i \in OrderOutputs(chain[id]) :
           /\ spenders[i] \in {consumedBy(<<id, i>>), None}
           /\ down = {} => spenders[i] = consumedBy(<<id, i>>)
    <3> SUFFICES ASSUME NEW i \in OrderOutputs(chain[id])
                 PROVE  /\ spenders[i] \in {consumedBy(<<id, i>>), None}
                        /\ down = {} => spenders[i] = consumedBy(<<id, i>>)
      OBVIOUS
    <3>1. <<id, i>> \in Orders /\ spenders[i] = spender(<<id, i>>)
      BY <1>2
    <3>2. QED
      BY <2>1, <3>1
  <2> HIDE DEF spenders
  <2>5. ToldOf(id, [inputs |-> inputsOf(id), outputs |-> outputsOf(id, spenders)], down)
    BY <1>1, <2>3, <2>4, Told
  <2>6. QED
    BY <2>2, <2>5
<1>5. QED
  BY <1>3, <1>4 DEF Providers

LEMMA Constructors ==
  /\ Constructor["CancelOrder"] = 0 /\ Constructor["TakeOrder"] = 1
  /\ Constructor["TakeOrderPartial"] = 2
BY DEF Constructor

LEMMA RedeemersTyped ==
  ASSUME ChainInv, BatchInv, NEW id \in DOMAIN chain
  PROVE  /\ \A i \in DOMAIN chain[id].inputs : chain[id].inputs[i].redeemer \in Kinds \cup {None}
         /\ DOMAIN chain[id].inputs \subseteq Nat
         /\ redeemersOf(id) \subseteq Entries
<1>1. PICK ins : ins = chain[id].inputs
  OBVIOUS
<1>2. PICK m \in Nat : ins \in Seq(Inputs) /\ DOMAIN ins = 1..m
  BY <1>1, ChainTyped DEF Transactions
<1>3. \A i \in 1..m : ins[i] \in Inputs
  BY <1>2
<1>4. \A i \in 1..m : ins[i].redeemer \in Kinds \cup {None}
  BY <1>3 DEF Inputs
<1>5. \A k \in Kinds : Constructor[k] \in 0..2
  BY Constructors DEF Kinds
<1>6. m <= MaxBatch + 1
  <2>1. id \in EverSeen /\ Seen(id) = chain[id]
    BY DEF EverSeen, Seen
  <2>2. Len(ins) <= MaxBatch + 1
    BY <1>1, <2>1 DEF BatchInv
  <2>3. QED
    BY <1>2, <2>2
<1>7. \A i \in DOMAIN chain[id].inputs : i \in 1..(MaxBatch + 1)
  BY <1>1, <1>2, <1>6, ChainAssumption
<1>8. redeemersOf(id) \subseteq Entries
  BY <1>1, <1>2, <1>4, <1>5, <1>7 DEF redeemersOf, Entries
<1>9. QED
  BY <1>1, <1>2, <1>4, <1>8

(* The redeemers of a transaction, unless the call fails: all but those    *)
(* that are lacking.                                                       *)
LEMMA RedeemersTold ==
  ASSUME ChainInv, BatchInv, NEW id \in DOMAIN chain, NEW down, NEW skipped, NEW provider \in Providers,
         NEW answer, answer = getSpendRedeemers(provider, id, down, skipped)
  PROVE  LET told == {r \in redeemersOf(id) : r.txIndex \notin skipped}
         IN  /\ answer = Thrown \/ answer = {} \/ answer = told
             /\ down = {} => answer = told
             /\ told # Thrown
<1> DEFINE told == {r \in redeemersOf(id) : r.txIndex \notin skipped}
<1>1. told \in SUBSET Entries
  BY RedeemersTyped
<1>2. told # Thrown
  <2> HIDE DEF told
  <2>1. QED
    BY <1>1, ProviderAssumption
<1>3. CASE provider = "blockfrost"
  BY <1>2, <1>3 DEF getSpendRedeemers, blockfrostSpendRedeemers
<1>4. CASE provider = "koios"
  BY <1>2, <1>4 DEF getSpendRedeemers, koiosSpendRedeemers
<1>5. QED
  BY <1>2, <1>3, <1>4 DEF Providers

(* Where an order is among the inputs of the transaction that spends it.   *)
PlaceOf(ref, id) == CHOOSE i \in DOMAIN chain[id].inputs : chain[id].inputs[i].ref = ref

KindOf(ref, id) == chain[id].inputs[PlaceOf(ref, id)].redeemer

LEMMA Placed ==
  ASSUME ChainInv, BatchInv, NEW ref \in Orders, NEW id \in SpentBy(ref)
  PROVE  /\ id \in DOMAIN chain
         /\ PlaceOf(ref, id) \in DOMAIN chain[id].inputs
         /\ PlaceOf(ref, id) \in Nat
         /\ chain[id].inputs[PlaceOf(ref, id)].ref = ref
         /\ KindOf(ref, id) \in Kinds
<1>1. id \in DOMAIN chain /\ \E i \in DOMAIN chain[id].inputs : chain[id].inputs[i].ref = ref
  BY DEF SpentBy, Spends
<1>2. PlaceOf(ref, id) \in DOMAIN chain[id].inputs /\ chain[id].inputs[PlaceOf(ref, id)].ref = ref
  BY <1>1 DEF PlaceOf
<1>3. ref \in Refs
  BY OrdersOfChain
<1>4. KindOf(ref, id) # None
  BY <1>1, <1>2, <1>3, ChainTyped DEF OrdersSpent, KindOf
<1>5. QED
  BY <1>1, <1>2, <1>4, RedeemersTyped DEF KindOf

(* The own redeemer of an order is found, if it is told at all.            *)
LEMMA EntryFound ==
  ASSUME ChainInv, BatchInv, NEW ref \in Orders, NEW id \in SpentBy(ref), NEW skipped
  PROVE  LET told == {r \in redeemersOf(id) : r.txIndex \notin skipped}
         IN  entriesOf(told, PlaceOf(ref, id)) =
               IF PlaceOf(ref, id) \in skipped THEN {}
               ELSE {[txIndex |-> PlaceOf(ref, id), constructor |-> Constructor[KindOf(ref, id)]]}
<1>1. PICK n : n = PlaceOf(ref, id)
  OBVIOUS
<1>2. n \in DOMAIN chain[id].inputs /\ KindOf(ref, id) = chain[id].inputs[n].redeemer
      /\ KindOf(ref, id) # None
  BY <1>1, Placed, ChainAssumption DEF KindOf, Kinds
<1>3. PICK c : c = [i \in DOMAIN chain[id].inputs |-> Constructor[chain[id].inputs[i].redeemer]]
  OBVIOUS
<1>4. PICK D : D = {j \in DOMAIN chain[id].inputs : chain[id].inputs[j].redeemer # None}
  OBVIOUS
<1>5. redeemersOf(id) = {[txIndex |-> i, constructor |-> c[i]] : i \in D}
  BY <1>3, <1>4 DEF redeemersOf
<1>6. n \in D /\ c[n] = Constructor[KindOf(ref, id)]
  BY <1>2, <1>3, <1>4
<1>7. QED
  BY <1>1, <1>5, <1>6 DEF entriesOf

(* Ranks among the redeemers are ranks among the partial takes.            *)
LEMMA RanksTold ==
  ASSUME ChainInv, BatchInv, NEW id \in DOMAIN chain, NEW index
  PROVE  partialRank(redeemersOf(id), index) = Rank(PartialInputs(chain[id]), index)
<1>1. PICK c : c = [i \in DOMAIN chain[id].inputs |-> Constructor[chain[id].inputs[i].redeemer]]
  OBVIOUS
<1>2. PICK D : D = {j \in DOMAIN chain[id].inputs : chain[id].inputs[j].redeemer # None}
  OBVIOUS
<1>3. redeemersOf(id) = {[txIndex |-> i, constructor |-> c[i]] : i \in D}
  BY <1>1, <1>2 DEF redeemersOf
<1>4. \A i \in D : c[i] = 2 <=> chain[id].inputs[i].redeemer = "TakeOrderPartial"
  BY <1>1, <1>2, RedeemersTyped, Constructors DEF Kinds
<1>5. PartialInputs(chain[id]) = {i \in D : c[i] = 2}
  BY <1>2, <1>4, ChainAssumption DEF PartialInputs
<1>6. {r.txIndex : r \in {q \in redeemersOf(id) : q.constructor = 2}} = {i \in D : c[i] = 2}
  <2>1. PICK R : R = {q \in redeemersOf(id) : q.constructor = 2}
    OBVIOUS
  <2>2. ASSUME NEW i \in D, c[i] = 2 PROVE i \in {r.txIndex : r \in R}
    <3>1. PICK e : e = [txIndex |-> i, constructor |-> c[i]]
      OBVIOUS
    <3>2. e \in R /\ e.txIndex = i
      BY <1>3, <2>1, <2>2, <3>1
    <3>3. QED
      BY <3>2
  <2>3. ASSUME NEW r \in R PROVE r.txIndex \in {i \in D : c[i] = 2}
    <3>1. r \in redeemersOf(id) /\ r.constructor = 2
      BY <2>1
    <3>2. PICK i \in D : r = [txIndex |-> i, constructor |-> c[i]]
      BY <1>3, <3>1
    <3>3. QED
      BY <3>1, <3>2
  <2>4. QED
    BY <2>1, <2>2, <2>3
<1>7. QED
  BY <1>5, <1>6 DEF partialRank

(* What is concluded from the own redeemer of an order is what happened to *)
(* it; the continuation needs the other redeemers too.                     *)
LEMMA VerdictSame ==
  ASSUME ChainInv, HistoryInv, BatchInv, NEW ref \in Orders, NEW id \in SpentBy(ref), NEW down, NEW consuming,
         ToldOf(id, consuming, down), NEW redeemers, NEW v,
         v = verdict(id, consuming, redeemers, PlaceOf(ref, id), Constructor[KindOf(ref, id)])
  PROVE  /\ v.status = classifySpend(ref).status
         /\ redeemers = redeemersOf(id) => v = classifySpend(ref)
<1> DEFINE index == PlaceOf(ref, id)
           kind == KindOf(ref, id)
           tx == chain[id]
<1>1. id \in DOMAIN chain /\ kind \in Kinds
  BY Placed
<1>2. OnChain(ref) /\ SpentBy(ref) # {} /\ (CHOOSE t \in SpentBy(ref) : TRUE) = id
  <2>1. ref \in Refs /\ ref[1] \in DOMAIN chain
    BY OrdersOfChain
  <2>2. SpentBy(ref) = {id}
    BY <2>1 DEF HistoryInv
  <2>3. QED
    BY <2>1, <2>2 DEF OnChain
<1>3. PICK rank : rank = Rank(PartialInputs(tx), index)
  OBVIOUS
<1>4. PICK child : child = IF rank < Cardinality(OrderOutputs(tx)) THEN <<id, Nth(OrderOutputs(tx), rank)>>
                           ELSE None
  OBVIOUS
<1>5. classifySpend(ref) =
        CASE kind = "CancelOrder" -> [status |-> "cancelled", tx |-> id, child |-> None]
          [] kind = "TakeOrder"   -> [status |-> "taken", tx |-> id, child |-> None]
          [] kind = "TakeOrderPartial" -> [status |-> "partially_filled", tx |-> id, child |-> child]
  <2> DEFINE t0 == CHOOSE t \in SpentBy(ref) : TRUE
             tx0 == chain[t0]
             at0 == CHOOSE i \in DOMAIN tx0.inputs : tx0.inputs[i].ref = ref
             kind0 == tx0.inputs[at0].redeemer
             rank0 == Rank(PartialInputs(tx0), at0)
             child0 == IF rank0 < Cardinality(OrderOutputs(tx0))
                       THEN <<t0, Nth(OrderOutputs(tx0), rank0)>> ELSE None
  <2>1. classifySpend(ref) =
          CASE kind0 = "CancelOrder" -> [status |-> "cancelled", tx |-> t0, child |-> None]
            [] kind0 = "TakeOrder"   -> [status |-> "taken", tx |-> t0, child |-> None]
            [] kind0 = "TakeOrderPartial" ->
                 [status |-> "partially_filled", tx |-> t0, child |-> child0]
    BY <1>2 DEF classifySpend
  <2>2. t0 = id
    BY <1>2
  <2> HIDE DEF t0
  <2>3. at0 = index
    BY <2>2 DEF PlaceOf
  <2> HIDE DEF at0
  <2>4. kind0 = kind /\ rank0 = rank
    BY <1>3, <2>2, <2>3 DEF KindOf
  <2> HIDE DEF kind0, rank0
  <2>5. child0 = child
    BY <1>4, <2>2, <2>4
  <2> HIDE DEF child0, kind
  <2>6. QED
    BY <2>1, <2>2, <2>4, <2>5
<1>6. {i \in DOMAIN consuming.outputs : consuming.outputs[i].beacon} = OrderOutputs(tx)
  BY <1>1 DEF ToldOf, OrderOutputs
<1>7. PICK told : told = partialRank(redeemers, index)
  OBVIOUS
<1>8. PICK next : next = IF told < Cardinality(OrderOutputs(tx)) THEN <<id, Nth(OrderOutputs(tx), told)>>
                         ELSE None
  OBVIOUS
<1>9. PICK k : k = Constructor[kind]
  OBVIOUS
<1>10. v = CASE k = 0 -> [status |-> "cancelled", tx |-> id, child |-> None]
             [] k = 1 -> [status |-> "taken", tx |-> id, child |-> None]
             [] k = 2 -> [status |-> "partially_filled", tx |-> id, child |-> next]
  BY <1>6, <1>7, <1>8, <1>9 DEF verdict
<1>11. redeemers = redeemersOf(id) => next = child
  BY <1>1, <1>3, <1>4, <1>7, <1>8, RanksTold
<1> HIDE DEF kind, tx, index
<1>12. CASE kind = "CancelOrder"
  <2>1. k = 0
    BY <1>9, <1>12, Constructors
  <2>2. QED
    BY <1>5, <1>10, <1>12, <2>1
<1>13. CASE kind = "TakeOrder"
  <2>1. k = 1
    BY <1>9, <1>13, Constructors
  <2>2. QED
    BY <1>5, <1>10, <1>13, <2>1
<1>14. CASE kind = "TakeOrderPartial"
  <2>1. k = 2
    BY <1>9, <1>14, Constructors
  <2>2. v = [status |-> "partially_filled", tx |-> id, child |-> next]
    BY <1>10, <2>1
  <2>3. classifySpend(ref) = [status |-> "partially_filled", tx |-> id, child |-> child]
    BY <1>5, <1>14
  <2>4. QED
    BY <1>11, <2>2, <2>3
<1>15. QED
  BY <1>1, <1>12, <1>13, <1>14 DEF Kinds

LEMMA UnknownParts ==
  \A id : Unknown(id).status = "unknown" /\ Unknown(id).child = None
BY DEF Unknown

(* Classification over the calls of a provider, endpoint by endpoint.      *)
LEMMA ClassifiedTrue ==
  ASSUME ChainInv, HistoryInv, BatchInv, NEW provider \in Providers, NEW ref \in Orders,
         NEW down, NEW skipped, NEW told, told = classifyVia(provider, ref, down, skipped)
  PROVE  /\ told.status \in {classifySpend(ref).status, "unknown"}
         /\ skipped = {} => told.child \in {classifySpend(ref).child, None}
         /\ down = {} /\ skipped = {} => told = classifySpend(ref)
<1>1. /\ ref = <<ref[1], ref[2]>> /\ ref[1] \in DOMAIN chain
      /\ ref[2] \in OrderOutputs(chain[ref[1]])
  BY OrderOnChain
<1>2. PICK created : created = getTxUtxos(provider, ref[1], down)
  OBVIOUS
<1>3. /\ created = Thrown \/ ToldOf(ref[1], created, down)
      /\ down = {} => ToldOf(ref[1], created, down)
  BY <1>1, <1>2, UtxosTold
<1>4. PICK id : id = created.outputs[ref[2]].consumedByTx
  OBVIOUS
<1>5. PICK consuming : consuming = getTxUtxos(provider, id, down)
  OBVIOUS
<1>6. PICK redeemers : redeemers = getSpendRedeemers(provider, id, down, skipped)
  OBVIOUS
<1>7. PICK index : index = CHOOSE i \in DOMAIN consuming.inputs : consuming.inputs[i] = ref
  OBVIOUS
<1>8. PICK entries : entries = entriesOf(redeemers, index)
  OBVIOUS
<1>9. told = IF created \in {Thrown, None} \/ id = None THEN Unknown(None)
             ELSE IF consuming = Thrown \/ redeemers = Thrown THEN Unknown(None)
             ELSE IF consuming = None \/ entries = {} THEN Unknown(id)
             ELSE verdict(id, consuming, redeemers, index, (CHOOSE r \in entries : TRUE).constructor)
  <2> DEFINE c == getTxUtxos(provider, ref[1], down)
             d == c.outputs[ref[2]].consumedByTx
             n == getTxUtxos(provider, d, down)
             j == CHOOSE i \in DOMAIN n.inputs : n.inputs[i] = ref
             r0 == getSpendRedeemers(provider, d, down, skipped)
             e == entriesOf(r0, j)
  <2>1. told = IF c \in {Thrown, None} \/ d = None THEN Unknown(None)
               ELSE IF n = Thrown \/ r0 = Thrown THEN Unknown(None)
               ELSE IF n = None \/ e = {} THEN Unknown(d)
               ELSE verdict(d, n, r0, j, (CHOOSE r \in e : TRUE).constructor)
    BY Zenon DEF classifyVia
  <2>2. c = created /\ d = id
    BY <1>2, <1>4
  <2> HIDE DEF c, d
  <2>3. n = consuming /\ r0 = redeemers
    BY <1>5, <1>6, <2>2
  <2> HIDE DEF n, r0
  <2>4. j = index
    BY <1>7, <2>3
  <2> HIDE DEF j
  <2>5. e = entries
    BY <1>8, <2>3, <2>4
  <2> HIDE DEF e
  <2>6. QED
    BY <2>1, <2>2, <2>3, <2>4, <2>5, Zenon
<1>10. CASE created = Thrown
  <2>1. told = Unknown(None)
    BY <1>9, <1>10
  <2>2. down # {}
    BY <1>3, <1>10 DEF ToldOf
  <2>3. QED
    BY <2>1, <2>2, UnknownParts
<1>11. CASE created # Thrown
  <2>1. ToldOf(ref[1], created, down)
    BY <1>3, <1>11
  <2>2. id \in {consumedBy(ref), None} /\ (down = {} => id = consumedBy(ref)) /\ created # None
    BY <1>1, <1>4, <2>1 DEF ToldOf
  <2>3. CASE id = None
    <3>1. told = Unknown(None)
      BY <1>9, <2>3
    <3>2. down = {} => SpentBy(ref) = {}
      BY <2>2, <2>3, SpenderFound
    <3>3. down = {} => classifySpend(ref) = Unknown(None)
      BY <3>2 DEF classifySpend
    <3>4. QED
      BY <3>1, <3>3, UnknownParts
  <2>4. CASE id # None
    <3>1. id = consumedBy(ref) /\ SpentBy(ref) # {}
      BY <2>2, <2>4, SpenderFound
    <3>2. id \in SpentBy(ref) /\ id \in DOMAIN chain
      BY <3>1 DEF consumedBy, SpentBy
    <3>3. /\ consuming = Thrown \/ ToldOf(id, consuming, down)
          /\ down = {} => ToldOf(id, consuming, down)
      BY <1>5, <3>2, UtxosTold
    <3>4. PICK R : R = {r \in redeemersOf(id) : r.txIndex \notin skipped}
      OBVIOUS
    <3>5. /\ redeemers = Thrown \/ redeemers = {} \/ redeemers = R
          /\ down = {} => redeemers = R
          /\ R # Thrown
      BY <1>6, <3>2, <3>4, RedeemersTold
    <3>6. CASE consuming = Thrown \/ redeemers = Thrown
      <4>1. told = Unknown(None)
        BY <1>9, <1>11, <2>2, <2>4, <3>6
      <4>2. down # {}
        BY <3>3, <3>5, <3>6 DEF ToldOf
      <4>3. QED
        BY <4>1, <4>2, UnknownParts
    <3>7. CASE consuming # Thrown /\ redeemers # Thrown
      <4>1. ToldOf(id, consuming, down)
        BY <3>3, <3>7
      <4>2. consuming # None /\ consuming.inputs = inputsOf(id)
        BY <4>1 DEF ToldOf
      <4>3. index = PlaceOf(ref, id)
        <5>1. DOMAIN inputsOf(id) = DOMAIN chain[id].inputs
              /\ \A i \in DOMAIN chain[id].inputs : inputsOf(id)[i] = chain[id].inputs[i].ref
          BY DEF inputsOf
        <5>2. QED
          BY <1>7, <4>2, <5>1 DEF PlaceOf
      <4>4. told = IF entries = {} THEN Unknown(id)
                   ELSE verdict(id, consuming, redeemers, index, (CHOOSE r \in entries : TRUE).constructor)
        BY <1>9, <1>11, <2>2, <2>4, <3>7, <4>2
      <4>5. entriesOf(R, index) =
              IF index \in skipped THEN {}
              ELSE {[txIndex |-> index, constructor |-> Constructor[KindOf(ref, id)]]}
        BY <3>2, <3>4, <4>3, EntryFound
      <4>6. CASE entries = {}
        <5>1. told = Unknown(id)
          BY <4>4, <4>6
        <5>2. ~(down = {} /\ skipped = {})
          BY <1>8, <3>5, <4>5, <4>6
        <5>3. QED
          BY <5>1, <5>2, UnknownParts
      <4>7. CASE entries # {}
        <5>1. redeemers = R
          <6>1. entriesOf({}, index) = {}
            BY DEF entriesOf
          <6>2. QED
            BY <1>8, <3>5, <3>7, <4>7, <6>1
        <5>2. (CHOOSE r \in entries : TRUE).constructor = Constructor[KindOf(ref, id)]
          <6>1. PICK e : e = [txIndex |-> index, constructor |-> Constructor[KindOf(ref, id)]]
            OBVIOUS
          <6>2. entries = {e}
            BY <1>8, <4>5, <4>7, <5>1, <6>1
          <6>3. QED
            BY <6>1, <6>2
        <5>3. told = verdict(id, consuming, redeemers, PlaceOf(ref, id), Constructor[KindOf(ref, id)])
          BY <4>3, <4>4, <4>7, <5>2
        <5>4. /\ told.status = classifySpend(ref).status
              /\ redeemers = redeemersOf(id) => told = classifySpend(ref)
          BY <3>2, <4>1, <5>3, VerdictSame
        <5>5. skipped = {} => redeemers = redeemersOf(id)
          BY <3>4, <5>1
        <5>6. QED
          BY <5>4, <5>5
      <4>8. QED
        BY <4>6, <4>7
    <3>8. QED
      BY <3>6, <3>7
  <2>5. QED
    BY <2>3, <2>4
<1>12. QED
  BY <1>10, <1>11

(* Whatever endpoints fail and whatever redeemers are lacking, an order is *)
(* told to be spent as it was, or unknown; and a fill whose redeemers are  *)
(* all told is linked to its own continuation or to none.  For any chain   *)
(* and batch, with either provider.                                        *)
THEOREM NeverMisclassifies == Spec => []NeverMisclassified
<1>1. ChainInv /\ HistoryInv /\ BatchInv => NeverMisclassified
  BY ClassifiedTrue DEF NeverMisclassified
<1>2. QED
  BY <1>1, HistoryInvariant, PTL

LEMMA ConfirmationsTold ==
  ASSUME ChainInv, NEW provider \in Providers, NEW ref \in Orders, NEW tip \in Nat
  PROVE  getTxConfirmations(provider, ref[1], tip, {}) >= Confirmations <=> ConfirmedAt(tip, ref)
<1>1. PICK h : h = chain[ref[1]].height
  OBVIOUS
<1>2. ref[1] \in DOMAIN chain /\ h \in Nat /\ Confirmations \in Nat
  BY <1>1, OrderOnChain, ChainTyped, IndexerAssumption
<1>3. getTxConfirmations(provider, ref[1], tip, {}) = Max({0, tip - h + 1})
  BY <1>1, <1>2 DEF getTxConfirmations
<1>4. Max({0, tip - h + 1}) = IF tip - h + 1 >= 0 THEN tip - h + 1 ELSE 0
  BY <1>2 DEF Max
<1>5. ConfirmedAt(tip, ref) <=> Confirmations = 0 \/ tip - h + 1 >= Confirmations
  BY <1>1, <1>2 DEF ConfirmedAt, OnChain
<1>6. QED
  BY <1>2, <1>3, <1>4, <1>5

(* Both providers tell what the indexer is modelled against, of any chain: *)
(* how orders were spent, which there are, which are live, and whether     *)
(* they are confirmed.                                                     *)
THEOREM ProvidersAlwaysAgree == Spec => []ProvidersAgree
<1>1. ASSUME ChainInv, HistoryInv, BatchInv PROVE ProvidersAgree
  <2> SUFFICES ASSUME NEW provider \in Providers, NEW ref \in Orders
      PROVE
      /\ classifyVia(provider, ref, {}, {}) = classifySpend(ref)
      /\ getOutput(provider, ref, TRUE, {}) = (IF ref \in Unspent THEN ref ELSE None)
      /\ getOutput(provider, ref, FALSE, {}) = ref
      /\ ref \in Unspent <=>
           \E owner \in getAssetAddresses({}) : ref \in getUtxosByAddress(owner, {})
      /\ \A tip \in 0..getTip({}) :
           getTxConfirmations(provider, ref[1], tip, {}) >= Confirmations <=> ConfirmedAt(tip, ref)
    BY <1>1 DEF ProvidersAgree
  <2>1. classifyVia(provider, ref, {}, {}) = classifySpend(ref)
    BY <1>1, ClassifiedTrue
  <2>2. consumedBy(ref) = None <=> SpentBy(ref) = {}
    BY <1>1, SpenderFound
  <2>3. ref \in Unspent <=> SpentBy(ref) = {}
    BY DEF Unspent
  <2>4. getOutput(provider, ref, TRUE, {}) = (IF ref \in Unspent THEN ref ELSE None)
    BY <2>2, <2>3 DEF getOutput, blockfrostOutput, koiosOutput, isSpent
  <2>5. getOutput(provider, ref, FALSE, {}) = ref
    BY DEF getOutput, blockfrostOutput, koiosOutput
  <2>6. ref \in Unspent <=>
          \E owner \in getAssetAddresses({}) : ref \in getUtxosByAddress(owner, {})
    BY DEF getAssetAddresses, getUtxosByAddress
  <2>7. \A tip \in 0..getTip({}) : tip \in Nat
    BY <1>1 DEF getTip, ChainInv
  <2>8. QED
    BY <1>1, <2>1, <2>4, <2>5, <2>6, <2>7, ConfirmationsTold
<1>2. QED
  BY <1>1, HistoryInvariant, PTL
===============================================================================
