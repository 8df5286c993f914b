------------------------------ MODULE ChainView ------------------------------
(***************************************************************************)
(* The chain as the backend sees it through a provider: transactions in    *)
(* blocks, each with its sorted inputs, the redeemers of its order inputs  *)
(* and its outputs.  It is the environment of the indexer.                 *)
(*                                                                         *)
(* What OrderLedger shows of the scripts is taken over: an output with     *)
(* beacons is a valid order, and the continuation of the n-th partial take *)
(* (in input order) is the n-th order output.  A block may be rolled back; *)
(* its transactions wait in the mempool and may enter a later block.       *)
(***************************************************************************)
EXTENDS Integers, Sequences, FiniteSets, SequencesExt

CONSTANTS
  TxIds,      (* transaction ids; their order is unrelated to time           *)
  Owners,     (* owners of orders; the orders of one lie at one address      *)
  Wallet,     (* output references of the wallet inputs a taker may add      *)
  MaxBatch,   (* bound on the orders one transaction spends                  *)
  MaxHeight,  (* bound on the height of the chain                            *)
  LastHeight, (* height after which no transaction enters the chain          *)
  None

ASSUME ChainAssumption ==
  /\ TxIds \subseteq Int
  /\ \A w \in Wallet : w \in Int \X Nat /\ w[1] \notin TxIds
  /\ None \notin TxIds /\ None \notin Owners /\ None \notin Int \X Nat
  /\ None \notin {"CancelOrder", "TakeOrder", "TakeOrderPartial"}
  /\ MaxBatch \in Nat \ {0} /\ MaxHeight \in Nat /\ LastHeight \in Nat

VARIABLES
  chain,      (* transaction id -> transaction                               *)
  mempool,    (* transactions of blocks that were rolled back                *)
  height      (* height of the latest block                                  *)

chainVars == <<chain, mempool, height>>

Refs == TxIds \X Nat

RefLess(p, q) == p[1] < q[1] \/ (p[1] = q[1] /\ p[2] < q[2])

(* The element of S that has n smaller ones in it.                         *)
Nth(S, n) == CHOOSE x \in S : Cardinality({y \in S : y < x}) = n
Rank(S, x) == Cardinality({y \in S : y < x})

OrderOutputs(tx)  == {i \in DOMAIN tx.outputs : tx.outputs[i].owner # None}
PartialInputs(tx) == {i \in DOMAIN tx.inputs : tx.inputs[i].redeemer = "TakeOrderPartial"}
Spends(tx, ref)   == \E i \in DOMAIN tx.inputs : tx.inputs[i].ref = ref

OnChain(ref) == ref[1] \in DOMAIN chain
Orders       == UNION {{<<id, i>> : i \in OrderOutputs(chain[id])} : id \in DOMAIN chain}
SpentBy(ref) == {id \in DOMAIN chain : Spends(chain[id], ref)}
Unspent      == {ref \in Orders : SpentBy(ref) = {}}
OwnerOf(ref) == chain[ref[1]].outputs[ref[2]].owner

(* References of outputs as the ledger sorts them.                         *)
InOrder(S) ==
  [i \in 1..Cardinality(S) |->
     CHOOSE p \in S : Cardinality({q \in S : RefLess(q, p)}) = i - 1]

Include(id, inputs, outputs) ==
  /\ height <= LastHeight
  /\ id \notin DOMAIN chain \cup DOMAIN mempool
  /\ chain' = [t \in DOMAIN chain \cup {id} |->
                 IF t = id THEN [inputs |-> inputs, outputs |-> outputs, height |-> height]
                 ELSE chain[t]]
  /\ UNCHANGED <<mempool, height>>

(* An output has an owner if it is an order.  An order is told which one   *)
(* it continues, which one the seller placed, and how many fills it is     *)
(* away from that one; none of this can be read from the chain.            *)
Payment == [owner |-> None, parent |-> None, root |-> None, fills |-> 0]

(* MintBeacons: a new order.                                               *)
Create(id, owner) ==
  Include(id, << >>, <<[owner |-> owner, parent |-> None, root |-> <<id, 1>>, fills |-> 0]>>)

Continuation(ref) ==
  LET order == chain[ref[1]].outputs[ref[2]]
  IN  [owner |-> order.owner, parent |-> ref, root |-> order.root, fills |-> order.fills + 1]

(* Those of the first n legs that are filled in part.                      *)
Filled(legs, kinds, n) == {k \in 1..n : kinds[legs[k]] = "TakeOrderPartial"}

(* The layout of the builder: the payment of a leg, then its continuation. *)
Layout(legs, kinds) ==
  LET filled        == Filled(legs, kinds, Len(legs))
      ofLeg(k, n)   == n = k + Cardinality(Filled(legs, kinds, k))
  IN  [n \in 1..(Len(legs) + Cardinality(filled)) |->
         IF \E k \in filled : ofLeg(k, n)
         THEN Continuation(legs[CHOOSE k \in filled : ofLeg(k, n)]) ELSE Payment]

(* A transaction that spends the orders in the domain of kinds, each under *)
(* its redeemer.  A wallet input may sort anywhere among the orders.       *)
Spend(id, kinds, wallet) ==
  LET refs   == InOrder(DOMAIN kinds \cup wallet)
      inputs == [i \in DOMAIN refs |->
                   [ref |-> refs[i],
                    redeemer |-> IF refs[i] \in DOMAIN kinds THEN kinds[refs[i]] ELSE None]]
  IN  Include(id, inputs, Layout(InOrder(DOMAIN kinds), kinds))

Block ==
  /\ height < MaxHeight
  /\ height' = height + 1
  /\ UNCHANGED <<chain, mempool>>

(* The latest block is replaced by an empty one.                           *)
Rollback ==
  LET undone == {id \in DOMAIN chain : chain[id].height = height} IN
  /\ undone # {}
  /\ chain' = [id \in DOMAIN chain \ undone |-> chain[id]]
  /\ mempool' = [id \in DOMAIN mempool \cup undone |->
                   IF id \in undone THEN chain[id] ELSE mempool[id]]
  /\ UNCHANGED height

(* A transaction of the mempool enters the chain, if its orders are there. *)
Reinclude(id) ==
  /\ height <= LastHeight
  /\ \A i \in DOMAIN mempool[id].inputs :
       mempool[id].inputs[i].redeemer # None => mempool[id].inputs[i].ref \in Unspent
  /\ chain' = [t \in DOMAIN chain \cup {id} |->
                 IF t = id THEN [mempool[id] EXCEPT !.height = height] ELSE chain[t]]
  /\ mempool' = [t \in DOMAIN mempool \ {id} |-> mempool[t]]
  /\ UNCHANGED height

ChainInit == chain = << >> /\ mempool = << >> /\ height = 1

ChainStep ==
  \/ Block
  \/ \E id \in TxIds, o \in Owners : Create(id, o)
  \/ \E id \in TxIds, w \in {{}} \cup {{v} : v \in Wallet}, S \in SUBSET Unspent \ {{}} :
       /\ Cardinality(S) <= MaxBatch
       /\ \E kinds \in [S -> {"TakeOrder", "TakeOrderPartial"}] : Spend(id, kinds, w)
  \/ \E id \in TxIds, r \in Unspent, w \in {{}} \cup {{v} : v \in Wallet} :
       Spend(id, [x \in {r} |-> "CancelOrder"], w)
  \/ \E id \in DOMAIN mempool : Reinclude(id)

(* Every transaction ever seen, rolled back or not.                        *)
Seen(id) == IF id \in DOMAIN chain THEN chain[id] ELSE mempool[id]
EverSeen == DOMAIN chain \cup DOMAIN mempool
=============================================================================
