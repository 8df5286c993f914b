----------------------------- MODULE OrderLedger -----------------------------
(***************************************************************************)
(* The order book as the chain keeps it: the set of UTxOs that carry       *)
(* beacons, changed only by transactions that the ledger and the two       *)
(* scripts accept.  Who builds a transaction does not matter here: Offered *)
(* is the set of transactions tried in a given state, and the properties   *)
(* are about those that are accepted.                                      *)
(*                                                                         *)
(* Of the UTxO set only the outputs that carry beacons are kept, for these *)
(* are what discovery calls orders.  The other outputs at the validator's  *)
(* address are the imitations: anyone may make any, at any time, so a      *)
(* transaction brings with it those it spends.                             *)
(*                                                                         *)
(* The scripts keep the beacons to the orders with one exception.  An      *)
(* imitation that is taken in part counts as one of the partial takes that *)
(* leave an output with beacons (partial_take_refs looks at no policy), so *)
(* beside it the beacons of an order that is taken in full need not be     *)
(* burned, and no rule says of the output they go to what it must be.  The *)
(* history mixed tells that such a transaction was accepted; what is then  *)
(* no longer true is stated for the chains without one, what holds all the *)
(* same is stated for all.                                                 *)
(***************************************************************************)
EXTENDS OrderRules, FiniteSetsExt

CONSTANTS
  TxIds,        (* transaction ids; their order is the ledger's order on    *)
                (* hashes, unrelated to the order of submission             *)
  MaxClock,     (* bound on ledger time                                     *)
  Offered(_)    (* the transactions tried when the UTxO set is the argument *)

ASSUME TxIdsAssumption == TxIds \subseteq Nat

VARIABLES
  utxo,         (* output reference -> beacon-bearing output                *)
  clock,        (* ledger time                                              *)
  txids,        (* ids of the transactions accepted so far                  *)
  lineage,      (* history: what the order at a reference was placed as     *)
  closed,       (* history: how each consumed order was consumed, and when  *)
  credit,       (* history: units of the ask paid under the tag of an order,*)
                (* over all the fills of its lineage                        *)
  surplus,      (* history: what each key was paid, less what it was owed   *)
  mixed         (* history: an imitation was taken in part beside an order  *)
                (* taken in full                                            *)

vars == <<utxo, clock, txids, lineage, closed, credit, surplus, mixed>>

----------------------------------------------------------------------------
(***************************************************************************)
(* The ledger's own rules.                                                 *)
(***************************************************************************)

(* The tokens of beacon name u, told apart by where they lie.              *)
TokensIn(tx, u) ==
  UNION {{r} \X (1..utxo[r].value[u]) : r \in OrderInputs(tx)}
TokensOut(tx, u) ==
  UNION {{i} \X (1..tx.outputs[i].value[u]) : i \in DOMAIN tx.outputs}

BeaconsConserved(tx) ==
  \A u \in BeaconNames :
    Cardinality(TokensOut(tx, u)) = Cardinality(TokensIn(tx, u)) + tx.mint[u]

Minting(tx) == \E u \in BeaconNames : tx.mint[u] # 0

(* An input at the order validator runs it; one at a key needs that key.   *)
AtScript(U, r, tx) == r \in ScriptInputs(tx) /\ spend(U, r, tx)

InputAuthorised(r, tx) ==
  IF r \in DOMAIN tx.imitations THEN AtScript(tx.imitations, r, tx)
  ELSE IF utxo[r].address.payment = Script THEN AtScript(utxo, r, tx)
  ELSE r \notin ScriptInputs(tx) /\ utxo[r].address.payment \in tx.extra_signatories

Accepted(tx) ==
  /\ OrderInputs(tx) \subseteq DOMAIN utxo
  /\ DOMAIN tx.imitations \cap (DOMAIN utxo \cup DOMAIN closed) = {}
  /\ tx.upper_bound # None => clock < tx.upper_bound
  /\ BeaconsConserved(tx)
  /\ Minting(tx) => mint(tx)
  /\ \A r \in Inputs(tx) : InputAuthorised(r, tx)

Mixed(tx) ==
  /\ \E r \in DOMAIN tx.imitations : tx.spends[r].kind = "TakeOrderPartial"
  /\ \E r \in OrderInputs(tx) : tx.spends[r].kind = "TakeOrder"

----------------------------------------------------------------------------
(***************************************************************************)
(* History.  A continuation inherits the lineage of the order it continues *)
(* and counts one more fill; any other new order starts a lineage.         *)
(***************************************************************************)
NewRefs(tx, id) == {<<id, i>> : i \in beacon_bearing_outputs(tx, BeaconPolicy)}

Parents(tx, i) ==
  {r \in OrderInputs(tx) \cap partial_take_refs(tx) :
     InputRank(tx, r) = OutputRank(tx, BeaconPolicy, i)}

Placed(ref, o) ==
  [ root    |-> ref,
    offer   |-> IF WellFormedOrder(o) THEN o.datum.offer_amount ELSE 0,
    ask     |-> IF WellFormedOrder(o) THEN o.datum.ask_amount ELSE 0,
    deposit |-> IF WellFormedOrder(o) THEN deposit(o.datum, o.value) ELSE 0,
    fills   |-> 0 ]

LineageOf(tx, ref) ==
  LET parents == Parents(tx, ref[2]) IN
  IF parents = {}
  THEN Placed(ref, tx.outputs[ref[2]])
  ELSE LET parent == lineage[CHOOSE r \in parents : TRUE] IN
       [parent EXCEPT !.fills = @ + 1]

TakeKinds == {"TakeOrder", "TakeOrderPartial"}

(* What the seller of the order at r is due, in asset a, when r is spent   *)
(* without the owner's signature.                                          *)
Due(tx, r, a) ==
  LET d       == utxo[r].datum
      partial == tx.spends[r].kind = "TakeOrderPartial"
      price   == IF partial
                 THEN required_payment(tx.spends[r].take_amount, d.ask_amount, d.offer_amount)
                 ELSE d.ask_amount
  IN  (IF a = d.ask THEN price ELSE 0)
        + (IF a = ADA /\ ~partial THEN deposit(d, utxo[r].value) ELSE 0)

(* The ask units in the output that carries the payment tag of r, if any.  *)
PaidFor(tx, r) ==
  LET tagged == {i \in DOMAIN tx.outputs : tx.outputs[i].datum = PaymentTag(r)} IN
  IF tagged = {} \/ utxo[r].datum \notin OrderDatums
  THEN 0
  ELSE tx.outputs[CHOOSE i \in tagged : TRUE].value[utxo[r].datum.ask]

(* credit after tx: the lineages of the orders it takes are credited, the  *)
(* lineages it starts have none yet.                                       *)
Credited(tx, id) ==
  LET taken(root) == {r \in OrderInputs(tx) :
                        tx.spends[r].kind \in TakeKinds /\ lineage[r].root = root}
      fresh       == {LineageOf(tx, r).root : r \in NewRefs(tx, id)}
  IN  [root \in DOMAIN credit \cup fresh |->
         IF root \notin DOMAIN credit THEN 0
         ELSE IF taken(root) = {} THEN credit[root]
         ELSE credit[root] + PaidFor(tx, CHOOSE r \in taken(root) : TRUE)]

Paid(tx, k, a) ==
  LET paying == {i \in DOMAIN tx.outputs : tx.outputs[i].address.payment = k}
  IN  SumFunction([i \in paying |-> tx.outputs[i].value[a]])

Owed(tx, k, a) ==
  LET taken == {r \in OrderInputs(tx) :
                  /\ WellFormedOrder(utxo[r])
                  /\ utxo[r].datum.owner \notin tx.extra_signatories
                  /\ utxo[r].datum.payment_address.payment = k}
  IN  SumFunction([r \in taken |-> Due(tx, r, a)])

----------------------------------------------------------------------------
Init ==
  /\ utxo = << >>
  /\ clock = 0
  /\ txids = {}
  /\ lineage = << >>
  /\ closed = << >>
  /\ credit = << >>
  /\ surplus = [k \in Keys |-> [a \in Assets |-> 0]]
  /\ mixed = FALSE

(***************************************************************************)
(* The acceptable transaction tx enters the chain under the fresh id id.   *)
(***************************************************************************)
Submit(tx, id) ==
  LET kept == DOMAIN utxo \ OrderInputs(tx)
      new  == NewRefs(tx, id)
  IN
  /\ txids' = txids \cup {id}
  /\ utxo' = [r \in kept \cup new |-> IF r \in new THEN tx.outputs[r[2]] ELSE utxo[r]]
  /\ lineage' = [r \in kept \cup new |-> IF r \in new THEN LineageOf(tx, r) ELSE lineage[r]]
  /\ closed' = [r \in DOMAIN closed \cup OrderInputs(tx) |->
                  IF r \in OrderInputs(tx)
                  THEN [kind |-> tx.spends[r].kind, at |-> clock, datum |-> utxo[r].datum]
                  ELSE closed[r]]
  /\ credit' = Credited(tx, id)
  /\ surplus' = [k \in Keys |-> [a \in Assets |->
                   surplus[k][a] + Paid(tx, k, a) - Owed(tx, k, a)]]
  /\ mixed' = (mixed \/ Mixed(tx))
  /\ UNCHANGED clock

Tick ==
  /\ clock < MaxClock
  /\ clock' = clock + 1
  /\ UNCHANGED <<utxo, txids, lineage, closed, credit, surplus, mixed>>

Next ==
  \/ Tick
  \/ LET acceptable == {tx \in Offered(utxo) : TypedTransaction(tx) /\ Accepted(tx)}
     IN  \E id \in TxIds \ txids : \E tx \in acceptable : Submit(tx, id)

Spec == Init /\ [][Next]_vars

----------------------------------------------------------------------------
(***************************************************************************)
(* Properties.                                                             *)
(***************************************************************************)

(* Type invariant: the UTxO set maps references of accepted transactions   *)
(* to outputs, and the histories have the shape their names say.           *)
Lineages == [root : Refs, offer : Nat, ask : Nat, deposit : Nat, fills : Nat]

TypeOK ==
  /\ DOMAIN utxo \subseteq txids \X Nat
  /\ \A r \in DOMAIN utxo : utxo[r] \in Outputs
  /\ clock \in Nat
  /\ txids \subseteq TxIds
  /\ DOMAIN lineage = DOMAIN utxo
  /\ \A r \in DOMAIN utxo : lineage[r] \in Lineages
  /\ DOMAIN closed \subseteq txids \X Nat
  /\ DOMAIN credit \subseteq txids \X Nat
  /\ \A r \in DOMAIN utxo : lineage[r].root \in DOMAIN credit
  /\ \A root \in DOMAIN credit : credit[root] \in Nat
  /\ DOMAIN surplus = Keys /\ \A k \in Keys : DOMAIN surplus[k] = Assets
  /\ mixed \in BOOLEAN

(* The trust chain of the protocol, as the contracts claim it: an output   *)
(* that carries even one beacon is a well-formed order at its owner's      *)
(* order address, with exactly the five beacons of its datum.  The         *)
(* spending rules rely on this when they trust the datum, discovery when   *)
(* it trusts the beacons.                                                  *)
BeaconsNeverLeak == \A r \in DOMAIN utxo : WellFormedOrder(utxo[r])

(* The claim holds until an imitation is taken in part beside an order     *)
(* taken in full.  Nothing else breaks it: no imitation by itself, none in *)
(* a transaction with partial takes only, or with cancels.                 *)
BeaconsMarkOrders == ~mixed => BeaconsNeverLeak

(* No double satisfaction: over all transactions, mixed or not, each key   *)
(* has received in every asset at least what the orders that pay to it     *)
(* were owed when they were spent without their owner's signature - ask    *)
(* and deposit for a full take, the rounded price for a partial one,       *)
(* however they were batched.                                              *)
SellersPaid == \A k \in Keys, a \in Assets : surplus[k][a] >= 0

Orders == {r \in DOMAIN utxo : WellFormedOrder(utxo[r])}

(* The price of what remains of an order is never below the price it was   *)
(* placed at: remaining ask / remaining offer <= placed ask / placed offer *)
(* says that the fills so far paid at least pro rata.                      *)
FillsPaidProRata ==
  ~mixed => \A r \in Orders :
    utxo[r].datum.ask_amount * lineage[r].offer <= lineage[r].ask * utxo[r].datum.offer_amount

(* Rounding costs the takers less than one unit of the ask per fill, over  *)
(* the whole life of an order.                                             *)
RoundingBounded ==
  ~mixed => \A r \in Orders :
    LET sold == lineage[r].offer - utxo[r].datum.offer_amount
        paid == lineage[r].ask - utxo[r].datum.ask_amount
    IN  paid * lineage[r].offer <= sold * lineage[r].ask + lineage[r].fills * (lineage[r].offer - 1)

(* A partial fill leaves the deposit in the continuation, to the lovelace. *)
DepositRetained ==
  ~mixed => \A r \in Orders :
    deposit(utxo[r].datum, utxo[r].value) = lineage[r].deposit

(* No order is taken, in whole or in part, at its expiration or later.     *)
NoLateTake ==
  \A r \in DOMAIN closed :
    closed[r].kind \in TakeKinds /\ closed[r].datum.expiration # None
      => closed[r].at < closed[r].datum.expiration

(* The cancel transaction of the order at r.                               *)
CancelTx(r) ==
  [ spends            |-> [q \in {r} |-> [kind |-> "CancelOrder", take_amount |-> 0]],
    imitations        |-> << >>,
    outputs           |-> << >>,
    mint              |-> [u \in BeaconNames |->
                             IF u \in beacon_set(utxo[r].datum) THEN -1 ELSE 0],
    mint_redeemer     |-> "BurnBeacons",
    upper_bound       |-> None,
    extra_signatories |-> {utxo[r].datum.owner} ]

(* Whatever fills an order went through, its owner can take back what is   *)
(* left of it: the cancel transaction is accepted, expired or not, mixed   *)
(* chain or not.                                                           *)
Reclaimable == \A r \in Orders : Accepted(CancelTx(r))

(* The transaction that takes the orders of the sequence s in full, each   *)
(* with its own tagged payment of ask and deposit.                         *)
FullPayment(r) ==
  LET d    == utxo[r].datum
      paid == [a \in Assets |-> (IF a = d.ask THEN d.ask_amount ELSE 0)
                                 + (IF a = ADA THEN deposit(d, utxo[r].value) ELSE 0)]
  IN  [ address          |-> d.payment_address,
        value            |-> [u \in Units |-> IF u \in Assets THEN paid[u] ELSE 0],
        datum            |-> PaymentTag(r),
        reference_script |-> FALSE ]

TakeTx(s) ==
  LET legs == {s[i] : i \in DOMAIN s} IN
  [ spends            |-> [r \in legs |-> [kind |-> "TakeOrder", take_amount |-> 0]],
    imitations        |-> << >>,
    outputs           |-> [i \in DOMAIN s |-> FullPayment(s[i])],
    mint              |-> [u \in BeaconNames |->
                             -Cardinality({r \in legs : u \in beacon_set(utxo[r].datum)})],
    mint_redeemer     |-> "BurnBeacons",
    upper_bound       |-> clock + 1,
    extra_signatories |-> {} ]

Live(r) == utxo[r].datum.expiration = None \/ clock < utxo[r].datum.expiration

(* Any two orders that have not expired, whatever fills they went through  *)
(* and whether or not they share pair, owner or datum, can be taken in one *)
(* transaction.                                                            *)
PairsTakeable ==
  \A q, r \in Orders :
    Live(q) /\ Live(r) => Accepted(TakeTx(IF q = r THEN <<q>> ELSE <<q, r>>))

(***************************************************************************)
(* The chain implements the book of orders: an open order is a lineage,    *)
(* its terms are those of the lineage's only UTxO.                         *)
(***************************************************************************)
OpenRoots == {lineage[r].root : r \in Orders}

Terms(root) ==
  LET d == utxo[CHOOSE r \in Orders : lineage[r].root = root].datum IN
  [offer |-> d.offer_amount, ask |-> d.ask_amount, expiration |-> d.expiration]

Book == INSTANCE OrderBook WITH
          Never  <- None,
          book   <- [root \in OpenRoots |-> Terms(root)],
          credit <- credit,
          clock  <- clock

(* As long as none is mixed, every accepted transaction is a step of the   *)
(* abstract book: it places one order, withdraws one, or trades a set of   *)
(* them, each leg credited at its own price to its own identity.  (A mixed *)
(* one may also make an order that nobody placed.)                         *)
ImplementsOrderBook == Book!Init /\ [][mixed' \/ Book!Next]_(Book!vars)
=============================================================================
