------------------------------ MODULE OrderRules ------------------------------
(***************************************************************************)
(* The two on-chain scripts as predicates on a transaction: the spending   *)
(* rules of the order validator and the rules of the beacon minting policy.*)
(* A rule reads the transaction as the script does; utxo is the map from   *)
(* output references to outputs through which inputs are resolved.         *)
(*                                                                         *)
(* The field spends has a transaction's inputs that carry beacons or lie   *)
(* at the order validator, each with its redeemer: "none" at a key, where  *)
(* no script runs.  Those without beacons are the field imitations, with   *)
(* what they resolve to: nothing validates an output at the validator's    *)
(* address when it is made, so that any datum and any value may lie there. *)
(* Inputs from wallets are not represented: no rule reads them, and they   *)
(* may bring any amount of any asset but never a beacon.                   *)
(***************************************************************************)
EXTENDS Beacons, Sequences

Redeemers ==
  [ kind : {"CancelOrder", "TakeOrder", "TakeOrderPartial", "none"}, take_amount : Int ]

Imitations ==
  {o \in Outputs : o.address.payment = Script /\ ~has_tokens(o.value, BeaconPolicy)}

TypedTransaction(tx) ==
  /\ DOMAIN tx.spends \subseteq Refs
  /\ IsFiniteSet(DOMAIN tx.spends)
  /\ \A r \in DOMAIN tx.spends : tx.spends[r] \in Redeemers
  /\ DOMAIN tx.imitations \subseteq DOMAIN tx.spends
  /\ \A r \in DOMAIN tx.imitations : tx.imitations[r] \in Imitations
  /\ tx.outputs \in Seq(Outputs)
  /\ tx.mint \in [BeaconNames -> Int]
  /\ tx.mint_redeemer \in {"MintBeacons", "BurnBeacons"}
  /\ tx.upper_bound \in Nat \cup {None}
  /\ tx.extra_signatories \subseteq Keys

Inputs(tx) == DOMAIN tx.spends

ScriptInputs(tx) == {r \in Inputs(tx) : tx.spends[r].kind # "none"}

(* The inputs that carry beacons.                                          *)
OrderInputs(tx) == Inputs(tx) \ DOMAIN tx.imitations

(***************************************************************************)
(* The ledger sorts inputs by transaction id, then by output index.        *)
(***************************************************************************)
RefLess(p, q) == p[1] < q[1] \/ (p[1] = q[1] /\ p[2] < q[2])

only_one_order_input(tx) == Cardinality(ScriptInputs(tx)) = 1

no_beacons_in_outputs(tx, policy) ==
  \A i \in DOMAIN tx.outputs : ~has_tokens(tx.outputs[i].value, policy)

(* Faults: rounding down; rounding up even when the division is exact.     *)
required_payment_floor(take_amount, ask_amount, offer_amount) ==
  (take_amount * ask_amount) \div offer_amount

required_payment_above(take_amount, ask_amount, offer_amount) ==
  (take_amount * ask_amount) \div offer_amount + 1

(***************************************************************************)
(* ceil(take * ask / offer): rounding is in the seller's favour.           *)
(***************************************************************************)
required_payment(take_amount, ask_amount, offer_amount) ==
  (take_amount * ask_amount + offer_amount - 1) \div offer_amount

(***************************************************************************)
(* Rank pairing.  partial_take_refs are the inputs at the validator spent  *)
(* by a partial take, whatever policy their datums name;                   *)
(* beacon_bearing_outputs are the outputs that carry tokens of one policy. *)
(* Both are lists in the code, here sets with the position of a member as  *)
(* its rank.                                                               *)
(***************************************************************************)
partial_take_refs(tx) ==
  {r \in Inputs(tx) : tx.spends[r].kind = "TakeOrderPartial"}

beacon_bearing_outputs(tx, policy) ==
  {i \in DOMAIN tx.outputs : has_tokens(tx.outputs[i].value, policy)}

InputRank(tx, r) == Cardinality({q \in partial_take_refs(tx) : RefLess(q, r)})

OutputRank(tx, policy, i) ==
  Cardinality({j \in beacon_bearing_outputs(tx, policy) : j < i})

(* Fault: outputs with beacons are only bounded from below.                *)
beacon_accounting_at_least(tx, policy) ==
  Cardinality(beacon_bearing_outputs(tx, policy)) >= Cardinality(partial_take_refs(tx))

beacon_accounting_ok(tx, policy) ==
  Cardinality(beacon_bearing_outputs(tx, policy)) = Cardinality(partial_take_refs(tx))

(* Fault: an unbounded validity range passes.                              *)
expiration_ok_unbounded(expiration, tx) ==
  expiration # None => tx.upper_bound = None \/ tx.upper_bound <= expiration

expiration_ok(expiration, tx) ==
  expiration # None => tx.upper_bound # None /\ tx.upper_bound <= expiration

(* Fault: any tagged output will do.                                       *)
tagged_payment_any(tx, r) ==
  {i \in DOMAIN tx.outputs : tx.outputs[i].datum \in PaymentTags}

(***************************************************************************)
(* The outputs that carry the payment tag of order input r.                *)
(***************************************************************************)
tagged_payment(tx, r) ==
  {i \in DOMAIN tx.outputs : tx.outputs[i].datum = PaymentTag(r)}

(***************************************************************************)
(* A payment of exactly amount of asset ask, with at least min_lovelace    *)
(* beside it, and nothing else.                                            *)
(***************************************************************************)
payment_value_ok(value, ask, amount, min_lovelace) ==
  IF is_ada(ask)
  THEN /\ value[ADA] >= amount + min_lovelace
       /\ \A u \in Units \ {ADA} : value[u] = 0
  ELSE /\ value[ADA] >= min_lovelace
       /\ \A u \in Units \ {ADA} : value[u] = (IF u = ask THEN amount ELSE 0)

(* Fault: the expiration binds the owner too.                              *)
cancel_ok_unexpired(utxo, r, tx) ==
  LET datum == utxo[r].datum IN
  /\ datum.owner \in tx.extra_signatories
  /\ only_one_order_input(tx)
  /\ no_beacons_in_outputs(tx, datum.beacon_policy_id)
  /\ expiration_ok(datum.expiration, tx)

cancel_ok(utxo, r, tx) ==
  LET datum == utxo[r].datum IN
  /\ datum.owner \in Keys
  /\ datum.owner \in tx.extra_signatories
  /\ only_one_order_input(tx)
  /\ no_beacons_in_outputs(tx, datum.beacon_policy_id)

take_ok(utxo, r, tx) ==
  LET datum == utxo[r].datum IN
  \E p \in DOMAIN tx.outputs :
    /\ tagged_payment(tx, r) = {p}
    /\ datum.version = 1
    /\ tx.outputs[p].address = datum.payment_address
    /\ beacon_accounting_ok(tx, datum.beacon_policy_id)
    /\ payment_value_ok(tx.outputs[p].value, datum.ask, datum.ask_amount,
                        deposit(datum, utxo[r].value))
    /\ expiration_ok(datum.expiration, tx)

(* Faults: the ask is not reduced; the deposit shrinks with every fill.    *)
continuation_datum_full_ask(datum, take_amount) ==
  [datum EXCEPT !.offer_amount = @ - take_amount]

continuation_value_shrinking(datum, value, take_amount) ==
  [value EXCEPT ![datum.offer] = @ - take_amount, ![ADA] = @ - 1]

(***************************************************************************)
(* What a partial take of take_amount leaves of an order: the datum with   *)
(* both amounts reduced, the value with the taken offer removed.           *)
(***************************************************************************)
continuation_datum(datum, take_amount) ==
  [datum EXCEPT
     !.offer_amount = @ - take_amount,
     !.ask_amount   = @ - required_payment(take_amount, datum.ask_amount, datum.offer_amount)]

continuation_value(datum, value, take_amount) ==
  [value EXCEPT ![datum.offer] = @ - take_amount]

take_partial_ok(utxo, r, tx) ==
  LET datum       == utxo[r].datum
      policy      == datum.beacon_policy_id
      take_amount == tx.spends[r].take_amount
      required    == required_payment(take_amount, datum.ask_amount, datum.offer_amount)
  IN
  /\ datum.version = 1
  /\ datum.allow_partial_fill
  /\ take_amount > 0
  /\ take_amount < datum.offer_amount
  /\ required < datum.ask_amount
  /\ \E p \in DOMAIN tx.outputs :
       /\ tagged_payment(tx, r) = {p}
       /\ tx.outputs[p].address = datum.payment_address
       /\ payment_value_ok(tx.outputs[p].value, datum.ask, required, 0)
  /\ beacon_accounting_ok(tx, policy)
  /\ \E c \in beacon_bearing_outputs(tx, policy) :
       /\ OutputRank(tx, policy, c) = InputRank(tx, r)
       /\ tx.outputs[c].address = utxo[r].address
       /\ tx.outputs[c].value = continuation_value(datum, utxo[r].value, take_amount)
       /\ tx.outputs[c].datum = continuation_datum(datum, take_amount)
       /\ ~tx.outputs[c].reference_script
  /\ expiration_ok(datum.expiration, tx)

(***************************************************************************)
(* The order validator, run for the input r of it, resolved by utxo.       *)
(***************************************************************************)
spend(utxo, r, tx) ==
  /\ utxo[r].datum \in OrderDatums
  /\ CASE tx.spends[r].kind = "CancelOrder"      -> cancel_ok(utxo, r, tx)
       [] tx.spends[r].kind = "TakeOrder"        -> take_ok(utxo, r, tx)
       [] tx.spends[r].kind = "TakeOrderPartial" -> take_partial_ok(utxo, r, tx)

(* Fault: the lovelace of an ADA offer is not looked at.                   *)
offer_uncovered(o) == TRUE

(* With an ADA offer the lovelace covers at least the offered amount.      *)
offer_covered(o) == is_ada(o.datum.offer) => o.value[ADA] >= o.datum.offer_amount

(***************************************************************************)
(* What the minting policy demands of the output o that receives the five  *)
(* beacons: the place, the datum and the value of a well-formed order.     *)
(***************************************************************************)
WellFormedOrder(o) ==
  LET datum == o.datum IN
  /\ datum \in OrderDatums
  /\ datum.owner \in Keys
  /\ o.address = [payment |-> Script, stake |-> datum.owner]
  /\ datum.version = 1
  /\ datum.beacon_policy_id = BeaconPolicy
  /\ datum.payment_address.payment \in Keys
  /\ datum.offer # datum.ask
  /\ datum.offer_amount > 0
  /\ datum.ask_amount > 0
  /\ datum.offer \notin BeaconNames
  /\ datum.ask \notin BeaconNames
  /\ offer_covered(o)
  /\ o.value = expected_value(datum, o.value[ADA])

(* Fault: one good order is enough, and more beacons may be minted.        *)
mint_beacons_at_least(tx) ==
  \E i \in DOMAIN tx.outputs :
    /\ WellFormedOrder(tx.outputs[i])
    /\ \A u \in beacon_set(tx.outputs[i].datum) : tx.mint[u] >= 1

mint_beacons_ok(tx) ==
  \E i \in DOMAIN tx.outputs :
    /\ beacon_bearing_outputs(tx, BeaconPolicy) = {i}
    /\ WellFormedOrder(tx.outputs[i])
    /\ tx.mint = [u \in BeaconNames |->
                    IF u \in beacon_set(tx.outputs[i].datum) THEN 1 ELSE 0]

(* Fault: one token of a name at a time.                                   *)
burn_beacons_single(tx) ==
  /\ \E u \in BeaconNames : tx.mint[u] # 0
  /\ \A u \in BeaconNames : tx.mint[u] # 0 => tx.mint[u] = -1

burn_beacons_ok(tx) ==
  /\ \E u \in BeaconNames : tx.mint[u] # 0
  /\ \A u \in BeaconNames : tx.mint[u] # 0 => tx.mint[u] < 0

(***************************************************************************)
(* The minting policy, run when the transaction mints or burns beacons.    *)
(***************************************************************************)
mint(tx) ==
  CASE tx.mint_redeemer = "MintBeacons" -> mint_beacons_ok(tx)
    [] tx.mint_redeemer = "BurnBeacons" -> burn_beacons_ok(tx)
=============================================================================
