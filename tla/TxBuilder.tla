------------------------------- MODULE TxBuilder -------------------------------
(***************************************************************************)
(* The backend's transaction builder (services/tx-builder.ts) against the  *)
(* ledger of OrderLedger.  A request is answered with an unsigned          *)
(* transaction and a summary; the user signs and submits it later, when    *)
(* the orders it names may be gone.  A take resolves its orders one await  *)
(* after the other and builds from what it found.                          *)
(*                                                                         *)
(* The builder keeps no state, so one request at a time stands for all:    *)
(* whatever other users do, with or without this backend, are the          *)
(* transactions of Offered.  Coin selection and change belong to the Mesh  *)
(* library: change carries no beacons and is not represented.  The clock   *)
(* counts milliseconds; a slot is SlotLength of them.                      *)
(***************************************************************************)
EXTENDS OrderLedger, SequencesExt

CONSTANTS
  DepositLovelace,        (* opts.depositLovelace                             *)
  PartialPaymentLovelace, (* PARTIAL_PAYMENT_LOVELACE                         *)
  MaxOrdersPerTx,         (* opts.maxOrdersPerTx                              *)
  SlotLength,             (* milliseconds in a slot                           *)
  MinAda,                 (* the ledger's floor for the lovelace of an output *)
  CreateRequests,         (* bodies of POST /tx/create-order                  *)
  TakeRequests(_)         (* bodies of POST /tx/take-many-orders              *)

(* What the bodies are once the routes have parsed them: amounts match        *)
(* ^[0-9]+$ and an expiration is a positive integer (tx.ts:17, 44); zero and  *)
(* an expiration in the past are left for create_ok to refuse.                *)
ASSUME RequestsAssumption ==
  \A p \in CreateRequests :
    /\ p.wallet.changeAddress \in Addresses /\ p.paymentAddress \in Addresses
    /\ p.offer \in Units /\ p.ask \in Units
    /\ p.offerAmount \in Nat /\ p.askAmount \in Nat
    /\ p.expiration \in Nat \cup {None} /\ p.allowPartialFill \in BOOLEAN

ASSUME AmountsAssumption ==
  /\ MinAda \in Nat \ {0}
  /\ DepositLovelace \in Nat /\ DepositLovelace >= MinAda
  /\ PartialPaymentLovelace \in Nat /\ PartialPaymentLovelace >= MinAda
  /\ SlotLength \in Nat \ {0}

VARIABLE job   (* the request under way: its stage, legs and answer *)

Idle == [stage |-> "idle", legs |-> << >>, next |-> 1, found |-> << >>,
         tx |-> None, summary |-> None]

----------------------------------------------------------------------------
(***************************************************************************)
(* Wallets and addresses.                                                  *)
(***************************************************************************)
spendable(wallet) == wallet.utxos \ {wallet.collateral}

(* attachCommon: a script transaction needs collateral beside its inputs.  *)
attachCommon_ok(wallet) ==
  /\ wallet.collateral # None
  /\ spendable(wallet) # {}

(* A script credential has a field of its own, which callers must look at. *)
parseAddress(a) ==
  [ pubKeyHash          |-> IF a.payment \in Keys THEN a.payment ELSE None,
    stakeCredentialHash |-> IF a.stake \in Keys THEN a.stake ELSE None ]

unixTimeToEnclosingSlot(time) == time \div SlotLength
slotStart(slot) == slot * SlotLength

----------------------------------------------------------------------------
(***************************************************************************)
(* buildCreateOrder.                                                       *)
(***************************************************************************)
create_ok(p) ==
  /\ p.offer # p.ask
  /\ p.offerAmount > 0 /\ p.askAmount > 0
  /\ p.offer \notin BeaconNames /\ p.ask \notin BeaconNames
  /\ p.expiration # None => p.expiration > clock
  /\ parseAddress(p.wallet.changeAddress).stakeCredentialHash # None
  /\ parseAddress(p.paymentAddress).pubKeyHash # None
  /\ attachCommon_ok(p.wallet)

created_datum(p) ==
  LET pay == parseAddress(p.paymentAddress) IN
  [ version            |-> 1,
    beacon_policy_id   |-> BeaconPolicy,
    owner              |-> parseAddress(p.wallet.changeAddress).stakeCredentialHash,
    payment_address    |-> [payment |-> pay.pubKeyHash, stake |-> pay.stakeCredentialHash],
    offer              |-> p.offer,
    offer_amount       |-> p.offerAmount,
    ask                |-> p.ask,
    ask_amount         |-> p.askAmount,
    expiration         |-> p.expiration,
    allow_partial_fill |-> p.allowPartialFill ]

Output(address, value, datum) ==
  [address |-> address, value |-> value, datum |-> datum, reference_script |-> FALSE]

created_output(p) ==
  LET d == created_datum(p) IN
  Output([payment |-> Script, stake |-> d.owner],
         [u \in Units |->
            (IF u = ADA THEN DepositLovelace ELSE 0)
              + (IF u = p.offer THEN p.offerAmount ELSE 0)
              + (IF u \in beacon_set(d) THEN 1 ELSE 0)],
         d)

buildCreateOrder(p) ==
  [ spends            |-> << >>,
    imitations        |-> << >>,
    outputs           |-> <<created_output(p)>>,
    mint              |-> [u \in BeaconNames |->
                             IF u \in beacon_set(created_datum(p)) THEN 1 ELSE 0],
    mint_redeemer     |-> "MintBeacons",
    upper_bound       |-> None,
    extra_signatories |-> {} ]

----------------------------------------------------------------------------
(***************************************************************************)
(* Recognising an order off-chain.                                         *)
(***************************************************************************)

(* decodeOrderDatum: key credentials only, version 1, positive amounts.    *)
decodes(d) ==
  /\ d \in OrderDatums
  /\ d.owner \in Keys
  /\ d.payment_address.payment \in Keys
  /\ d.payment_address.stake # Script
  /\ d.version = 1
  /\ d.offer_amount > 0 /\ d.ask_amount > 0

holds_beacons(o) == \A u \in beacon_set(o.datum) : o.value[u] = 1

(* resolveOrder: what the builder accepts as an order.                     *)
resolves(o) ==
  /\ decodes(o.datum)
  /\ o.datum.beacon_policy_id = BeaconPolicy
  /\ holds_beacons(o)

(* validateAndMap: what the indexer lists as an order.                     *)
validateAndMap_ok(o) ==
  /\ o.address.payment = Script
  /\ resolves(o)
  /\ o.address.stake = o.datum.owner
  /\ o.value[o.datum.offer] >= o.datum.offer_amount

----------------------------------------------------------------------------
(***************************************************************************)
(* buildCancelOrder.                                                       *)
(***************************************************************************)
buildCancelOrder(r, o) ==
  [ spends            |-> [q \in {r} |-> [kind |-> "CancelOrder", take_amount |-> 0]],
    imitations        |-> << >>,
    outputs           |-> << >>,
    mint              |-> [u \in BeaconNames |-> IF u \in beacon_set(o.datum) THEN -1 ELSE 0],
    mint_redeemer     |-> "BurnBeacons",
    upper_bound       |-> None,
    extra_signatories |-> {o.datum.owner} ]

----------------------------------------------------------------------------
(***************************************************************************)
(* buildTakeManyOrders.  A leg names an order and, for a partial fill, the *)
(* amount to take.                                                         *)
(***************************************************************************)
partial(leg) == leg.take # None

requiredPayment(take, ask, offer) == (take * ask + offer - 1) \div offer

required(leg, d) == requiredPayment(leg.take, d.ask_amount, d.offer_amount)

leg_ok(leg, o) ==
  LET d == o.datum IN
  /\ d.expiration # None => d.expiration > clock
  /\ partial(leg) => /\ d.allow_partial_fill
                     /\ leg.take > 0
                     /\ leg.take < d.offer_amount
                     /\ required(leg, d) < d.ask_amount

(* The lovelace of the payment: the deposit with a full fill, the taker's  *)
(* own for the ledger's floor with a partial one.                          *)
payment_lovelace(leg, o) ==
  LET d     == o.datum
      price == IF ~is_ada(d.ask) THEN 0
               ELSE IF partial(leg) THEN required(leg, d) ELSE d.ask_amount
  IN  IF ~partial(leg) THEN price + deposit(d, o.value)
      ELSE IF price > PartialPaymentLovelace THEN price
      ELSE PartialPaymentLovelace

payment(leg, o) ==
  LET d == o.datum IN
  Output(d.payment_address,
         [u \in Units |->
            IF u = ADA THEN payment_lovelace(leg, o)
            ELSE IF u = d.ask
                 THEN (IF partial(leg) THEN required(leg, d) ELSE d.ask_amount)
                 ELSE 0],
         PaymentTag(leg.ref))

continuation(leg, o) ==
  LET d == o.datum IN
  Output(o.address,
         [o.value EXCEPT ![d.offer] = @ - leg.take],
         [d EXCEPT !.offer_amount = @ - leg.take, !.ask_amount = @ - required(leg, d)])

(* Fault: the legs stay in the order of the request.                       *)
sorted_as_given(legs) == legs

(* CRITICAL ORDERING INVARIANT: legs in the ledger's order of inputs.      *)
sorted(legs) ==
  LET before(i) == {j \in DOMAIN legs : RefLess(legs[j].ref, legs[i].ref)} IN
  [n \in DOMAIN legs |-> legs[CHOOSE i \in DOMAIN legs : Cardinality(before(i)) = n - 1]]

leg_outputs(leg, o) ==
  IF partial(leg) THEN <<payment(leg, o), continuation(leg, o)>> ELSE <<payment(leg, o)>>

(* Names are added up over the full legs: partial ones keep their beacons. *)
mintBeacons(legs, found) ==
  [u \in BeaconNames |->
     -Cardinality({i \in DOMAIN legs :
                     ~partial(legs[i]) /\ u \in beacon_set(found[legs[i].ref].datum)})]

(* Fault: the enclosing slot is rounded up.                                *)
deadline_rounded_up(legs, found) ==
  LET times == {found[legs[i].ref].datum.expiration : i \in DOMAIN legs} \ {None} IN
  IF times = {} THEN None ELSE slotStart(unixTimeToEnclosingSlot(Min(times)) + 1)

(* invalidHereafter of the earliest expiration.                            *)
deadline(legs, found) ==
  LET times == {found[legs[i].ref].datum.expiration : i \in DOMAIN legs} \ {None} IN
  IF times = {} THEN None ELSE slotStart(unixTimeToEnclosingSlot(Min(times)))

buildTakeManyOrders(request, found) ==
  LET legs == sorted(request) IN
  [ spends            |-> [r \in {legs[i].ref : i \in DOMAIN legs} |->
                             LET i == CHOOSE j \in DOMAIN legs : legs[j].ref = r IN
                             IF partial(legs[i])
                             THEN [kind |-> "TakeOrderPartial", take_amount |-> legs[i].take]
                             ELSE [kind |-> "TakeOrder", take_amount |-> 0]],
    imitations        |-> << >>,
    outputs           |-> FoldLeft(LAMBDA outs, leg : outs \o leg_outputs(leg, found[leg.ref]),
                                   << >>, legs),
    mint              |-> mintBeacons(legs, found),
    mint_redeemer     |-> "BurnBeacons",
    upper_bound       |-> deadline(legs, found),
    extra_signatories |-> {} ]

(***************************************************************************)
(* What the user is shown: the totals of a batch whose legs all offer one  *)
(* asset, or all ask one, and the exact balance of the batch by asset.     *)
(***************************************************************************)
received(leg, d) == IF partial(leg) THEN leg.take ELSE d.offer_amount
paid(leg, d)     == IF partial(leg) THEN required(leg, d) ELSE d.ask_amount

total(amount) == SumFunction(amount)

(* Fault: the continuation is not deducted.                                *)
net_without_continuation(leg, o, a) == o.value[a] - payment(leg, o).value[a]

net(leg, o, a) ==
  o.value[a] - payment(leg, o).value[a]
    - (IF partial(leg) THEN continuation(leg, o).value[a] ELSE 0)

summarise(legs, found) ==
  LET datum(i) == found[legs[i].ref].datum
      in       == total([i \in DOMAIN legs |-> received(legs[i], datum(i))])
      out      == total([i \in DOMAIN legs |-> paid(legs[i], datum(i))])
  IN
  [ offered   |-> IF \A i \in DOMAIN legs : datum(i).offer = datum(1).offer
                  THEN [asset |-> datum(1).offer, amount |-> in] ELSE None,
    requested |-> IF \A i \in DOMAIN legs : datum(i).ask = datum(1).ask
                  THEN [asset |-> datum(1).ask, amount |-> out] ELSE None,
    takerNet  |-> [a \in Assets |->
                     total([i \in DOMAIN legs |-> net(legs[i], found[legs[i].ref], a)])] ]

----------------------------------------------------------------------------
(***************************************************************************)
(* The actions.                                                            *)
(***************************************************************************)
ledger == <<utxo, clock, txids, lineage, closed, credit, surplus, mixed>>

Answer(tx, summary) ==
  job' = [job EXCEPT !.stage = "built", !.tx = tx, !.summary = summary]

Refuse == job' = Idle

AskCreate(p) ==
  /\ job.stage = "idle"
  /\ create_ok(p)
  /\ Answer(buildCreateOrder(p), [paymentAddress |-> p.paymentAddress])
  /\ UNCHANGED ledger

AskCancel(r) ==
  /\ job.stage = "idle"
  /\ resolves(utxo[r])
  /\ Answer(buildCancelOrder(r, utxo[r]), None)
  /\ UNCHANGED ledger

AskTake(legs) ==
  /\ job.stage = "idle"
  /\ legs \in Seq([ref : Refs, take : Nat \cup {None}])
  /\ Len(legs) \in 1..MaxOrdersPerTx
  /\ IsInjective([i \in DOMAIN legs |-> legs[i].ref])
  /\ job' = [Idle EXCEPT !.stage = "resolving", !.legs = legs]
  /\ UNCHANGED ledger

(* One resolveOrder: the order is spent or not an order, or it is noted.   *)
Resolve ==
  LET r == job.legs[job.next].ref IN
  /\ job.stage = "resolving"
  /\ job.next <= Len(job.legs)
  /\ IF r \in DOMAIN utxo /\ resolves(utxo[r])
     THEN job' = [job EXCEPT !.next = @ + 1,
                             !.found = [q \in DOMAIN @ \cup {r} |->
                                          IF q = r THEN utxo[r] ELSE @[q]]]
     ELSE Refuse
  /\ UNCHANGED ledger

BuildTake ==
  /\ job.stage = "resolving"
  /\ job.next > Len(job.legs)
  /\ IF \A i \in DOMAIN job.legs : leg_ok(job.legs[i], job.found[job.legs[i].ref])
     THEN Answer(buildTakeManyOrders(job.legs, job.found),
                 summarise(sorted(job.legs), job.found))
     ELSE Refuse
  /\ UNCHANGED ledger

(* A provider call or coin selection fails, or the user does not sign.     *)
GiveUp ==
  /\ job.stage # "idle"
  /\ Refuse
  /\ UNCHANGED ledger

MinAdaMet(tx) == \A i \in DOMAIN tx.outputs : tx.outputs[i].value[ADA] >= MinAda

Servable(tx) == Accepted(tx) /\ MinAdaMet(tx)

SubmitBuilt(id) ==
  /\ job.stage = "built"
  /\ Servable(job.tx)
  /\ Submit(job.tx, id)
  /\ job' = Idle

(* The transaction of someone else.                                        *)
Foreign(tx, id) ==
  /\ TypedTransaction(tx)
  /\ Accepted(tx)
  /\ MinAdaMet(tx)
  /\ Submit(tx, id)
  /\ UNCHANGED job

BuilderInit == Init /\ job = Idle

BuilderNext ==
  \/ Tick /\ UNCHANGED job
  \/ \E p \in CreateRequests : AskCreate(p)
  \/ \E r \in DOMAIN utxo : AskCancel(r)
  \/ \E legs \in TakeRequests(utxo) : AskTake(legs)
  \/ Resolve \/ BuildTake \/ GiveUp
  \/ \E id \in TxIds \ txids : SubmitBuilt(id) \/ \E tx \in Offered(utxo) : Foreign(tx, id)

BuilderSpec == BuilderInit /\ [][BuilderNext]_<<ledger, job>>
----------------------------------------------------------------------------
(***************************************************************************)
(* Properties.                                                             *)
(***************************************************************************)

(* The ledger and the scripts refuse a transaction the backend built only  *)
(* because an order it names was spent or its validity interval is over -  *)
(* never for its shape: any legs in any order, full and partial, sharing   *)
(* names or sellers, whatever the ids sort like, on an unmixed chain.      *)
OnlyStaleRefused ==
  ~mixed /\ job.stage = "built"
    /\ OrderInputs(job.tx) \subseteq DOMAIN utxo
    /\ (job.tx.upper_bound # None => clock < job.tx.upper_bound)
    => Servable(job.tx)

(* What the summary quotes is what the wallet gets: its balance after the  *)
(* transaction is takerNet, and that is the totals quoted for the batch    *)
(* less the lovelace it puts into payments that return no deposit, on an   *)
(* unmixed chain.                                                          *)
Gift(leg, d) ==
  IF ~partial(leg) THEN 0
  ELSE IF ~is_ada(d.ask) THEN PartialPaymentLovelace
  ELSE IF required(leg, d) < PartialPaymentLovelace
       THEN PartialPaymentLovelace - required(leg, d) ELSE 0

QuoteHonest ==
  (~mixed /\ job.stage = "built" /\ job.legs # << >> /\ OrderInputs(job.tx) \subseteq DOMAIN utxo) =>
    LET s == job.summary IN
    \A a \in Assets :
      LET balance == total([r \in OrderInputs(job.tx) |-> utxo[r].value[a]])
                       - total([i \in DOMAIN job.tx.outputs |-> job.tx.outputs[i].value[a]])
          quoted  == (IF s.offered.asset = a THEN s.offered.amount ELSE 0)
                       - (IF s.requested.asset = a THEN s.requested.amount ELSE 0)
          gifts   == IF a = ADA THEN total([i \in DOMAIN job.legs |->
                                         Gift(job.legs[i], job.found[job.legs[i].ref].datum)]) ELSE 0
      IN  /\ balance = s.takerNet[a]
          /\ s.offered # None /\ s.requested # None => balance = quoted - gifts

(* The book of an unmixed chain is served: every order is recognised       *)
(* off-chain; its owner gets a cancel transaction that is accepted, and    *)
(* until the slot of its expiration everyone gets a take transaction that  *)
(* is.                                                                     *)
BookServed ==
  ~mixed => \A r \in DOMAIN utxo :
    LET o     == utxo[r]
        legs  == <<[ref |-> r, take |-> None]>>
        found == [q \in {r} |-> o]
        last  == deadline(legs, found)
    IN  /\ validateAndMap_ok(o)
        /\ Servable(buildCancelOrder(r, o))
        /\ last = None \/ clock < last => Servable(buildTakeManyOrders(legs, found))
=============================================================================
