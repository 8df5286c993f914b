---------------------------- MODULE MCOrderLedger ----------------------------
(***************************************************************************)
(* Transactions for model checking OrderLedger.  The sets hold correct     *)
(* transactions and their near misses: an output too many or too few, in   *)
(* the wrong order, with the old datum, at another address, a payment one  *)
(* short, a signature or a validity bound missing.  What the transaction   *)
(* mints or burns is what its inputs and outputs leave.  Inputs without    *)
(* beacons are imitations, offered beside the UTxOs of the ledger.         *)
(***************************************************************************)
EXTENDS OrderLedger, TLC

CONSTANTS
  Alice, Bob, Gold,
  EmptyPolicy, GoldPolicy, ForeignPolicy,
  Token          (* the token of ForeignPolicy that imitations offer       *)

PolicyIds ==
  [a \in Assets |-> IF a = ADA THEN EmptyPolicy
                    ELSE IF a = Token THEN ForeignPolicy ELSE GoldPolicy]

KeyAddress(k)   == [payment |-> k, stake |-> k]
OrderAddress(k) == [payment |-> Script, stake |-> k]

Datum(owner, offer, offer_amount, ask, ask_amount, expiration, partial) ==
  [ version |-> 1, beacon_policy_id |-> BeaconPolicy, owner |-> owner,
    payment_address |-> KeyAddress(owner), offer |-> offer, offer_amount |-> offer_amount,
    ask |-> ask, ask_amount |-> ask_amount, expiration |-> expiration,
    allow_partial_fill |-> partial ]

Plain(address, value, datum) ==
  [address |-> address, value |-> value, datum |-> datum, reference_script |-> FALSE]

OrderOutput(d, lovelace) ==
  Plain([payment |-> Script, stake |-> d.owner], expected_value(d, lovelace), d)

----------------------------------------------------------------------------
(* The mint that balances inputs (of the UTxO set U) and outputs.          *)
Balance(U, inputs, outputs) ==
  [u \in BeaconNames |->
     MapThenSumSet(LAMBDA i : outputs[i].value[u], DOMAIN outputs)
       - MapThenSumSet(LAMBDA r : U[r].value[u], inputs)]

Tx(U, spends, outputs, upper, signers) ==
  LET minted == Balance(U, DOMAIN spends, outputs)
      beaconless == {r \in DOMAIN spends : ~has_tokens(U[r].value, BeaconPolicy)}
  IN
  [ spends |-> spends, imitations |-> [r \in beaconless |-> U[r]],
    outputs |-> outputs, mint |-> minted,
    mint_redeemer |-> IF \E u \in BeaconNames : minted[u] > 0
                      THEN "MintBeacons" ELSE "BurnBeacons",
    upper_bound |-> upper, extra_signatories |-> signers ]

----------------------------------------------------------------------------
(* Creation.  Correct orders, and outputs that differ from one in a field. *)
GoodOrders ==
  { OrderOutput(Datum(Alice, Gold, 2, ADA, 3, 1, TRUE), 2),
    OrderOutput(Datum(Bob, ADA, 2, Gold, 1, None, FALSE), 3) }

Variants(o) ==
  LET d == o.datum IN
  { [o EXCEPT !.address = KeyAddress(d.owner)],
    [o EXCEPT !.address.stake = None],
    [o EXCEPT !.address.stake = IF d.owner = Alice THEN Bob ELSE Alice],
    [o EXCEPT !.datum = None],
    [o EXCEPT !.value[ADA] = @ - 2],
    [o EXCEPT !.value[Gold] = @ + 1],
    [o EXCEPT !.value[ask_beacon_name(d.ask)] = 0],
    [o EXCEPT !.value[owner_beacon_name(d.owner)] = 2] }
  \cup { [o EXCEPT !.datum = dd] :
           dd \in { [d EXCEPT !.version = 2],
                    [d EXCEPT !.beacon_policy_id = ForeignPolicy],
                    [d EXCEPT !.owner = Script],
                    [d EXCEPT !.payment_address.payment = Script],
                    [d EXCEPT !.offer_amount = @ - 1],
                    [d EXCEPT !.ask_amount = 0] } }
  \cup { OrderOutput([d EXCEPT !.owner = Script], o.value[ADA]),
         OrderOutput([d EXCEPT !.ask = d.offer], o.value[ADA]),
         OrderOutput([d EXCEPT !.offer_amount = 0], o.value[ADA]),
         OrderOutput([d EXCEPT !.ask = order_beacon_name], o.value[ADA]) }

CreateOutputs == GoodOrders \cup UNION {Variants(o) : o \in GoodOrders}

(* One output, or two that share the beacons of one order between them.    *)
CreateSequences ==
  {<<o>> : o \in CreateOutputs}
    \cup {<<o, p>> : o, p \in GoodOrders}
    \cup {<<[o EXCEPT !.value[order_beacon_name] = 0],
            Plain(KeyAddress(Bob), [[u \in Units |-> 0] EXCEPT ![order_beacon_name] = 1], None)>> :
            o \in GoodOrders}
    \cup {<<o, Plain(KeyAddress(Bob), [[u \in Units |-> 0] EXCEPT ![order_beacon_name] = 1], None)>> :
            o \in GoodOrders}

Creations(U) ==
  LET signers == {{}, {Alice}} IN
  {Tx(U, << >>, s, None, {}) : s \in CreateSequences}
    \cup {Tx(U, [r \in {q} |-> [kind |-> "CancelOrder", take_amount |-> 0]], s, None, sg) :
            q \in DOMAIN U, s \in CreateSequences \cup {<< >>}, sg \in signers}

----------------------------------------------------------------------------
(* Settlement.  Two orders of Alice with the same datum, or any others.    *)
SettledOrders ==
  { OrderOutput(Datum(Alice, Gold, 3, ADA, 4, None, TRUE), 1),
    OrderOutput(Datum(Bob, ADA, 3, Gold, 2, None, TRUE), 5) }

Redeem(k, t) == [kind |-> k, take_amount |-> t]

(* The payment of amount units of the ask for the order at r of U.         *)
PaymentOutput(U, r, amount, lovelace) ==
  LET d == U[r].datum IN
  Plain(d.payment_address,
        [u \in Units |-> (IF u = d.ask THEN amount ELSE 0) + (IF u = ADA THEN lovelace ELSE 0)],
        PaymentTag(r))

Price(d, redeemer) ==
  IF redeemer.kind = "TakeOrderPartial"
  THEN required_payment(redeemer.take_amount, d.ask_amount, d.offer_amount)
  ELSE d.ask_amount

ExactPayment(U, r, redeemer) ==
  PaymentOutput(U, r, Price(U[r].datum, redeemer),
                IF redeemer.kind = "TakeOrder" THEN deposit(U[r].datum, U[r].value) ELSE 0)

ShortPayment(U, r, redeemer) ==
  LET p == ExactPayment(U, r, redeemer) IN
  [p EXCEPT !.value[U[r].datum.ask] = IF @ = 0 THEN 0 ELSE @ - 1]

Continuation(U, r, t) ==
  LET d == U[r].datum IN
  [U[r] EXCEPT !.datum = continuation_datum(d, t), !.value = continuation_value(d, @, t)]

(* Beacon-bearing outputs a transaction spending r may try to make.        *)
BeaconOutputs(U, r, redeemer) ==
  LET c == Continuation(U, r, redeemer.take_amount) IN
  (IF redeemer.kind = "TakeOrderPartial" THEN {c, [c EXCEPT !.datum = U[r].datum]} ELSE {})
    \cup {Plain(KeyAddress(Bob), [U[r].value EXCEPT ![ADA] = 0, ![Gold] = 0], None)}

SeqsUpTo2(S) == {<< >>} \cup {<<s>> : s \in S} \cup {<<s, t>> : s, t \in S}

Single(U, r, uppers) ==
  LET redeemers == {Redeem("CancelOrder", 0), Redeem("TakeOrder", 0)}
                     \cup {Redeem("TakeOrderPartial", t) : t \in 0..3}
  IN
  UNION {
    { Tx(U, [q \in {r} |-> rd], pay \o cont, up, sg) :
        pay  \in { << >>, <<ExactPayment(U, r, rd)>>, <<ShortPayment(U, r, rd)>>,
                   <<[ExactPayment(U, r, rd) EXCEPT !.address = KeyAddress(Bob)]>> },
        cont \in SeqsUpTo2(BeaconOutputs(U, r, rd)),
        up   \in uppers,
        sg   \in IF rd.kind = "CancelOrder" THEN {{}, {U[r].datum.owner}} ELSE {{}} }
    : rd \in redeemers }

Pair(U, q, r) ==
  LET redeemers == {Redeem("CancelOrder", 0), Redeem("TakeOrder", 0),
                    Redeem("TakeOrderPartial", 1), Redeem("TakeOrderPartial", 2)}
      owners == {U[q].datum.owner, U[r].datum.owner}
  IN
  UNION {
    { Tx(U, [s \in {q, r} |-> IF s = q THEN rq ELSE rr], pay \o cont, None,
         IF "CancelOrder" \in {rq.kind, rr.kind} THEN owners ELSE {}) :
        pay  \in { <<ExactPayment(U, q, rq)>>, <<ExactPayment(U, r, rr)>>,
                   <<ExactPayment(U, q, rq), ExactPayment(U, r, rr)>> },
        cont \in SeqsUpTo2(BeaconOutputs(U, q, rq) \cup BeaconOutputs(U, r, rr)) }
    : rq \in redeemers, rr \in redeemers }

(* What has the datum of an order.  After a mixed transaction there may be *)
(* more in U, and less to the datum.                                       *)
Ordered(U) ==
  {r \in DOMAIN U : U[r].datum \in OrderDatums /\ U[r].datum.offer_amount > 0}

(* Two orders at a time: no rule reads one that a transaction leaves alone.*)
Settlements(U) ==
  {Tx(U, << >>, <<o>>, None, {}) : o \in IF Cardinality(Ordered(U)) < 2 THEN SettledOrders ELSE {}}
    \cup UNION {Single(U, r, {None}) : r \in Ordered(U)}
    \cup UNION {Pair(U, p[1], p[2]) :
                  p \in {p \in Ordered(U) \X Ordered(U) : RefLess(p[1], p[2])}}

----------------------------------------------------------------------------
(* Imitations.  Bob's look like an order that names a policy of his own, or*)
(* the beacon policy, and sort before or after every order.                *)
ImitationDatum(policy) ==
  [Datum(Bob, Token, 3, ADA, 4, None, TRUE) EXCEPT !.beacon_policy_id = policy]

Imitation(policy) ==
  Plain(OrderAddress(Bob),
        [u \in Units |-> IF u = ADA THEN 1 ELSE IF u = Token THEN 3 ELSE 0],
        ImitationDatum(policy))

(* Where beacons may go: to a key, or to an order nobody placed.           *)
Stray(U, r) ==
  LET d == [U[r].datum EXCEPT !.ask_amount = 1] IN
  { Plain(KeyAddress(Bob), [U[r].value EXCEPT ![ADA] = 0, ![Gold] = 0], None),
    OrderOutput(d, U[r].value[ADA]) }

Beside(U, r, at) ==
  LET redeemers == {Redeem("TakeOrder", 0), Redeem("TakeOrderPartial", 1)} IN
  UNION {
    { Tx(U, [q \in {r, at} |-> IF q = r THEN rr ELSE ra],
         <<ExactPayment(U, r, rr), ExactPayment(U, at, ra)>> \o cont, None,
         IF rr.kind = "CancelOrder" THEN {U[r].datum.owner} ELSE {}) :
        cont \in SeqsUpTo2({Continuation(U, r, rr.take_amount), Continuation(U, at, ra.take_amount)}
                             \cup Stray(U, r)) }
    : rr \in redeemers \cup {Redeem("CancelOrder", 0)}, ra \in redeemers }

(* A key sends the beacons it holds on.                                    *)
Onwards(U) ==
  { Tx(U, [q \in {r} |-> Redeem("none", 0)],
       <<[o EXCEPT !.value = [u \in Units |-> U[r].value[u] + IF u \in Assets THEN @[u] ELSE 0]]>>,
       None, {Bob}) :
    r \in {r \in DOMAIN U : U[r].address.payment # Script}, o \in SettledOrders }

Imitated(U) ==
  Onwards(U)
    \cup (IF Cardinality(txids) > 1 THEN {} ELSE
         UNION { Beside(U @@ (at :> Imitation(policy)), r, at) :
                   r \in Ordered(U), at \in {<<0, 0>>, <<9, 0>>}, policy \in {ForeignPolicy, BeaconPolicy} })

(* Settlement of one order around its expiration.                          *)
ExpiringOrder == OrderOutput(Datum(Alice, Gold, 3, ADA, 4, 2, TRUE), 1)

Deadlines(U) ==
  (IF U = << >> THEN {Tx(U, << >>, <<ExpiringOrder>>, None, {})} ELSE {})
    \cup UNION {Single(U, r, {None, 1, 2, 3}) : r \in Ordered(U)}

(* Long lives: one order that is filled again and again, by any amount.   *)
FilledOrders ==
  { OrderOutput(Datum(Alice, Gold, 6, ADA, 7, None, TRUE), 2),
    OrderOutput(Datum(Alice, ADA, 5, Gold, 10, None, TRUE), 6) }

LongLife(U) == \E r \in DOMAIN U : lineage[r].offer > 3

Fills(U) ==
  { Tx(U, [q \in {r} |-> Redeem("TakeOrderPartial", t)],
       <<ExactPayment(U, r, Redeem("TakeOrderPartial", t)), Continuation(U, r, t)>>, None, {}) :
    r \in Ordered(U), t \in 1..5 }

(***************************************************************************)
(* The first transaction decides what is explored: settlements, a long     *)
(* life, or creations and what happens around an expiration.  Time passes  *)
(* only in the last, which stops after three transactions, the first of    *)
(* them with the id FirstId: one smaller than some later ids and larger    *)
(* than others.  No rule on minting reads the time: creations are tried at *)
(* the start only.                                                         *)
(***************************************************************************)
Placements(U) == {U[r].datum : r \in DOMAIN U} \cup {closed[r].datum : r \in DOMAIN closed}

Lasting(U) ==
  \A d \in Placements(U) \cap OrderDatums : d.expiration = None /\ d.allow_partial_fill

Lives(U) ==
  IF ~Lasting(U) \/ clock > 0 THEN {}
  ELSE IF LongLife(U) THEN Fills(U)
  ELSE Settlements(U)
         \cup Imitated(U)
         \cup (IF txids = {} THEN {Tx(U, << >>, <<o>>, None, {}) : o \in FilledOrders} ELSE {})

FirstId == 2

CreationsAndDeadlines(U) ==
  IF txids = {} \/ (~Lasting(U) /\ FirstId \in txids /\ Cardinality(txids) < 3)
  THEN Deadlines(U) \cup (IF clock = 0 THEN Creations(U) ELSE {})
  ELSE {}

Scenarios(U) == Lives(U) \cup CreationsAndDeadlines(U)

(* Imitations of a token that no order trades, beside orders.              *)
Imitating(U) == {Tx(U, << >>, <<o>>, None, {}) : o \in SettledOrders} \cup Imitated(U)
=============================================================================
