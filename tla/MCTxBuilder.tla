------------------------------ MODULE MCTxBuilder ------------------------------
(***************************************************************************)
(* Requests and foreign transactions for model checking TxBuilder.         *)
(***************************************************************************)
EXTENDS TxBuilder

CONSTANTS Alice, Bob, Gold, EmptyPolicy, ForeignPolicy

PolicyIds == [a \in Assets |-> IF a = ADA THEN EmptyPolicy ELSE ForeignPolicy]

KeyAddress(k) == [payment |-> k, stake |-> k]

Wallet(k) == [changeAddress |-> KeyAddress(k), utxos |-> {1, 2}, collateral |-> 1]

Request(wallet, offer, offerAmount, ask, askAmount, expiration, partially) ==
  [ wallet |-> wallet, paymentAddress |-> wallet.changeAddress,
    offer |-> offer, offerAmount |-> offerAmount, ask |-> ask, askAmount |-> askAmount,
    expiration |-> expiration, allowPartialFill |-> partially ]

GoldForAda == Request(Wallet(Alice), Gold, 3, ADA, 4, None, TRUE)
AdaForGold == Request(Wallet(Alice), ADA, 3, Gold, 2, 3, TRUE)
WholeOnly  == Request(Wallet(Bob), Gold, 1, ADA, 1, 4, FALSE)

(* A request for every reason to refuse one.                               *)
RefusedRequests ==
  { [GoldForAda EXCEPT !.ask = Gold],
    [GoldForAda EXCEPT !.offerAmount = 0],
    [GoldForAda EXCEPT !.ask = order_beacon_name],
    [GoldForAda EXCEPT !.expiration = 0],
    [GoldForAda EXCEPT !.wallet.changeAddress.stake = None],
    [GoldForAda EXCEPT !.wallet.changeAddress.stake = Script],
    [GoldForAda EXCEPT !.paymentAddress.payment = Script],
    [GoldForAda EXCEPT !.wallet.collateral = None],
    [GoldForAda EXCEPT !.wallet.utxos = {1}] }

Requests == {GoldForAda, AdaForGold} \cup RefusedRequests

(* Legs over the orders of U, in any order.                                *)
Amounts == {None, 1, 2, 3}

Legs(U) == [ref : DOMAIN U, take : Amounts]

Batches(U) == {<<a>> : a \in Legs(U)} \cup {<<a, b>> : a, b \in Legs(U)}

(* What others do meanwhile: cancel an order, take it, or place one.       *)
Others(U) ==
  {CancelTx(r) : r \in DOMAIN U} \cup {TakeTx(<<r>>) : r \in DOMAIN U}
    \cup {buildCreateOrder(WholeOnly)}
=============================================================================
