------------------------------ MODULE OrderBook ------------------------------
(***************************************************************************)
(* What the protocol promises its users, without transactions, beacons or  *)
(* scripts: a book of open orders.  An order keeps its identity through    *)
(* its partial fills.  A trade touches any set of orders at once; each one *)
(* is filled, and its seller has then been credited all that was asked, or *)
(* shrinks at its own price, rounded in the seller's favour.  An order     *)
(* that has expired can only be withdrawn.                                 *)
(***************************************************************************)
EXTENDS Integers

CONSTANT Never   (* the expiration of an order without one *)

VARIABLES
  book,     (* the terms of each open order, by identity                   *)
  credit,   (* units of the ask each order has brought its seller          *)
  clock

vars == <<book, credit, clock>>

Ceiling(n, d) == (n + d - 1) \div d

Init ==
  /\ book = << >>
  /\ credit = << >>
  /\ clock = 0

Undisturbed(id) ==
  /\ id \in DOMAIN book'
  /\ book'[id] = book[id]
  /\ credit'[id] = credit[id]

Tick == clock' = clock + 1 /\ UNCHANGED <<book, credit>>

(***************************************************************************)
(* A new order, under an identity never used before.                       *)
(***************************************************************************)
Place(id) ==
  /\ id \notin DOMAIN credit
  /\ DOMAIN book' = DOMAIN book \cup {id}
  /\ DOMAIN credit' = DOMAIN credit \cup {id}
  /\ credit'[id] = 0
  /\ book'[id].offer > 0
  /\ book'[id].ask > 0
  /\ \A x \in DOMAIN book : Undisturbed(x)
  /\ \A x \in DOMAIN credit : credit'[x] = credit[x]
  /\ UNCHANGED clock

Withdraw(id) ==
  /\ DOMAIN book' = DOMAIN book \ {id}
  /\ \A x \in DOMAIN book' : book'[x] = book[x]
  /\ UNCHANGED <<credit, clock>>

Filled(id) ==
  /\ id \notin DOMAIN book'
  /\ credit'[id] >= credit[id] + book[id].ask

PartlyFilled(id) ==
  /\ id \in DOMAIN book'
  /\ \E amount \in 1..(book[id].offer - 1) :
       LET price == Ceiling(amount * book[id].ask, book[id].offer) IN
       /\ price < book[id].ask
       /\ book'[id] = [book[id] EXCEPT !.offer = @ - amount, !.ask = @ - price]
       /\ credit'[id] >= credit[id] + price

Trade(legs) ==
  /\ legs # {}
  /\ DOMAIN book' \subseteq DOMAIN book
  /\ DOMAIN credit' = DOMAIN credit
  /\ \A id \in legs :
       /\ book[id].expiration # Never => clock < book[id].expiration
       /\ Filled(id) \/ PartlyFilled(id)
  /\ \A id \in DOMAIN book \ legs : Undisturbed(id)
  /\ \A id \in DOMAIN credit \ legs : credit'[id] = credit[id]
  /\ UNCHANGED clock

Next ==
  \/ Tick
  \/ \E id \in DOMAIN book' : Place(id)
  \/ \E id \in DOMAIN book : Withdraw(id)
  \/ \E legs \in SUBSET DOMAIN book : Trade(legs)

Spec == Init /\ [][Next]_vars
=============================================================================
