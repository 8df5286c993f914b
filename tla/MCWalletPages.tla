----------------------------- MODULE MCWalletPages -----------------------------
(***************************************************************************)
(* Small books and bounds for model checking WalletPages.                  *)
(***************************************************************************)
EXTENDS WalletPages

CONSTANTS Gold, Other

order(id, owner, offer, offered, ask, requested, partially, expiration) ==
  [ id |-> id, owner |-> owner, offer |-> offer, ask |-> ask, offeredAmount |-> offered,
    requestedAmount |-> requested, allowPartialFill |-> partially, expiration |-> expiration ]

(* An order of the wallet that is filled in parts; three that expire and   *)
(* are claimed; and one that crosses an order of somebody else.            *)
Parts   == order(1, Me, Gold, 4, Lovelace, 3, TRUE, 1)
More    == order(1, Me, Gold, 5, Lovelace, 4, TRUE, 1)
Whole(id) == order(id, Me, Gold, 2, Lovelace, 3, FALSE, 1)
Crossed == order(3, Other, Lovelace, 6, Gold, 6, TRUE, None)

start(p, m, c, orders) == [page |-> p, mount |-> m, clicks |-> c, book |-> orders]

StartsOf ==
  { start("orders", 2, 2, {More}),
    start("orders", 2, 1, {Whole(1), Whole(2), Whole(3)}),
    start("orders", 1, 1, {Whole(1), Whole(2)}),
    start("book", 2, 1, {Parts}),
    start("arbitrage", 2, 2, {Parts, Crossed}) }

Books == {s.book : s \in StartsOf}
=============================================================================
