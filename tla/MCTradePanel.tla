----------------------------- MODULE MCTradePanel -----------------------------
(***************************************************************************)
(* Small books and bounds for model checking TradePanel.                   *)
(***************************************************************************)
EXTENDS TradePanel

CONSTANTS ADA, Gold

order(id, offer, offered, ask, requested, partially) ==
  [ id |-> id, offer |-> offer, ask |-> ask, offeredAmount |-> offered,
    requestedAmount |-> requested, allowPartialFill |-> partially, expiration |-> None ]

(* Two orders for ADA, of which the dearer may be filled in part, or one   *)
(* on each side.                                                           *)
Books ==
  { { order(1, Gold, 2, ADA, 2, FALSE), order(2, Gold, 2, ADA, 3, TRUE) },
    { order(1, Gold, 2, ADA, 2, FALSE), order(3, ADA, 2, Gold, 4, TRUE) } }

AdaToGold == [spend |-> ADA, receive |-> Gold]
=============================================================================
