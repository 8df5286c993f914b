------------------------------ MODULE MCPlanners -------------------------------
(***************************************************************************)
(* The endpoint GET /smart-fill over every small book of one pair, for     *)
(* every wish, and GET /arbitrage over books whose orders go around a      *)
(* cycle of assets.                                                        *)
(***************************************************************************)
EXTENDS Planners

CONSTANTS
  Gold, Tin,           (* two tokens                                         *)
  Offered, Requested,  (* amounts of the orders of one pair                  *)
  MaxOrders,           (* orders in a book of one pair                       *)
  CycleAmounts,        (* amounts of the orders around a cycle               *)
  Limits               (* amounts the taker types                            *)

(* Orders that offer Gold for ADA, an expired one and one of the other     *)
(* side of the book.                                                       *)
Kinds ==
  [offer : {Gold}, ask : {Lovelace}, offeredAmount : Offered, requestedAmount : Requested,
   allowPartialFill : BOOLEAN, expiration : {None}]

Odd ==
  { [offer |-> Gold, ask |-> Lovelace, offeredAmount |-> 3, requestedAmount |-> 1,
     allowPartialFill |-> TRUE, expiration |-> 1],
    [offer |-> Lovelace, ask |-> Gold, offeredAmount |-> 3, requestedAmount |-> 1,
     allowPartialFill |-> TRUE, expiration |-> 2] }

order(id, kind) ==
  [ id |-> id, offer |-> kind.offer, ask |-> kind.ask, offeredAmount |-> kind.offeredAmount,
    requestedAmount |-> kind.requestedAmount, allowPartialFill |-> kind.allowPartialFill,
    expiration |-> kind.expiration ]

book(f) == {order(i, f[i]) : i \in DOMAIN f}

PairBooks ==
  UNION { {book(f) : f \in [1..n -> Kinds \cup Odd]} : n \in 0..MaxOrders }

(* Orders that sell an asset for the one before it.                        *)
Step(from, to, amounts, partial, expiration) ==
  [offer : {to}, ask : {from}, offeredAmount : amounts, requestedAmount : amounts,
   allowPartialFill : partial, expiration : expiration]

(* Cycles of two with two orders for the second edge; cycles of three; a   *)
(* cycle of three in which two edges have a second order, one expired.     *)
CycleBooks ==
  LET some == {2, 5} IN
  { book(<<a, b>>) :
      a \in Step(Lovelace, Gold, CycleAmounts, BOOLEAN, {None}),
      b \in Step(Gold, Lovelace, CycleAmounts, BOOLEAN, {1, None}) }
  \cup
  { book(<<a, b, c>>) :
      a \in Step(Lovelace, Gold, CycleAmounts, BOOLEAN, {None}),
      b \in Step(Gold, Tin, CycleAmounts, BOOLEAN, {None}),
      c \in Step(Tin, Lovelace, CycleAmounts, BOOLEAN, {None}) }
  \cup
  { book(<<a, b, c, d, e>>) :
      a \in Step(Lovelace, Gold, some, BOOLEAN, {None}),
      b \in Step(Gold, Lovelace, some, BOOLEAN, {None}),
      c \in Step(Gold, Tin, some, {TRUE}, {None}),
      d \in Step(Tin, Lovelace, {3}, {TRUE}, {None}),
      e \in Step(Lovelace, Gold, some, {TRUE}, {1, None}) }

(* A wish in a book that has no order of its pair gets no legs.            *)
SmallBooks == PairBooks \cup CycleBooks

SmallWishes ==
  [spend : {Lovelace}, receive : {Gold}, mode : {"spend", "receive"}, limit : Limits]
=============================================================================
