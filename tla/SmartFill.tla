------------------------------- MODULE SmartFill -------------------------------
(***************************************************************************)
(* The route planner (services/smart-fill.ts): which open orders a taker   *)
(* fills, whole or in part, for a budget ("spend") or for an amount to     *)
(* receive ("receive").  It is pure; a route is a sequence of legs.        *)
(*                                                                         *)
(* An order of the cache is a record                                       *)
(*   id, offer, ask (assets), offeredAmount, requestedAmount,              *)
(*   allowPartialFill, expiration (a time or None),                        *)
(* and a wish is what the taker asks for: spend, receive (assets), mode    *)
(* and limit.  Of an orderId only its place in the order of strings counts *)
(* and it is a number.  The cache returns open orders only                 *)
(* (OrdersRepo.listByPair), so an order has no status.                     *)
(***************************************************************************)
EXTENDS Integers, SequencesExt

CONSTANT None

ASSUME NoneAssumption == None \notin Int

----------------------------------------------------------------------------
(***************************************************************************)
(* Prices of partial fills (protocol/datum.ts).                            *)
(***************************************************************************)
requiredPayment(take, o) ==
  (take * o.requestedAmount + o.offeredAmount - 1) \div o.offeredAmount

(***************************************************************************)
(* The largest take that spend pays for and that leaves something of the   *)
(* offer and of the ask in the order; 0 if there is none.                  *)
(***************************************************************************)
maxTakeForSpend(spend, o) ==
  IF spend <= 0 THEN 0
  ELSE Min({(spend * o.offeredAmount) \div o.requestedAmount,
            ((o.requestedAmount - 1) * o.offeredAmount) \div o.requestedAmount,
            o.offeredAmount - 1})

----------------------------------------------------------------------------
(***************************************************************************)
(* Candidates, cheapest first.                                             *)
(***************************************************************************)
isOrderExpired(o, now) == o.expiration # None /\ o.expiration <= now

candidates(orders, wish, now) ==
  {o \in orders : /\ ~isOrderExpired(o, now)
                  /\ o.offer = wish.receive /\ o.ask = wish.spend
                  /\ o.offeredAmount > 0 /\ o.requestedAmount > 0}

(* Fault: the smaller ask is taken for the better price.                   *)
cheaper_by_ask(a, b) == a.requestedAmount < b.requestedAmount

(* The strictly better price, by cross-multiplication.                     *)
cheaper(a, b) == a.requestedAmount * b.offeredAmount < b.requestedAmount * a.offeredAmount

ranks_before(a, b) ==
  \/ cheaper(a, b)
  \/ /\ ~cheaper(b, a)
     /\ \/ a.offeredAmount > b.offeredAmount
        \/ a.offeredAmount = b.offeredAmount /\ a.id < b.id

ranked(orders, wish, now) ==
  LET all      == candidates(orders, wish, now)
      ahead(o) == {p \in all : ranks_before(p, o)}
  IN  [n \in 1..Cardinality(all) |-> CHOOSE o \in all : Cardinality(ahead(o)) = n - 1]

----------------------------------------------------------------------------
(***************************************************************************)
(* Legs.  takeAmount is None in a leg that fills its order whole.          *)
(***************************************************************************)
wholeLeg(o) ==
  [ orderId |-> o.id, spend |-> o.requestedAmount, receive |-> o.offeredAmount,
    takeAmount |-> None ]

partialLeg(o, take) ==
  [ orderId |-> o.id, spend |-> requiredPayment(take, o), receive |-> take,
    takeAmount |-> take ]

totalSpend(legs)   == FoldLeft(LAMBDA sum, leg : sum + leg.spend, 0, legs)
totalReceive(legs) == FoldLeft(LAMBDA sum, leg : sum + leg.receive, 0, legs)

selected(legs) == {legs[i].orderId : i \in DOMAIN legs}

(***************************************************************************)
(* Mode "receive": order after order until the target is met; one that     *)
(* would overshoot it is filled in part if it may be.                      *)
(***************************************************************************)
(* Fault: the part that is left is taken whatever is left of its ask.      *)
towards_target_any_ask(limit, legs, o) ==
  LET needed == limit - totalReceive(legs) IN
  IF needed <= 0 THEN legs
  ELSE IF needed < o.offeredAmount /\ o.allowPartialFill
       THEN Append(legs, partialLeg(o, needed))
       ELSE Append(legs, wholeLeg(o))

towards_target(limit, legs, o) ==
  LET needed == limit - totalReceive(legs) IN
  IF needed <= 0 THEN legs
  ELSE IF /\ needed < o.offeredAmount
          /\ o.allowPartialFill
          /\ requiredPayment(needed, o) < o.requestedAmount
       THEN Append(legs, partialLeg(o, needed))
       ELSE Append(legs, wholeLeg(o))

(***************************************************************************)
(* Mode "spend": every order that still fits the budget, whole; those that *)
(* do not fit are passed over.                                             *)
(***************************************************************************)
within_budget(limit, legs, o) ==
  IF o.requestedAmount > limit - totalSpend(legs) THEN legs ELSE Append(legs, wholeLeg(o))

(* Fault: only the first order left is tried.                              *)
residual_first(limit, minPartialSpend, ranking, legs) ==
  LET remaining == limit - totalSpend(legs)
      left(o)   == o.id \notin selected(legs)
      i         == SelectInSeq(ranking, left)
  IN  IF i = 0 THEN legs
      ELSE LET take == maxTakeForSpend(remaining, ranking[i]) IN
           IF /\ ranking[i].allowPartialFill /\ take > 0
              /\ requiredPayment(take, ranking[i]) >= minPartialSpend
           THEN Append(legs, partialLeg(ranking[i], take)) ELSE legs

(***************************************************************************)
(* What is left of the budget goes into one partial leg: the cheapest      *)
(* order not taken that can absorb it, unless that is dust.                *)
(***************************************************************************)
residual(limit, minPartialSpend, ranking, legs) ==
  LET remaining  == limit - totalSpend(legs)
      absorbs(o) == /\ o.id \notin selected(legs)
                    /\ o.allowPartialFill
                    /\ maxTakeForSpend(remaining, o) > 0
                    /\ requiredPayment(maxTakeForSpend(remaining, o), o) >= minPartialSpend
      i          == SelectInSeq(ranking, absorbs)
  IN  IF i = 0 THEN legs
      ELSE Append(legs, partialLeg(ranking[i], maxTakeForSpend(remaining, ranking[i])))

planSmartFill(orders, wish, minPartialSpend, now) ==
  LET ranking == ranked(orders, wish, now) IN
  IF wish.mode = "receive"
  THEN FoldLeft(LAMBDA legs, o : towards_target(wish.limit, legs, o), << >>, ranking)
  ELSE residual(wish.limit, minPartialSpend, ranking,
                FoldLeft(LAMBDA legs, o : within_budget(wish.limit, legs, o), << >>, ranking))

----------------------------------------------------------------------------
(***************************************************************************)
(* Properties of a route: legs is the plan for wish over orders at now.    *)
(***************************************************************************)
order_of(orders, leg) == CHOOSE o \in orders : o.id = leg.orderId

(* The conditions of the order validator on a leg: a partial fill of an    *)
(* order that allows it pays the price of its take, and something of the   *)
(* offer and of the ask is left.                                           *)
fillable(o, leg) ==
  IF leg.takeAmount = None THEN leg = wholeLeg(o)
  ELSE /\ o.allowPartialFill
       /\ leg.takeAmount \in 1..(o.offeredAmount - 1)
       /\ leg.spend \in 1..(o.requestedAmount - 1)
       /\ leg.spend * o.offeredAmount >= leg.takeAmount * o.requestedAmount

(* Every leg can be settled: on an order of its own, of the taker's side,  *)
(* not expired, on terms that the validator accepts.                       *)
LegsFillable(orders, wish, now, legs) ==
  /\ \A i \in DOMAIN legs :
       LET leg == legs[i] IN
       /\ \E o \in candidates(orders, wish, now) : o.id = leg.orderId
       /\ fillable(order_of(orders, leg), leg)
  /\ Cardinality(selected(legs)) = Len(legs)

(* "Max spend is never exceeded".                                          *)
WithinBudget(wish, legs) == wish.mode = "spend" => totalSpend(legs) <= wish.limit

(* What is left of a budget is of no use: it pays for no other order, and  *)
(* if no leg is partial, for no part of one above the dust threshold.      *)
BudgetUsed(orders, wish, minPartialSpend, now, legs) ==
  wish.mode = "spend" =>
    LET left    == wish.limit - totalSpend(legs)
        partial == \E i \in DOMAIN legs : legs[i].takeAmount # None
    IN  \A o \in candidates(orders, wish, now) :
          o.id \notin selected(legs) =>
            /\ o.requestedAmount > left
            /\ ~partial /\ o.allowPartialFill =>
                 \A take \in 1..(o.offeredAmount - 1) :
                   LET cost == requiredPayment(take, o) IN
                   cost > left \/ cost >= o.requestedAmount \/ cost < minPartialSpend

(* A target is missed only if everything there is has been taken, and is   *)
(* overshot only by a last order that cannot be filled for the exact rest. *)
TargetMet(orders, wish, now, legs) ==
  wish.mode = "receive" =>
    LET got == totalReceive(legs)
        last == legs[Len(legs)]
        o    == order_of(orders, last)
        rest == wish.limit - (got - last.receive)
    IN  /\ got < wish.limit =>
             \A c \in candidates(orders, wish, now) :
               \E i \in DOMAIN legs : legs[i] = wholeLeg(c)
        /\ got > wish.limit =>
             /\ rest > 0
             /\ ~o.allowPartialFill \/ requiredPayment(rest, o) >= o.requestedAmount

(***************************************************************************)
(* The reference definition: all ways to fill some of the orders, as a     *)
(* function from orders to amounts taken.                                  *)
(***************************************************************************)
cost(o, amount) ==
  IF amount = 0 THEN 0
  ELSE IF amount = o.offeredAmount THEN o.requestedAmount ELSE requiredPayment(amount, o)

Takes(o) ==
  {0, o.offeredAmount}
    \cup {t \in 1..(o.offeredAmount - 1) :
            o.allowPartialFill /\ requiredPayment(t, o) < o.requestedAmount}

Fills(orders) ==
  {f \in [orders -> UNION {Takes(o) : o \in orders}] : \A o \in orders : f[o] \in Takes(o)}

fill_cost(f)     == MapThenSumSet(LAMBDA o : cost(o, f[o]), DOMAIN f)
fill_received(f) == MapThenSumSet(LAMBDA o : f[o], DOMAIN f)

all_partial(orders) == \A o \in orders : o.allowPartialFill

(* Where all orders may be filled in part, nobody gets the target cheaper. *)
CheapestFill(orders, wish, now, legs) ==
  LET book == candidates(orders, wish, now) IN
  (wish.mode = "receive" /\ all_partial(book) /\ totalReceive(legs) >= wish.limit) =>
    \A f \in Fills(book) : fill_received(f) >= wish.limit => fill_cost(f) >= totalSpend(legs)
=============================================================================
