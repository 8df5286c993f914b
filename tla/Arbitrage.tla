------------------------------- MODULE Arbitrage -------------------------------
(***************************************************************************)
(* The arbitrage finder (services/arbitrage.ts): cycles of two or three    *)
(* open orders that one transaction can take so that the taker loses in no *)
(* asset and gains in one.  It is pure.                                    *)
(*                                                                         *)
(* Orders and legs are those of the route planner.  Assets are numbers, in *)
(* the order of their ids as strings.  An opportunity is the cycle of      *)
(* orders it was found as, the same from its anchor on, the legs, and what *)
(* the lovelace line is after costs.                                       *)
(***************************************************************************)
EXTENDS SmartFill

CONSTANTS
  Lovelace,                (* the id of ADA                                  *)
  FeeEstimate,             (* ARBITRAGE_FEE_ESTIMATE_LOVELACE                *)
  PartialPaymentLovelace,  (* what a payment of a partial fill must hold     *)
  DirectTopK,              (* orders per edge tried for cycles of two        *)
  TriangularTopK,          (* orders per edge tried for cycles of three      *)
  MaxOpportunities         (* opportunities that are reported                *)

(* More of the offer for the ask.                                          *)
betterRate(a, b) == a.offeredAmount * b.requestedAmount > b.offeredAmount * a.requestedAmount

----------------------------------------------------------------------------
(***************************************************************************)
(* The amounts around a cycle.                                             *)
(***************************************************************************)
(* Fault: an order is trimmed although its seller does not allow it.       *)
next_leg_trimmed(legs, o) ==
  IF legs = None THEN None
  ELSE LET carry == Last(legs).receive IN
       IF o.requestedAmount <= carry THEN Append(legs, wholeLeg(o))
       ELSE IF maxTakeForSpend(carry, o) > 0
            THEN Append(legs, partialLeg(o, maxTakeForSpend(carry, o))) ELSE None

(* Each later leg is paid out of what the leg before it delivers: whole if *)
(* that covers it, else trimmed, else the rotation is given up.            *)
next_leg(legs, o) ==
  IF legs = None THEN None
  ELSE LET carry == Last(legs).receive
           take  == maxTakeForSpend(carry, o)
       IN  IF o.requestedAmount <= carry THEN Append(legs, wholeLeg(o))
           ELSE IF o.allowPartialFill /\ take > 0 THEN Append(legs, partialLeg(o, take))
                ELSE None

sizeRotation(cycle) == FoldLeft(next_leg, <<wholeLeg(Head(cycle))>>, Tail(cycle))

(* The taker's net in an asset: what the legs deliver of it less what they *)
(* cost.                                                                   *)
netOf(cycle, legs, asset) ==
  FoldLeft(LAMBDA sum, i : sum + (IF cycle[i].offer = asset THEN legs[i].receive ELSE 0)
                               - (IF cycle[i].ask = asset THEN legs[i].spend ELSE 0),
           0, [i \in DOMAIN legs |-> i])

isRiskless(cycle, legs) ==
  LET nets == {netOf(cycle, legs, cycle[i].ask) : i \in DOMAIN cycle} IN
  (\A n \in nets : n >= 0) /\ (\E n \in nets : n > 0)

partials(legs) == {i \in DOMAIN legs : legs[i].takeAmount # None}

(* Lovelace the taker adds to payments of partial fills.                   *)
partialMinAdaOf(cycle, legs) ==
  MapThenSumSet(LAMBDA i : IF cycle[i].ask # Lovelace THEN PartialPaymentLovelace
                           ELSE Max({0, PartialPaymentLovelace - legs[i].spend}),
                partials(legs))

evaluated(cycle, legs) ==
  [ cycle |-> cycle, legs |-> legs,
    lovelaceNet |-> netOf(cycle, legs, Lovelace) - FeeEstimate - partialMinAdaOf(cycle, legs) ]

rotations(cycle) ==
  LET n == Len(cycle) IN
  [r \in 1..n |-> SubSeq(cycle, r, n) \o SubSeq(cycle, 1, r - 1)]

(* Fewer partial legs, then the larger lovelace line.                      *)
better(a, b) ==
  LET p == Cardinality(partials(a.legs))
      q == Cardinality(partials(b.legs))
  IN  p < q \/ (p = q /\ a.lovelaceNet > b.lovelaceNet)

(* Fault: only the order the cycle starts with is tried as its anchor.     *)
evaluateCycle_one_anchor(cycle) ==
  LET legs == sizeRotation(cycle) IN
  IF legs # None /\ isRiskless(cycle, legs) THEN evaluated(cycle, legs) ELSE None

(* The best of the rotations that are riskless, None if none is.           *)
evaluateCycle(cycle) ==
  FoldLeft(LAMBDA best, c :
             LET legs == sizeRotation(c) IN
             IF /\ legs # None
                /\ isRiskless(c, legs)
                /\ best = None \/ better(evaluated(c, legs), best)
             THEN evaluated(c, legs) ELSE best,
           None, rotations(cycle))

----------------------------------------------------------------------------
(***************************************************************************)
(* The search.                                                             *)
(***************************************************************************)
open(orders, now) ==
  {o \in orders : /\ ~isOrderExpired(o, now)
                  /\ o.offeredAmount > 0 /\ o.requestedAmount > 0
                  /\ o.ask # o.offer}

(* Among the first topK that turn one asset into the other.                *)
contender(orders, o, topK) ==
  Cardinality({p \in orders : /\ p.ask = o.ask /\ p.offer = o.offer
                              /\ \/ betterRate(p, o)
                                 \/ ~betterRate(o, p) /\ p.id < o.id}) < topK

edge(orders, from, to, topK) ==
  {o \in orders : o.ask = from /\ o.offer = to /\ contender(orders, o, topK)}

(* Each pair of assets once.                                               *)
direct(orders) ==
  LET assets == {o.ask : o \in orders} IN
  UNION { edge(orders, p[1], p[2], DirectTopK) \X edge(orders, p[2], p[1], DirectTopK) :
          p \in {q \in assets \X assets : q[1] < q[2]} }

(* Each orientation once: from the smallest of the three assets.           *)
triangular(orders) ==
  LET assets == {o.ask : o \in orders} IN
  UNION { edge(orders, t[1], t[2], TriangularTopK) \X edge(orders, t[2], t[3], TriangularTopK)
            \X edge(orders, t[3], t[1], TriangularTopK) :
          t \in {u \in assets \X assets \X assets :
                   u[1] < u[2] /\ u[1] < u[3] /\ u[2] # u[3]} }

offers(cycle) == FoldLeft(LAMBDA product, o : product * o.offeredAmount, 1, cycle)
asks(cycle)   == FoldLeft(LAMBDA product, o : product * o.requestedAmount, 1, cycle)

rateProductPositive(cycle) == offers(cycle) > asks(cycle)

found(orders) ==
  {c \in direct(orders) \cup triangular(orders) :
     rateProductPositive(c) /\ evaluateCycle(c) # None}

(* Better quoted margins first.  Equal ones are ranked by the order ids.   *)
ids(cycle) == SetToSortSeq({cycle[i].id : i \in DOMAIN cycle}, <)

ids_before(a, b) ==
  LET i == CHOOSE k \in 1..(Max({Len(a), Len(b)}) + 1) :
             /\ k > Len(a) \/ k > Len(b) \/ a[k] # b[k]
             /\ \A j \in 1..(k - 1) : a[j] = b[j]
  IN  IF i > Len(a) \/ i > Len(b) THEN Len(a) < Len(b) ELSE a[i] < b[i]

ranks_higher(c, d) ==
  LET x == (offers(c) - asks(c)) * asks(d)
      y == (offers(d) - asks(d)) * asks(c)
  IN  x > y \/ (x = y /\ ids_before(ids(c), ids(d)))

(* The first of them, each as it is best sized.  A page lists them all,    *)
(* and their places in the list are left out.                              *)
findArbitrage(orders, now) ==
  LET all == found(open(orders, now)) IN
  { evaluateCycle(c) :
      c \in {d \in all : Cardinality({h \in all : ranks_higher(h, d)}) < MaxOpportunities} }

----------------------------------------------------------------------------
(***************************************************************************)
(* Properties of a scan: opportunities over orders at now.                 *)
(***************************************************************************)
Assets(orders) == {o.ask : o \in orders} \cup {o.offer : o \in orders}

(* What a wallet that holds just the anchor's ask has after the first i    *)
(* legs.                                                                   *)
purse(op, i, asset) ==
  (IF op.cycle[1].ask = asset THEN op.legs[1].spend ELSE 0)
    + netOf(op.cycle, SubSeq(op.legs, 1, i), asset)

(* "The cycle funds itself": the scripts accept every leg, no leg needs an *)
(* asset that the wallet has not got from the legs before, and at the end  *)
(* the wallet has all it began with and more.                              *)
SelfFunding(orders, now, op) ==
  LET n == Len(op.legs) IN
  /\ \A i \in 1..n : /\ op.cycle[i] \in orders /\ ~isOrderExpired(op.cycle[i], now)
                     /\ op.legs[i].orderId = op.cycle[i].id
                     /\ fillable(op.cycle[i], op.legs[i])
  /\ Cardinality(selected(op.legs)) = n
  /\ \A i \in 1..n, a \in Assets(orders) : purse(op, i, a) >= 0
  /\ \A a \in Assets(orders) : purse(op, n, a) >= purse(op, 0, a)
  /\ \E a \in Assets(orders) : purse(op, n, a) > purse(op, 0, a)

(***************************************************************************)
(* The reference definition: all ways to take something of every order of  *)
(* a cycle, whole or in part, with no anchor and no order of legs; and     *)
(* those that lose nothing and gain something.                             *)
(***************************************************************************)
taking(o, t) == IF t = o.offeredAmount THEN wholeLeg(o) ELSE partialLeg(o, t)

Sizings(cycle) ==
  {[i \in DOMAIN cycle |-> taking(cycle[i], f[cycle[i]])] :
     f \in {g \in Fills({cycle[i] : i \in DOMAIN cycle}) : \A o \in DOMAIN g : g[o] > 0}}

RisklessSizings(cycle) == {legs \in Sizings(cycle) : isRiskless(cycle, legs)}

Cycles(orders) ==
  {c \in [1..2 -> orders] \cup [1..3 -> orders] :
     LET n == Len(c) IN
     /\ \A i \in 1..n : c[i].offer = c[(i % n) + 1].ask
     /\ \A i, j \in 1..n : i # j => c[i].ask # c[j].ask
     /\ \A i \in 1..n : contender(orders, c[i], IF n = 2 THEN DirectTopK ELSE TriangularTopK)}

reported(scan, c) ==
  {op \in scan : selected(op.legs) = {c[j].id : j \in DOMAIN c}}

(* A cycle that can be filled without loss and with gain is reported,      *)
(* unless there are more than are shown.                                   *)
NothingMissed(orders, now, scan) ==
  Cardinality(scan) < MaxOpportunities =>
    \A c \in Cycles(open(orders, now)) :
      RisklessSizings(c) # {} => reported(scan, c) # {}

(* And it is reported once, trimmed as little as can be.                   *)
LeastTrimmed(orders, now, scan) ==
  \A c \in Cycles(open(orders, now)) :
    /\ Cardinality(reported(scan, c)) <= 1
    /\ \A op \in reported(scan, c), legs \in RisklessSizings(c) :
         Cardinality(partials(op.legs)) <= Cardinality(partials(legs))
=============================================================================
