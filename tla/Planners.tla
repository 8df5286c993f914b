------------------------------- MODULE Planners -------------------------------
(***************************************************************************)
(* The endpoints of the two planners: GET /smart-fill                      *)
(* (routes/smart-fill.ts) and GET /arbitrage (routes/arbitrage.ts).  Each  *)
(* reads the cache and answers; one answer is followed here.               *)
(*                                                                         *)
(* What the cache holds is a constant: any set of orders with an id each,  *)
(* whose terms are whole numbers, whatever their signs.  The scan reads it *)
(* pair by pair, and an order never changes its pair, so what it gets is   *)
(* such a set too, if not one that was ever there at once.                 *)
(***************************************************************************)
EXTENDS Arbitrage

CONSTANTS
  Books,            (* what the cache may hold                               *)
  Wishes,           (* what takers may ask for                               *)
  Times,            (* readings of the clock                                 *)
  MinPartialSpend   (* SMART_FILL_MIN_PARTIAL_SPEND                          *)

ASSUME PlannersAssumption ==
  /\ \A b \in Books :
       /\ IsFiniteSet(b)
       /\ \A o \in b : o.id \in Int /\ o.offeredAmount \in Int /\ o.requestedAmount \in Int
       /\ \A o, p \in b : o.id = p.id => o = p
  /\ \A w \in Wishes : w.limit \in Int
  /\ MinPartialSpend \in Int

VARIABLES
  cache,          (* the open orders                                         *)
  moment,         (* the reading of the clock                                *)
  request,        (* what the taker has asked for, or None                   *)
  route,          (* the route of the answer                                 *)
  opportunities   (* the opportunities a scan has found, or None             *)

vars == <<cache, moment, request, route, opportunities>>

Init ==
  /\ cache \in Books /\ moment \in Times
  /\ request = None /\ route = << >> /\ opportunities = None

Unanswered == request = None /\ opportunities = None

(* GET /smart-fill.  What fails validation is refused.                     *)
Quote(w) ==
  /\ Unanswered
  /\ w.spend # w.receive /\ w.limit > 0
  /\ request' = w
  /\ route' = planSmartFill(cache, w, MinPartialSpend, moment)
  /\ UNCHANGED <<cache, moment, opportunities>>

(* GET /arbitrage.                                                         *)
Scan ==
  /\ Unanswered
  /\ opportunities' = findArbitrage(cache, moment)
  /\ UNCHANGED <<cache, moment, request, route>>

Next == Scan \/ \E w \in Wishes : Quote(w)

Spec == Init /\ [][Next]_vars

----------------------------------------------------------------------------
(* Every quote can be settled.                                             *)
QuoteFillable == request # None => LegsFillable(cache, request, moment, route)

(* No quote spends more than the maximum, or leaves budget that could be   *)
(* used.                                                                   *)
QuoteServesBudget ==
  request # None =>
    /\ WithinBudget(request, route)
    /\ BudgetUsed(cache, request, MinPartialSpend, moment, route)

(* A quote meets the target exactly, unless it cannot, and at the least    *)
(* cost there is.                                                          *)
QuoteServesTarget ==
  request # None =>
    /\ TargetMet(cache, request, moment, route)
    /\ CheapestFill(cache, request, moment, route)

(* Every opportunity funds itself and is accepted by the scripts.          *)
CyclesSelfFund ==
  opportunities # None =>
    \A op \in opportunities : SelfFunding(cache, moment, op)

(* No cycle that gains and loses nothing goes unreported; and each is      *)
(* reported once, with as few partial fills as it can do with.             *)
CyclesFound ==
  opportunities # None =>
    /\ NothingMissed(cache, moment, opportunities)
    /\ LeastTrimmed(cache, moment, opportunities)
=============================================================================
