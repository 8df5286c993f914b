---------------------------- MODULE Planners_proofs ----------------------------
(***************************************************************************)
(* What the endpoints of the planners answer, for every content of the     *)
(* cache, every wish and every reading of the clock.  That an answer still *)
(* answers the request it was made for is the invariant; that the planner  *)
(* plans well is proved in SmartFill_proofs.                               *)
(***************************************************************************)
EXTENDS Planners, SmartFill_proofs, TLAPS

Answered ==
  request # None =>
    /\ request \in Wishes /\ request.limit > 0
    /\ route = planSmartFill(cache, request, MinPartialSpend, moment)

Scanned == opportunities # None => opportunities = findArbitrage(cache, moment)

(* The inductive invariant: the cache is one of the books, a route is the  *)
(* plan for the request over it, and opportunities are those of a scan of  *)
(* it.                                                                     *)
PlannersInv == cache \in Books /\ Answered /\ Scanned

LEMMA PlannersInit == Init => PlannersInv
BY DEF Init, PlannersInv, Answered, Scanned

LEMMA PlannersStep == PlannersInv /\ [Next]_vars => PlannersInv'
<1> SUFFICES ASSUME PlannersInv, [Next]_vars
             PROVE  PlannersInv'
  OBVIOUS
<1>1. CASE Scan
  BY <1>1 DEF Scan, PlannersInv, Answered, Scanned
<1>2. ASSUME NEW w \in Wishes, Quote(w) PROVE PlannersInv'
  BY <1>2 DEF Quote, PlannersInv, Answered, Scanned
<1>3. CASE UNCHANGED vars
  BY <1>3 DEF vars, PlannersInv, Answered, Scanned
<1>4. QED
  BY <1>1, <1>2, <1>3 DEF Next

(* The planner's own theorems apply to every book and every wish.          *)
LEMMA Served ==
  ASSUME PlannersInv, request # None
  PROVE  /\ Orders(cache) /\ request.limit \in Nat /\ MinPartialSpend \in Int
         /\ route = planSmartFill(cache, request, MinPartialSpend, moment)
<1>1. Orders(cache)
  BY PlannersAssumption DEF PlannersInv, Orders
<1>2. request.limit \in Nat /\ MinPartialSpend \in Int
  BY PlannersAssumption DEF PlannersInv, Answered
<1>3. QED
  BY <1>1, <1>2 DEF PlannersInv, Answered

LEMMA ServedWell ==
  PlannersInv => QuoteFillable /\ QuoteServesBudget /\ QuoteServesTarget
<1>1. ASSUME PlannersInv, request # None
      PROVE  LegsFillable(cache, request, moment, route)
  BY <1>1, Served, PlanFillable
<1>2. ASSUME PlannersInv, request # None
      PROVE  /\ WithinBudget(request, route)
             /\ BudgetUsed(cache, request, MinPartialSpend, moment, route)
  BY <1>2, Served, PlanServesBudget
<1>3. ASSUME PlannersInv, request # None
      PROVE  /\ TargetMet(cache, request, moment, route)
             /\ CheapestFill(cache, request, moment, route)
  BY <1>3, Served, PlanMeetsTarget, PlanCheapest
<1>4. QED
  BY <1>1, <1>2, <1>3 DEF QuoteFillable, QuoteServesBudget, QuoteServesTarget

(* Whatever the cache holds, GET /smart-fill answers with legs that the    *)
(* order validator accepts, each on an order of its own.                   *)
THEOREM QuotesFillable == Spec => []QuoteFillable
<1>1. PlannersInv => QuoteFillable
  BY ServedWell
<1>2. QED
  BY PlannersInit, PlannersStep, <1>1, PTL DEF Spec

(* It never plans to spend more than the maximum, and what it leaves pays  *)
(* for nothing more.                                                       *)
THEOREM QuotesServeBudget == Spec => []QuoteServesBudget
<1>1. PlannersInv => QuoteServesBudget
  BY ServedWell
<1>2. QED
  BY PlannersInit, PlannersStep, <1>1, PTL DEF Spec

(* It misses a target only when the book is exhausted, overshoots it only  *)
(* where the last order cannot be divided, and where all orders can be     *)
(* divided nobody gets the target for less.                                *)
THEOREM QuotesServeTarget == Spec => []QuoteServesTarget
<1>1. PlannersInv => QuoteServesTarget
  BY ServedWell
<1>2. QED
  BY PlannersInit, PlannersStep, <1>1, PTL DEF Spec

LEMMA ScannedWell == PlannersInv => CyclesSelfFund
<1> SUFFICES ASSUME PlannersInv, opportunities # None, NEW op \in opportunities
             PROVE  SelfFunding(cache, moment, op)
  BY DEF CyclesSelfFund
<1>1. op \in findArbitrage(cache, moment)
  BY DEF PlannersInv, Scanned
<1>2. Orders(cache)
  BY PlannersAssumption DEF PlannersInv, Orders
<1>3. Riskless(cache, moment, op)
  BY <1>1, <1>2, ReportedRiskless
<1>4. QED
  BY <1>2, <1>3, RisklessFundsItself

(* Whatever the cache holds, each opportunity GET /arbitrage answers with  *)
(* can be taken by a wallet that holds just the price of its first leg:    *)
(* the order validator accepts every leg, no leg needs what the legs       *)
(* before it have not brought, and the wallet ends with more.              *)
THEOREM CyclesFundThemselves == Spec => []CyclesSelfFund
<1>1. PlannersInv => CyclesSelfFund
  BY ScannedWell
<1>2. QED
  BY PlannersInit, PlannersStep, <1>1, PTL DEF Spec
=============================================================================
