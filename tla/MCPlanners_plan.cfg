SPECIFICATION Spec
CONSTANTS
  None = None
  Lovelace = 3
  Gold = 1
  Tin = 2
  FeeEstimate = 1
  PartialPaymentLovelace = 2
  DirectTopK = 2
  TriangularTopK = 1
  MaxOpportunities = 3
  Offered = {1, 3, 4}
  Requested = {1, 2, 3, 5}
  MaxOrders = 3
  CycleAmounts = {2, 3, 5}
  Limits = {1, 2, 3, 4, 5, 6, 7}
  Books <- SmallBooks
  Wishes <- SmallWishes
  Times = {1}
  MinPartialSpend = 2
INVARIANTS
  QuoteFillable
  QuoteServesBudget
  QuoteServesTarget
  CyclesSelfFund
  CyclesFound
CHECK_DEADLOCK FALSE
