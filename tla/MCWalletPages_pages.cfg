SPECIFICATION Spec
CONSTANTS
  None = None
  Me = Me
  Other = Other
  Lovelace = 2
  Gold = 1
  InitialBook <- Books
  Starts <- StartsOf
  FeeEstimate = 0
  PartialPaymentLovelace = 0
  DirectTopK = 2
  TriangularTopK = 1
  MaxOpportunities = 2
  Closings = {"unknown", "cancelled"}
  MaxClosed = 1
  MaxSpent = 2
  MaxClicks = 3
  MaxMounts = 2
INVARIANTS
  ClaimsInTurn
  QueueOnlyBehindClaim
  LiveRowsCancellable
  HistoryTrue
  PartialTakesFillable
  ExecutedCyclesPay
PROPERTIES
  QueueMovesOn
CHECK_DEADLOCK FALSE
