SPECIFICATION Spec
CONSTANTS
  None = None
  Thrown = Thrown
  Alice = Alice
  Bob = Bob
  Main = Main
  Other = Other
  Repairer = Repairer
  Repair = Repairer
  First = Main
  Owners = {Alice, Bob}
  TxIds = {1, 2, 3}
  Wallet <- WalletInputs
  MaxBatch = 2
  MaxHeight = 3
  LastHeight = 2
  Sessions = {Main}
  Confirmations = 2
  MaxAncestry = 64
  Repositories = {"postgres", "memory"}
  Repairs = FALSE
  FaultKinds = {}
  MaxFaults = 0
INVARIANTS
  TypeOK
  CacheTrue
  ProvidersAgree
  NeverMisclassified
PROPERTY
  NeverHidesLive
