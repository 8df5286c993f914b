SPECIFICATION Spec
CONSTANTS
  None = None
  Thrown = Thrown
  Alice = Alice
  Bob = Bob
  Main = Main
  Other = Other
  Repairer = Repairer
  Repair = Repairer
  First = Main
  Owners = {Alice}
  TxIds = {1, 2}
  Wallet = {}
  MaxBatch = 2
  MaxHeight = 3
  LastHeight = 2
  Sessions = {Main, Other}
  Confirmations = 2
  MaxAncestry = 64
  Repositories = {"postgres"}
  Repairs = FALSE
  FaultKinds = {"reorg", "restart", "throw", "fetch", "redeemers", "swap"}
  MaxFaults = 2
PROPERTY
  Converges
