SPECIFICATION Spec
CONSTANTS
  None = None
  Thrown = Thrown
  Alice = Alice
  Bob = Bob
  Main = Main
  Other = Other
  Repairer = Repairer
  Repair = Repairer
  First = Main
  Owners = {Alice}
  TxIds = {1, 2, 3}
  Wallet = {}
  MaxBatch = 1
  MaxHeight = 2
  LastHeight = 1
  Sessions = {Main}
  Confirmations = 1
  MaxAncestry = 64
  Repositories = {"postgres"}
  Repairs = TRUE
  FaultKinds = {"restart"}
  MaxFaults = 1
INVARIANT
  LinksTrue
PROPERTY
  RepairHeals
