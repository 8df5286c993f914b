SPECIFICATION BuilderSpec
CONSTANTS
  ADA = ADA
  Gold = Gold
  Alice = Alice
  Bob = Bob
  Script = Script
  BeaconPolicy = BeaconPolicy
  None = None
  Tokens = {Gold}
  Keys = {Alice, Bob}
  Policies = {BeaconPolicy, EmptyPolicy, ForeignPolicy}
  policy_id <- PolicyIds
  EmptyPolicy = EmptyPolicy
  ForeignPolicy = ForeignPolicy
  TxIds = {1, 2, 3}
  MaxClock = 4
  DepositLovelace = 2
  PartialPaymentLovelace = 2
  MaxOrdersPerTx = 2
  SlotLength = 2
  MinAda = 2
  CreateRequests <- Requests
  TakeRequests <- Batches
  Offered <- Others
INVARIANTS
  OnlyStaleRefused
  QuoteHonest
  BookServed
