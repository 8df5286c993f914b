SPECIFICATION Spec
CONSTANTS
  ADA = ADA
  Gold = Gold
  Alice = Alice
  Bob = Bob
  Script = Script
  BeaconPolicy = BeaconPolicy
  None = None
  Tokens = {Gold}
  Keys = {Alice, Bob}
  Policies = {BeaconPolicy, EmptyPolicy, GoldPolicy, ForeignPolicy}
  policy_id <- PolicyIds
  EmptyPolicy = EmptyPolicy
  GoldPolicy = GoldPolicy
  Token = Gold
  ForeignPolicy = ForeignPolicy
  TxIds = {1, 2, 3, 4}
  MaxClock = 2
  Offered <- Scenarios
INVARIANTS
  TypeOK
  BeaconsMarkOrders
  SellersPaid
  FillsPaidProRata
  RoundingBounded
  DepositRetained
  PairsTakeable
  NoLateTake
  Reclaimable
PROPERTY
  ImplementsOrderBook
CHECK_DEADLOCK FALSE
