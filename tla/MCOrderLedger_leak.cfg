SPECIFICATION Spec
CONSTANTS
  ADA = ADA
  Gold = Gold
  Alice = Alice
  Bob = Bob
  Script = Script
  BeaconPolicy = BeaconPolicy
  None = None
  Tokens = {Gold, Silver}
  Keys = {Alice, Bob}
  Policies = {BeaconPolicy, EmptyPolicy, GoldPolicy, ForeignPolicy}
  policy_id <- PolicyIds
  EmptyPolicy = EmptyPolicy
  GoldPolicy = GoldPolicy
  Token = Silver
  ForeignPolicy = ForeignPolicy
  TxIds = {1, 2}
  MaxClock = 0
  Offered <- Imitating
INVARIANT
  BeaconsNeverLeak
CHECK_DEADLOCK FALSE
