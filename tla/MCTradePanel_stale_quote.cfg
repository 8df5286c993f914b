SPECIFICATION Spec
CONSTANTS
  None = None
  ADA = ADA
  Gold = Gold
  Pair <- AdaToGold
  Amounts = {2, 4}
  MinPartialSpend = 1
  MaxOrdersPerTx = 1
  MaxEdits = 2
  MaxQuotes = 4
  MaxClicks = 1
  MaxMounts = 1
  InitialBook <- Books
INVARIANT
  MaxSpendShown
