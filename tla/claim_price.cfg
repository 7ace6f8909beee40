CONSTANTS
  w1 = w1
  w2 = w2
  w3 = w3
  m1 = m1
  m2 = m2
  Wallets = {w1, w2}
  NoWallet = NoWallet
  Markets = {}
  Scale = 2
  MaxU64 = 12
  MaxU32 = 4
  PresaleDuration = 1
  GraduationThreshold = 4
  Slope = 1
  PlatformFeeBps = 1
  BpsDenominator = 2
  MaxMarkets = 1
  VaultOwner = "system"
  InitialLamports = 5
  MaxClock = 1
  Supplies = {4}
  Prices = {1}
  NewPrices = {2}
  Deposits = {2}
  BuyAmounts = {}
  SellAmounts = {}
SPECIFICATION Spec
INVARIANTS
  PresaleBuyersEnterAlike
SYMMETRY Symmetry
CHECK_DEADLOCK FALSE
