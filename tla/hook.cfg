CONSTANTS
  w1 = w1
  w2 = w2
  m1 = m1
  m2 = m2
  Wallets = {w1, w2}
  NoWallet = NoWallet
  Markets = {m1, m2}
  Scale = 1
  MaxU64 = 7
  MaxU32 = 4
  PresaleDuration = 1
  GraduationThreshold = 4
  Slope = 1
  PlatformFeeBps = 1
  BpsDenominator = 2
  MaxMarkets = 2
  VaultOwner = "system"
  InitialLamports = 5
  MaxClock = 1
  Supplies = {2}
  Prices = {2}
  NewPrices = {1, 3}
  Deposits = {2}
  BuyAmounts = {3}
  SellAmounts = {1}
  HookInstalled = TRUE
  TransferAmounts = {1}
SPECIFICATION HookSpec
INVARIANTS
  VaultIsLedger
PROPERTIES
  NoMarketSaleAtALoss
SYMMETRY Symmetry
CHECK_DEADLOCK FALSE
