CONSTANTS
  w1 = w1
  w2 = w2
  w3 = w3
  m1 = m1
  m2 = m2
  Wallets = {w1, w2}
  NoWallet = NoWallet
  Markets = {}
  Scale = 1
  MaxU64 = 6
  MaxU32 = 2
  PresaleDuration = 1
  GraduationThreshold = 6
  Slope = 2
  PlatformFeeBps = 1
  BpsDenominator = 4
  MaxMarkets = 1
  VaultOwner = "sames"
  InitialLamports = 4
  MaxClock = 1
  Supplies = {5}
  Prices = {1}
  NewPrices = {2}
  Deposits = {1, 2}
  BuyAmounts = {4}
  SellAmounts = {1}
SPECIFICATION Spec
INVARIANTS
  DepositsAddUp
  AllocationsWithinSupply
  EqualSharesPerLamport
PROPERTIES
  AllocationStable
  SolvencyKept
SYMMETRY Symmetry
CHECK_DEADLOCK FALSE
