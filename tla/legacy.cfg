CONSTANTS
  w1 = w1
  w2 = w2
  w3 = w3
  Wallets = {w1, w2, w3}
  NoWallet = NoWallet
  MaxU64 = 7
  MaxU32 = 3
  MinWindow = 1
  MaxWindow = 2
  RecordPassed = TRUE
  InitialLamports = 3
  MaxClock = 3
  Prices = {1, 2}
  Supplies = {4, 5}
  Windows = {1, 2, 3}
  Deposits = {1, 2, 3}
  TransferAmounts = {1, 2}
SPECIFICATION Spec
INVARIANTS
  TypeOK
  PoolCountsDeposits
  MintedIsHandedOut
  FinalizationStaysOpen
PROPERTIES
  ImplementsFairLaunch
SYMMETRY Symmetry
CHECK_DEADLOCK FALSE
