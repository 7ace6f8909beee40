--------------------------- MODULE SamesHookProofs ---------------------------
(***************************************************************************)
(* Theorems about the program together with token transfers: what the      *)
(* instructions keep, transfers keep, and with it the transfer hook keeps  *)
(* buyers from markets that pay less than they paid.  Transfers also keep  *)
(* the ledger of the vault and the promises of FairLaunch.                 *)
(***************************************************************************)
EXTENDS SamesHook, SamesFairLaunchProofs

-----------------------------------------------------------------------------
(* Transfers and the launch's invariants *)

HookInv == TypeOK /\ LaunchInvariant /\ EntryIsAverage

LEMMA TransferType ==
  ASSUME TypeOK, NEW from \in Holders, NEW to \in Holders, NEW n \in TransferAmounts,
         Transfer(from, to, n)
  PROVE  TypeOK'
<1>1. n \in Nat /\ n <= holding[from] /\ from # to
  BY HookAssumptions DEF Transfer
<1>2. holding' \in [Holders -> Nat]
  <2>1. holding' = [holding EXCEPT ![from] = @ - n, ![to] = @ + n]
    BY DEF Transfer
  <2>2. holding \in [Holders -> Nat] /\ holding[from] - n \in Nat /\ holding[to] + n \in Nat
    BY <1>1 DEF TypeOK
  <2> QED  BY <1>1, <2>1, <2>2
<1> QED
  BY <1>2 DEF TypeOK, Transfer

LEMMA HookInvStep == HookInv /\ [HookNext]_vars => HookInv'
<1> SUFFICES ASSUME HookInv, [HookNext]_vars PROVE HookInv'
  OBVIOUS
<1>1. CASE [Next]_vars
  BY <1>1, NextType, NextInvariant, NextFloor DEF HookInv
<1>2. ASSUME NEW from \in Holders, NEW to \in Holders, NEW n \in TransferAmounts,
             Transfer(from, to, n)
      PROVE  HookInv'
  <2>1. TypeOK'
    BY <1>2, TransferType DEF HookInv
  <2>2. UNCHANGED <<clock, pool, record, opened>>
    BY <1>2 DEF Transfer
  <2>3. LaunchInvariant'
    BY <2>2
    DEF HookInv, LaunchInvariant, NothingBeforeLaunch, RecordsTellBuyers,
        NoTradesBeforeCurve, AllocationIsShare, PricePositive, SoldWithinBought,
        FirstBuy, Allocation, is_presale_over
  <2>4. EntryIsAverage'
    BY <2>2 DEF HookInv, EntryIsAverage, Paid, Given
  <2> QED  BY <2>1, <2>3, <2>4 DEF HookInv
<1> QED
  BY <1>1, <1>2 DEF HookNext

LEMMA HookInvariance == HookSpec => []HookInv
<1>1. Init => HookInv
  <2>1. Init => EntryIsAverage
    BY DEF Init, EmptyRecord, EntryIsAverage
  <2> QED  BY <2>1, InitType, InitInvariant DEF HookInv
<1> QED
  BY <1>1, HookInvStep, PTL DEF HookSpec

\* What an instruction or a transfer does to the accounts a transfer leaves
\* alone, an instruction does, or nothing.
LEMMA TransferLeaves ==
  ASSUME [HookNext]_vars
  PROVE  [Next]_vars \/ UNCHANGED <<clock, pool, registry, record, opened, vault, supply>>
BY DEF HookNext, Transfer

\* With the vault the System program's, nothing leaves it, whether or not
\* tokens are moved between wallets and markets meanwhile.
THEOREM VaultIsLedgerAcrossTransfers ==
  ASSUME VaultOwner = "system"
  PROVE  HookSpec => []VaultIsLedger
<1>1. Init => VaultIsLedger
  BY DEF Init, NoPool, VaultIsLedger
<1>2. HookInv /\ VaultIsLedger /\ [HookNext]_vars => VaultIsLedger'
  BY TransferLeaves, NextLedger DEF HookInv, VaultIsLedger
<1> QED
  BY <1>1, <1>2, HookInvariance, PTL DEF HookSpec

\* The total of the deposits stays the sum of the records.
LEMMA DepositsAddUpAcrossTransfers == HookSpec => []DepositsAddUp
<1>1. Init => DepositsAddUp
  BY InitTotals DEF Init, NoPool, SummedFields, DepositsAddUp
<1>2. HookInv /\ DepositsAddUp /\ [HookNext]_vars => DepositsAddUp'
  BY TransferLeaves, NextDepositsAddUp DEF HookInv, DepositsAddUp, Total
<1> QED
  BY <1>1, <1>2, HookInvariance, PTL DEF HookSpec

\* Moving tokens about breaks no promise of FairLaunch: what a buyer may sell
\* is told from the records, not from where the tokens are.
THEOREM PromisesKeptAcrossTransfers == HookSpec => ImplementsFairLaunch
<1>1. Init => Fair!Init
  BY InitRefines
<1>2. HookInv /\ DepositsAddUp /\ [HookNext]_vars => [Fair!Next]_(Fair!vars)
  <2> SUFFICES ASSUME HookInv, DepositsAddUp, [HookNext]_vars PROVE [Fair!Next]_(Fair!vars)
    OBVIOUS
  <2>1. CASE [Next]_vars
    BY <2>1, NextRefines, SumCoversEach DEF HookInv
  <2>2. CASE UNCHANGED <<clock, pool, registry, record, opened, vault, supply>>
    BY <2>2, PhaseStays DEF Fair!vars
  <2> QED  BY <2>1, <2>2, TransferLeaves
<1> QED
  BY <1>1, <1>2, HookInvariance, DepositsAddUpAcrossTransfers, PTL
  DEF HookSpec, ImplementsFairLaunch, Fair!Spec

-----------------------------------------------------------------------------
(* The hook *)

\* Only a transfer moves tokens out of a wallet and into a market's account:
\* an instruction mints to one account, whosever it is, or burns from one.
LEMMA OnlyTransfersReachMarkets ==
  ASSUME HookInv, Next, pool.status = "BondingCurve",
         NEW w \in Wallets, NEW m \in Markets,
         holding'[w] < holding[w], holding'[m] > holding[m]
  PROVE  FALSE
<1>1. /\ w \in Holders /\ m \in Holders /\ w # m
      /\ holding \in [Holders -> Nat] /\ holding[w] \in Nat /\ holding[m] \in Nat
  BY HookAssumptions DEF HookInv, TypeOK, Holders
<1>2. CASE UNCHANGED holding
  BY <1>1, <1>2
<1>3. ASSUME NEW to \in Holders, NEW n \in Nat, holding' = [holding EXCEPT ![to] = @ + n]
      PROVE  FALSE
  BY <1>1, <1>3
<1>4. ASSUME NEW v \in Wallets, NEW a \in BuyAmounts, NEW to \in Holders, BuyCurve(v, a, to)
      PROVE  FALSE
  <2> DEFINE n == bonding_curve_tokens_for_sol(pool.price_lamports, Slope,
                                               pool.tokens_sold_curve, a)
  <2>1. n \in 1 .. MaxU64 /\ holding' = [holding EXCEPT ![to] = @ + n]
    BY <1>4 DEF BuyCurve, MintTo
  <2> HIDE DEF n
  <2>2. n \in Nat
    BY <2>1, MaxU64Assumption
  <2> QED  BY <1>3, <2>1, <2>2
<1>5. ASSUME NEW v \in Wallets, NEW b \in Wallets, NEW to \in Holders,
             FinalizeLaunch(v, b, to)
      PROVE  FALSE
  BY <1>5 DEF FinalizeLaunch
<1>6. ASSUME NEW v \in Wallets, NEW a \in SellAmounts, SellCurve(v, a)
      PROVE  FALSE
  <2>1. a \in Nat /\ v # m /\ holding' = [holding EXCEPT ![v] = @ - a]
    BY <1>1, <1>6, ConstantTypes, HookAssumptions DEF SellCurve, Burn, Holders
  <2> QED  BY <1>1, <2>1
<1> QED
  BY <1>2, <1>4, <1>5, <1>6
  DEF Next, chain, Tick, Graduate, CreateLaunch, BuyPresale, StartBondingCurve,
      UpdatePrice, RegisterMarket

\* While the curve runs, no buyer who bought on it brings tokens to a
\* registered market at a price a whole lamport below the average paid.
THEOREM NoLossAtMarkets == HookSpec => NoMarketSaleAtALoss
<1> DEFINE Reaches(w, m) ==
             /\ HookInstalled
             /\ pool.status = "BondingCurve"
             /\ is_market_transfer(m)
             /\ holding'[w] < holding[w] /\ holding'[m] > holding[m]
             /\ record[w].curve_tokens_bought > 0
             /\ Fits(Paid(w)) /\ Fits(Given(w))
           Affordable(w) == Paid(w) < (pool.price_lamports + 1) * Given(w)
<1>1. HookInv /\ [HookNext]_vars
        => [\A w \in Wallets, m \in Markets : Reaches(w, m) => Affordable(w)]_vars
  <2> SUFFICES ASSUME HookInv, [HookNext]_vars, NEW w \in Wallets, NEW m \in Markets,
                      Reaches(w, m)
               PROVE  Affordable(w)
    OBVIOUS
  <2>1. w \in Holders /\ m \in Holders /\ w # m
        /\ holding \in [Holders -> Nat] /\ holding[w] \in Nat /\ holding[m] \in Nat
    BY HookAssumptions DEF HookInv, TypeOK, Holders
  <2>2. ~ UNCHANGED vars
    BY <2>1 DEF vars, chain
  <2>3. ~ Next
    BY OnlyTransfersReachMarkets
  <2>4. PICK from \in Holders, to \in Holders, n \in TransferAmounts : Transfer(from, to, n)
    BY <2>2, <2>3 DEF HookNext
  <2>5. /\ n \in Nat /\ from # to
        /\ holding' = [holding EXCEPT ![from] = @ - n, ![to] = @ + n]
        /\ HookAllows(from, to)
    BY <2>4, HookAssumptions DEF Transfer
  <2>6. from = w
    BY <2>1, <2>5
  <2>7. to = m
    BY <2>1, <2>5
  <2>8. w \in opened
    <3>1. ~ FirstBuy(w)
      BY RecordTypes DEF HookInv, LaunchInvariant, RecordsTellBuyers
    <3> QED  BY <3>1 DEF HookInv, LaunchInvariant, RecordsTellBuyers
  <2>9. pool.price_lamports >= record[w].entry_price
    BY <2>5, <2>6, <2>7, <2>8 DEF HookAllows, HasFloor, InBondingCurve
  <2>10. record[w].entry_price = Paid(w) \div Given(w)
    BY DEF HookInv, EntryIsAverage
  <2>11. Paid(w) \in Nat /\ Given(w) \in Nat \ {0} /\ pool.price_lamports \in Nat
    <3>1. /\ record[w].sol_deposited \in Nat /\ record[w].curve_sol_spent \in Nat
          /\ record[w].tokens_allocated \in Nat /\ record[w].curve_tokens_bought \in Nat
      BY RecordTypes DEF HookInv
    <3>2. pool.price_lamports \in Nat
      BY ConstantTypes DEF HookInv, TypeOK, LaunchPool
    <3> QED  BY <3>1, <3>2 DEF Paid, Given
  <2> DEFINE paid == Paid(w)
             given == Given(w)
             price == pool.price_lamports
  <2> HIDE DEF paid, given, price
  <2>12. ASSUME NEW p \in Nat, NEW g \in Nat \ {0}, NEW q \in Nat, q >= p \div g
         PROVE  p < (q + 1) * g
    <3>1. p < (p \div g + 1) * g /\ p \div g \in Nat
      OBVIOUS
    <3>2. \A x \in Nat, y \in Nat, z \in Nat : x <= y => x * z <= y * z
      OBVIOUS
    <3>3. (p \div g + 1) * g <= (q + 1) * g
      BY <2>12, <3>1, <3>2
    <3> QED
      <4>1. (p \div g + 1) * g \in Nat /\ (q + 1) * g \in Nat
        BY <3>1, MulNat
      <4> QED  BY <3>1, <3>3, <4>1
  <2> QED
    BY <2>9, <2>10, <2>11, <2>12
<1> QED
  BY <1>1, HookInvariance, PTL DEF HookSpec, NoMarketSaleAtALoss

=============================================================================
