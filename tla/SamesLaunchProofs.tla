-------------------------- MODULE SamesLaunchProofs --------------------------
(***************************************************************************)
(* Theorems about SamesLaunch, for every value of its constants: the type  *)
(* invariant, the invariant that makes the others inductive, and from it   *)
(* what a sequence of instructions may never do.                           *)
(***************************************************************************)
EXTENDS SamesLaunch, ShareArithmetic, FiniteSetTheorems, TLAPS

-----------------------------------------------------------------------------
(* Arithmetic *)

\* Saturating operations stay in u64.
LEMMA SatType ==
  ASSUME NEW a \in U64, NEW c \in U64
  PROVE  /\ SatAdd(a, c) \in U64
         /\ SatAdd(a, c) <= a + c
         /\ SatSub(a, c) \in U64
         /\ SatSub(a, c) <= a
BY MaxU64Assumption DEF SatAdd, SatSub, U64

\* The cost of tokens is a natural, and nothing but no tokens is free.
LEMMA CostType ==
  ASSUME NEW p \in Nat, NEW s \in Nat, NEW t \in Nat, NEW a \in Nat
  PROVE  /\ bonding_curve_cost(p, s, t, a) \in Nat
         /\ p > 0 /\ a > 0 => bonding_curve_cost(p, s, t, a) > 0
<1> DEFINE num == s * a * (2 * t + a)
<1>1. p * a \in Nat /\ (p > 0 /\ a > 0 => p * a > 0)
  BY MulNat
<1>2. s * a \in Nat
  BY MulNat
<1>3. 2 * t + a \in Nat
  OBVIOUS
<1>4. num \in Nat
  BY <1>2, <1>3, MulNat
<1>5. 2 * Scale \in Nat \ {0}
  BY ScaleAssumption
<1>6. num \div (2 * Scale) \in Nat
  <2> HIDE DEF num
  <2> QED  BY <1>4, <1>5, DivNat
<1> QED
  BY <1>1, <1>6 DEF bonding_curve_cost

\* What a sale pays is no more than what it is worth, and is more than
\* nothing when the sale is worth something.
LEMMA FeeBound ==
  ASSUME NEW raw \in Nat
  PROVE  /\ Fee(raw) \in Nat
         /\ Fee(raw) <= raw
         /\ raw > 0 => Fee(raw) < raw
<1> DEFINE d == BpsDenominator
           f == PlatformFeeBps
           q == (raw * f) \div d
<1>1. d \in Nat \ {0} /\ f \in Nat /\ f < d
  BY LaunchAssumptions
<1>2. raw * f \in Nat
  BY <1>1, MulNat
<1>3. q \in Nat /\ q * d <= raw * f
  <2> HIDE DEF d, f
  <2> QED  BY <1>1, <1>2 
<1>4. raw > 0 => raw * f < raw * d
  <2> HIDE DEF d, f
  <2> QED  BY <1>1
<1>5. raw > 0 => q < raw
  <2> SUFFICES ASSUME raw > 0, q >= raw PROVE FALSE
    BY <1>3
  <2>1. q * d >= raw * d
    <3> HIDE DEF q, d
    <3> QED  BY <1>1, <1>3
  <2> QED
    <3> HIDE DEF q, d, f
    <3> QED  BY <2>1, <1>1, <1>2, <1>3, <1>4, MulNat
<1>6. raw = 0 => q = 0
  <2> HIDE DEF d, f
  <2> QED BY <1>1
<1> QED
  BY <1>3, <1>5, <1>6 DEF Fee

-----------------------------------------------------------------------------
(* Type correctness *)

\* The types of the constants, as the proofs use them.
LEMMA ConstantTypes ==
  /\ U64 \subseteq Nat
  /\ 0 \in U64
  /\ Slope \in U64
  /\ GraduationThreshold \in U64
  /\ PresaleDuration \in Nat \ {0}
  /\ {MaxMarkets, MaxU32, InitialLamports} \subseteq Nat
  /\ Supplies \subseteq U64 /\ Prices \subseteq U64 /\ NewPrices \subseteq U64
  /\ Deposits \subseteq U64 /\ BuyAmounts \subseteq U64 /\ SellAmounts \subseteq U64
  /\ Wallets \subseteq Holders
  /\ NoWallet \notin Wallets
BY MaxU64Assumption, LaunchAssumptions DEF U64, Holders

LEMMA InitType == Init => TypeOK
<1> SUFFICES ASSUME Init PROVE TypeOK
  OBVIOUS
<1>1. pool \in LaunchPool
  BY ConstantTypes DEF Init, NoPool, LaunchPool, LaunchStatus
<1>2. registry \in MarketRegistry /\ Len(registry.market_accounts) <= MaxMarkets
  BY ConstantTypes DEF Init, MarketRegistry
<1>3. record \in [Wallets -> BuyerRecord]
  BY ConstantTypes DEF Init, EmptyRecord, BuyerRecord
<1> QED
  BY <1>1, <1>2, <1>3, ConstantTypes DEF Init, TypeOK

LEMMA CreateLaunchType ==
  ASSUME TypeOK, NEW w \in Wallets, NEW s \in Supplies, NEW p \in Prices,
         CreateLaunch(w, s, p)
  PROVE  TypeOK'
<1>1. pool' \in LaunchPool
  <2>1. clock \in Nat /\ clock + PresaleDuration \in Nat
    BY ConstantTypes DEF TypeOK
  <2>2. s \in U64 /\ p \in U64 /\ 0 \in U64 /\ 0 \in 0 .. MaxU32
    BY ConstantTypes
  <2> HIDE DEF U64
  <2> QED
    BY <2>1, <2>2 DEF CreateLaunch, NoPool, LaunchPool, LaunchStatus
<1>2. registry' \in MarketRegistry /\ Len(registry'.market_accounts) <= MaxMarkets
  BY ConstantTypes DEF CreateLaunch, MarketRegistry
<1> QED
  BY <1>1, <1>2 DEF TypeOK, CreateLaunch

LEMMA BuyPresaleType ==
  ASSUME TypeOK, NEW w \in Wallets, NEW a \in Deposits, BuyPresale(w, a)
  PROVE  TypeOK'
<1>1. a \in U64
  BY ConstantTypes
<1>2. lamports' \in [Wallets -> Nat] /\ vault' \in Nat
  BY <1>1, ConstantTypes DEF TypeOK, BuyPresale, TransferToVault
<1>3. pool' \in LaunchPool
  <2> DEFINE total == pool.total_sol_collected + a
             count == IF FirstBuy(w) THEN pool.buyer_count + 1 ELSE pool.buyer_count
  <2>1. total \in U64
    <3>1. pool.total_sol_collected \in U64
      BY DEF TypeOK, LaunchPool
    <3>2. Fits(total)
      BY DEF BuyPresale
    <3> QED  BY <1>1, <3>1, <3>2, MaxU64Assumption DEF Fits, U64
  <2>2. count \in 0 .. MaxU32
    <3>1. pool.buyer_count \in 0 .. MaxU32 /\ MaxU32 \in Nat
      BY ConstantTypes DEF TypeOK, LaunchPool
    <3>2. FirstBuy(w) => pool.buyer_count < MaxU32
      BY DEF BuyPresale
    <3> QED  BY <3>1, <3>2
  <2>3. pool' = [pool EXCEPT !.total_sol_collected = total, !.buyer_count = count]
    BY DEF BuyPresale
  <2> HIDE DEF total, count
  <2> QED
    BY <2>1, <2>2, <2>3 DEF TypeOK, LaunchPool
<1>4. record' \in [Wallets -> BuyerRecord]
  <2> DEFINE fresh == [EmptyRecord EXCEPT !.sol_deposited = record[w].sol_deposited,
                                          !.entry_price = pool.price_lamports]
             old == IF FirstBuy(w) THEN fresh ELSE record[w]
             deposit == old.sol_deposited + a
  <2>1. fresh \in BuyerRecord
    BY ConstantTypes DEF TypeOK, LaunchPool, BuyerRecord, EmptyRecord
  <2>2. old \in BuyerRecord
    BY <2>1 DEF TypeOK
  <2>3. record' = [record EXCEPT ![w] = WithDeposit(old, a)] /\ Fits(deposit)
    BY DEF BuyPresale
  <2> HIDE DEF fresh, old
  <2>4. deposit \in U64
    BY <1>1, <2>2, <2>3 DEF BuyerRecord, Fits, U64
  <2>5. WithDeposit(old, a) = [old EXCEPT !.sol_deposited = deposit]
    BY DEF WithDeposit
  <2> HIDE DEF deposit
  <2>6. WithDeposit(old, a) \in BuyerRecord
    BY <2>2, <2>4, <2>5 DEF BuyerRecord
  <2> QED
    BY <2>3, <2>6 DEF TypeOK
<1> QED
  BY <1>2, <1>3, <1>4 DEF TypeOK, BuyPresale

LEMMA FinalizeLaunchType ==
  ASSUME TypeOK, NEW w \in Wallets, NEW b \in Wallets, NEW to \in Holders,
         FinalizeLaunch(w, b, to)
  PROVE  TypeOK'
<1> DEFINE tokens == Allocation(record[b].sol_deposited)
<1>1. record[b].sol_deposited * pool.total_supply \in Nat
  BY ConstantTypes, MulNat DEF TypeOK, LaunchPool, BuyerRecord
<1>2. tokens \in U64
  <2>1. pool.total_sol_collected \in Nat \ {0}
    BY ConstantTypes DEF TypeOK, FinalizeLaunch, LaunchPool
  <2>2. (record[b].sol_deposited * pool.total_supply) \div pool.total_sol_collected \in Nat
    BY <1>1, <2>1, DivNat
  <2> QED
    BY <2>2, MaxU64Assumption, ModNat DEF Allocation, U64
<1>3. record' \in [Wallets -> BuyerRecord]
  BY <1>2 DEF TypeOK, FinalizeLaunch, LaunchPool, BuyerRecord
<1>4. supply' \in U64 /\ holding' \in [Holders -> Nat]
  <2> HIDE DEF tokens
  <2>1. MintTo(to, tokens)
    BY DEF tokens, FinalizeLaunch
  <2>2. tokens \in Nat
    BY <1>2, ConstantTypes
  <2> QED
    BY <2>1, <2>2, ConstantTypes DEF TypeOK, MintTo, Fits, U64
<1> QED
  BY <1>3, <1>4 DEF TypeOK, FinalizeLaunch

LEMMA BuyCurveType ==
  ASSUME TypeOK, NEW w \in Wallets, NEW a \in BuyAmounts, NEW to \in Holders,
         BuyCurve(w, a, to)
  PROVE  TypeOK'
<1> DEFINE sold == pool.tokens_sold_curve
           tokens == bonding_curve_tokens_for_sol(pool.price_lamports, Slope, sold, a)
           c == bonding_curve_cost(pool.price_lamports, Slope, sold, tokens)
           old == IF FirstBuy(w)
                  THEN [record[w] EXCEPT !.tokens_allocated = 0, !.tokens_sold = 0]
                  ELSE record[w]
           spent == old.curve_sol_spent + c
           bought == old.curve_tokens_bought + tokens
           new == [old EXCEPT !.curve_sol_spent = spent, !.curve_tokens_bought = bought]
           count == IF FirstBuy(w) THEN pool.buyer_count + 1 ELSE pool.buyer_count
<1>1. /\ tokens \in 1 .. MaxU64 /\ Fits(c)
      /\ TransferToVault(w, c) /\ MintTo(to, tokens)
      /\ Fits(sold + tokens) /\ Fits(pool.curve_sol_collected + c)
      /\ FirstBuy(w) => pool.buyer_count < MaxU32
      /\ Fits(spent) /\ Fits(bought)
      /\ pool' = [pool EXCEPT !.tokens_sold_curve = sold + tokens,
                              !.curve_sol_collected = pool.curve_sol_collected + c,
                              !.buyer_count = count]
      /\ record' = [record EXCEPT ![w] = [new EXCEPT !.entry_price = AverageEntry(new)]]
      /\ opened' = opened \cup {w}
      /\ UNCHANGED <<clock, registry>>
  BY DEF BuyCurve
<1>2. pool \in LaunchPool /\ record[w] \in BuyerRecord
  BY DEF TypeOK
<1>3. tokens \in Nat \ {0} /\ tokens \in U64
  BY <1>1, MaxU64Assumption DEF U64
<1>4. c \in Nat
  <2> HIDE DEF tokens
  <2> QED  BY <1>2, <1>3, ConstantTypes, CostType DEF LaunchPool
<1> HIDE DEF tokens, c
<1>5. lamports' \in [Wallets -> Nat] /\ vault' \in Nat
  BY <1>1, <1>4 DEF TypeOK, TransferToVault
<1>6. supply' \in U64 /\ holding' \in [Holders -> Nat]
  <2>1. supply' = supply + tokens /\ Fits(supply + tokens)
    BY <1>1 DEF MintTo
  <2>2. supply' \in U64
    BY <1>3, <2>1, MaxU64Assumption DEF TypeOK, Fits, U64
  <2>3. holding' = [holding EXCEPT ![to] = @ + tokens] /\ to \in Holders
    BY <1>1, ConstantTypes DEF MintTo
  <2>4. holding' \in [Holders -> Nat]
    BY <1>3, <2>3 DEF TypeOK
  <2> QED  BY <2>2, <2>4
<1>7. old \in BuyerRecord
  BY <1>2, ConstantTypes DEF BuyerRecord
<1>8. spent \in U64 /\ bought \in U64
  <2>1. old.curve_sol_spent \in U64 /\ old.curve_tokens_bought \in U64
    BY <1>7 DEF BuyerRecord
  <2> HIDE DEF old
  <2> QED  BY <2>1, <1>1, <1>3, <1>4 DEF Fits, U64
<1>9. new \in BuyerRecord /\ new.curve_tokens_bought > 0
  <2>1. bought > 0
    <3>1. old.curve_tokens_bought \in U64
      BY <1>7 DEF BuyerRecord
    <3> HIDE DEF old
    <3> QED  BY <3>1, <1>3 DEF U64
  <2> HIDE DEF old, spent, bought
  <2> QED  BY <1>7, <1>8, <2>1 DEF BuyerRecord
<1>10. AverageEntry(new) \in U64
  <2> HIDE DEF new
  <2> DEFINE paid == SatAdd(new.sol_deposited, new.curve_sol_spent)
             got  == SatAdd(new.tokens_allocated, new.curve_tokens_bought)
  <2>1. paid \in U64
    BY <1>9, SatType DEF BuyerRecord
  <2>2. got \in U64 \ {0}
    BY <1>9, MaxU64Assumption DEF BuyerRecord, SatAdd, U64
  <2> HIDE DEF paid, got
  <2>3. paid \div got \in 0 .. paid
    BY <2>1, <2>2, ConstantTypes, DivNat
  <2> QED
    <3>1. paid \div got \in U64
      BY <2>1, <2>3, MaxU64Assumption DEF U64
    <3> QED  BY <3>1 DEF AverageEntry, paid, got
<1>11. record' \in [Wallets -> BuyerRecord]
  <2> HIDE DEF new
  <2>1. [new EXCEPT !.entry_price = AverageEntry(new)] \in BuyerRecord
    BY <1>9, <1>10 DEF BuyerRecord
  <2> QED  BY <1>1, <2>1 DEF TypeOK
<1>12. pool' \in LaunchPool
  <2>1. sold + tokens \in U64 /\ pool.curve_sol_collected + c \in U64
    BY <1>1, <1>2, <1>3, <1>4 DEF LaunchPool, Fits, U64
  <2>2. count \in 0 .. MaxU32
    BY <1>1, <1>2, ConstantTypes DEF LaunchPool
  <2> DEFINE position == sold + tokens
             collected == pool.curve_sol_collected + c
  <2> HIDE DEF position, collected, count
  <2>3. pool' = [pool EXCEPT !.tokens_sold_curve = position,
                            !.curve_sol_collected = collected,
                            !.buyer_count = count]
    BY <1>1 DEF position, collected, count
  <2> QED  BY <1>2, <2>1, <2>2, <2>3 DEF LaunchPool, position, collected
<1> QED
  BY <1>1, <1>5, <1>6, <1>11, <1>12 DEF TypeOK

LEMMA SellCurveType ==
  ASSUME TypeOK, NEW w \in Wallets, NEW a \in SellAmounts, SellCurve(w, a)
  PROVE  TypeOK'
<1>1. a \in U64 /\ pool \in LaunchPool /\ record[w] \in BuyerRecord
  BY ConstantTypes DEF TypeOK
<1>2. SellRaw(a) \in U64
  <2>1. SatSub(pool.tokens_sold_curve, a) \in U64
    BY <1>1, SatType DEF LaunchPool
  <2>2. SellRaw(a) \in Nat
    BY <1>1, <2>1, ConstantTypes, CostType DEF SellRaw, LaunchPool
  <2> QED  BY <2>2 DEF SellCurve, SellAllowed, Fits, U64
<1>3. SellReturn(a) \in Nat
  <2> DEFINE raw == SellRaw(a)
  <2>1. raw \in Nat
    BY <1>2, ConstantTypes
  <2> HIDE DEF raw
  <2>2. SatSub(raw, Fee(raw)) \in Nat
    BY <2>1, FeeBound DEF SatSub
  <2> QED  BY <2>2 DEF SellReturn, raw
<1>4. lamports' \in [Wallets -> Nat] /\ vault' \in Nat
  BY <1>3 DEF TypeOK, SellCurve, DebitVault
<1>5. supply' \in U64 /\ holding' \in [Holders -> Nat]
  <2>1. /\ a <= holding[w] /\ a <= supply
        /\ supply' = supply - a
        /\ holding' = [holding EXCEPT ![w] = @ - a]
    BY DEF SellCurve, Burn
  <2>2. w \in Holders /\ a \in Nat
    BY <1>1, ConstantTypes
  <2>3. supply' \in U64
    BY <1>1, <2>1, MaxU64Assumption DEF TypeOK, U64
  <2>4. holding' \in [Holders -> Nat]
    BY <2>1, <2>2 DEF TypeOK
  <2> QED  BY <2>3, <2>4
<1>6. pool' \in LaunchPool
  <2>1. /\ SatSub(pool.tokens_sold_curve, a) \in U64
        /\ SatSub(pool.curve_sol_collected, SellRaw(a)) \in U64
    BY <1>1, <1>2, SatType DEF LaunchPool
  <2> QED  BY <1>1, <2>1 DEF SellCurve, LaunchPool
<1>7. record' \in [Wallets -> BuyerRecord]
  <2> DEFINE sold == record[w].tokens_sold + a
  <2>1. sold \in U64
    BY <1>1 DEF SellCurve, BuyerRecord, Fits, U64
  <2>2. record' = [record EXCEPT ![w].tokens_sold = sold]
    BY DEF SellCurve
  <2> HIDE DEF sold
  <2> QED  BY <2>1, <2>2 DEF TypeOK, BuyerRecord
<1> QED
  BY <1>4, <1>5, <1>6, <1>7 DEF TypeOK, SellCurve

LEMMA StatusType ==
  ASSUME TypeOK
  PROVE  /\ \A w \in Wallets : StartBondingCurve(w) => TypeOK'
         /\ Graduate => TypeOK'
         /\ Tick => TypeOK'
<1>1. ASSUME NEW w \in Wallets, StartBondingCurve(w) PROVE TypeOK'
  BY <1>1 DEF TypeOK, StartBondingCurve, LaunchPool, LaunchStatus
<1>2. Graduate => TypeOK'
  BY DEF TypeOK, Graduate, LaunchPool, LaunchStatus
<1>3. Tick => TypeOK'
  BY DEF TypeOK, Tick, chain
<1> QED
  BY <1>1, <1>2, <1>3

LEMMA UpdatePriceType ==
  ASSUME TypeOK, NEW w \in Wallets, NEW p \in NewPrices, UpdatePrice(w, p)
  PROVE  TypeOK'
BY ConstantTypes DEF TypeOK, UpdatePrice, LaunchPool

LEMMA RegisterMarketType ==
  ASSUME TypeOK, NEW w \in Wallets, NEW m \in Markets, RegisterMarket(w, m)
  PROVE  TypeOK'
<1> DEFINE accounts == Append(registry.market_accounts, m)
<1>1. registry.market_accounts \in Seq(Markets) /\ MaxMarkets \in Nat
  BY ConstantTypes DEF TypeOK, MarketRegistry
<1>2. accounts \in Seq(Markets) /\ Len(accounts) <= MaxMarkets
  BY <1>1 DEF RegisterMarket
<1>3. registry' = [registry EXCEPT !.market_accounts = accounts]
  BY DEF RegisterMarket
<1> HIDE DEF accounts
<1>4. registry' \in MarketRegistry /\ registry'.market_accounts = accounts
  BY <1>2, <1>3 DEF TypeOK, MarketRegistry
<1> QED
  BY <1>2, <1>4 DEF TypeOK, RegisterMarket

LEMMA NextType == TypeOK /\ [Next]_vars => TypeOK'
<1> SUFFICES ASSUME TypeOK, [Next]_vars PROVE TypeOK'
  OBVIOUS
<1>1. CASE Tick \/ Graduate
  BY <1>1, StatusType
<1>2. ASSUME NEW w \in Wallets, NEW s \in Supplies, NEW p \in Prices, CreateLaunch(w, s, p)
      PROVE  TypeOK'
  BY <1>2, CreateLaunchType
<1>3. ASSUME NEW w \in Wallets, NEW a \in Deposits, BuyPresale(w, a) PROVE TypeOK'
  BY <1>3, BuyPresaleType
<1>4. ASSUME NEW w \in Wallets, NEW b \in Wallets, NEW to \in Holders,
             FinalizeLaunch(w, b, to)
      PROVE  TypeOK'
  BY <1>4, FinalizeLaunchType
<1>5. ASSUME NEW w \in Wallets, StartBondingCurve(w) PROVE TypeOK'
  BY <1>5, StatusType
<1>6. ASSUME NEW w \in Wallets, NEW a \in BuyAmounts, NEW to \in Holders, BuyCurve(w, a, to)
      PROVE  TypeOK'
  BY <1>6, BuyCurveType
<1>7. ASSUME NEW w \in Wallets, NEW a \in SellAmounts, SellCurve(w, a) PROVE TypeOK'
  BY <1>7, SellCurveType
<1>8. ASSUME NEW w \in Wallets, NEW p \in NewPrices, UpdatePrice(w, p) PROVE TypeOK'
  BY <1>8, UpdatePriceType
<1>9. ASSUME NEW w \in Wallets, NEW m \in Markets, RegisterMarket(w, m) PROVE TypeOK'
  BY <1>9, RegisterMarketType
<1>10. CASE UNCHANGED vars
  BY <1>10 DEF TypeOK, vars, chain
<1> QED
  BY <1>1, <1>2, <1>3, <1>4, <1>5, <1>6, <1>7, <1>8, <1>9, <1>10 DEF Next

\* Every account holds what its Rust type can hold, whatever the wallets
\* submit: no counter of lib.rs overflows or goes below zero.
THEOREM TypeCorrect == Spec => []TypeOK
<1>1. Init => TypeOK
  BY InitType
<1>2. TypeOK /\ [Next]_vars => TypeOK'
  BY NextType
<1> QED
  BY <1>1, <1>2, PTL DEF Spec

-----------------------------------------------------------------------------
(* What the trading instructions do to the records *)

\* The history of v, without the derived entry price.
SameHistory(v) ==
  /\ record'[v].sol_deposited = record[v].sol_deposited
  /\ record'[v].tokens_allocated = record[v].tokens_allocated
  /\ record'[v].tokens_sold = record[v].tokens_sold
  /\ record'[v].curve_sol_spent = record[v].curve_sol_spent
  /\ record'[v].curve_tokens_bought = record[v].curve_tokens_bought

LEMMA RecordTypes ==
  ASSUME TypeOK, NEW w \in Wallets
  PROVE  /\ record[w] \in BuyerRecord
         /\ record[w].sol_deposited \in Nat
         /\ record[w].tokens_allocated \in Nat
         /\ record[w].tokens_sold \in Nat
         /\ record[w].curve_sol_spent \in Nat
         /\ record[w].curve_tokens_bought \in Nat
BY ConstantTypes DEF TypeOK, BuyerRecord

\* A presale deposit changes the history of its buyer by the deposit alone:
\* the fields the first deposit resets are zero already.
LEMMA BuyPresaleEffect ==
  ASSUME TypeOK, RecordsTellBuyers,
         NEW w \in Wallets, NEW a \in Deposits, BuyPresale(w, a)
  PROVE  /\ a \in Nat \ {0}
         /\ \A v \in Wallets \ {w} : record'[v] = record[v]
         /\ record'[w].sol_deposited = record[w].sol_deposited + a
         /\ record'[w].tokens_allocated = record[w].tokens_allocated
         /\ record'[w].tokens_sold = record[w].tokens_sold
         /\ record'[w].curve_sol_spent = record[w].curve_sol_spent
         /\ record'[w].curve_tokens_bought = record[w].curve_tokens_bought
<1>1. a \in Nat \ {0}
  BY ConstantTypes DEF BuyPresale
<1> DEFINE fresh == [EmptyRecord EXCEPT !.sol_deposited = record[w].sol_deposited,
                                        !.entry_price = pool.price_lamports]
           old == IF FirstBuy(w) THEN fresh ELSE record[w]
<1>2. record' = [record EXCEPT ![w] = WithDeposit(old, a)]
  BY DEF BuyPresale
<1>3. /\ old.sol_deposited = record[w].sol_deposited
      /\ old.tokens_allocated = record[w].tokens_allocated
      /\ old.tokens_sold = record[w].tokens_sold
      /\ old.curve_sol_spent = record[w].curve_sol_spent
      /\ old.curve_tokens_bought = record[w].curve_tokens_bought
  BY DEF RecordsTellBuyers, FirstBuy, EmptyRecord
<1>4. old \in BuyerRecord
  BY ConstantTypes DEF TypeOK, BuyerRecord, LaunchPool, EmptyRecord
<1> HIDE DEF old
<1>5. record'[w] = WithDeposit(old, a) /\ \A v \in Wallets \ {w} : record'[v] = record[v]
  BY <1>2 DEF TypeOK
<1> QED
  BY <1>1, <1>3, <1>4, <1>5 DEF WithDeposit, BuyerRecord

\* A buy on the curve adds tokens and lamports, more than none of each, to
\* the pool, the vault and the record of its buyer.
LEMMA BuyCurveEffect ==
  ASSUME TypeOK, RecordsTellBuyers, PricePositive,
         NEW w \in Wallets, NEW a \in BuyAmounts, NEW to \in Holders, BuyCurve(w, a, to)
  PROVE  \E tokens \in Nat \ {0}, c \in Nat \ {0} :
           /\ \A v \in Wallets \ {w} : record'[v] = record[v]
           /\ record'[w].sol_deposited = record[w].sol_deposited
           /\ record'[w].tokens_allocated = record[w].tokens_allocated
           /\ record'[w].tokens_sold = record[w].tokens_sold
           /\ record'[w].curve_sol_spent = record[w].curve_sol_spent + c
           /\ record'[w].curve_tokens_bought = record[w].curve_tokens_bought + tokens
           /\ vault' = vault + c
           /\ supply' = supply + tokens
           /\ pool' = [pool EXCEPT !.tokens_sold_curve = @ + tokens,
                                   !.curve_sol_collected = @ + c,
                                   !.buyer_count = IF FirstBuy(w) THEN @ + 1 ELSE @]
<1> DEFINE sold == pool.tokens_sold_curve
           tokens == bonding_curve_tokens_for_sol(pool.price_lamports, Slope, sold, a)
           c == bonding_curve_cost(pool.price_lamports, Slope, sold, tokens)
           old == IF FirstBuy(w)
                  THEN [record[w] EXCEPT !.tokens_allocated = 0, !.tokens_sold = 0]
                  ELSE record[w]
           new == [old EXCEPT !.curve_sol_spent = @ + c, !.curve_tokens_bought = @ + tokens]
<1>1. /\ tokens \in 1 .. MaxU64
      /\ TransferToVault(w, c)
      /\ supply' = supply + tokens
      /\ pool' = [pool EXCEPT !.tokens_sold_curve = @ + tokens,
                              !.curve_sol_collected = @ + c,
                              !.buyer_count = IF FirstBuy(w) THEN @ + 1 ELSE @]
      /\ record' = [record EXCEPT ![w] = [new EXCEPT !.entry_price = AverageEntry(new)]]
      /\ pool.status = "BondingCurve"
  BY DEF BuyCurve, InBondingCurve, MintTo
<1>2. tokens \in Nat \ {0}
  BY <1>1, MaxU64Assumption
<1>3. c \in Nat \ {0}
  <2>1. pool.price_lamports \in Nat /\ sold \in Nat /\ Slope \in Nat
    BY ConstantTypes DEF TypeOK, LaunchPool
  <2>2. pool.price_lamports > 0
    BY <1>1 DEF PricePositive
  <2> HIDE DEF tokens, sold
  <2>3. tokens \in Nat /\ tokens > 0
    BY <1>2
  <2>4. c \in Nat /\ (pool.price_lamports > 0 /\ tokens > 0 => c > 0)
    BY <2>1, <2>3, CostType
  <2> QED
    <3> HIDE DEF c
    <3> QED  BY <2>2, <2>3, <2>4
<1> HIDE DEF tokens, c
<1>4. vault' = vault + c
  BY <1>1 DEF TransferToVault
<1>5. /\ old.sol_deposited = record[w].sol_deposited
      /\ old.tokens_allocated = record[w].tokens_allocated
      /\ old.tokens_sold = record[w].tokens_sold
      /\ old.curve_sol_spent = record[w].curve_sol_spent
      /\ old.curve_tokens_bought = record[w].curve_tokens_bought
      /\ old \in BuyerRecord
  BY ConstantTypes, RecordTypes DEF RecordsTellBuyers, BuyerRecord
<1> HIDE DEF old
<1>6. /\ new.sol_deposited = old.sol_deposited
      /\ new.tokens_allocated = old.tokens_allocated
      /\ new.tokens_sold = old.tokens_sold
      /\ new.curve_sol_spent = old.curve_sol_spent + c
      /\ new.curve_tokens_bought = old.curve_tokens_bought + tokens
  BY <1>5 DEF BuyerRecord
<1>7. \A r : LET q == [new EXCEPT !.entry_price = r]
            IN  /\ q.sol_deposited = new.sol_deposited
                /\ q.tokens_allocated = new.tokens_allocated
                /\ q.tokens_sold = new.tokens_sold
                /\ q.curve_sol_spent = new.curve_sol_spent
                /\ q.curve_tokens_bought = new.curve_tokens_bought
  BY <1>5 DEF BuyerRecord
<1> HIDE DEF new
<1>8. record'[w] = [new EXCEPT !.entry_price = AverageEntry(new)]
      /\ \A v \in Wallets \ {w} : record'[v] = record[v]
  BY <1>1 DEF TypeOK
<1>9. /\ record'[w].sol_deposited = record[w].sol_deposited
      /\ record'[w].tokens_allocated = record[w].tokens_allocated
      /\ record'[w].tokens_sold = record[w].tokens_sold
      /\ record'[w].curve_sol_spent = record[w].curve_sol_spent + c
      /\ record'[w].curve_tokens_bought = record[w].curve_tokens_bought + tokens
  BY <1>5, <1>6, <1>7, <1>8
<1> QED
  BY <1>1, <1>2, <1>3, <1>4, <1>8, <1>9

\* A sale adds to what its seller has sold, within what is left to sell.
LEMMA SellCurveEffect ==
  ASSUME TypeOK, NEW w \in Wallets, NEW a \in SellAmounts, SellCurve(w, a)
  PROVE  /\ a \in Nat \ {0}
         /\ \A v \in Wallets \ {w} : record'[v] = record[v]
         /\ record'[w] = [record[w] EXCEPT !.tokens_sold = @ + a]
         /\ w \in opened
         /\ record[w].tokens_sold <= record[w].tokens_allocated + record[w].curve_tokens_bought
              => record[w].tokens_sold + a
                   <= record[w].tokens_allocated + record[w].curve_tokens_bought
<1>1. a \in Nat \ {0}
  BY ConstantTypes DEF SellCurve, SellAllowed
<1>2. /\ w \in opened
      /\ record' = [record EXCEPT ![w].tokens_sold = @ + a]
      /\ a <= Available(w)
  BY DEF SellCurve, SellAllowed
<1>3. /\ \A v \in Wallets \ {w} : record'[v] = record[v]
      /\ record'[w] = [record[w] EXCEPT !.tokens_sold = @ + a]
  BY <1>2 DEF TypeOK
<1>4. ASSUME record[w].tokens_sold <= record[w].tokens_allocated + record[w].curve_tokens_bought
      PROVE  record[w].tokens_sold + a
               <= record[w].tokens_allocated + record[w].curve_tokens_bought
  <2> DEFINE given == SatAdd(record[w].tokens_allocated, record[w].curve_tokens_bought)
  <2>1. given \in Nat /\ given <= record[w].tokens_allocated + record[w].curve_tokens_bought
    BY SatType, ConstantTypes, RecordTypes DEF BuyerRecord
  <2>2. a <= SatSub(given, record[w].tokens_sold)
    BY <1>2 DEF Available
  <2> HIDE DEF given
  <2> QED  BY <1>1, <2>1, <2>2, RecordTypes DEF SatSub
<1> QED
  BY <1>1, <1>2, <1>3, <1>4

-----------------------------------------------------------------------------
(* The inductive invariant *)

LEMMA InitInvariant == Init => LaunchInvariant
BY ConstantTypes
DEF Init, LaunchInvariant, NothingBeforeLaunch, RecordsTellBuyers, NoTradesBeforeCurve, AllocationIsShare,
    PricePositive, SoldWithinBought, FirstBuy, EmptyRecord, NoPool

LEMMA CreateLaunchInvariant ==
  ASSUME TypeOK, LaunchInvariant,
         NEW w \in Wallets, NEW s \in Supplies, NEW p \in Prices, CreateLaunch(w, s, p)
  PROVE  LaunchInvariant'
<1>1. /\ pool.status = "Uncreated"
      /\ pool'.status = "Presale" /\ pool'.price_lamports = p /\ p > 0
      /\ UNCHANGED <<record, opened>>
  BY DEF CreateLaunch, NoPool
<1>2. \A v \in Wallets : record[v].tokens_allocated = 0
  BY <1>1, RecordTypes DEF LaunchInvariant, AllocationIsShare
<1>3. RecordsTellBuyers' /\ NoTradesBeforeCurve' /\ SoldWithinBought'
  BY <1>1 DEF LaunchInvariant, RecordsTellBuyers, NoTradesBeforeCurve, SoldWithinBought, FirstBuy
<1>4. AllocationIsShare'
  BY <1>1, <1>2 DEF AllocationIsShare
<1>5. PricePositive' /\ NothingBeforeLaunch'
  BY <1>1 DEF PricePositive, NothingBeforeLaunch
<1> QED
  BY <1>3, <1>4, <1>5 DEF LaunchInvariant

LEMMA BuyPresaleInvariant ==
  ASSUME TypeOK, LaunchInvariant,
         NEW w \in Wallets, NEW a \in Deposits, BuyPresale(w, a)
  PROVE  LaunchInvariant'
<1>1. /\ a \in Nat \ {0}
      /\ \A v \in Wallets \ {w} : record'[v] = record[v]
      /\ record'[w].sol_deposited = record[w].sol_deposited + a
      /\ record'[w].tokens_allocated = record[w].tokens_allocated
      /\ record'[w].tokens_sold = record[w].tokens_sold
      /\ record'[w].curve_sol_spent = record[w].curve_sol_spent
      /\ record'[w].curve_tokens_bought = record[w].curve_tokens_bought
  BY BuyPresaleEffect DEF LaunchInvariant
<1>2. /\ opened' = opened \cup {w}
      /\ pool.status = "Presale" /\ InPresaleWindow(clock)
      /\ pool'.status = pool.status /\ pool'.price_lamports = pool.price_lamports
      /\ pool'.end_time = pool.end_time /\ clock' = clock
  BY DEF BuyPresale, TypeOK, LaunchPool
<1>3. \A v \in Wallets : record[v].tokens_allocated = 0
  <2>1. pool.end_time \in Nat /\ clock \in Nat
    BY DEF TypeOK, LaunchPool
  <2> QED
    BY <1>2, <2>1, RecordTypes
    DEF LaunchInvariant, AllocationIsShare, is_presale_over, InPresaleWindow
<1>4. RecordsTellBuyers'
  <2>1. record'[w].sol_deposited # 0
    BY <1>1, RecordTypes
  <2> QED
    BY <1>1, <1>2, <2>1 DEF LaunchInvariant, RecordsTellBuyers, FirstBuy
<1>5. NoTradesBeforeCurve'
  BY <1>1, <1>2 DEF LaunchInvariant, NoTradesBeforeCurve
<1>6. AllocationIsShare'
  BY <1>1, <1>3 DEF AllocationIsShare
<1>7. PricePositive' /\ NothingBeforeLaunch'
  BY <1>2 DEF LaunchInvariant, PricePositive, NothingBeforeLaunch
<1>8. SoldWithinBought'
  BY <1>1 DEF LaunchInvariant, SoldWithinBought
<1> QED
  BY <1>4, <1>5, <1>6, <1>7, <1>8 DEF LaunchInvariant

LEMMA FinalizeLaunchInvariant ==
  ASSUME TypeOK, LaunchInvariant,
         NEW w \in Wallets, NEW b \in Wallets, NEW to \in Holders, FinalizeLaunch(w, b, to)
  PROVE  LaunchInvariant'
<1> DEFINE tokens == Allocation(record[b].sol_deposited)
<1>1. /\ record' = [record EXCEPT ![b].tokens_allocated = tokens,
                                  ![b].entry_price = pool.price_lamports]
      /\ b \in opened /\ pool.status = "Presale" /\ is_presale_over(clock)
      /\ record[b].sol_deposited > 0
      /\ UNCHANGED <<clock, pool, opened>>
  BY DEF FinalizeLaunch
<1>2. /\ \A v \in Wallets \ {b} : record'[v] = record[v]
      /\ record'[b].sol_deposited = record[b].sol_deposited
      /\ record'[b].tokens_allocated = tokens
      /\ record'[b].tokens_sold = record[b].tokens_sold
      /\ record'[b].curve_sol_spent = record[b].curve_sol_spent
      /\ record'[b].curve_tokens_bought = record[b].curve_tokens_bought
  <2> HIDE DEF tokens
  <2> QED  BY <1>1, RecordTypes DEF TypeOK, BuyerRecord
<1>3. \A v \in Wallets : record[v].tokens_sold = 0
  BY <1>1 DEF LaunchInvariant, NoTradesBeforeCurve
<1>4. TypeOK'
  BY FinalizeLaunchType
<1>5. RecordsTellBuyers'
  BY <1>1, <1>2 DEF LaunchInvariant, RecordsTellBuyers, FirstBuy
<1>6. NoTradesBeforeCurve'
  BY <1>1, <1>2 DEF LaunchInvariant, NoTradesBeforeCurve
<1>7. AllocationIsShare'
  BY <1>1, <1>2 DEF LaunchInvariant, AllocationIsShare, Allocation, is_presale_over
<1>8. PricePositive' /\ NothingBeforeLaunch'
  BY <1>1 DEF LaunchInvariant, PricePositive, NothingBeforeLaunch
<1>9. SoldWithinBought'
  <2>1. record'[b].tokens_allocated \in Nat /\ record'[b].curve_tokens_bought \in Nat
    BY <1>4, ConstantTypes DEF TypeOK, BuyerRecord
  <2> HIDE DEF tokens
  <2> QED  BY <1>2, <1>3, <2>1 DEF LaunchInvariant, SoldWithinBought
<1> QED
  BY <1>5, <1>6, <1>7, <1>8, <1>9 DEF LaunchInvariant

LEMMA BuyCurveInvariant ==
  ASSUME TypeOK, LaunchInvariant,
         NEW w \in Wallets, NEW a \in BuyAmounts, NEW to \in Holders, BuyCurve(w, a, to)
  PROVE  LaunchInvariant'
<1>1. PICK tokens \in Nat \ {0}, c \in Nat \ {0} :
           /\ \A v \in Wallets \ {w} : record'[v] = record[v]
           /\ record'[w].sol_deposited = record[w].sol_deposited
           /\ record'[w].tokens_allocated = record[w].tokens_allocated
           /\ record'[w].tokens_sold = record[w].tokens_sold
           /\ record'[w].curve_sol_spent = record[w].curve_sol_spent + c
           /\ record'[w].curve_tokens_bought = record[w].curve_tokens_bought + tokens
           /\ vault' = vault + c
           /\ supply' = supply + tokens
           /\ pool' = [pool EXCEPT !.tokens_sold_curve = @ + tokens,
                                   !.curve_sol_collected = @ + c,
                                   !.buyer_count = IF FirstBuy(w) THEN @ + 1 ELSE @]
  BY BuyCurveEffect DEF LaunchInvariant
<1>2. /\ pool'.status = pool.status /\ pool'.price_lamports = pool.price_lamports
      /\ pool'.end_time = pool.end_time /\ pool'.total_supply = pool.total_supply
      /\ pool'.total_sol_collected = pool.total_sol_collected
  BY <1>1 DEF TypeOK, LaunchPool
<1>3. opened' = opened \cup {w} /\ pool.status = "BondingCurve" /\ clock' = clock
  BY DEF BuyCurve, InBondingCurve
<1>4. RecordsTellBuyers'
  <2>1. record'[w].curve_sol_spent # 0
    BY <1>1, RecordTypes
  <2> QED
    BY <1>1, <1>3, <2>1 DEF LaunchInvariant, RecordsTellBuyers, FirstBuy
<1>5. NoTradesBeforeCurve'
  BY <1>2, <1>3 DEF NoTradesBeforeCurve
<1>6. AllocationIsShare'
  BY <1>1, <1>2, <1>3 DEF LaunchInvariant, AllocationIsShare, Allocation, is_presale_over
<1>7. PricePositive' /\ NothingBeforeLaunch'
  BY <1>2, <1>3 DEF LaunchInvariant, PricePositive, NothingBeforeLaunch
<1>8. SoldWithinBought'
  BY <1>1, RecordTypes DEF LaunchInvariant, SoldWithinBought
<1> QED
  BY <1>4, <1>5, <1>6, <1>7, <1>8 DEF LaunchInvariant

LEMMA SellCurveInvariant ==
  ASSUME TypeOK, LaunchInvariant,
         NEW w \in Wallets, NEW a \in SellAmounts, SellCurve(w, a)
  PROVE  LaunchInvariant'
<1>1. /\ a \in Nat \ {0}
      /\ \A v \in Wallets \ {w} : record'[v] = record[v]
      /\ record'[w] = [record[w] EXCEPT !.tokens_sold = @ + a]
      /\ w \in opened
      /\ record[w].tokens_sold + a
           <= record[w].tokens_allocated + record[w].curve_tokens_bought
  BY SellCurveEffect DEF LaunchInvariant, SoldWithinBought
<1>2. /\ record'[w].sol_deposited = record[w].sol_deposited
      /\ record'[w].tokens_allocated = record[w].tokens_allocated
      /\ record'[w].tokens_sold = record[w].tokens_sold + a
      /\ record'[w].curve_sol_spent = record[w].curve_sol_spent
      /\ record'[w].curve_tokens_bought = record[w].curve_tokens_bought
  BY <1>1, RecordTypes DEF BuyerRecord
<1>3. /\ pool' = [pool EXCEPT !.tokens_sold_curve = SatSub(@, a),
                              !.curve_sol_collected = SatSub(@, SellRaw(a))]
      /\ opened' = opened /\ pool.status = "BondingCurve" /\ clock' = clock
  BY DEF SellCurve, SellAllowed, InBondingCurve
<1>4. /\ pool'.status = pool.status /\ pool'.price_lamports = pool.price_lamports
      /\ pool'.end_time = pool.end_time /\ pool'.total_supply = pool.total_supply
      /\ pool'.total_sol_collected = pool.total_sol_collected
  BY <1>3 DEF TypeOK, LaunchPool
<1>5. RecordsTellBuyers'
  BY <1>1, <1>2, <1>3 DEF LaunchInvariant, RecordsTellBuyers, FirstBuy
<1>6. NoTradesBeforeCurve'
  BY <1>3, <1>4 DEF NoTradesBeforeCurve
<1>7. AllocationIsShare'
  <2>1. \A v \in Wallets : /\ record'[v].sol_deposited = record[v].sol_deposited
                          /\ record'[v].tokens_allocated = record[v].tokens_allocated
    BY <1>1, <1>2
  <2>2. clock' = clock
    BY <1>3
  <2> QED
    BY <2>1, <2>2, <1>4 DEF LaunchInvariant, AllocationIsShare, Allocation, is_presale_over
<1>8. PricePositive' /\ NothingBeforeLaunch'
  BY <1>3, <1>4 DEF LaunchInvariant, PricePositive, NothingBeforeLaunch
<1>9. SoldWithinBought'
  BY <1>1, <1>2 DEF LaunchInvariant, SoldWithinBought
<1> QED
  BY <1>5, <1>6, <1>7, <1>8, <1>9 DEF LaunchInvariant

\* Steps that leave records, shares and the closing time alone.
LEMMA QuietInvariant ==
  ASSUME TypeOK, LaunchInvariant, TypeOK',
         UNCHANGED <<record, opened>>,
         clock' >= clock,
         pool'.end_time = pool.end_time,
         pool'.total_supply = pool.total_supply,
         pool'.total_sol_collected = pool.total_sol_collected,
         pool'.status \in {"Uncreated", "Presale"} => pool'.status = pool.status,
         pool.status = "Uncreated" => pool' = pool,
         pool'.status = "Uncreated" => pool.status = "Uncreated",
         pool'.price_lamports = pool.price_lamports \/ pool'.price_lamports > 0
  PROVE  LaunchInvariant'
<1>1. RecordsTellBuyers' /\ SoldWithinBought'
  BY DEF LaunchInvariant, RecordsTellBuyers, SoldWithinBought, FirstBuy
<1>2. NoTradesBeforeCurve'
  BY DEF LaunchInvariant, NoTradesBeforeCurve
<1>3. AllocationIsShare'
  <2>1. clock \in Nat /\ clock' \in Nat /\ pool.end_time \in Nat
    BY DEF TypeOK, LaunchPool
  <2> QED
    BY <2>1 DEF LaunchInvariant, AllocationIsShare, Allocation, is_presale_over
<1>4. PricePositive' /\ NothingBeforeLaunch'
  BY DEF LaunchInvariant, PricePositive, NothingBeforeLaunch
<1> QED
  BY <1>1, <1>2, <1>3, <1>4 DEF LaunchInvariant

LEMMA NextInvariant == TypeOK /\ LaunchInvariant /\ [Next]_vars => LaunchInvariant'
<1> SUFFICES ASSUME TypeOK, LaunchInvariant, [Next]_vars PROVE LaunchInvariant'
  OBVIOUS
<1>0. TypeOK'
  BY NextType
<1>a. pool \in LaunchPool /\ clock \in Nat
  BY DEF TypeOK
<1>1. CASE Tick
  BY <1>0, <1>1, <1>a, QuietInvariant DEF Tick, chain
<1>2. CASE Graduate
  BY <1>0, <1>2, <1>a, QuietInvariant DEF Graduate, InBondingCurve, LaunchPool
<1>3. ASSUME NEW w \in Wallets, NEW s \in Supplies, NEW p \in Prices, CreateLaunch(w, s, p)
      PROVE  LaunchInvariant'
  BY <1>3, CreateLaunchInvariant
<1>4. ASSUME NEW w \in Wallets, NEW a \in Deposits, BuyPresale(w, a) PROVE LaunchInvariant'
  BY <1>4, BuyPresaleInvariant
<1>5. ASSUME NEW w \in Wallets, NEW b \in Wallets, NEW to \in Holders,
             FinalizeLaunch(w, b, to)
      PROVE  LaunchInvariant'
  BY <1>5, FinalizeLaunchInvariant
<1>6. ASSUME NEW w \in Wallets, StartBondingCurve(w) PROVE LaunchInvariant'
  BY <1>0, <1>6, <1>a, QuietInvariant DEF StartBondingCurve, LaunchPool
<1>7. ASSUME NEW w \in Wallets, NEW a \in BuyAmounts, NEW to \in Holders, BuyCurve(w, a, to)
      PROVE  LaunchInvariant'
  BY <1>7, BuyCurveInvariant
<1>8. ASSUME NEW w \in Wallets, NEW a \in SellAmounts, SellCurve(w, a) PROVE LaunchInvariant'
  BY <1>8, SellCurveInvariant
<1>9. ASSUME NEW w \in Wallets, NEW p \in NewPrices, UpdatePrice(w, p) PROVE LaunchInvariant'
  <2>1. pool.status # "Uncreated"
    BY <1>9, ConstantTypes
    DEF UpdatePrice, IsCreator, LaunchInvariant, NothingBeforeLaunch, NoPool
  <2> QED
    BY <1>0, <1>9, <1>a, <2>1, QuietInvariant DEF UpdatePrice, LaunchPool
<1>10. ASSUME NEW w \in Wallets, NEW m \in Markets, RegisterMarket(w, m)
       PROVE  LaunchInvariant'
  BY <1>0, <1>10, <1>a, QuietInvariant DEF RegisterMarket
<1>11. CASE UNCHANGED vars
  BY <1>0, <1>11, <1>a, QuietInvariant DEF vars, chain
<1> QED
  BY <1>1, <1>2, <1>3, <1>4, <1>5, <1>6, <1>7, <1>8, <1>9, <1>10, <1>11 DEF Next

\* The facts the handlers rely on without testing them hold throughout, and
\* with them the bound on sales: nobody sells more than allocated and bought.
THEOREM Invariance == Spec => []LaunchInvariant
<1>1. Init => TypeOK /\ LaunchInvariant
  BY InitType, InitInvariant
<1>2. TypeOK /\ LaunchInvariant /\ [Next]_vars => (TypeOK /\ LaunchInvariant)'
  BY NextType, NextInvariant
<1> QED
  BY <1>1, <1>2, PTL DEF Spec

-----------------------------------------------------------------------------
(* What follows from the invariant *)

\* buyer_count counts each buyer once, whichever instruction the buyer came
\* with and however often: a record is fresh exactly when it is not open yet.
THEOREM BuyersCounted == Spec => []BuyerCountExact
<1> DEFINE Inv == TypeOK /\ LaunchInvariant /\ BuyerCountExact
<1>1. Init => BuyerCountExact
  BY FS_EmptySet DEF Init, NoPool, BuyerCountExact
<1>2. Inv /\ [Next]_vars => BuyerCountExact'
  <2> SUFFICES ASSUME Inv, [Next]_vars PROVE BuyerCountExact'
    OBVIOUS
  <2>1. IsFiniteSet(opened) /\ Cardinality(opened) \in Nat
    BY LaunchAssumptions, FS_Subset, FS_CardinalityType DEF TypeOK
  <2>2. ASSUME NEW w \in Wallets, opened' = opened \cup {w},
               pool'.buyer_count = IF FirstBuy(w) THEN pool.buyer_count + 1
                                                  ELSE pool.buyer_count
        PROVE  BuyerCountExact'
    <3>1. w \in opened <=> ~ FirstBuy(w)
      BY DEF LaunchInvariant, RecordsTellBuyers
    <3>2. Cardinality(opened') = IF w \in opened THEN Cardinality(opened)
                                                  ELSE Cardinality(opened) + 1
      BY <2>1, <2>2, FS_AddElement
    <3> QED
      BY <2>2, <3>1, <3>2 DEF BuyerCountExact
  <2>3. ASSUME NEW w \in Wallets, NEW a \in Deposits, BuyPresale(w, a)
        PROVE  BuyerCountExact'
    BY <2>2, <2>3 DEF BuyPresale, TypeOK, LaunchPool
  <2>4. ASSUME NEW w \in Wallets, NEW a \in BuyAmounts, NEW to \in Holders, BuyCurve(w, a, to)
        PROVE  BuyerCountExact'
    <3>1. opened' = opened \cup {w}
      BY <2>4 DEF BuyCurve
    <3>2. pool'.buyer_count = IF FirstBuy(w) THEN pool.buyer_count + 1
                                             ELSE pool.buyer_count
      BY <2>4, BuyCurveEffect DEF LaunchInvariant, TypeOK, LaunchPool
    <3> QED  BY <2>2, <3>1, <3>2
  <2>5. ASSUME NEW w \in Wallets, NEW s \in Supplies, NEW p \in Prices, CreateLaunch(w, s, p)
        PROVE  BuyerCountExact'
    <3>1. opened = {}
      BY <2>5 DEF CreateLaunch, LaunchInvariant, NothingBeforeLaunch
    <3> QED  BY <2>5, <3>1, FS_EmptySet DEF CreateLaunch, NoPool, BuyerCountExact, TypeOK
  <2>6. CASE opened' = opened /\ pool'.buyer_count = pool.buyer_count
    BY <2>6 DEF BuyerCountExact
  <2> QED
    BY <2>3, <2>4, <2>5, <2>6
    DEF Next, vars, chain, Tick, Graduate, FinalizeLaunch, StartBondingCurve, SellCurve,
        UpdatePrice, RegisterMarket, TypeOK, LaunchPool
<1> QED
  BY <1>1, <1>2, TypeCorrect, Invariance, PTL DEF Spec

\* Nobody sells more on the curve than was allocated to or bought by them.
THEOREM SalesBounded == Spec => []SoldWithinBought
<1>1. LaunchInvariant => SoldWithinBought
  BY DEF LaunchInvariant
<1> QED
  BY <1>1, Invariance, PTL

\* The lamports graduation counts are in the vault: a sale takes no more from
\* the vault than from the counter, unless the counter is at zero already.
THEOREM CurveCovered == Spec => []VaultCoversCurve
<1> DEFINE Inv == TypeOK /\ LaunchInvariant /\ VaultCoversCurve
<1>1. Init => VaultCoversCurve
  BY DEF Init, NoPool, VaultCoversCurve
<1>2. Inv /\ [Next]_vars => VaultCoversCurve'
  <2> SUFFICES ASSUME Inv, [Next]_vars PROVE VaultCoversCurve'
    OBVIOUS
  <2>1. vault \in Nat /\ pool \in LaunchPool /\ pool.curve_sol_collected \in Nat
    BY ConstantTypes DEF TypeOK, LaunchPool
  <2>2. CASE vault' = vault /\ pool'.curve_sol_collected = pool.curve_sol_collected
    BY <2>2 DEF VaultCoversCurve
  <2>3. ASSUME NEW w \in Wallets, NEW s \in Supplies, NEW p \in Prices, CreateLaunch(w, s, p)
        PROVE  VaultCoversCurve'
    BY <2>1, <2>3 DEF CreateLaunch, NoPool, VaultCoversCurve
  <2>4. ASSUME NEW w \in Wallets, NEW a \in Deposits, BuyPresale(w, a)
        PROVE  VaultCoversCurve'
    <3>1. vault' = vault + a /\ a \in Nat
      BY <2>4, ConstantTypes DEF BuyPresale, TransferToVault
    <3>2. pool'.curve_sol_collected = pool.curve_sol_collected
      BY <2>1, <2>4 DEF BuyPresale, LaunchPool
    <3> QED  BY <2>1, <3>1, <3>2 DEF VaultCoversCurve
  <2>5. ASSUME NEW w \in Wallets, NEW a \in BuyAmounts, NEW to \in Holders, BuyCurve(w, a, to)
        PROVE  VaultCoversCurve'
    <3>1. PICK c \in Nat \ {0} :
            vault' = vault + c /\ pool'.curve_sol_collected = pool.curve_sol_collected + c
      BY <2>1, <2>5, BuyCurveEffect DEF LaunchInvariant, LaunchPool
    <3> QED  BY <2>1, <3>1 DEF VaultCoversCurve
  <2>6. ASSUME NEW w \in Wallets, NEW a \in SellAmounts, SellCurve(w, a)
        PROVE  VaultCoversCurve'
    <3> DEFINE raw == SellRaw(a)
               paid == SellReturn(a)
    <3>1. raw \in Nat
      <4>1. a \in U64
        BY ConstantTypes
      <4>2. SatSub(pool.tokens_sold_curve, a) \in U64
        BY <2>1, <4>1, SatType DEF LaunchPool
      <4> QED  BY <2>1, <4>1, <4>2, ConstantTypes, CostType DEF SellRaw, LaunchPool
    <3>2. vault' = vault - paid /\ paid <= vault
      BY <2>6 DEF SellCurve, DebitVault
    <3>3. pool'.curve_sol_collected = SatSub(pool.curve_sol_collected, raw)
      BY <2>1, <2>6 DEF SellCurve, LaunchPool
    <3>4. paid = SatSub(raw, Fee(raw))
      BY DEF SellReturn
    <3> HIDE DEF raw, paid
    <3>5. paid \in Nat /\ paid <= raw
      BY <3>1, <3>4, FeeBound DEF SatSub
    <3> QED
      BY <2>1, <3>1, <3>2, <3>3, <3>5 DEF VaultCoversCurve, SatSub
  <2> QED
    BY <2>1, <2>2, <2>3, <2>4, <2>5, <2>6
    DEF Next, vars, chain, Tick, Graduate, FinalizeLaunch, StartBondingCurve,
        UpdatePrice, RegisterMarket, LaunchPool
<1> QED
  BY <1>1, <1>2, TypeCorrect, Invariance, PTL DEF Spec

\* What a buyer has paid, been given and sold is never wiped, by the reset of
\* a record taken for fresh or by a finalisation that runs again; and an
\* allocation, once made, stays what it is.
LEMMA StepKeepsHistory ==
  ASSUME TypeOK, LaunchInvariant, [Next]_vars, NEW v \in Wallets
  PROVE  /\ record'[v].sol_deposited >= record[v].sol_deposited
         /\ record'[v].tokens_allocated >= record[v].tokens_allocated
         /\ record'[v].tokens_sold >= record[v].tokens_sold
         /\ record'[v].curve_sol_spent >= record[v].curve_sol_spent
         /\ record'[v].curve_tokens_bought >= record[v].curve_tokens_bought
         /\ record[v].tokens_allocated > 0
              => record'[v].tokens_allocated = record[v].tokens_allocated
<1> DEFINE Kept == /\ record'[v].sol_deposited >= record[v].sol_deposited
                   /\ record'[v].tokens_allocated >= record[v].tokens_allocated
                   /\ record'[v].tokens_sold >= record[v].tokens_sold
                   /\ record'[v].curve_sol_spent >= record[v].curve_sol_spent
                   /\ record'[v].curve_tokens_bought >= record[v].curve_tokens_bought
                   /\ record[v].tokens_allocated > 0
                        => record'[v].tokens_allocated = record[v].tokens_allocated
<1>1. CASE record' = record
  BY <1>1, RecordTypes
<1>2. ASSUME NEW w \in Wallets, NEW a \in Deposits, BuyPresale(w, a) PROVE Kept
  <2>1. CASE v = w
    BY <1>2, <2>1, BuyPresaleEffect, RecordTypes DEF LaunchInvariant
  <2>2. CASE v # w
    BY <1>2, <2>2, BuyPresaleEffect, RecordTypes DEF LaunchInvariant
  <2> QED  BY <2>1, <2>2
<1>3. ASSUME NEW w \in Wallets, NEW b \in Wallets, NEW to \in Holders,
             FinalizeLaunch(w, b, to)
      PROVE  Kept
  <2> DEFINE tokens == Allocation(record[b].sol_deposited)
  <2>1. record' = [record EXCEPT ![b].tokens_allocated = tokens,
                                 ![b].entry_price = pool.price_lamports]
    BY <1>3 DEF FinalizeLaunch
  <2>2. TypeOK'
    BY <1>3, FinalizeLaunchType
  <2>3. record[b].tokens_allocated > 0 => record[b].tokens_allocated = tokens
    BY DEF LaunchInvariant, AllocationIsShare
  <2> HIDE DEF tokens
  <2>4. CASE v = b
    <3>1. /\ record'[v].sol_deposited = record[v].sol_deposited
          /\ record'[v].tokens_allocated = tokens
          /\ record'[v].tokens_sold = record[v].tokens_sold
          /\ record'[v].curve_sol_spent = record[v].curve_sol_spent
          /\ record'[v].curve_tokens_bought = record[v].curve_tokens_bought
      BY <2>1, <2>4, RecordTypes DEF TypeOK, BuyerRecord
    <3>2. record'[v].tokens_allocated \in Nat
      BY <2>2, ConstantTypes DEF TypeOK, BuyerRecord
    <3> QED  BY <2>3, <2>4, <3>1, <3>2, RecordTypes
  <2>5. CASE v # b
    BY <2>1, <2>5, RecordTypes DEF TypeOK
  <2> QED  BY <2>4, <2>5
<1>4. ASSUME NEW w \in Wallets, NEW a \in BuyAmounts, NEW to \in Holders, BuyCurve(w, a, to)
      PROVE  Kept
  <2>1. PICK tokens \in Nat \ {0}, c \in Nat \ {0} :
          /\ \A u \in Wallets \ {w} : record'[u] = record[u]
          /\ record'[w].sol_deposited = record[w].sol_deposited
          /\ record'[w].tokens_allocated = record[w].tokens_allocated
          /\ record'[w].tokens_sold = record[w].tokens_sold
          /\ record'[w].curve_sol_spent = record[w].curve_sol_spent + c
          /\ record'[w].curve_tokens_bought = record[w].curve_tokens_bought + tokens
    BY <1>4, BuyCurveEffect DEF LaunchInvariant
  <2>2. CASE v = w
    BY <2>1, <2>2, RecordTypes
  <2>3. CASE v # w
    BY <2>1, <2>3, RecordTypes
  <2> QED  BY <2>2, <2>3
<1>5. ASSUME NEW w \in Wallets, NEW a \in SellAmounts, SellCurve(w, a) PROVE Kept
  <2>1. /\ a \in Nat
        /\ \A u \in Wallets \ {w} : record'[u] = record[u]
        /\ record'[w] = [record[w] EXCEPT !.tokens_sold = @ + a]
    BY <1>5, SellCurveEffect
  <2>2. CASE v = w
    BY <2>1, <2>2, RecordTypes DEF BuyerRecord
  <2>3. CASE v # w
    BY <2>1, <2>3, RecordTypes
  <2> QED  BY <2>2, <2>3
<1> QED
  BY <1>1, <1>2, <1>3, <1>4, <1>5
  DEF Next, vars, chain, Tick, Graduate, CreateLaunch, StartBondingCurve,
      UpdatePrice, RegisterMarket

\* The init branches of the two buys wipe no history.
THEOREM HistoryPreserved == Spec => HistoryKept
<1>1. TypeOK /\ LaunchInvariant /\ [Next]_vars
        => [\A w \in Wallets :
              /\ record'[w].sol_deposited >= record[w].sol_deposited
              /\ record'[w].tokens_allocated >= record[w].tokens_allocated
              /\ record'[w].tokens_sold >= record[w].tokens_sold
              /\ record'[w].curve_sol_spent >= record[w].curve_sol_spent
              /\ record'[w].curve_tokens_bought >= record[w].curve_tokens_bought]_vars
  BY StepKeepsHistory
<1> QED
  BY <1>1, TypeCorrect, Invariance, PTL DEF Spec, HistoryKept

\* However often finalize_launch runs for a buyer, the allocation stays.
THEOREM AllocationsStay == Spec => AllocationStable
<1>1. TypeOK /\ LaunchInvariant /\ [Next]_vars
        => [\A w \in Wallets :
              record[w].tokens_allocated > 0
                => record'[w].tokens_allocated = record[w].tokens_allocated]_vars
  BY StepKeepsHistory
<1> QED
  BY <1>1, TypeCorrect, Invariance, PTL DEF Spec, AllocationStable

\* Graduation is final, and freezes vault, tokens and records.
THEOREM GraduationFinal == Spec => FrozenAfterGraduation
<1> DEFINE Frozen == /\ pool'.status = "Graduated"
                     /\ UNCHANGED <<record, opened, vault, lamports, supply, holding>>
<1>1. TypeOK /\ [Next]_vars => [pool.status = "Graduated" => Frozen]_vars
  <2> SUFFICES ASSUME TypeOK, [Next]_vars, pool.status = "Graduated" PROVE Frozen
    OBVIOUS
  <2>1. CASE UNCHANGED vars
    BY <2>1 DEF vars, chain
  <2>2. CASE Tick
    BY <2>2 DEF Tick, chain
  <2>3. ~ Graduate
    BY DEF Graduate, InBondingCurve
  <2>4. ASSUME NEW w \in Wallets
        PROVE  /\ \A s \in Supplies, p \in Prices : ~ CreateLaunch(w, s, p)
               /\ \A a \in Deposits : ~ BuyPresale(w, a)
               /\ \A b \in Wallets, to \in Holders : ~ FinalizeLaunch(w, b, to)
               /\ ~ StartBondingCurve(w)
    BY DEF CreateLaunch, BuyPresale, FinalizeLaunch, StartBondingCurve
  <2>5. ASSUME NEW w \in Wallets
        PROVE  /\ \A a \in BuyAmounts, to \in Holders : ~ BuyCurve(w, a, to)
               /\ \A a \in SellAmounts : ~ SellCurve(w, a)
    BY DEF BuyCurve, SellCurve, SellAllowed, InBondingCurve
  <2>6. ASSUME NEW w \in Wallets, NEW p \in NewPrices, UpdatePrice(w, p) PROVE Frozen
    BY <2>6 DEF UpdatePrice, TypeOK, LaunchPool
  <2>7. ASSUME NEW w \in Wallets, NEW m \in Markets, RegisterMarket(w, m) PROVE Frozen
    BY <2>7 DEF RegisterMarket
  <2> QED
    BY <2>1, <2>2, <2>3, <2>4, <2>5, <2>6, <2>7 DEF Next
<1> QED
  BY <1>1, TypeCorrect, PTL DEF Spec, FrozenAfterGraduation

-----------------------------------------------------------------------------
(* The floor *)

\* A buy on the curve sets its buyer's floor to the average over the record
\* it leaves.
LEMMA BuyCurveFloor ==
  ASSUME TypeOK, LaunchInvariant,
         NEW w \in Wallets, NEW a \in BuyAmounts, NEW to \in Holders, BuyCurve(w, a, to),
         Fits(Paid(w)'), Fits(Given(w)')
  PROVE  record'[w].entry_price = Paid(w)' \div Given(w)'
<1> DEFINE sold == pool.tokens_sold_curve
           tokens == bonding_curve_tokens_for_sol(pool.price_lamports, Slope, sold, a)
           c == bonding_curve_cost(pool.price_lamports, Slope, sold, tokens)
           old == IF FirstBuy(w)
                  THEN [record[w] EXCEPT !.tokens_allocated = 0, !.tokens_sold = 0]
                  ELSE record[w]
           new == [old EXCEPT !.curve_sol_spent = @ + c, !.curve_tokens_bought = @ + tokens]
<1>1. record' = [record EXCEPT ![w] = [new EXCEPT !.entry_price = AverageEntry(new)]]
  BY DEF BuyCurve
<1>2. DOMAIN new = DOMAIN EmptyRecord
  <2>1. DOMAIN old = DOMAIN EmptyRecord
    BY DEF TypeOK, BuyerRecord, EmptyRecord
  <2> HIDE DEF old
  <2> QED  BY <2>1
<1> HIDE DEF new
<1>3. /\ record'[w].entry_price = AverageEntry(new)
      /\ record'[w].sol_deposited = new.sol_deposited
      /\ record'[w].tokens_allocated = new.tokens_allocated
      /\ record'[w].curve_sol_spent = new.curve_sol_spent
      /\ record'[w].curve_tokens_bought = new.curve_tokens_bought
  BY <1>1, <1>2 DEF TypeOK, EmptyRecord
<1>4. /\ Paid(w)' = SatAdd(new.sol_deposited, new.curve_sol_spent)
      /\ Given(w)' = SatAdd(new.tokens_allocated, new.curve_tokens_bought)
  <2>1. TypeOK'
    BY BuyCurveType
  <2>2. /\ record'[w].sol_deposited \in Nat /\ record'[w].curve_sol_spent \in Nat
        /\ record'[w].tokens_allocated \in Nat /\ record'[w].curve_tokens_bought \in Nat
    BY <2>1, ConstantTypes DEF TypeOK, BuyerRecord
  <2> QED
    BY <1>3, <2>2, MaxU64Assumption DEF Paid, Given, SatAdd, Fits
<1> QED
  BY <1>3, <1>4 DEF AverageEntry

\* EntryIsAverage of one buyer.
Floor(v) ==
  record[v].curve_tokens_bought > 0 /\ Fits(Paid(v)) /\ Fits(Given(v))
    => record[v].entry_price = Paid(v) \div Given(v)

LEMMA NextFloor ==
  ASSUME TypeOK, LaunchInvariant, EntryIsAverage, [Next]_vars
  PROVE  EntryIsAverage'
<1>1. \A v \in Wallets : Floor(v)
  BY DEF EntryIsAverage, Floor
<1>2. ASSUME NEW v \in Wallets, record'[v] = record[v] PROVE Floor(v)'
  BY <1>1, <1>2 DEF Floor, Paid, Given
<1>3. ASSUME NEW v \in Wallets, record'[v].curve_tokens_bought = 0 PROVE Floor(v)'
  BY <1>3 DEF Floor
<1>4. ASSUME NEW w \in Wallets, NEW a \in Deposits, BuyPresale(w, a)
      PROVE  \A v \in Wallets : Floor(v)'
  <2>1. /\ \A v \in Wallets \ {w} : record'[v] = record[v]
        /\ record'[w].curve_tokens_bought = record[w].curve_tokens_bought
    BY <1>4, BuyPresaleEffect DEF LaunchInvariant
  <2>2. record[w].curve_tokens_bought = 0
    BY <1>4 DEF BuyPresale, LaunchInvariant, NoTradesBeforeCurve
  <2> QED  BY <1>2, <1>3, <2>1, <2>2
<1>5. ASSUME NEW w \in Wallets, NEW b \in Wallets, NEW to \in Holders,
             FinalizeLaunch(w, b, to)
      PROVE  \A v \in Wallets : Floor(v)'
  <2>1. \A v \in Wallets : record'[v].curve_tokens_bought = record[v].curve_tokens_bought
    BY <1>5 DEF FinalizeLaunch, TypeOK, BuyerRecord
  <2>2. \A v \in Wallets : record[v].curve_tokens_bought = 0
    BY <1>5 DEF FinalizeLaunch, LaunchInvariant, NoTradesBeforeCurve
  <2> QED  BY <1>3, <2>1, <2>2
<1>6. ASSUME NEW w \in Wallets, NEW a \in BuyAmounts, NEW to \in Holders, BuyCurve(w, a, to)
      PROVE  \A v \in Wallets : Floor(v)'
  <2>1. \A v \in Wallets \ {w} : record'[v] = record[v]
    BY <1>6 DEF BuyCurve, TypeOK
  <2>2. Floor(w)'
    BY <1>6, BuyCurveFloor DEF Floor
  <2> QED  BY <1>2, <2>1, <2>2
<1>7. ASSUME NEW w \in Wallets, NEW a \in SellAmounts, SellCurve(w, a)
      PROVE  \A v \in Wallets : Floor(v)'
  <2>1. /\ \A v \in Wallets \ {w} : record'[v] = record[v]
        /\ record'[w] = [record[w] EXCEPT !.tokens_sold = @ + a]
    BY <1>7, SellCurveEffect
  <2>2. /\ record'[w].curve_tokens_bought = record[w].curve_tokens_bought
        /\ record'[w].entry_price = record[w].entry_price
        /\ Paid(w)' = Paid(w) /\ Given(w)' = Given(w)
    BY <2>1, RecordTypes DEF BuyerRecord, Paid, Given
  <2>3. Floor(w)'
    BY <1>1, <2>2 DEF Floor
  <2> QED  BY <1>2, <2>1, <2>3
<1>8. ASSUME record' = record PROVE \A v \in Wallets : Floor(v)'
  BY <1>2, <1>8
<1>9. \A v \in Wallets : Floor(v)'
  BY <1>4, <1>5, <1>6, <1>7, <1>8
  DEF Next, vars, chain, Tick, Graduate, CreateLaunch, StartBondingCurve,
      UpdatePrice, RegisterMarket
<1> QED
  BY <1>9 DEF EntryIsAverage, Floor

\* The floor of a buyer who bought on the curve stays the average over all
\* the buyer paid and was given: a finalisation or a deposit, which also write
\* it, cannot follow a purchase on the curve.
THEOREM FloorIsAverage == Spec => []EntryIsAverage
<1>1. Init => EntryIsAverage
  BY DEF Init, EmptyRecord, EntryIsAverage
<1>2. TypeOK /\ LaunchInvariant /\ EntryIsAverage /\ [Next]_vars => EntryIsAverage'
  BY NextFloor
<1> QED
  BY <1>1, <1>2, TypeCorrect, Invariance, PTL DEF Spec

-----------------------------------------------------------------------------
(* The vault as every accounts struct declares it: a System account *)

\* sell_curve's debit of the vault never succeeds: a sale pays something, and
\* the runtime lets no program but the owner take it.
LEMMA NoSaleFromSystemVault ==
  ASSUME VaultOwner = "system", TypeOK, PricePositive,
         NEW w \in Wallets, NEW a \in SellAmounts
  PROVE  ~ SellCurve(w, a)
<1> SUFFICES ASSUME SellCurve(w, a) PROVE FALSE
  OBVIOUS
<1> DEFINE raw == SellRaw(a)
<1>1. a \in U64 /\ a > 0 /\ a \in Nat
  BY ConstantTypes DEF SellCurve, SellAllowed
<1>2. pool.price_lamports > 0
  BY DEF SellCurve, SellAllowed, InBondingCurve, PricePositive
<1>3. raw \in Nat /\ raw > 0
  <2>1. SatSub(pool.tokens_sold_curve, a) \in U64
    BY <1>1, SatType DEF TypeOK, LaunchPool
  <2> DEFINE from == SatSub(pool.tokens_sold_curve, a)
             price == pool.price_lamports
  <2>2. from \in Nat /\ price \in Nat /\ price > 0 /\ Slope \in Nat
    BY <1>2, <2>1, ConstantTypes DEF TypeOK, LaunchPool
  <2>3. raw = bonding_curve_cost(price, Slope, from, a)
    BY DEF SellRaw
  <2> HIDE DEF from, price, raw
  <2> QED  BY <1>1, <2>2, <2>3, CostType
<1>4. SellReturn(a) = SatSub(raw, Fee(raw))
  BY DEF SellReturn
<1> HIDE DEF raw
<1>5. SellReturn(a) # 0
  BY <1>3, <1>4, FeeBound DEF SatSub
<1> QED
  BY <1>5 DEF SellCurve, DebitVault

LEMMA NextLedger ==
  ASSUME VaultOwner = "system", TypeOK, LaunchInvariant, VaultIsLedger, [Next]_vars
  PROVE  VaultIsLedger'
<1>1. /\ vault \in Nat /\ pool \in LaunchPool
      /\ pool.curve_sol_collected \in Nat /\ pool.total_sol_collected \in Nat
  BY ConstantTypes DEF TypeOK, LaunchPool
<1>2. CASE /\ vault' = vault
           /\ pool'.curve_sol_collected = pool.curve_sol_collected
           /\ pool'.total_sol_collected = pool.total_sol_collected
  BY <1>2 DEF VaultIsLedger
<1>3. ASSUME NEW w \in Wallets, NEW s \in Supplies, NEW p \in Prices, CreateLaunch(w, s, p)
      PROVE  VaultIsLedger'
  BY <1>3 DEF CreateLaunch, LaunchInvariant, NothingBeforeLaunch, NoPool, VaultIsLedger
<1>4. ASSUME NEW w \in Wallets, NEW a \in Deposits, BuyPresale(w, a)
      PROVE  VaultIsLedger'
  <2>1. vault' = vault + a /\ a \in Nat
    BY <1>4, ConstantTypes DEF BuyPresale, TransferToVault
  <2>2. /\ pool'.curve_sol_collected = pool.curve_sol_collected
        /\ pool'.total_sol_collected = pool.total_sol_collected + a
    BY <1>1, <1>4 DEF BuyPresale, LaunchPool
  <2> QED  BY <1>1, <2>1, <2>2 DEF VaultIsLedger
<1>5. ASSUME NEW w \in Wallets, NEW a \in BuyAmounts, NEW to \in Holders, BuyCurve(w, a, to)
      PROVE  VaultIsLedger'
  <2>1. PICK c \in Nat \ {0} :
          /\ vault' = vault + c
          /\ pool'.curve_sol_collected = pool.curve_sol_collected + c
          /\ pool'.total_sol_collected = pool.total_sol_collected
    BY <1>1, <1>5, BuyCurveEffect DEF LaunchInvariant, LaunchPool
  <2> QED  BY <1>1, <2>1 DEF VaultIsLedger
<1>6. \A w \in Wallets, a \in SellAmounts : ~ SellCurve(w, a)
  BY NoSaleFromSystemVault DEF LaunchInvariant
<1> QED
  BY <1>1, <1>2, <1>3, <1>4, <1>5, <1>6
  DEF Next, vars, chain, Tick, Graduate, FinalizeLaunch, StartBondingCurve,
      UpdatePrice, RegisterMarket, LaunchPool

\* So the vault is a ledger of everything paid in: nothing ever leaves it.
THEOREM DeployedVaultIsLedger ==
  ASSUME VaultOwner = "system"
  PROVE  Spec => []VaultIsLedger
<1>1. Init => VaultIsLedger
  BY DEF Init, NoPool, VaultIsLedger
<1>2. TypeOK /\ LaunchInvariant /\ VaultIsLedger /\ [Next]_vars => VaultIsLedger'
  BY NextLedger
<1> QED
  BY <1>1, <1>2, TypeCorrect, Invariance, PTL DEF Spec

=============================================================================
