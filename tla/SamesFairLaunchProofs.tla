------------------------ MODULE SamesFairLaunchProofs ------------------------
(***************************************************************************)
(* The current program implements FairLaunch, for every value of the       *)
(* constants, and its shares are equal per lamport and fit the supply.     *)
(* All three rest on one more invariant: no deposit exceeds the total it   *)
(* is divided by, so a share never exceeds the supply and its cast to u64  *)
(* keeps it whole.                                                         *)
(***************************************************************************)
EXTENDS SamesFairLaunch, SamesTotalsProofs

-----------------------------------------------------------------------------
(* Shares *)

\* The cast of a share to u64 changes nothing.
LEMMA AllocationExact ==
  ASSUME TypeOK, DepositsWithinTotal, pool.total_sol_collected > 0, NEW b \in Wallets
  PROVE  Allocation(record[b].sol_deposited)
           = (record[b].sol_deposited * pool.total_supply) \div pool.total_sol_collected
<1> DEFINE d == record[b].sol_deposited
           s == pool.total_supply
           p == pool.total_sol_collected
           share == (d * s) \div p
<1>1. d \in Nat /\ s \in U64 /\ s \in Nat /\ p \in Nat \ {0} /\ d <= p
  <2>1. d \in Nat /\ d <= p
    BY RecordTypes DEF DepositsWithinTotal
  <2>2. s \in U64 /\ p \in U64
    BY DEF TypeOK, LaunchPool
  <2>3. p > 0
    BY DEF p
  <2>4. U64 \subseteq Nat
    BY ConstantTypes
  <2> HIDE DEF d, s, p
  <2> QED  BY <2>1, <2>2, <2>3, <2>4
<1>2. share \in Nat /\ share <= s
  <2> HIDE DEF d, s, p
  <2> QED  BY <1>1, ShareBound
<1>3. Allocation(d) = share % (MaxU64 + 1)
  BY DEF Allocation
<1> HIDE DEF share
<1>4. share % (MaxU64 + 1) = share
  <2>1. s <= MaxU64
    BY <1>1 DEF U64
  <2>2. share \in 0 .. MaxU64
    <3> HIDE DEF s
    <3> QED  BY <1>1, <1>2, <2>1, MaxU64Assumption
  <2> QED  BY <2>2, MaxU64Assumption
<1> QED
  BY <1>3, <1>4 DEF share

\* Whenever and in whatever order buyers are finalised, they get the same
\* tokens per lamport, to within the rounding of one token.
THEOREM EqualShares == Spec => []EqualSharesPerLamport
<1>1. TypeOK /\ LaunchInvariant /\ DepositsWithinTotal => EqualSharesPerLamport
  <2> SUFFICES ASSUME TypeOK, LaunchInvariant, DepositsWithinTotal,
                      NEW v \in Wallets, NEW w \in Wallets,
                      record[v].tokens_allocated > 0, record[w].tokens_allocated > 0
               PROVE  record[v].tokens_allocated * record[w].sol_deposited
                        <= (record[w].tokens_allocated + 1) * record[v].sol_deposited
    BY DEF EqualSharesPerLamport
  <2> DEFINE s == pool.total_supply
             p == pool.total_sol_collected
             a == record[v].sol_deposited
             b == record[w].sol_deposited
  <2>1. /\ record[v].tokens_allocated = Allocation(a)
        /\ record[w].tokens_allocated = Allocation(b)
    BY DEF LaunchInvariant, AllocationIsShare
  <2>2. a \in Nat /\ b \in Nat /\ s \in Nat /\ p \in Nat /\ a <= p /\ b <= p
    BY ConstantTypes, RecordTypes DEF TypeOK, LaunchPool, DepositsWithinTotal
  <2>3. CASE p = 0
    <3>1. a = 0 /\ b = 0
      BY <2>2, <2>3
    <3> QED  BY <3>1, RecordTypes
  <2>4. CASE p > 0
    <3>1. /\ record[v].tokens_allocated = (a * s) \div p
          /\ record[w].tokens_allocated = (b * s) \div p
      BY <2>1, <2>4, AllocationExact
    <3> HIDE DEF a, b, s, p
    <3>2. p \in Nat \ {0}
      BY <2>2, <2>4
    <3>3. ((a * s) \div p) * b <= ((b * s) \div p + 1) * a
      BY <2>2, <3>2, SharesProportional
    <3> QED  BY <3>1, <3>3 DEF a, b
  <2> QED  BY <2>2, <2>3, <2>4
<1> QED
  BY <1>1, TypeCorrect, Invariance, DepositsCovered, PTL

\* The shares given out so far fit the supply, whoever has been finalised.
LEMMA SharesFit ==
  TypeOK /\ LaunchInvariant /\ DepositsAddUp => AllocationsWithinSupply
<1> SUFFICES ASSUME TypeOK, LaunchInvariant, DepositsAddUp PROVE AllocationsWithinSupply
  OBVIOUS
<1> DEFINE d == [w \in Wallets |-> record[w].sol_deposited]
           t == [w \in Wallets |-> record[w].tokens_allocated]
           s == pool.total_supply
           p == pool.total_sol_collected
<1>1. d \in [Wallets -> Nat] /\ t \in [Wallets -> Nat] /\ s \in Nat /\ p \in Nat
  BY RecordTypes, ConstantTypes DEF TypeOK, LaunchPool
<1>2. p = SumFunction(d) /\ (AllocationsWithinSupply <=> SumFunction(t) <= s)
  BY DEF DepositsAddUp, AllocationsWithinSupply, Total
<1>3. ASSUME NEW w \in Wallets, t[w] > 0
      PROVE  d[w] > 0 /\ t[w] = (d[w] * s) \div p
  <2>1. DepositsWithinTotal
    BY SumCoversEach
  <2>2. d[w] > 0 /\ t[w] = Allocation(d[w])
    BY <1>3 DEF LaunchInvariant, AllocationIsShare
  <2>3. p > 0
    BY <1>1, <2>1, <2>2 DEF DepositsWithinTotal
  <2>4. Allocation(d[w]) = (d[w] * s) \div p
    BY <2>1, <2>3, AllocationExact
  <2> QED  BY <2>2, <2>4
<1> HIDE DEF d, t, s, p
<1> QED
  BY <1>1, <1>2, <1>3, LaunchAssumptions, SharesFitTogether

\* finalize_launch divides one buyer's share at a time, and never hands out
\* more than there is.
THEOREM AllocationsFit == Spec => []AllocationsWithinSupply
BY SharesFit, TypeCorrect, Invariance, DepositsSumUp, PTL

-----------------------------------------------------------------------------
(* Refinement: each instruction is one step of FairLaunch, or none *)

LEMMA PhaseStays ==
  ASSUME pool'.status = pool.status, pool'.end_time = pool.end_time, clock' = clock
  PROVE  Phase' = Phase
BY DEF Phase, is_presale_over

LEMMA InitRefines == Init => Fair!Init
BY DEF Init, NoPool, EmptyRecord, Fair!Init, Fair!Nothing, Phase

LEMMA CreateLaunchRefines ==
  ASSUME TypeOK, LaunchInvariant,
         NEW w \in Wallets, NEW s \in Supplies, NEW p \in Prices, CreateLaunch(w, s, p)
  PROVE  Fair!Next
<1>1. /\ pool.status = "Uncreated" /\ s > 0 /\ pool = NoPool
      /\ pool'.status = "Presale" /\ pool'.total_supply = s
      /\ pool'.end_time = clock + PresaleDuration
      /\ pool'.total_sol_collected = 0
      /\ UNCHANGED <<clock, record>>
  BY DEF CreateLaunch, NoPool, LaunchInvariant, NothingBeforeLaunch
<1>2. Phase = "none"
  BY <1>1 DEF Phase
<1>3. Phase' = "open"
  <2>1. clock \in Nat /\ ~ (clock >= clock + PresaleDuration)
    BY ConstantTypes DEF TypeOK
  <2> QED  BY <1>1, <2>1 DEF Phase, is_presale_over
<1>4. s \in U64
  BY ConstantTypes
<1>5. Fair!Announce(s)
  BY <1>1, <1>2, <1>3 DEF Fair!Announce, NoPool
<1> QED
  BY <1>4, <1>5 DEF Fair!Next

LEMMA BuyPresaleRefines ==
  ASSUME TypeOK, LaunchInvariant,
         NEW w \in Wallets, NEW a \in Deposits, BuyPresale(w, a)
  PROVE  Fair!Next
<1>1. /\ a \in Nat \ {0}
      /\ \A v \in Wallets \ {w} : record'[v] = record[v]
      /\ record'[w].sol_deposited = record[w].sol_deposited + a
      /\ record'[w].tokens_allocated = record[w].tokens_allocated
      /\ record'[w].tokens_sold = record[w].tokens_sold
      /\ record'[w].curve_tokens_bought = record[w].curve_tokens_bought
  BY BuyPresaleEffect DEF LaunchInvariant
<1>2. /\ pool.status = "Presale" /\ InPresaleWindow(clock) /\ clock' = clock
      /\ pool'.status = pool.status /\ pool'.end_time = pool.end_time
      /\ pool'.total_supply = pool.total_supply
      /\ pool'.total_sol_collected = pool.total_sol_collected + a
  BY DEF BuyPresale, TypeOK, LaunchPool
<1>3. Phase = "open" /\ Phase' = Phase
  <2>1. clock \in Nat /\ pool.end_time \in Nat
    BY DEF TypeOK, LaunchPool
  <2>2. ~ is_presale_over(clock)
    BY <1>2, <2>1 DEF InPresaleWindow, is_presale_over
  <2> QED  BY <1>2, <2>2, PhaseStays DEF Phase
<1>4. a \in U64
  BY ConstantTypes
<1>5. /\ [v \in Wallets |-> record'[v].sol_deposited]
           = [[v \in Wallets |-> record[v].sol_deposited] EXCEPT ![w] = @ + a]
      /\ [v \in Wallets |-> record'[v].tokens_allocated]
           = [v \in Wallets |-> record[v].tokens_allocated]
      /\ [v \in Wallets |-> record'[v].tokens_sold]
           = [v \in Wallets |-> record[v].tokens_sold]
      /\ [v \in Wallets |-> record'[v].curve_tokens_bought]
           = [v \in Wallets |-> record[v].curve_tokens_bought]
  BY <1>1
<1>6. Fair!Deposit(w, a)
  BY <1>1, <1>2, <1>3, <1>5 DEF Fair!Deposit
<1> QED
  BY <1>4, <1>6 DEF Fair!Next

\* The first finalisation gives the share of the final deposits, the
\* following ones give it again.
LEMMA FinalizeLaunchRefines ==
  ASSUME TypeOK, LaunchInvariant, DepositsWithinTotal,
         NEW w \in Wallets, NEW b \in Wallets, NEW to \in Holders, FinalizeLaunch(w, b, to)
  PROVE  [Fair!Next]_(Fair!vars)
<1> DEFINE tokens == Allocation(record[b].sol_deposited)
<1>1. /\ record' = [record EXCEPT ![b].tokens_allocated = tokens,
                                  ![b].entry_price = pool.price_lamports]
      /\ pool.status = "Presale" /\ is_presale_over(clock)
      /\ record[b].sol_deposited > 0 /\ pool.total_sol_collected > 0
      /\ UNCHANGED <<clock, pool>>
  BY DEF FinalizeLaunch
<1>2. tokens = (record[b].sol_deposited * pool.total_supply) \div pool.total_sol_collected
  BY <1>1, AllocationExact
<1>3. record[b].tokens_allocated > 0 => record[b].tokens_allocated = tokens
  BY DEF LaunchInvariant, AllocationIsShare
<1> HIDE DEF tokens
<1>4. Phase = "closed" /\ Phase' = Phase
  BY <1>1, PhaseStays DEF Phase
<1>5. /\ \A v \in Wallets \ {b} : record'[v] = record[v]
      /\ record'[b].sol_deposited = record[b].sol_deposited
      /\ record'[b].tokens_allocated = tokens
      /\ record'[b].tokens_sold = record[b].tokens_sold
      /\ record'[b].curve_tokens_bought = record[b].curve_tokens_bought
  BY <1>1, RecordTypes DEF TypeOK, BuyerRecord
<1>6. /\ [v \in Wallets |-> record'[v].sol_deposited]
           = [v \in Wallets |-> record[v].sol_deposited]
      /\ [v \in Wallets |-> record'[v].tokens_allocated]
           = [[v \in Wallets |-> record[v].tokens_allocated] EXCEPT ![b] = tokens]
      /\ [v \in Wallets |-> record'[v].tokens_sold]
           = [v \in Wallets |-> record[v].tokens_sold]
      /\ [v \in Wallets |-> record'[v].curve_tokens_bought]
           = [v \in Wallets |-> record[v].curve_tokens_bought]
  BY <1>5
<1>7. CASE record[b].tokens_allocated = 0
  <2>1. Fair!Allot(b)
    BY <1>1, <1>2, <1>4, <1>6, <1>7 DEF Fair!Allot
  <2> QED  BY <2>1 DEF Fair!Next
<1>8. CASE record[b].tokens_allocated > 0
  <2>1. [v \in Wallets |-> record'[v].tokens_allocated]
          = [v \in Wallets |-> record[v].tokens_allocated]
    BY <1>3, <1>5, <1>8
  <2> QED  BY <1>1, <1>4, <1>6, <2>1 DEF Fair!vars
<1> QED
  BY <1>7, <1>8, RecordTypes

LEMMA BuyCurveRefines ==
  ASSUME TypeOK, LaunchInvariant,
         NEW w \in Wallets, NEW a \in BuyAmounts, NEW to \in Holders, BuyCurve(w, a, to)
  PROVE  Fair!Next
<1>1. PICK tokens \in Nat \ {0}, c \in Nat \ {0} :
           /\ \A v \in Wallets \ {w} : record'[v] = record[v]
           /\ record'[w].sol_deposited = record[w].sol_deposited
           /\ record'[w].tokens_allocated = record[w].tokens_allocated
           /\ record'[w].tokens_sold = record[w].tokens_sold
           /\ record'[w].curve_sol_spent = record[w].curve_sol_spent + c
           /\ record'[w].curve_tokens_bought = record[w].curve_tokens_bought + tokens
           /\ vault' = vault + c
           /\ supply' = supply + tokens
           /\ pool' = [pool EXCEPT !.tokens_sold_curve = @ + tokens,
                                   !.curve_sol_collected = @ + c,
                                   !.buyer_count = IF FirstBuy(w) THEN @ + 1 ELSE @]
  BY BuyCurveEffect DEF LaunchInvariant
<1>2. /\ pool'.status = pool.status /\ pool'.end_time = pool.end_time
      /\ pool'.total_supply = pool.total_supply
      /\ pool'.total_sol_collected = pool.total_sol_collected
      /\ pool.status = "BondingCurve" /\ clock' = clock
  BY <1>1 DEF BuyCurve, InBondingCurve, TypeOK, LaunchPool
<1>3. tokens \in U64
  <2>1. TypeOK'
    BY BuyCurveType
  <2>2. record'[w].curve_tokens_bought \in U64 /\ record[w].curve_tokens_bought \in Nat
    BY <2>1, RecordTypes DEF TypeOK, BuyerRecord
  <2> QED  BY <1>1, <2>2, MaxU64Assumption DEF U64
<1>4. Phase = "trading" /\ Phase' = Phase
  BY <1>2, PhaseStays DEF Phase
<1>5. /\ [v \in Wallets |-> record'[v].sol_deposited]
           = [v \in Wallets |-> record[v].sol_deposited]
      /\ [v \in Wallets |-> record'[v].tokens_allocated]
           = [v \in Wallets |-> record[v].tokens_allocated]
      /\ [v \in Wallets |-> record'[v].tokens_sold]
           = [v \in Wallets |-> record[v].tokens_sold]
      /\ [v \in Wallets |-> record'[v].curve_tokens_bought]
           = [[v \in Wallets |-> record[v].curve_tokens_bought] EXCEPT ![w] = @ + tokens]
  BY <1>1
<1>6. Fair!Buy(w, tokens)
  BY <1>1, <1>2, <1>4, <1>5 DEF Fair!Buy
<1> QED
  BY <1>3, <1>6 DEF Fair!Next

LEMMA SellCurveRefines ==
  ASSUME TypeOK, LaunchInvariant,
         NEW w \in Wallets, NEW a \in SellAmounts, SellCurve(w, a)
  PROVE  Fair!Next
<1>1. /\ a \in Nat \ {0}
      /\ \A v \in Wallets \ {w} : record'[v] = record[v]
      /\ record'[w] = [record[w] EXCEPT !.tokens_sold = @ + a]
      /\ record[w].tokens_sold + a
           <= record[w].tokens_allocated + record[w].curve_tokens_bought
  BY SellCurveEffect DEF LaunchInvariant, SoldWithinBought
<1>2. /\ record'[w].sol_deposited = record[w].sol_deposited
      /\ record'[w].tokens_allocated = record[w].tokens_allocated
      /\ record'[w].tokens_sold = record[w].tokens_sold + a
      /\ record'[w].curve_tokens_bought = record[w].curve_tokens_bought
  BY <1>1, RecordTypes DEF BuyerRecord
<1>3. /\ pool'.status = pool.status /\ pool'.end_time = pool.end_time
      /\ pool'.total_supply = pool.total_supply
      /\ pool'.total_sol_collected = pool.total_sol_collected
      /\ pool.status = "BondingCurve" /\ clock' = clock
  BY DEF SellCurve, SellAllowed, InBondingCurve, TypeOK, LaunchPool
<1>4. Phase = "trading" /\ Phase' = Phase
  BY <1>3, PhaseStays DEF Phase
<1>5. /\ [v \in Wallets |-> record'[v].sol_deposited]
           = [v \in Wallets |-> record[v].sol_deposited]
      /\ [v \in Wallets |-> record'[v].tokens_allocated]
           = [v \in Wallets |-> record[v].tokens_allocated]
      /\ [v \in Wallets |-> record'[v].tokens_sold]
           = [[v \in Wallets |-> record[v].tokens_sold] EXCEPT ![w] = @ + a]
      /\ [v \in Wallets |-> record'[v].curve_tokens_bought]
           = [v \in Wallets |-> record[v].curve_tokens_bought]
  BY <1>1, <1>2
<1>6. Fair!Sell(w, a)
  BY <1>1, <1>3, <1>4, <1>5 DEF Fair!Sell
<1> QED
  BY <1>6, ConstantTypes DEF Fair!Next

\* Steps that leave the records alone: the clock closes the presale, the
\* creator opens the market, graduate ends it, and the rest goes unseen.
LEMMA StatusRefines ==
  ASSUME TypeOK, Tick \/ Graduate \/ \E w \in Wallets : StartBondingCurve(w)
  PROVE  [Fair!Next]_(Fair!vars)
<1>1. record' = record
  BY DEF Tick, chain, Graduate, StartBondingCurve
<1>2. CASE Tick
  <2>1. pool' = pool
    BY <1>2 DEF Tick, chain
  <2>2. clock' = clock + 1 /\ clock \in Nat /\ pool.end_time \in Nat
        /\ pool.status \in LaunchStatus
    BY <1>2 DEF Tick, TypeOK, LaunchPool
  <2>3. Phase' = Phase \/ (Phase = "open" /\ Phase' = "closed")
    BY <2>1, <2>2 DEF Phase, is_presale_over, LaunchStatus
  <2>4. CASE Phase' = Phase
    BY <1>1, <2>1, <2>4 DEF Fair!vars
  <2>5. CASE Phase = "open" /\ Phase' = "closed"
    <3>1. Fair!Close
      BY <1>1, <2>1, <2>5 DEF Fair!Close
    <3> QED  BY <3>1 DEF Fair!Next
  <2> QED  BY <2>3, <2>4, <2>5
<1>3. CASE Graduate
  <2>1. /\ pool.status = "BondingCurve" /\ pool'.status = "Graduated"
        /\ pool'.total_supply = pool.total_supply
        /\ pool'.total_sol_collected = pool.total_sol_collected
    BY <1>3 DEF Graduate, InBondingCurve, TypeOK, LaunchPool
  <2>2. Phase = "trading" /\ Phase' = "over"
    BY <2>1 DEF Phase
  <2>3. Fair!End
    BY <1>1, <2>1, <2>2 DEF Fair!End
  <2> QED  BY <2>3 DEF Fair!Next
<1>4. ASSUME NEW w \in Wallets, StartBondingCurve(w) PROVE Fair!Next
  <2>1. /\ pool.status = "Presale" /\ pool'.status = "BondingCurve"
        /\ is_presale_over(clock)
        /\ pool'.total_supply = pool.total_supply
        /\ pool'.total_sol_collected = pool.total_sol_collected
    BY <1>4 DEF StartBondingCurve, TypeOK, LaunchPool
  <2>2. Phase = "closed" /\ Phase' = "trading"
    BY <2>1 DEF Phase
  <2>3. Fair!OpenMarket
    BY <1>1, <2>1, <2>2 DEF Fair!OpenMarket
  <2> QED  BY <2>3 DEF Fair!Next
<1> QED
  BY <1>2, <1>3, <1>4

LEMMA NextRefines ==
  ASSUME TypeOK, LaunchInvariant, DepositsWithinTotal, [Next]_vars
  PROVE  [Fair!Next]_(Fair!vars)
<1>1. CASE Tick \/ Graduate
  BY <1>1, StatusRefines
<1>2. ASSUME NEW w \in Wallets, NEW s \in Supplies, NEW p \in Prices, CreateLaunch(w, s, p)
      PROVE  [Fair!Next]_(Fair!vars)
  BY <1>2, CreateLaunchRefines
<1>3. ASSUME NEW w \in Wallets, NEW a \in Deposits, BuyPresale(w, a)
      PROVE  [Fair!Next]_(Fair!vars)
  BY <1>3, BuyPresaleRefines
<1>4. ASSUME NEW w \in Wallets, NEW b \in Wallets, NEW to \in Holders,
             FinalizeLaunch(w, b, to)
      PROVE  [Fair!Next]_(Fair!vars)
  BY <1>4, FinalizeLaunchRefines
<1>5. ASSUME NEW w \in Wallets, StartBondingCurve(w) PROVE [Fair!Next]_(Fair!vars)
  BY <1>5, StatusRefines
<1>6. ASSUME NEW w \in Wallets, NEW a \in BuyAmounts, NEW to \in Holders, BuyCurve(w, a, to)
      PROVE  [Fair!Next]_(Fair!vars)
  BY <1>6, BuyCurveRefines
<1>7. ASSUME NEW w \in Wallets, NEW a \in SellAmounts, SellCurve(w, a)
      PROVE  [Fair!Next]_(Fair!vars)
  BY <1>7, SellCurveRefines
<1>8. ASSUME /\ pool'.status = pool.status /\ pool'.end_time = pool.end_time
             /\ pool'.total_supply = pool.total_supply
             /\ pool'.total_sol_collected = pool.total_sol_collected
             /\ UNCHANGED <<clock, record>>
      PROVE  UNCHANGED Fair!vars
  BY <1>8, PhaseStays DEF Fair!vars
<1>9. ASSUME NEW w \in Wallets, NEW p \in NewPrices, UpdatePrice(w, p)
      PROVE  UNCHANGED Fair!vars
  BY <1>8, <1>9 DEF UpdatePrice, TypeOK, LaunchPool
<1>10. ASSUME NEW w \in Wallets, NEW m \in Markets, RegisterMarket(w, m)
       PROVE  UNCHANGED Fair!vars
  BY <1>8, <1>10 DEF RegisterMarket
<1>11. CASE UNCHANGED vars
  BY <1>8, <1>11 DEF vars, chain
<1> QED
  BY <1>1, <1>2, <1>3, <1>4, <1>5, <1>6, <1>7, <1>9, <1>10, <1>11 DEF Next

\* Over any interleaving of instructions the program keeps the promises of
\* FairLaunch: no deposit after the closing second, one share per buyer of
\* the final deposits, no sale beyond the share and the purchases.
THEOREM KeepsPromises == Spec => ImplementsFairLaunch
<1>1. Init => Fair!Init
  BY InitRefines
<1>2. TypeOK /\ LaunchInvariant /\ DepositsWithinTotal /\ [Next]_vars
        => [Fair!Next]_(Fair!vars)
  BY NextRefines
<1> QED
  BY <1>1, <1>2, TypeCorrect, Invariance, DepositsCovered, PTL
  DEF Spec, ImplementsFairLaunch, Fair!Spec

=============================================================================
