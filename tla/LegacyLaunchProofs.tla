------------------------- MODULE LegacyLaunchProofs --------------------------
(***************************************************************************)
(* The first version of the program, for every value of the constants: its *)
(* accounts keep their types, its sums agree, what it mints is the shares  *)
(* and fits the supply, nobody is shut out of it, and it keeps the         *)
(* promises of FairLaunch.                                                 *)
(***************************************************************************)
EXTENDS LegacyLaunch, ShareArithmetic, TLAPS

LEMMA ConstantTypes ==
  /\ U64 \subseteq Nat
  /\ 0 \in U64
  /\ {MaxU32, MinWindow, MaxWindow, InitialLamports} \subseteq Nat
  /\ MinWindow > 0
  /\ Prices \subseteq U64 /\ Supplies \subseteq U64
  /\ Deposits \subseteq U64 /\ TransferAmounts \subseteq U64
  /\ Windows \subseteq Nat
BY LegacyAssumptions DEF U64

-----------------------------------------------------------------------------
(* The invariant *)

\* What the handlers rely on: an account that does not exist is empty, a
\* record that exists has a deposit within the pool's total, and no share
\* before its finalisation.
LegacyInvariant ==
  /\ launch.status = "Uncreated" => launch = NoLaunch
  /\ \A w \in Wallets :
       /\ w \notin opened => record[w] = NoRecord
       /\ w \in opened => record[w].sol_deposited > 0
       /\ ~ record[w].finalized => record[w].tokens_allocated = 0
       /\ record[w].sol_deposited <= launch.total_sol_collected

LEMMA InitInv == Init => TypeOK /\ LegacyInvariant
<1> SUFFICES ASSUME Init PROVE TypeOK /\ LegacyInvariant
  OBVIOUS
<1>1. NoRecord \in BuyerRecord
  BY ConstantTypes DEF NoRecord, BuyerRecord
<1>2. launch \in LaunchPool
  BY ConstantTypes DEF Init, NoLaunch, LaunchPool, LaunchStatus
<1>3. TypeOK
  BY <1>1, <1>2, ConstantTypes DEF Init, TypeOK
<1>4. LegacyInvariant
  BY DEF Init, LegacyInvariant, NoRecord, NoLaunch
<1> QED  BY <1>3, <1>4

\* A share of the supply fits the supply, and the cast to u64 changes nothing.
LEMMA AllocationExact ==
  ASSUME TypeOK, LegacyInvariant, launch.total_sol_collected > 0, NEW b \in Wallets
  PROVE  /\ Allocation(record[b].sol_deposited)
              = (record[b].sol_deposited * launch.total_supply)
                  \div launch.total_sol_collected
         /\ Allocation(record[b].sol_deposited) \in U64
<1> DEFINE d == record[b].sol_deposited
           s == launch.total_supply
           p == launch.total_sol_collected
           share == (d * s) \div p
<1>1. d \in Nat /\ s \in U64 /\ s \in Nat /\ p \in Nat \ {0} /\ d <= p
  <2>1. d \in U64 /\ d <= p
    BY DEF TypeOK, BuyerRecord, LegacyInvariant
  <2>2. s \in U64 /\ p \in U64
    BY DEF TypeOK, LaunchPool
  <2>3. p > 0
    OBVIOUS
  <2> HIDE DEF d, s, p
  <2> QED  BY <2>1, <2>2, <2>3, ConstantTypes
<1>2. share \in Nat /\ share <= s
  <2> HIDE DEF d, s, p
  <2> QED  BY <1>1, ShareBound
<1>3. Allocation(d) = share % (MaxU64 + 1)
  BY DEF Allocation
<1> HIDE DEF share
<1>4. share % (MaxU64 + 1) = share /\ share \in U64
  <2>1. s <= MaxU64
    BY <1>1 DEF U64
  <2>2. share \in 0 .. MaxU64
    <3> HIDE DEF s
    <3> QED  BY <1>1, <1>2, <2>1, LegacyAssumptions
  <2> QED  BY <2>2, LegacyAssumptions DEF U64
<1> QED
  BY <1>3, <1>4 DEF share

LEMMA CreateLaunchInv ==
  ASSUME TypeOK, LegacyInvariant, NEW w \in Wallets, NEW p \in Prices, NEW s \in Supplies,
         NEW t \in Windows, CreateLaunch(w, p, s, t)
  PROVE  TypeOK' /\ LegacyInvariant'
<1>1. /\ launch = NoLaunch
      /\ UNCHANGED <<clock, record, opened, escrow, lamports, supply, holding>>
  BY DEF CreateLaunch, LegacyInvariant
<1>2. launch' \in LaunchPool
  <2>1. clock \in Nat /\ clock + t \in Nat
    BY ConstantTypes DEF TypeOK
  <2>2. s \in U64 /\ p \in U64 /\ 0 \in U64 /\ 0 \in 0 .. MaxU32
    BY ConstantTypes
  <2> HIDE DEF U64
  <2> QED
    BY <2>1, <2>2 DEF CreateLaunch, NoLaunch, LaunchPool, LaunchStatus
<1>3. launch'.status = "Presale" /\ launch'.total_sol_collected = launch.total_sol_collected
  BY <1>1 DEF CreateLaunch, NoLaunch
<1> QED
  BY <1>1, <1>2, <1>3 DEF TypeOK, LegacyInvariant

LEMMA BuyPresaleInv ==
  ASSUME TypeOK, LegacyInvariant, NEW w \in Wallets, NEW a \in Deposits, BuyPresale(w, a)
  PROVE  /\ TypeOK' /\ LegacyInvariant'
         /\ a \in Nat \ {0}
         /\ record[w] = NoRecord
         /\ \A v \in Wallets \ {w} : record'[v] = record[v]
         /\ record'[w].sol_deposited = a
         /\ record'[w].tokens_allocated = 0
         /\ launch'.total_sol_collected = launch.total_sol_collected + a
         /\ launch'.total_supply = launch.total_supply
         /\ launch'.status = launch.status
         /\ launch'.presale_end = launch.presale_end
<1> DEFINE r == [NoRecord EXCEPT !.sol_deposited = a, !.entry_price = launch.price_lamports]
<1>1. /\ a \in U64 /\ a \in Nat \ {0}
      /\ w \notin opened /\ a <= lamports[w]
      /\ launch.total_sol_collected + a <= MaxU64
      /\ launch.buyer_count < MaxU32
      /\ launch.status = "Presale"
      /\ lamports' = [lamports EXCEPT ![w] = @ - a] /\ escrow' = escrow + a
      /\ launch' = [launch EXCEPT !.total_sol_collected = @ + a, !.buyer_count = @ + 1]
      /\ record' = [record EXCEPT ![w] = r]
      /\ opened' = opened \cup {w}
      /\ UNCHANGED <<clock, supply, holding>>
  BY ConstantTypes DEF BuyPresale, NewBuyer, Fits
<1>2. launch \in LaunchPool /\ launch.total_sol_collected \in Nat
  BY ConstantTypes DEF TypeOK, LaunchPool
<1>3. r \in BuyerRecord /\ r.sol_deposited = a /\ r.tokens_allocated = 0
  BY <1>1, ConstantTypes DEF NoRecord, BuyerRecord, TypeOK, LaunchPool
<1> HIDE DEF r
<1>4. record'[w] = r /\ \A v \in Wallets \ {w} : record'[v] = record[v]
  BY <1>1 DEF TypeOK
<1>5. /\ launch'.total_sol_collected = launch.total_sol_collected + a
      /\ launch'.total_supply = launch.total_supply
      /\ launch'.status = launch.status
      /\ launch'.presale_end = launch.presale_end
  BY <1>1, <1>2 DEF LaunchPool
<1>6. launch' \in LaunchPool
  <2>1. launch.total_sol_collected + a \in U64
    BY <1>1, <1>2 DEF U64
  <2>2. launch.buyer_count + 1 \in 0 .. MaxU32
    BY <1>1, <1>2, ConstantTypes DEF LaunchPool
  <2> QED  BY <1>1, <1>2, <2>1, <2>2 DEF LaunchPool
<1>7. TypeOK'
  <2>1. record' \in [Wallets -> BuyerRecord]
    BY <1>1, <1>3 DEF TypeOK
  <2>2. lamports' \in [Wallets -> Nat] /\ escrow' \in Nat
    BY <1>1 DEF TypeOK
  <2> QED  BY <1>1, <1>6, <2>1, <2>2 DEF TypeOK
<1>8. LegacyInvariant'
  <2>1. \A v \in Wallets : record[v].sol_deposited \in Nat
    BY ConstantTypes DEF TypeOK, BuyerRecord
  <2>2. ASSUME NEW v \in Wallets
        PROVE  /\ v \notin opened' => record'[v] = NoRecord
               /\ v \in opened' => record'[v].sol_deposited > 0
               /\ ~ record'[v].finalized => record'[v].tokens_allocated = 0
               /\ record'[v].sol_deposited <= launch'.total_sol_collected
    <3>1. CASE v = w
      BY <1>1, <1>2, <1>3, <1>4, <1>5, <3>1
    <3>2. CASE v # w
      BY <1>1, <1>2, <1>4, <1>5, <2>1, <3>2 DEF LegacyInvariant
    <3> QED  BY <3>1, <3>2
  <2> QED  BY <1>1, <1>5, <2>2 DEF LegacyInvariant
<1> QED
  BY <1>1, <1>3, <1>4, <1>5, <1>7, <1>8 DEF LegacyInvariant

LEMMA FinalizeBuyerInv ==
  ASSUME TypeOK, LegacyInvariant, NEW b \in Wallets, NEW to \in Wallets, FinalizeBuyer(b, to)
  PROVE  /\ TypeOK' /\ LegacyInvariant'
         /\ launch.status = "Presale" /\ ~ (clock < launch.presale_end)
         /\ launch.total_sol_collected > 0
         /\ UNCHANGED <<clock, launch>>
         /\ record[b].sol_deposited > 0 /\ record[b].tokens_allocated = 0
         /\ \A v \in Wallets \ {b} : record'[v] = record[v]
         /\ record'[b].sol_deposited = record[b].sol_deposited
         /\ record'[b].tokens_allocated
              = (record[b].sol_deposited * launch.total_supply)
                  \div launch.total_sol_collected
<1> DEFINE tokens == Allocation(record[b].sol_deposited)
<1>1. /\ clock >= launch.presale_end /\ launch.status = "Presale"
      /\ b \in opened /\ ~ record[b].finalized
      /\ launch.total_sol_collected > 0
      /\ supply + tokens <= MaxU64
      /\ record' = [record EXCEPT ![b].tokens_allocated = tokens,
                                  ![b].tokens_remaining = tokens,
                                  ![b].finalized = TRUE]
      /\ supply' = supply + tokens
      /\ holding' = [holding EXCEPT ![to] = @ + tokens]
      /\ UNCHANGED <<clock, launch, opened, escrow, lamports>>
  BY DEF FinalizeBuyer, CanFinalize, ToFinalize, LaunchAfterFinalize, Fits
<1>2. /\ tokens = (record[b].sol_deposited * launch.total_supply)
                    \div launch.total_sol_collected
      /\ tokens \in U64 /\ tokens \in Nat
  BY <1>1, AllocationExact, ConstantTypes
<1> HIDE DEF tokens
<1>3. /\ \A v \in Wallets \ {b} : record'[v] = record[v]
      /\ record'[b].sol_deposited = record[b].sol_deposited
      /\ record'[b].tokens_allocated = tokens
      /\ record'[b].finalized = TRUE
  BY <1>1 DEF TypeOK, BuyerRecord
<1>4. record' \in [Wallets -> BuyerRecord]
  BY <1>1, <1>2 DEF TypeOK, BuyerRecord
<1>5. supply' \in U64 /\ holding' \in [Wallets -> Nat]
  BY <1>1, <1>2 DEF TypeOK, U64
<1>6. TypeOK'
  BY <1>1, <1>4, <1>5 DEF TypeOK
<1>7. LegacyInvariant'
  BY <1>1, <1>3 DEF LegacyInvariant
<1>8. ~ (clock < launch.presale_end)
  BY <1>1 DEF TypeOK, LaunchPool
<1> QED
  BY <1>1, <1>2, <1>3, <1>6, <1>7, <1>8 DEF LegacyInvariant

LEMMA TransferInv ==
  ASSUME TypeOK, LegacyInvariant, NEW w \in Wallets, NEW to \in Wallets,
         NEW n \in TransferAmounts, Transfer(w, to, n)
  PROVE  /\ TypeOK' /\ LegacyInvariant'
         /\ UNCHANGED <<clock, launch, record>>
<1>1. /\ n \in Nat /\ w # to /\ n <= holding[w]
      /\ holding' = [holding EXCEPT ![w] = @ - n, ![to] = @ + n]
      /\ UNCHANGED <<clock, launch, record, opened, escrow, lamports, supply>>
  BY ConstantTypes DEF Transfer
<1>2. holding' \in [Wallets -> Nat]
  BY <1>1 DEF TypeOK
<1> QED
  BY <1>1, <1>2 DEF TypeOK, LegacyInvariant

LEMMA NextInv == TypeOK /\ LegacyInvariant /\ [Next]_vars => TypeOK' /\ LegacyInvariant'
<1> SUFFICES ASSUME TypeOK, LegacyInvariant, [Next]_vars PROVE TypeOK' /\ LegacyInvariant'
  OBVIOUS
<1>1. CASE Tick \/ UNCHANGED vars
  BY <1>1 DEF Tick, vars, TypeOK, LegacyInvariant
<1>2. ASSUME NEW w \in Wallets, NEW p \in Prices, NEW s \in Supplies, NEW t \in Windows,
             CreateLaunch(w, p, s, t)
      PROVE  TypeOK' /\ LegacyInvariant'
  BY <1>2, CreateLaunchInv
<1>3. ASSUME NEW w \in Wallets, NEW a \in Deposits, BuyPresale(w, a)
      PROVE  TypeOK' /\ LegacyInvariant'
  BY <1>3, BuyPresaleInv
<1>4. ASSUME NEW w \in Wallets, NEW to \in Wallets, FinalizeBuyer(w, to)
      PROVE  TypeOK' /\ LegacyInvariant'
  BY <1>4, FinalizeBuyerInv
<1>5. ASSUME NEW w \in Wallets, NEW to \in Wallets, NEW n \in TransferAmounts,
             Transfer(w, to, n)
      PROVE  TypeOK' /\ LegacyInvariant'
  BY <1>5, TransferInv
<1> QED
  BY <1>1, <1>2, <1>3, <1>4, <1>5 DEF Next

\* Every account holds what its Rust type can hold: the checked additions of
\* buy_presale and the cast of finalize_buyer never leave it.
THEOREM LegacyTypeCorrect == Spec => []TypeOK
<1> QED
  BY InitInv, NextInv, PTL DEF Spec

-----------------------------------------------------------------------------
(* Deposits, shares and the mint *)

\* The lamports deposited and the tokens given to each buyer.
Deposited == [w \in Wallets |-> record[w].sol_deposited]
Given == [w \in Wallets |-> record[w].tokens_allocated]

LEMMA GivenTypes ==
  ASSUME TypeOK
  PROVE  Deposited \in [Wallets -> Nat] /\ Given \in [Wallets -> Nat]
BY ConstantTypes DEF TypeOK, BuyerRecord, Deposited, Given

\* A step is a deposit of a new buyer, the finalisation of a buyer, or none
\* of the two.
LEMMA StepEffect ==
  ASSUME TypeOK, LegacyInvariant, [Next]_vars
  PROVE  \/ \E w \in Wallets, a \in Deposits : BuyPresale(w, a)
         \/ \E b, to \in Wallets : FinalizeBuyer(b, to)
         \/ /\ UNCHANGED <<record, opened, escrow>>
            /\ launch'.total_sol_collected = launch.total_sol_collected
            /\ launch'.buyer_count = launch.buyer_count
<1>1. ASSUME NEW w \in Wallets, NEW p \in Prices, NEW s \in Supplies, NEW t \in Windows,
             CreateLaunch(w, p, s, t)
      PROVE  /\ UNCHANGED <<record, opened, escrow>>
             /\ launch'.total_sol_collected = launch.total_sol_collected
             /\ launch'.buyer_count = launch.buyer_count
  BY <1>1 DEF CreateLaunch, LegacyInvariant, NoLaunch
<1> QED
  BY <1>1 DEF Next, vars, Tick, Transfer

LEMMA NextCounts ==
  ASSUME TypeOK, LegacyInvariant, PoolCountsDeposits, [Next]_vars
  PROVE  PoolCountsDeposits'
<1>1. /\ PoolCountsDeposits  <=> /\ launch.total_sol_collected = SumFunction(Deposited)
                                /\ escrow = launch.total_sol_collected
                                /\ launch.buyer_count = Cardinality(opened)
      /\ PoolCountsDeposits' <=> /\ launch'.total_sol_collected = SumFunction(Deposited')
                                /\ escrow' = launch'.total_sol_collected
                                /\ launch'.buyer_count = Cardinality(opened')
  BY DEF PoolCountsDeposits, Deposited
<1>2. Deposited \in [Wallets -> Nat] /\ Deposited' \in [Wallets -> Nat]
  BY NextInv, ConstantTypes DEF TypeOK, BuyerRecord, Deposited
<1>3. ASSUME NEW w \in Wallets, NEW a \in Deposits, BuyPresale(w, a)
      PROVE  PoolCountsDeposits'
  <2>1. /\ a \in Nat
        /\ record[w] = NoRecord
        /\ \A v \in Wallets \ {w} : record'[v] = record[v]
        /\ record'[w].sol_deposited = a
        /\ launch'.total_sol_collected = launch.total_sol_collected + a
    BY <1>3, BuyPresaleInv
  <2>2. /\ w \notin opened /\ opened' = opened \cup {w}
        /\ escrow' = escrow + a
        /\ launch'.buyer_count = launch.buyer_count + 1
    BY <1>3 DEF BuyPresale, NewBuyer, TypeOK, LaunchPool
  <2>3. Deposited[w] = 0 /\ Deposited'[w] = a
        /\ \A v \in Wallets \ {w} : Deposited'[v] = Deposited[v]
    BY <2>1 DEF Deposited, NoRecord
  <2>4. /\ SumFunction(Deposited) \in Nat /\ SumFunction(Deposited') \in Nat
        /\ SumFunction(Deposited') + Deposited[w] = SumFunction(Deposited) + Deposited'[w]
    BY <1>2, <2>3, LegacyAssumptions, SumUpdate
  <2>5. Cardinality(opened') = Cardinality(opened) + 1
    <3>1. IsFiniteSet(opened)
      BY LegacyAssumptions, FS_Subset DEF TypeOK
    <3> QED  BY <2>2, <3>1, FS_AddElement
  <2>6. SumFunction(Deposited') = SumFunction(Deposited) + a
    BY <2>1, <2>3, <2>4
  <2> QED  BY <1>1, <2>1, <2>2, <2>5, <2>6
<1>4. ASSUME NEW b \in Wallets, NEW to \in Wallets, FinalizeBuyer(b, to)
      PROVE  PoolCountsDeposits'
  <2>1. /\ UNCHANGED launch
        /\ \A v \in Wallets \ {b} : record'[v] = record[v]
        /\ record'[b].sol_deposited = record[b].sol_deposited
    BY <1>4, FinalizeBuyerInv
  <2>2. UNCHANGED <<opened, escrow>>
    BY <1>4 DEF FinalizeBuyer
  <2>3. Deposited' = Deposited
    BY <2>1 DEF Deposited
  <2> QED  BY <1>1, <2>1, <2>2, <2>3
<1>5. ASSUME UNCHANGED <<record, opened, escrow>>,
             launch'.total_sol_collected = launch.total_sol_collected,
             launch'.buyer_count = launch.buyer_count
      PROVE  PoolCountsDeposits'
  BY <1>1, <1>5 DEF Deposited
<1> QED
  BY <1>3, <1>4, <1>5, StepEffect

\* What finalize_buyer divides by is what the buyers paid, once each, and what
\* the pool's account holds.
THEOREM DepositsCounted == Spec => []PoolCountsDeposits
<1>1. Init => PoolCountsDeposits
  <2> SUFFICES ASSUME Init PROVE PoolCountsDeposits
    OBVIOUS
  <2>1. Deposited \in [Wallets -> Nat] /\ \A w \in Wallets : Deposited[w] = 0
    BY DEF Init, NoRecord, Deposited
  <2>2. SumFunction(Deposited) = 0
    BY <2>1, LegacyAssumptions, SumZero
  <2> QED
    BY <2>2, FS_EmptySet DEF Init, NoLaunch, PoolCountsDeposits, Deposited
<1>2. TypeOK /\ LegacyInvariant /\ PoolCountsDeposits /\ [Next]_vars => PoolCountsDeposits'
  BY NextCounts
<1> QED
  BY <1>1, <1>2, InitInv, NextInv, PTL DEF Spec

\* The mint has issued the shares on the records, and each of them is what
\* the deposits as they stand give its buyer.
SharesMinted ==
  /\ supply = SumFunction(Given)
  /\ \A w \in Wallets :
       record[w].tokens_allocated > 0
         => /\ record[w].sol_deposited > 0
            /\ record[w].tokens_allocated
                 = (record[w].sol_deposited * launch.total_supply)
                     \div launch.total_sol_collected
            /\ launch.status # "Uncreated"
            /\ ~ (clock < launch.presale_end)

LEMMA NextSharesMinted ==
  ASSUME TypeOK, LegacyInvariant, SharesMinted, [Next]_vars
  PROVE  SharesMinted'
<1>1. Given \in [Wallets -> Nat] /\ Given' \in [Wallets -> Nat]
  BY NextInv, ConstantTypes DEF TypeOK, BuyerRecord, Given
<1>2. clock \in Nat /\ clock' \in Nat /\ launch.presale_end \in Nat
  BY NextInv DEF TypeOK, LaunchPool
<1>3. ASSUME NEW w \in Wallets, NEW a \in Deposits, BuyPresale(w, a)
      PROVE  SharesMinted'
  <2>1. /\ record[w] = NoRecord
        /\ \A v \in Wallets \ {w} : record'[v] = record[v]
        /\ record'[w].tokens_allocated = 0
    BY <1>3, BuyPresaleInv
  <2>2. clock < launch.presale_end /\ supply' = supply
    BY <1>3 DEF BuyPresale
  <2>3. Given' = Given
    BY <2>1 DEF Given, NoRecord
  <2>4. \A v \in Wallets : ~ (record'[v].tokens_allocated > 0)
    BY <2>1, <2>2 DEF SharesMinted, NoRecord
  <2> QED  BY <2>2, <2>3, <2>4 DEF SharesMinted
<1>4. ASSUME NEW b \in Wallets, NEW to \in Wallets, FinalizeBuyer(b, to)
      PROVE  SharesMinted'
  <2> DEFINE tokens == Allocation(record[b].sol_deposited)
  <2>1. /\ launch.status = "Presale" /\ ~ (clock < launch.presale_end)
        /\ launch.total_sol_collected > 0
        /\ UNCHANGED <<clock, launch>>
        /\ record[b].sol_deposited > 0 /\ record[b].tokens_allocated = 0
        /\ \A v \in Wallets \ {b} : record'[v] = record[v]
        /\ record'[b].sol_deposited = record[b].sol_deposited
        /\ record'[b].tokens_allocated
             = (record[b].sol_deposited * launch.total_supply)
                 \div launch.total_sol_collected
    BY <1>4, FinalizeBuyerInv
  <2>2. supply' = supply + record'[b].tokens_allocated
    BY <1>4, <2>1, AllocationExact DEF FinalizeBuyer
  <2>3. /\ Given[b] = 0 /\ Given'[b] = record'[b].tokens_allocated
        /\ \A v \in Wallets \ {b} : Given'[v] = Given[v]
    BY <2>1 DEF Given
  <2>4. SumFunction(Given') + Given[b] = SumFunction(Given) + Given'[b]
        /\ SumFunction(Given) \in Nat /\ SumFunction(Given') \in Nat
    BY <1>1, <2>3, LegacyAssumptions, SumUpdate
  <2>5. supply' = SumFunction(Given')
    BY <1>1, <2>2, <2>3, <2>4 DEF SharesMinted
  <2> QED  BY <2>1, <2>5 DEF SharesMinted
<1>5. ASSUME UNCHANGED <<record, supply>>,
             launch'.total_sol_collected = launch.total_sol_collected,
             launch'.total_supply = launch.total_supply,
             launch'.presale_end = launch.presale_end,
             launch'.status = launch.status,
             clock' >= clock
      PROVE  SharesMinted'
  BY <1>2, <1>5 DEF SharesMinted, Given
<1>6. ASSUME NEW w \in Wallets, NEW p \in Prices, NEW s \in Supplies, NEW t \in Windows,
             CreateLaunch(w, p, s, t)
      PROVE  SharesMinted'
  <2>1. launch.status = "Uncreated" /\ UNCHANGED <<record, supply>>
    BY <1>6 DEF CreateLaunch
  <2> QED  BY <2>1 DEF SharesMinted, Given
<1>7. CASE Tick \/ UNCHANGED vars
  BY <1>2, <1>5, <1>7 DEF Tick, vars
<1>8. ASSUME NEW w \in Wallets, NEW to \in Wallets, NEW n \in TransferAmounts,
             Transfer(w, to, n)
      PROVE  SharesMinted'
  BY <1>2, <1>5, <1>8 DEF Transfer
<1> QED
  BY <1>3, <1>4, <1>6, <1>7, <1>8 DEF Next

LEMMA SharesFit ==
  TypeOK /\ PoolCountsDeposits /\ SharesMinted => MintedIsHandedOut
<1> SUFFICES ASSUME TypeOK, PoolCountsDeposits, SharesMinted PROVE MintedIsHandedOut
  OBVIOUS
<1> DEFINE s == launch.total_supply
<1>1. s \in Nat
  BY ConstantTypes DEF TypeOK, LaunchPool
<1>2. \A w \in Wallets : Given[w] > 0 =>
        Deposited[w] > 0 /\ Given[w] = (Deposited[w] * s) \div SumFunction(Deposited)
  BY DEF SharesMinted, PoolCountsDeposits, Given, Deposited
<1>3. supply = SumFunction(Given) /\ (MintedIsHandedOut <=> supply = SumFunction(Given) /\ supply <= s)
  BY DEF SharesMinted, MintedIsHandedOut, Given
<1> HIDE DEF s
<1> QED
  BY <1>1, <1>2, <1>3, GivenTypes, LegacyAssumptions, SharesFitTogether

LEMMA SharesInvariance == Spec => []SharesMinted
<1>1. Init => SharesMinted
  <2> SUFFICES ASSUME Init PROVE SharesMinted
    OBVIOUS
  <2>1. Given \in [Wallets -> Nat] /\ \A w \in Wallets : Given[w] = 0
    BY DEF Init, NoRecord, Given
  <2>2. SumFunction(Given) = 0
    BY <2>1, LegacyAssumptions, SumZero
  <2> QED
    BY <2>2 DEF Init, NoRecord, SharesMinted
<1>2. TypeOK /\ LegacyInvariant /\ SharesMinted /\ [Next]_vars => SharesMinted'
  BY NextSharesMinted
<1> QED
  BY <1>1, <1>2, InitInv, NextInv, PTL DEF Spec

\* The mint never issues more than the launch's supply, and issues exactly the
\* shares on the records: whoever finalises whom, and however often.
THEOREM MintedIsShared == Spec => []MintedIsHandedOut
<1> QED
  BY InitInv, NextInv, DepositsCounted, SharesInvariance, SharesFit, PTL DEF Spec

-----------------------------------------------------------------------------
(* What stays open to everybody *)

\* Nothing takes the launch out of its presale.
PresaleOnly == launch.status \in {"Uncreated", "Presale"}

LEMMA NextPresaleOnly ==
  ASSUME PresaleOnly, [Next]_vars
  PROVE  PresaleOnly'
<1>1. ASSUME NEW w \in Wallets, NEW p \in Prices, NEW s \in Supplies, NEW t \in Windows,
             CreateLaunch(w, p, s, t)
      PROVE  PresaleOnly'
  BY <1>1 DEF CreateLaunch, NoLaunch, PresaleOnly
<1>2. ASSUME NEW w \in Wallets, NEW a \in Deposits, BuyPresale(w, a)
      PROVE  PresaleOnly'
  BY <1>2 DEF BuyPresale, PresaleOnly
<1>3. ASSUME NEW b \in Wallets, NEW to \in Wallets, FinalizeBuyer(b, to)
      PROVE  PresaleOnly'
  BY <1>3 DEF FinalizeBuyer, LaunchAfterFinalize, PresaleOnly
<1>4. ASSUME UNCHANGED launch
      PROVE  PresaleOnly'
  BY <1>4 DEF PresaleOnly
<1> QED
  BY <1>1, <1>2, <1>3, <1>4 DEF Next, Tick, Transfer, vars

LEMMA PresaleInvariance == Spec => []PresaleOnly
<1>1. Init => PresaleOnly
  BY DEF Init, NoLaunch, PresaleOnly
<1>2. PresaleOnly /\ [Next]_vars => PresaleOnly'
  BY NextPresaleOnly
<1> QED
  BY <1>1, <1>2, PTL DEF Spec

\* After the window, a depositor who is not finalised can be: the share is
\* still to be minted, for all the shares together fit the supply.
LEMMA CanBeFinalized ==
  ASSUME TypeOK, LegacyInvariant, PoolCountsDeposits, SharesMinted, PresaleOnly,
         launch.status # "Uncreated", clock >= launch.presale_end,
         NEW b \in opened, ~ record[b].finalized
  PROVE  CanFinalize(b)
<1> DEFINE s == launch.total_supply
           share == Allocation(record[b].sol_deposited)
           f == [Given EXCEPT ![b] = share]
<1>1. b \in Wallets /\ launch.status = "Presale" /\ ToFinalize(b)
  BY DEF TypeOK, PresaleOnly, ToFinalize
<1>2. launch.total_sol_collected > 0
  <2>1. /\ record[b].sol_deposited > 0
        /\ record[b].sol_deposited <= launch.total_sol_collected
    BY <1>1 DEF LegacyInvariant
  <2>2. record[b].sol_deposited \in Nat /\ launch.total_sol_collected \in Nat
    BY <1>1, ConstantTypes DEF TypeOK, BuyerRecord, LaunchPool
  <2> QED  BY <2>1, <2>2
<1>3. /\ share = (record[b].sol_deposited * s) \div launch.total_sol_collected
      /\ share \in Nat
  BY <1>1, <1>2, AllocationExact, ConstantTypes
<1>4. s \in Nat /\ s <= MaxU64
  BY LegacyAssumptions DEF TypeOK, LaunchPool, U64
<1>5. Given \in [Wallets -> Nat] /\ Deposited \in [Wallets -> Nat] /\ f \in [Wallets -> Nat]
  <2> HIDE DEF share
  <2> QED  BY <1>3, GivenTypes
<1>6. Given[b] = 0 /\ f[b] = share /\ \A w \in Wallets \ {b} : f[w] = Given[w]
  <2> HIDE DEF share
  <2> QED  BY <1>1, <1>5 DEF LegacyInvariant, Given
<1>7. \A w \in Wallets : f[w] > 0 =>
        Deposited[w] > 0 /\ f[w] = (Deposited[w] * s) \div SumFunction(Deposited)
  <2>1. launch.total_sol_collected = SumFunction(Deposited)
    BY DEF PoolCountsDeposits, Deposited
  <2>2. \A w \in Wallets \ {b} : f[w] > 0 =>
          /\ record[w].sol_deposited > 0
          /\ f[w] = (record[w].sol_deposited * s) \div launch.total_sol_collected
    BY <1>6 DEF SharesMinted, Given
  <2>3. record[b].sol_deposited > 0
    BY <1>1 DEF LegacyInvariant
  <2> HIDE DEF f, s, share
  <2> QED  BY <1>1, <1>3, <1>6, <2>1, <2>2, <2>3 DEF Deposited
<1> HIDE DEF f, s, share
<1>8. SumFunction(f) <= s
  BY <1>4, <1>5, <1>7, LegacyAssumptions, SharesFitTogether
<1>9. supply + share <= s
  <2>1. SumFunction(f) + Given[b] = SumFunction(Given) + f[b]
        /\ SumFunction(f) \in Nat /\ SumFunction(Given) \in Nat
    BY <1>1, <1>5, <1>6, LegacyAssumptions, SumUpdate
  <2> QED  BY <1>3, <1>4, <1>6, <1>8, <2>1 DEF SharesMinted
<1>10. supply \in Nat
  BY ConstantTypes DEF TypeOK
<1> QED
  BY <1>1, <1>2, <1>3, <1>4, <1>9, <1>10, LegacyAssumptions DEF CanFinalize, Fits, share

\* Whoever finalises whom, and wherever the tokens go: after the window
\* finalize_buyer never fails for a depositor who still waits for it.
THEOREM NobodyIsShutOut == Spec => []FinalizationStaysOpen
<1>1. TypeOK /\ LegacyInvariant /\ PoolCountsDeposits /\ SharesMinted /\ PresaleOnly
        => FinalizationStaysOpen
  BY CanBeFinalized DEF FinalizationStaysOpen
<1> QED
  BY <1>1, InitInv, NextInv, DepositsCounted, SharesInvariance, PresaleInvariance, PTL
     DEF Spec

-----------------------------------------------------------------------------
(* Refinement *)

LEMMA InitRefines == Init => Fair!Init
BY DEF Init, NoLaunch, NoRecord, Fair!Init, Fair!Nothing, Phase

LEMMA NextRefines ==
  ASSUME TypeOK, LegacyInvariant, [Next]_vars
  PROVE  [Fair!Next]_(Fair!vars)
<1>1. CASE UNCHANGED vars
  BY <1>1 DEF vars, Fair!vars, Phase
<1>2. CASE Tick
  <2>1. UNCHANGED <<launch, record>> /\ clock' = clock + 1
    BY <1>2 DEF Tick
  <2>2. clock \in Nat /\ launch.presale_end \in Nat /\ launch.status \in LaunchStatus
    BY DEF TypeOK, LaunchPool
  <2>3. Phase' = Phase \/ (Phase = "open" /\ Phase' = "closed")
    BY <2>1, <2>2 DEF Phase, LaunchStatus
  <2>4. CASE Phase' = Phase
    BY <2>1, <2>4 DEF Fair!vars
  <2>5. CASE Phase = "open" /\ Phase' = "closed"
    <3>1. Fair!Close
      BY <2>1, <2>5 DEF Fair!Close
    <3> QED  BY <3>1 DEF Fair!Next
  <2> QED  BY <2>3, <2>4, <2>5
<1>3. ASSUME NEW w \in Wallets, NEW p \in Prices, NEW s \in Supplies, NEW t \in Windows,
             CreateLaunch(w, p, s, t)
      PROVE  Fair!Next
  <2>1. /\ launch = NoLaunch /\ s > 0 /\ t \in MinWindow .. MaxWindow
        /\ launch'.status = "Presale" /\ launch'.total_supply = s
        /\ launch'.presale_end = clock + t /\ launch'.total_sol_collected = 0
        /\ UNCHANGED <<clock, record>>
    BY <1>3 DEF CreateLaunch, LegacyInvariant, NoLaunch
  <2>2. clock < clock + t
    BY <2>1, ConstantTypes DEF TypeOK
  <2>3. Phase = "none" /\ Phase' = "open"
    BY <2>1, <2>2 DEF Phase, NoLaunch
  <2>4. Fair!Announce(s)
    BY <2>1, <2>3 DEF Fair!Announce, NoLaunch
  <2> QED  BY <2>4, ConstantTypes DEF Fair!Next
<1>4. ASSUME NEW w \in Wallets, NEW a \in Deposits, BuyPresale(w, a)
      PROVE  Fair!Next
  <2>1. /\ a \in Nat \ {0}
        /\ record[w] = NoRecord
        /\ \A v \in Wallets \ {w} : record'[v] = record[v]
        /\ record'[w].sol_deposited = a
        /\ record'[w].tokens_allocated = 0
        /\ launch'.total_sol_collected = launch.total_sol_collected + a
        /\ launch'.total_supply = launch.total_supply
        /\ launch'.status = launch.status
        /\ launch'.presale_end = launch.presale_end
    BY <1>4, BuyPresaleInv
  <2>2. launch.status = "Presale" /\ clock < launch.presale_end /\ clock' = clock
    BY <1>4 DEF BuyPresale
  <2>3. Phase = "open" /\ Phase' = "open"
    BY <2>1, <2>2 DEF Phase
  <2>4. record[w].sol_deposited = 0 /\ record[w].tokens_allocated = 0
    BY <2>1 DEF NoRecord
  <2>5. /\ [v \in Wallets |-> record'[v].sol_deposited]
             = [[v \in Wallets |-> record[v].sol_deposited] EXCEPT ![w] = @ + a]
        /\ [v \in Wallets |-> record'[v].tokens_allocated]
             = [v \in Wallets |-> record[v].tokens_allocated]
    <3>1. record'[w].sol_deposited = record[w].sol_deposited + a
      BY <2>1, <2>4
    <3>2. \A v \in Wallets : record'[v].tokens_allocated = record[v].tokens_allocated
      BY <2>1, <2>4
    <3> QED  BY <2>1, <3>1, <3>2
  <2>6. Fair!Deposit(w, a)
    BY <2>1, <2>3, <2>5 DEF Fair!Deposit
  <2> QED  BY <2>6, ConstantTypes DEF Fair!Next
<1>5. ASSUME NEW b \in Wallets, NEW to \in Wallets, FinalizeBuyer(b, to)
      PROVE  Fair!Next
  <2> DEFINE share == (record[b].sol_deposited * launch.total_supply)
                        \div launch.total_sol_collected
  <2>1. /\ launch.status = "Presale" /\ ~ (clock < launch.presale_end)
        /\ UNCHANGED <<clock, launch>>
        /\ record[b].sol_deposited > 0 /\ record[b].tokens_allocated = 0
        /\ \A v \in Wallets \ {b} : record'[v] = record[v]
        /\ record'[b].sol_deposited = record[b].sol_deposited
        /\ record'[b].tokens_allocated = share
    BY <1>5, FinalizeBuyerInv
  <2>2. Phase = "closed" /\ Phase' = "closed"
    BY <2>1 DEF Phase
  <2> HIDE DEF share
  <2>3. /\ [v \in Wallets |-> record'[v].sol_deposited]
             = [v \in Wallets |-> record[v].sol_deposited]
        /\ [v \in Wallets |-> record'[v].tokens_allocated]
             = [[v \in Wallets |-> record[v].tokens_allocated] EXCEPT ![b] = share]
    BY <2>1
  <2>4. Fair!Allot(b)
    BY <2>1, <2>2, <2>3 DEF Fair!Allot, share
  <2> QED  BY <2>4 DEF Fair!Next
<1>6. ASSUME NEW w \in Wallets, NEW to \in Wallets, NEW n \in TransferAmounts,
             Transfer(w, to, n)
      PROVE  UNCHANGED Fair!vars
  BY <1>6, TransferInv DEF Fair!vars, Phase
<1> QED
  BY <1>1, <1>2, <1>3, <1>4, <1>5, <1>6 DEF Next

\* Whoever finalises whom and when, the first version of the program keeps
\* the promises of FairLaunch up to the market it never opens.
THEOREM LegacyKeepsPromises == Spec => ImplementsFairLaunch
<1>1. Init => Fair!Init
  BY InitRefines
<1>2. TypeOK /\ LegacyInvariant /\ [Next]_vars => [Fair!Next]_(Fair!vars)
  BY NextRefines
<1> QED
  BY <1>1, <1>2, InitInv, NextInv, PTL DEF Spec, ImplementsFairLaunch, Fair!Spec

=============================================================================
