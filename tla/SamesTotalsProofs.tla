------------------------- MODULE SamesTotalsProofs --------------------------
(***************************************************************************)
(* What the records of all buyers add up to, for every value of the        *)
(* constants: the pool's totals, its position on the curve and the mint's  *)
(* supply agree with the sums, although each instruction updates one       *)
(* record and the pool separately; and the vault keeps what the position   *)
(* is worth.                                                               *)
(***************************************************************************)
EXTENDS SamesLaunchProofs

-----------------------------------------------------------------------------
(* Totals *)

\* The fields of a record that add up over the buyers.
SummedFields == {"sol_deposited", "tokens_allocated", "tokens_sold", "curve_tokens_bought"}

\* Each total is a natural.
LEMMA TotalType ==
  ASSUME TypeOK, NEW field \in SummedFields
  PROVE  Total(field) \in Nat
<1> DEFINE f == [v \in Wallets |-> record[v][field]]
<1>1. f \in [Wallets -> Nat] /\ \A v \in Wallets : 0 * f[v] <= 0 * f[v]
  <2>1. \A r \in BuyerRecord : r[field] \in Nat
    BY ConstantTypes DEF BuyerRecord, SummedFields
  <2>2. f \in [Wallets -> Nat]
    BY <2>1 DEF TypeOK
  <2> HIDE DEF f
  <2> QED  BY <2>2
<1>2. Total(field) = SumFunction(f)
  BY DEF Total
<1> HIDE DEF f
<1> QED
  BY <1>1, <1>2, LaunchAssumptions, SumProportion

\* One record changed, a total changes by as much.
LEMMA TotalUpdate ==
  ASSUME TypeOK, TypeOK', NEW field \in SummedFields, NEW w \in Wallets,
         \A v \in Wallets \ {w} : record'[v][field] = record[v][field]
  PROVE  /\ Total(field) \in Nat
         /\ Total(field)' \in Nat
         /\ record[w][field] \in Nat
         /\ record'[w][field] \in Nat
         /\ record[w][field] <= Total(field)
         /\ Total(field)' + record[w][field] = Total(field) + record'[w][field]
<1> DEFINE f == [v \in Wallets |-> record[v][field]]
           h == [v \in Wallets |-> record'[v][field]]
<1>1. f \in [Wallets -> Nat] /\ h \in [Wallets -> Nat]
  <2>1. \A r \in BuyerRecord : r[field] \in Nat
    BY ConstantTypes DEF BuyerRecord, SummedFields
  <2> QED  BY <2>1 DEF TypeOK
<1>2. \A v \in Wallets \ {w} : h[v] = f[v]
  OBVIOUS
<1>3. f[w] = record[w][field] /\ h[w] = record'[w][field]
  OBVIOUS
<1>4. Total(field) = SumFunction(f) /\ Total(field)' = SumFunction(h)
  BY DEF Total
<1> HIDE DEF f, h
<1> QED
  BY <1>1, <1>2, <1>3, <1>4, LaunchAssumptions, SumUpdate

\* No record changed in a field, its total stays.
LEMMA TotalSame ==
  ASSUME NEW field \in SummedFields, \A v \in Wallets : record'[v][field] = record[v][field]
  PROVE  Total(field)' = Total(field)
BY DEF Total

LEMMA InitTotals == Init => \A field \in SummedFields : Total(field) = 0
<1> SUFFICES ASSUME Init, NEW field \in SummedFields PROVE Total(field) = 0
  OBVIOUS
<1> DEFINE f == [v \in Wallets |-> record[v][field]]
<1>1. f \in [Wallets -> Nat] /\ \A v \in Wallets : 1 * f[v] <= 0 * f[v]
  BY DEF Init, EmptyRecord, SummedFields
<1>2. Total(field) = SumFunction(f)
  BY DEF Total
<1> HIDE DEF f
<1>3. SumFunction(f) \in Nat /\ 1 * SumFunction(f) <= 0 * SumFunction(f)
  BY <1>1, LaunchAssumptions, SumProportion
<1> QED
  BY <1>2, <1>3

-----------------------------------------------------------------------------
(* Deposits *)

\* Steps other than deposits move neither the total nor a deposit.
LEMMA OnlyPresaleDeposits ==
  ASSUME TypeOK, LaunchInvariant, [Next]_vars,
         \A w \in Wallets, a \in Deposits : ~ BuyPresale(w, a)
  PROVE  /\ \A v \in Wallets : record'[v].sol_deposited = record[v].sol_deposited
         /\ pool'.total_sol_collected = pool.total_sol_collected
<1> DEFINE Same == /\ \A v \in Wallets : record'[v].sol_deposited = record[v].sol_deposited
                   /\ pool'.total_sol_collected = pool.total_sol_collected
<1>1. pool \in LaunchPool
  BY DEF TypeOK
<1>2. ASSUME NEW w \in Wallets, NEW s \in Supplies, NEW p \in Prices, CreateLaunch(w, s, p)
      PROVE  Same
  BY <1>2 DEF CreateLaunch, LaunchInvariant, NothingBeforeLaunch, NoPool
<1>3. ASSUME NEW w \in Wallets, NEW b \in Wallets, NEW to \in Holders,
             FinalizeLaunch(w, b, to)
      PROVE  Same
  BY <1>3 DEF FinalizeLaunch, TypeOK, BuyerRecord
<1>4. ASSUME NEW w \in Wallets, NEW a \in BuyAmounts, NEW to \in Holders, BuyCurve(w, a, to)
      PROVE  Same
  <2>1. /\ \A v \in Wallets \ {w} : record'[v] = record[v]
        /\ record'[w].sol_deposited = record[w].sol_deposited
    BY <1>4, BuyCurveEffect DEF LaunchInvariant
  <2>2. pool'.total_sol_collected = pool.total_sol_collected
    BY <1>1, <1>4 DEF BuyCurve, LaunchPool
  <2> QED  BY <2>1, <2>2
<1>5. ASSUME NEW w \in Wallets, NEW a \in SellAmounts, SellCurve(w, a) PROVE Same
  <2>1. /\ \A v \in Wallets \ {w} : record'[v] = record[v]
        /\ record'[w] = [record[w] EXCEPT !.tokens_sold = @ + a]
    BY <1>5, SellCurveEffect
  <2>2. record'[w].sol_deposited = record[w].sol_deposited
    BY <2>1, RecordTypes DEF BuyerRecord
  <2>3. pool'.total_sol_collected = pool.total_sol_collected
    BY <1>1, <1>5 DEF SellCurve, LaunchPool
  <2> QED  BY <2>1, <2>2, <2>3
<1> QED
  BY <1>1, <1>2, <1>3, <1>4, <1>5
  DEF Next, vars, chain, Tick, Graduate, StartBondingCurve, UpdatePrice, RegisterMarket,
      LaunchPool

LEMMA NextDepositsAddUp ==
  ASSUME TypeOK, LaunchInvariant, DepositsAddUp, [Next]_vars
  PROVE  DepositsAddUp'
<1>1. TypeOK'
  BY NextType
<1>2. ASSUME NEW w \in Wallets, NEW a \in Deposits, BuyPresale(w, a)
      PROVE  DepositsAddUp'
  <2>1. /\ a \in Nat
        /\ \A v \in Wallets \ {w} : record'[v] = record[v]
        /\ record'[w].sol_deposited = record[w].sol_deposited + a
    BY <1>2, BuyPresaleEffect DEF LaunchInvariant
  <2>2. pool'.total_sol_collected = pool.total_sol_collected + a
    BY <1>2 DEF BuyPresale, TypeOK, LaunchPool
  <2>3. /\ Total("sol_deposited") \in Nat
        /\ Total("sol_deposited")' \in Nat
        /\ record[w].sol_deposited \in Nat
        /\ Total("sol_deposited")' + record[w].sol_deposited
             = Total("sol_deposited") + record'[w].sol_deposited
    BY <1>1, <2>1, TotalUpdate DEF SummedFields
  <2> QED  BY <2>1, <2>2, <2>3 DEF DepositsAddUp
<1>3. ASSUME \A w \in Wallets, a \in Deposits : ~ BuyPresale(w, a)
      PROVE  DepositsAddUp'
  <2>1. /\ \A v \in Wallets : record'[v].sol_deposited = record[v].sol_deposited
        /\ pool'.total_sol_collected = pool.total_sol_collected
    BY <1>3, OnlyPresaleDeposits
  <2>2. Total("sol_deposited")' = Total("sol_deposited")
    BY <2>1, TotalSame DEF SummedFields
  <2> QED  BY <2>1, <2>2 DEF DepositsAddUp
<1> QED
  BY <1>2, <1>3

\* What finalize_launch divides by is the sum of what it divides, at every
\* moment: no deposit is counted twice, or on a record only.
THEOREM DepositsSumUp == Spec => []DepositsAddUp
<1>1. Init => DepositsAddUp
  BY InitTotals DEF Init, NoPool, SummedFields, DepositsAddUp
<1>2. TypeOK /\ LaunchInvariant /\ DepositsAddUp /\ [Next]_vars => DepositsAddUp'
  BY NextDepositsAddUp
<1> QED
  BY <1>1, <1>2, TypeCorrect, Invariance, PTL DEF Spec

\* So the denominator of the shares covers each numerator.
DepositsWithinTotal ==
  \A w \in Wallets : record[w].sol_deposited <= pool.total_sol_collected

LEMMA SumCoversEach == TypeOK /\ DepositsAddUp => DepositsWithinTotal
<1> SUFFICES ASSUME TypeOK, DepositsAddUp, NEW w \in Wallets
             PROVE  record[w].sol_deposited <= pool.total_sol_collected
  BY DEF DepositsWithinTotal
<1> DEFINE f == [v \in Wallets |-> record[v].sol_deposited]
<1>1. f \in [Wallets -> Nat] /\ f[w] = record[w].sol_deposited
  BY RecordTypes
<1>2. pool.total_sol_collected = SumFunction(f)
  BY DEF DepositsAddUp, Total
<1> HIDE DEF f
<1>3. f[w] <= SumFunction(f)
  BY <1>1, LaunchAssumptions, SumUpdate
<1> QED
  BY <1>1, <1>2, <1>3

LEMMA DepositsCovered == Spec => []DepositsWithinTotal
BY SumCoversEach, TypeCorrect, DepositsSumUp, PTL

-----------------------------------------------------------------------------
(* The position on the curve *)

LEMMA NextPosition ==
  ASSUME TypeOK, LaunchInvariant, CurvePositionMatchesRecords, [Next]_vars
  PROVE  CurvePositionMatchesRecords'
<1>1. TypeOK' /\ pool.tokens_sold_curve \in Nat
  BY NextType, ConstantTypes DEF TypeOK, LaunchPool
<1> DEFINE bought == Total("curve_tokens_bought")
           sold   == Total("tokens_sold")
<1>2. ASSUME \A v \in Wallets : /\ record'[v].curve_tokens_bought = record[v].curve_tokens_bought
                               /\ record'[v].tokens_sold = record[v].tokens_sold,
             pool'.tokens_sold_curve = pool.tokens_sold_curve
      PROVE  CurvePositionMatchesRecords'
  <2>1. bought' = bought /\ sold' = sold
    BY <1>2, TotalSame DEF SummedFields
  <2> QED  BY <1>2, <2>1 DEF CurvePositionMatchesRecords
<1>3. ASSUME NEW w \in Wallets, NEW s \in Supplies, NEW p \in Prices, CreateLaunch(w, s, p)
      PROVE  CurvePositionMatchesRecords'
  BY <1>2, <1>3 DEF CreateLaunch, LaunchInvariant, NothingBeforeLaunch, NoPool
<1>4. ASSUME NEW w \in Wallets, NEW a \in Deposits, BuyPresale(w, a)
      PROVE  CurvePositionMatchesRecords'
  <2>1. \A v \in Wallets : /\ record'[v].curve_tokens_bought = record[v].curve_tokens_bought
                          /\ record'[v].tokens_sold = record[v].tokens_sold
    BY <1>4, BuyPresaleEffect DEF LaunchInvariant
  <2>2. pool'.tokens_sold_curve = pool.tokens_sold_curve
    BY <1>4 DEF BuyPresale, TypeOK, LaunchPool
  <2> QED  BY <1>2, <2>1, <2>2
<1>5. ASSUME NEW w \in Wallets, NEW b \in Wallets, NEW to \in Holders,
             FinalizeLaunch(w, b, to)
      PROVE  CurvePositionMatchesRecords'
  <2>1. \A v \in Wallets : /\ record'[v].curve_tokens_bought = record[v].curve_tokens_bought
                          /\ record'[v].tokens_sold = record[v].tokens_sold
    BY <1>5 DEF FinalizeLaunch, TypeOK, BuyerRecord
  <2> QED  BY <1>2, <1>5, <2>1 DEF FinalizeLaunch
<1>6. ASSUME NEW w \in Wallets, NEW a \in BuyAmounts, NEW to \in Holders, BuyCurve(w, a, to)
      PROVE  CurvePositionMatchesRecords'
  <2>1. PICK tokens \in Nat \ {0}, c \in Nat \ {0} :
          /\ \A v \in Wallets \ {w} : record'[v] = record[v]
          /\ record'[w].sol_deposited = record[w].sol_deposited
          /\ record'[w].tokens_allocated = record[w].tokens_allocated
          /\ record'[w].tokens_sold = record[w].tokens_sold
          /\ record'[w].curve_sol_spent = record[w].curve_sol_spent + c
          /\ record'[w].curve_tokens_bought = record[w].curve_tokens_bought + tokens
          /\ vault' = vault + c
          /\ supply' = supply + tokens
          /\ pool' = [pool EXCEPT !.tokens_sold_curve = @ + tokens,
                                  !.curve_sol_collected = @ + c,
                                  !.buyer_count = IF FirstBuy(w) THEN @ + 1 ELSE @]
    BY <1>6, BuyCurveEffect DEF LaunchInvariant
  <2>2. pool'.tokens_sold_curve = pool.tokens_sold_curve + tokens
    BY <2>1 DEF TypeOK, LaunchPool
  <2>3. /\ bought \in Nat /\ bought' \in Nat /\ record[w].curve_tokens_bought \in Nat
        /\ bought' + record[w].curve_tokens_bought = bought + record'[w].curve_tokens_bought
    BY <1>1, <2>1, TotalUpdate DEF SummedFields
  <2>4. sold' = sold /\ sold \in Nat
    <3>1. \A v \in Wallets : record'[v].tokens_sold = record[v].tokens_sold
      BY <2>1
    <3> QED  BY <1>1, <3>1, TotalSame, TotalUpdate DEF SummedFields
  <2> HIDE DEF bought, sold
  <2>5. bought' = bought + tokens
    BY <2>1, <2>3
  <2> QED
    BY <1>1, <2>2, <2>3, <2>4, <2>5 DEF CurvePositionMatchesRecords, bought, sold
<1>7. ASSUME NEW w \in Wallets, NEW a \in SellAmounts, SellCurve(w, a)
      PROVE  CurvePositionMatchesRecords'
  <2>1. /\ a \in Nat
        /\ \A v \in Wallets \ {w} : record'[v] = record[v]
        /\ record'[w] = [record[w] EXCEPT !.tokens_sold = @ + a]
    BY <1>7, SellCurveEffect
  <2>2. /\ record'[w].curve_tokens_bought = record[w].curve_tokens_bought
        /\ record'[w].tokens_sold = record[w].tokens_sold + a
    BY <2>1, RecordTypes DEF BuyerRecord
  <2>3. pool'.tokens_sold_curve = SatSub(pool.tokens_sold_curve, a)
    BY <1>7 DEF SellCurve, TypeOK, LaunchPool
  <2>4. /\ sold \in Nat /\ sold' \in Nat /\ record[w].tokens_sold \in Nat
        /\ sold' + record[w].tokens_sold = sold + record'[w].tokens_sold
    BY <1>1, <2>1, TotalUpdate DEF SummedFields
  <2>5. bought' = bought /\ bought \in Nat
    <3>1. \A v \in Wallets : record'[v].curve_tokens_bought = record[v].curve_tokens_bought
      BY <2>1, <2>2
    <3> QED  BY <1>1, <3>1, TotalSame, TotalUpdate DEF SummedFields
  <2> HIDE DEF bought, sold
  <2>6. sold' = sold + a
    BY <2>1, <2>2, <2>4
  <2> QED
    BY <1>1, <2>1, <2>3, <2>4, <2>5, <2>6 DEF CurvePositionMatchesRecords, SatSub, bought, sold
<1> QED
  BY <1>2, <1>3, <1>4, <1>5, <1>6, <1>7
  DEF Next, vars, chain, Tick, Graduate, StartBondingCurve, UpdatePrice, RegisterMarket,
      TypeOK, LaunchPool

\* The pool's position on the curve, which every price comes from, never
\* leaves what the buyers' records say was bought and sold.
THEOREM PositionMatches == Spec => []CurvePositionMatchesRecords
<1>1. Init => CurvePositionMatchesRecords
  BY InitTotals DEF Init, NoPool, SummedFields, CurvePositionMatchesRecords
<1>2. TypeOK /\ LaunchInvariant /\ CurvePositionMatchesRecords /\ [Next]_vars
        => CurvePositionMatchesRecords'
  BY NextPosition
<1> QED
  BY <1>1, <1>2, TypeCorrect, Invariance, PTL DEF Spec

-----------------------------------------------------------------------------
(* What the vault can pay *)

\* The cost of a stretch of the curve is the cost of its two parts, to within
\* the rounding of one lamport, and exactly so where nothing is rounded.
LEMMA CostAdds ==
  ASSUME NEW p \in Nat, NEW k \in Nat, NEW s \in Nat, NEW a \in Nat
  PROVE  LET first  == bonding_curve_cost(p, k, 0, s)
             second == bonding_curve_cost(p, k, s, a)
             whole  == bonding_curve_cost(p, k, 0, s + a)
         IN  /\ first + second <= whole
             /\ whole <= first + second + 1
             /\ k % (2 * Scale) = 0 => whole = first + second
<1> DEFINE d == 2 * Scale
           u == k * s * (2 * 0 + s)
           v == k * a * (2 * s + a)
           w == k * (s + a) * (2 * 0 + (s + a))
<1>1. d \in Nat \ {0}
  BY ScaleAssumption
<1>2. u \in Nat /\ v \in Nat /\ w = u + v
  <2>1. k * s \in Nat /\ k * a \in Nat /\ 2 * 0 + s = s /\ 2 * s + a \in Nat
    BY MulNat
  <2>2. u \in Nat /\ v \in Nat
    BY <2>1, MulNat
  <2>3. k * (s + a) * (s + a) = k * s * s + k * a * (2 * s + a)
    OBVIOUS
  <2> QED  BY <2>2, <2>3
<1>3. p * s \in Nat /\ p * a \in Nat /\ p * (s + a) = p * s + p * a
  BY MulNat
<1>4. ASSUME k % d = 0 PROVE \E j \in Nat : v = j * d
  <2> DEFINE i == k \div d
             m == a * (2 * s + a)
  <2>1. i \in Nat /\ k = i * d
    <3>1. \A x \in Nat, y \in Nat \ {0} : x % y = 0 => x \div y \in Nat /\ x = (x \div y) * y
      OBVIOUS
    <3> QED  BY <1>1, <1>4, <3>1
  <2>2. m \in Nat /\ v = k * m
    <3>1. 2 * s + a \in Nat
      OBVIOUS
    <3> QED  BY <3>1, MulNat
  <2> HIDE DEF i, m, d, v
  <2>3. (i * d) * m = (i * m) * d /\ i * m \in Nat
    BY <1>1, <2>1, <2>2, MulNat
  <2> QED  BY <2>1, <2>2, <2>3
<1> DEFINE q == u \div d
           r == v \div d
           z == w \div d
<1>5. /\ q \in Nat /\ r \in Nat /\ z \in Nat
      /\ q + r <= z /\ z <= q + r + 1
      /\ k % d = 0 => z = q + r
  <2>1. ASSUME NEW x \in Nat, NEW y \in Nat, NEW e \in Nat \ {0}
        PROVE  /\ x \div e + y \div e <= (x + y) \div e
               /\ (x + y) \div e <= x \div e + y \div e + 1
    BY DivSum
  <2>2. ASSUME NEW x \in Nat, NEW e \in Nat \ {0}, NEW j \in Nat
        PROVE  (x + j * e) \div e = x \div e + j /\ (j * e) \div e = j
    <3>1. (x + j * e) \div e = x \div e + j
      BY DivSumExact
    <3>2. (0 + j * e) \div e = 0 \div e + j
      <4>1. 0 \in Nat
        OBVIOUS
      <4> QED  BY <4>1, DivSumExact
    <3>3. 0 + j * e = j * e /\ 0 \div e = 0
      BY MulNat
    <3> QED  BY <3>1, <3>2, <3>3
  <2> HIDE DEF u, v, w, d
  <2>3. q \in Nat /\ r \in Nat /\ z \in Nat
    BY <1>1, <1>2, DivBounds
  <2>4. z = (u + v) \div d
    BY <1>2
  <2>5. q + r <= z /\ z <= q + r + 1
    BY <1>1, <1>2, <2>1, <2>4, Zenon
  <2>6. ASSUME k % d = 0 PROVE z = q + r
    <3>1. PICK j \in Nat : v = j * d
      BY <1>4, <2>6
    <3>2. PICK x \in Nat, e \in Nat \ {0} : x = u /\ e = d
      BY <1>1, <1>2
    <3>3. (x + j * e) \div e = x \div e + j /\ (j * e) \div e = j
      BY <2>2
    <3>4. z = (x + j * e) \div e /\ q = x \div e /\ r = (j * e) \div e
      BY <2>4, <3>1, <3>2
    <3> HIDE DEF q, r, z
    <3> QED  BY <3>3, <3>4
  <2> QED  BY <2>3, <2>5, <2>6
<1>6. /\ bonding_curve_cost(p, k, 0, s) = p * s + q
      /\ bonding_curve_cost(p, k, s, a) = p * a + r
      /\ bonding_curve_cost(p, k, 0, s + a) = p * (s + a) + z
  BY DEF bonding_curve_cost
<1> HIDE DEF q, r, z
<1> QED
  BY <1>3, <1>5, <1>6

\* Both kinds of trade keep the vault ahead of the curve: a buy brings the
\* cost of its stretch, and a sale takes at most the cost of its own.
LEMMA BuyStaysSolvent ==
  ASSUME TypeOK, LaunchInvariant, CurveSolvent, TypeOK',
         NEW w \in Wallets, NEW a \in BuyAmounts, NEW to \in Holders, BuyCurve(w, a, to)
  PROVE  CurveSolvent'
<1> DEFINE p == pool.price_lamports
           sold == pool.tokens_sold_curve
           bought == Total("curve_tokens_bought")
           exact == Slope % (2 * Scale) = 0
           worth(t) == bonding_curve_cost(p, Slope, 0, t)
           tokens == bonding_curve_tokens_for_sol(p, Slope, sold, a)
           c == bonding_curve_cost(p, Slope, sold, tokens)
<1>1. p \in Nat /\ sold \in Nat /\ Slope \in Nat /\ vault \in Nat
  BY ConstantTypes DEF TypeOK, LaunchPool
<1>2. /\ tokens \in Nat \ {0}
      /\ vault' = vault + c
      /\ pool'.tokens_sold_curve = sold + tokens /\ pool'.price_lamports = p
  BY MaxU64Assumption DEF BuyCurve, TransferToVault, TypeOK, LaunchPool
<1>3. /\ \A v \in Wallets \ {w} : record'[v] = record[v]
      /\ record'[w].curve_tokens_bought = record[w].curve_tokens_bought + tokens
  <2>1. PICK m \in Nat \ {0}, n \in Nat \ {0} :
          /\ \A v \in Wallets \ {w} : record'[v] = record[v]
          /\ record'[w].sol_deposited = record[w].sol_deposited
          /\ record'[w].tokens_allocated = record[w].tokens_allocated
          /\ record'[w].tokens_sold = record[w].tokens_sold
          /\ record'[w].curve_sol_spent = record[w].curve_sol_spent + n
          /\ record'[w].curve_tokens_bought = record[w].curve_tokens_bought + m
          /\ vault' = vault + n
          /\ supply' = supply + m
          /\ pool' = [pool EXCEPT !.tokens_sold_curve = @ + m,
                                  !.curve_sol_collected = @ + n,
                                  !.buyer_count = IF FirstBuy(w) THEN @ + 1 ELSE @]
    BY BuyCurveEffect DEF LaunchInvariant
  <2>2. pool'.tokens_sold_curve = sold + m
    BY <2>1 DEF TypeOK, LaunchPool
  <2> HIDE DEF tokens, sold
  <2>3. m = tokens
    BY <1>1, <1>2, <2>2
  <2> QED  BY <2>1, <2>3
<1> HIDE DEF tokens
<1>4. bought \in Nat /\ bought' = bought + tokens
  <2>1. /\ bought \in Nat /\ bought' \in Nat /\ record[w].curve_tokens_bought \in Nat
        /\ bought' + record[w].curve_tokens_bought = bought + record'[w].curve_tokens_bought
    BY <1>3, TotalUpdate DEF SummedFields
  <2> HIDE DEF bought
  <2> QED  BY <1>2, <1>3, <2>1
<1>5. /\ worth(sold) \in Nat
      /\ worth(sold + tokens) \in Nat
      /\ worth(sold + tokens) <= worth(sold) + c + 1
      /\ exact => worth(sold + tokens) = worth(sold) + c
      /\ c \in Nat
  <2> HIDE DEF sold, p
  <2>1. tokens \in Nat /\ sold + tokens \in Nat /\ 0 \in Nat
    BY <1>1, <1>2
  <2>2. worth(sold) \in Nat /\ worth(sold + tokens) \in Nat /\ c \in Nat
    BY <1>1, <2>1, CostType
  <2>3. /\ worth(sold + tokens) <= worth(sold) + c + 1
        /\ exact => worth(sold + tokens) = worth(sold) + c
    BY <1>1, <2>1, CostAdds
  <2> QED  BY <2>2, <2>3
<1>6. /\ vault + (IF exact THEN 0 ELSE bought) >= worth(sold)
      /\ CurveSolvent' <=> vault' + (IF exact THEN 0 ELSE bought') >= worth(sold + tokens)
  BY <1>2 DEF CurveSolvent, RoundedAway
<1> HIDE DEF worth, bought, exact, sold, c
<1> QED
  BY <1>1, <1>2, <1>4, <1>5, <1>6

LEMMA SaleStaysSolvent ==
  ASSUME TypeOK, LaunchInvariant, CurveSolvent, TypeOK',
         NEW w \in Wallets, NEW a \in SellAmounts, SellCurve(w, a)
  PROVE  CurveSolvent'
<1> DEFINE p == pool.price_lamports
           sold == pool.tokens_sold_curve
           left == SatSub(sold, a)
           kept == RoundedAway
           worth(t) == bonding_curve_cost(p, Slope, 0, t)
           raw == SellRaw(a)
           paid == SellReturn(a)
<1>1. p \in Nat /\ sold \in Nat /\ Slope \in Nat /\ vault \in Nat /\ vault' \in Nat
  BY ConstantTypes DEF TypeOK, LaunchPool
<1>2. /\ a \in Nat
      /\ \A v \in Wallets \ {w} : record'[v] = record[v]
      /\ record'[w].curve_tokens_bought = record[w].curve_tokens_bought
  BY SellCurveEffect, RecordTypes DEF BuyerRecord
<1>3. /\ pool'.tokens_sold_curve = left /\ pool'.price_lamports = p
      /\ vault' = vault - paid /\ paid <= vault
  BY DEF SellCurve, DebitVault, TypeOK, LaunchPool
<1>4. left \in Nat
  BY <1>1, <1>2 DEF SatSub
<1>5. kept \in Nat /\ kept' = kept
  <2>1. /\ Total("curve_tokens_bought")' = Total("curve_tokens_bought")
        /\ Total("curve_tokens_bought") \in Nat
    <3>1. \A v \in Wallets : record'[v].curve_tokens_bought = record[v].curve_tokens_bought
      BY <1>2
    <3> QED  BY <3>1, TotalSame, TotalUpdate DEF SummedFields
  <2> QED  BY <2>1 DEF RoundedAway
<1>6. raw = bonding_curve_cost(p, Slope, left, a) /\ raw \in Nat
  BY <1>1, <1>2, <1>4, CostType DEF SellRaw
<1>7. paid = SatSub(raw, Fee(raw))
  BY DEF SellReturn
<1>8. worth(sold) \in Nat /\ worth(left) \in Nat /\ worth(0) = 0
  <2> HIDE DEF p, sold, left
  <2>1. \A m \in Nat \ {0} : 0 \div m = 0
    OBVIOUS
  <2>2. 2 * Scale \in Nat \ {0}
    BY ScaleAssumption
  <2>3. p * 0 = 0 /\ Slope * 0 * (2 * 0 + 0) = 0
    BY <1>1
  <2>4. worth(0) = 0 + 0 \div (2 * Scale)
    BY <2>3 DEF bonding_curve_cost
  <2>5. worth(0) = 0
    <3> HIDE DEF worth
    <3> QED  BY <2>1, <2>2, <2>4
  <2>6. 0 \in Nat
    OBVIOUS
  <2>7. worth(sold) \in Nat /\ worth(left) \in Nat
    BY <1>1, <1>4, <2>6, CostType
  <2> QED  BY <2>5, <2>7
<1>9. a <= sold => worth(left) + raw <= worth(sold)
  <2> SUFFICES ASSUME a <= sold PROVE worth(left) + raw <= worth(sold)
    OBVIOUS
  <2>1. left + a = sold
    BY <1>1, <1>2 DEF SatSub
  <2> HIDE DEF left, sold, raw
  <2> QED  BY <1>1, <1>2, <1>4, <1>6, <2>1, CostAdds
<1>10. a > sold => left = 0
  BY <1>1, <1>2 DEF SatSub
<1>11. /\ vault + kept >= worth(sold)
       /\ CurveSolvent' <=> vault' + kept' >= worth(left)
  BY <1>3 DEF CurveSolvent
<1> HIDE DEF left, sold, raw, paid, kept, worth
<1>12. paid \in Nat /\ paid <= raw
  BY <1>6, <1>7, FeeBound DEF SatSub
<1>13. CASE a <= sold
  BY <1>1, <1>3, <1>5, <1>6, <1>8, <1>9, <1>11, <1>12, <1>13
<1>14. CASE a > sold
  BY <1>1, <1>5, <1>8, <1>10, <1>11, <1>14
<1> QED
  BY <1>1, <1>2, <1>13, <1>14

LEMMA NextSolvent ==
  ASSUME TypeOK, LaunchInvariant, CurveSolvent, [Next]_vars,
         pool'.price_lamports = pool.price_lamports
  PROVE  CurveSolvent'
<1>1. TypeOK' /\ vault \in Nat
  BY NextType DEF TypeOK
<1>2. ASSUME \A v \in Wallets : record'[v].curve_tokens_bought = record[v].curve_tokens_bought,
             pool'.tokens_sold_curve = pool.tokens_sold_curve,
             vault' = vault \/ \E n \in Nat : vault' = vault + n
      PROVE  CurveSolvent'
  <2> DEFINE worth == bonding_curve_cost(pool.price_lamports, Slope, 0, pool.tokens_sold_curve)
  <2>1. Total("curve_tokens_bought")' = Total("curve_tokens_bought")
    BY <1>2, TotalSame DEF SummedFields
  <2>2. RoundedAway' = RoundedAway
    BY <2>1 DEF RoundedAway
  <2>3. RoundedAway \in Nat
    BY TotalType DEF RoundedAway, SummedFields
  <2>4. worth \in Nat
    BY ConstantTypes, CostType DEF TypeOK, LaunchPool
  <2>5. vault + RoundedAway >= worth /\ (CurveSolvent' <=> vault' + RoundedAway' >= worth)
    BY <1>2 DEF CurveSolvent
  <2> HIDE DEF worth
  <2> QED  BY <1>1, <1>2, <2>2, <2>3, <2>4, <2>5
<1>3. ASSUME NEW w \in Wallets, NEW s \in Supplies, NEW p \in Prices, CreateLaunch(w, s, p)
      PROVE  FALSE
  <2>1. pool'.price_lamports = p /\ p > 0 /\ p \in Nat
    BY <1>3, ConstantTypes DEF CreateLaunch, NoPool
  <2>2. pool = NoPool
    BY <1>3 DEF CreateLaunch, LaunchInvariant, NothingBeforeLaunch
  <2>3. pool.price_lamports = 0
    BY <2>2 DEF NoPool
  <2>4. p = 0
    BY <2>1, <2>3
  <2> QED  BY <2>1, <2>4
<1>4. ASSUME NEW w \in Wallets, NEW a \in Deposits, BuyPresale(w, a)
      PROVE  CurveSolvent'
  <2>1. /\ a \in Nat
        /\ \A v \in Wallets : record'[v].curve_tokens_bought = record[v].curve_tokens_bought
    BY <1>4, BuyPresaleEffect DEF LaunchInvariant
  <2>2. vault' = vault + a /\ pool'.tokens_sold_curve = pool.tokens_sold_curve
    BY <1>4 DEF BuyPresale, TransferToVault, TypeOK, LaunchPool
  <2> QED  BY <1>2, <2>1, <2>2
<1>5. ASSUME NEW w \in Wallets, NEW b \in Wallets, NEW to \in Holders,
             FinalizeLaunch(w, b, to)
      PROVE  CurveSolvent'
  <2>1. \A v \in Wallets : record'[v].curve_tokens_bought = record[v].curve_tokens_bought
    BY <1>5 DEF FinalizeLaunch, TypeOK, BuyerRecord
  <2> QED  BY <1>2, <1>5, <2>1 DEF FinalizeLaunch
<1>6. ASSUME NEW w \in Wallets, NEW a \in BuyAmounts, NEW to \in Holders, BuyCurve(w, a, to)
      PROVE  CurveSolvent'
  BY <1>1, <1>6, BuyStaysSolvent
<1>7. ASSUME NEW w \in Wallets, NEW a \in SellAmounts, SellCurve(w, a)
      PROVE  CurveSolvent'
  BY <1>1, <1>7, SaleStaysSolvent
<1>8. CASE UNCHANGED <<record, vault>> /\ pool'.tokens_sold_curve = pool.tokens_sold_curve
  BY <1>2, <1>8
<1> QED
  BY <1>3, <1>4, <1>5, <1>6, <1>7, <1>8
  DEF Next, vars, chain, Tick, Graduate, StartBondingCurve, UpdatePrice, RegisterMarket,
      TypeOK, LaunchPool

\* No sequence of buys and sales, of presale tokens either, leaves the vault
\* unable to buy the curve's position back: only update_price can.
THEOREM SolvencyStays == Spec => SolvencyKept
<1>1. TypeOK /\ LaunchInvariant /\ [Next]_vars
        => [CurveSolvent /\ pool'.price_lamports = pool.price_lamports => CurveSolvent']_vars
  BY NextSolvent
<1> QED
  BY <1>1, TypeCorrect, Invariance, PTL DEF Spec, SolvencyKept

-----------------------------------------------------------------------------
(* What the records entitle to, and what the mint has issued *)

LEMMA AvailableType ==
  ASSUME TypeOK, NEW w \in Wallets
  PROVE  Available(w) \in Nat
BY SatType, ConstantTypes DEF Available, TypeOK, BuyerRecord

\* One buyer's entitlement changed, and not by more than the supply.
LEMMA OneEntitlement ==
  ASSUME TypeOK, TypeOK', EntitlementsBacked, NEW w \in Wallets,
         \A v \in Wallets \ {w} : record'[v] = record[v],
         Available(w)' + supply <= Available(w) + supply'
  PROVE  EntitlementsBacked'
<1> DEFINE f == [v \in Wallets |-> Available(v)]
           h == [v \in Wallets |-> Available(v)']
<1>1. f \in [Wallets -> Nat] /\ h \in [Wallets -> Nat]
  <2>1. \A v \in Wallets : Available(v)' \in Nat
    BY SatType, ConstantTypes DEF Available, TypeOK, BuyerRecord
  <2> QED  BY <2>1, AvailableType
<1>2. \A v \in Wallets \ {w} : h[v] = f[v]
  BY DEF Available
<1>3. f[w] = Available(w) /\ h[w] = Available(w)'
  OBVIOUS
<1>4. /\ EntitlementsBacked  <=> SumFunction(f) <= supply
      /\ EntitlementsBacked' <=> SumFunction(h) <= supply'
  BY DEF EntitlementsBacked
<1>5. supply \in Nat /\ supply' \in Nat
  BY ConstantTypes DEF TypeOK
<1> HIDE DEF f, h
<1>6. /\ SumFunction(f) \in Nat /\ SumFunction(h) \in Nat
      /\ SumFunction(h) + f[w] = SumFunction(f) + h[w]
  BY <1>1, <1>2, LaunchAssumptions, SumUpdate
<1>7. f[w] \in Nat /\ h[w] \in Nat
  BY <1>1
<1> QED
  BY <1>3, <1>4, <1>5, <1>6, <1>7

LEMMA NextEntitlements ==
  ASSUME TypeOK, LaunchInvariant, EntitlementsBacked, [Next]_vars
  PROVE  EntitlementsBacked'
<1>1. TypeOK' /\ supply \in Nat
  BY NextType, ConstantTypes DEF TypeOK
<1>2. ASSUME \A v \in Wallets : /\ record'[v].tokens_allocated = record[v].tokens_allocated
                               /\ record'[v].curve_tokens_bought = record[v].curve_tokens_bought
                               /\ record'[v].tokens_sold = record[v].tokens_sold,
             supply' = supply
      PROVE  EntitlementsBacked'
  BY <1>2 DEF EntitlementsBacked, Available
<1>3. ASSUME NEW w \in Wallets, NEW a \in Deposits, BuyPresale(w, a)
      PROVE  EntitlementsBacked'
  <2>1. \A v \in Wallets : /\ record'[v].tokens_allocated = record[v].tokens_allocated
                          /\ record'[v].curve_tokens_bought = record[v].curve_tokens_bought
                          /\ record'[v].tokens_sold = record[v].tokens_sold
    BY <1>3, BuyPresaleEffect DEF LaunchInvariant
  <2> QED  BY <1>2, <1>3, <2>1 DEF BuyPresale
<1>4. ASSUME NEW w \in Wallets, NEW b \in Wallets, NEW to \in Holders,
             FinalizeLaunch(w, b, to)
      PROVE  EntitlementsBacked'
  <2> DEFINE tokens == Allocation(record[b].sol_deposited)
  <2>1. /\ record' = [record EXCEPT ![b].tokens_allocated = tokens,
                                    ![b].entry_price = pool.price_lamports]
        /\ supply' = supply + tokens
        /\ pool.status = "Presale"
    BY <1>4 DEF FinalizeLaunch, MintTo
  <2> HIDE DEF tokens
  <2>2. /\ \A v \in Wallets \ {b} : record'[v] = record[v]
        /\ record'[b].tokens_allocated = tokens
        /\ record'[b].tokens_sold = record[b].tokens_sold
        /\ record'[b].curve_tokens_bought = record[b].curve_tokens_bought
    BY <2>1, RecordTypes DEF TypeOK, BuyerRecord
  <2>3. record[b].tokens_sold = 0 /\ record[b].curve_tokens_bought = 0
    BY <2>1 DEF LaunchInvariant, NoTradesBeforeCurve
  <2>4. tokens \in U64
    BY <1>1, <2>2 DEF TypeOK, BuyerRecord
  <2>5. Available(b)' = tokens
    BY <2>2, <2>3, <2>4, MaxU64Assumption DEF Available, SatAdd, SatSub, U64
  <2>6. Available(b) \in Nat /\ tokens \in Nat
    BY <2>4, AvailableType, ConstantTypes
  <2>7. Available(b)' + supply <= Available(b) + supply'
    BY <1>1, <2>1, <2>5, <2>6
  <2> QED
    BY <1>1, <2>2, <2>7, OneEntitlement
<1>5. ASSUME NEW w \in Wallets, NEW a \in BuyAmounts, NEW to \in Holders, BuyCurve(w, a, to)
      PROVE  EntitlementsBacked'
  <2>1. PICK tokens \in Nat \ {0}, c \in Nat \ {0} :
          /\ \A v \in Wallets \ {w} : record'[v] = record[v]
          /\ record'[w].sol_deposited = record[w].sol_deposited
          /\ record'[w].tokens_allocated = record[w].tokens_allocated
          /\ record'[w].tokens_sold = record[w].tokens_sold
          /\ record'[w].curve_sol_spent = record[w].curve_sol_spent + c
          /\ record'[w].curve_tokens_bought = record[w].curve_tokens_bought + tokens
          /\ vault' = vault + c
          /\ supply' = supply + tokens
          /\ pool' = [pool EXCEPT !.tokens_sold_curve = @ + tokens,
                                  !.curve_sol_collected = @ + c,
                                  !.buyer_count = IF FirstBuy(w) THEN @ + 1 ELSE @]
    BY <1>5, BuyCurveEffect DEF LaunchInvariant
  <2>2. Available(w)' <= Available(w) + tokens
    <3> DEFINE al == record[w].tokens_allocated
               bo == record[w].curve_tokens_bought
               so == record[w].tokens_sold
    <3>1. al \in Nat /\ bo \in Nat /\ so \in Nat
      BY RecordTypes
    <3>2. /\ Available(w) = SatSub(SatAdd(al, bo), so)
          /\ Available(w)' = SatSub(SatAdd(al, bo + tokens), so)
      BY <2>1 DEF Available
    <3> HIDE DEF al, bo, so
    <3> QED  BY <2>1, <3>1, <3>2, MaxU64Assumption DEF SatSub, SatAdd
  <2>3. Available(w) \in Nat /\ Available(w)' \in Nat
    BY <1>1, AvailableType, SatType, ConstantTypes DEF Available, TypeOK, BuyerRecord
  <2> QED
    BY <1>1, <2>1, <2>2, <2>3, OneEntitlement
<1>6. ASSUME NEW w \in Wallets, NEW a \in SellAmounts, SellCurve(w, a)
      PROVE  EntitlementsBacked'
  <2>1. /\ a \in Nat \ {0}
        /\ \A v \in Wallets \ {w} : record'[v] = record[v]
        /\ record'[w] = [record[w] EXCEPT !.tokens_sold = @ + a]
    BY <1>6, SellCurveEffect
  <2>2. a <= Available(w) /\ a <= supply /\ supply' = supply - a
    BY <1>6 DEF SellCurve, SellAllowed, Burn
  <2>3. /\ record'[w].tokens_allocated = record[w].tokens_allocated
        /\ record'[w].tokens_sold = record[w].tokens_sold + a
        /\ record'[w].curve_tokens_bought = record[w].curve_tokens_bought
    BY <2>1, RecordTypes DEF BuyerRecord
  <2>4. Available(w)' = Available(w) - a
    <3> DEFINE given == SatAdd(record[w].tokens_allocated, record[w].curve_tokens_bought)
    <3>1. given \in Nat /\ record[w].tokens_sold \in Nat
      BY SatType, ConstantTypes, RecordTypes DEF BuyerRecord
    <3>2. /\ Available(w) = SatSub(given, record[w].tokens_sold)
          /\ Available(w)' = SatSub(given, record[w].tokens_sold + a)
      BY <2>3 DEF Available
    <3> HIDE DEF given
    <3> QED  BY <2>1, <2>2, <3>1, <3>2 DEF SatSub
  <2>5. Available(w) \in Nat
    BY AvailableType
  <2> QED
    BY <1>1, <2>1, <2>2, <2>4, <2>5, OneEntitlement
<1> QED
  BY <1>2, <1>3, <1>4, <1>5, <1>6
  DEF Next, vars, chain, Tick, Graduate, CreateLaunch, StartBondingCurve, UpdatePrice,
      RegisterMarket

\* Whatever the records entitle their buyers to sell has been minted: over
\* any sequence of purchases, finalisations, repeated ones too, and sales.
THEOREM EntitlementsExist == Spec => []EntitlementsBacked
<1>1. Init => EntitlementsBacked
  <2> SUFFICES ASSUME Init PROVE EntitlementsBacked
    OBVIOUS
  <2> DEFINE f == [v \in Wallets |-> Available(v)]
  <2>1. f \in [Wallets -> Nat] /\ \A v \in Wallets : 1 * f[v] <= 0 * f[v]
    BY MaxU64Assumption DEF Init, EmptyRecord, Available, SatAdd, SatSub
  <2>2. supply = 0 /\ (EntitlementsBacked <=> SumFunction(f) <= supply)
    BY DEF EntitlementsBacked, Init
  <2> HIDE DEF f
  <2>3. SumFunction(f) \in Nat /\ 1 * SumFunction(f) <= 0 * SumFunction(f)
    BY <2>1, LaunchAssumptions, SumProportion
  <2> QED  BY <2>2, <2>3
<1>2. TypeOK /\ LaunchInvariant /\ EntitlementsBacked /\ [Next]_vars => EntitlementsBacked'
  BY NextEntitlements
<1> QED
  BY <1>1, <1>2, TypeCorrect, Invariance, PTL DEF Spec

=============================================================================
