-------------------------- MODULE CurveQuoteProofs ---------------------------
(***************************************************************************)
(* The quote of buy_curve, for every curve and every offer: Newton's loop  *)
(* returns the floor of the square root, which is what the operator of the *)
(* launch model computes, and the roundings never quote more than a        *)
(* lamport per token beyond the offer, nor less than it pays for by more   *)
(* than one unit of the root.                                              *)
(***************************************************************************)
EXTENDS CurveQuote, ShareArithmetic, TLAPS

-----------------------------------------------------------------------------
(* Newton's iteration *)

LEMMA Square == \A z \in Int : z * z >= 0
OBVIOUS

\* Half the sum of z and m \div z, rounded down, does not fall below the floor
\* of the root of m: the arithmetic mean is no less than the geometric one.
LEMMA NewtonAbove ==
  ASSUME NEW m \in Nat \ {0}, NEW z \in Nat \ {0}
  PROVE  LET next == (z + m \div z) \div 2
         IN  next \in Nat \ {0} /\ (next + 1) * (next + 1) > m
<1> DEFINE q == m \div z
           next == (z + q) \div 2
<1>1. q \in Nat /\ m < (q + 1) * z
  BY DivBounds
<1> HIDE DEF q
<1>2. next \in Nat /\ 2 * (next + 1) >= z + (q + 1)
  BY <1>1
<1> HIDE DEF next
<1> DEFINE u == q + 1
           s == next + 1
<1>3. u \in Nat \ {0} /\ s \in Nat \ {0} /\ 2 * s >= z + u
  BY <1>1, <1>2
<1>4. m < u * z
  BY <1>1
<1> HIDE DEF u, s
<1>5. (2 * s) * (2 * s) >= (z + u) * (z + u)
  <2>1. 2 * s \in Nat /\ z + u \in Nat
    BY <1>3
  <2>2. \A k \in Nat, l \in Nat : k >= l => k * k >= l * l
    OBVIOUS
  <2> QED  BY <1>3, <2>1, <2>2
<1>6. (z + u) * (z + u) = (z - u) * (z - u) + 4 * (u * z)
  BY <1>3
<1>7. (z - u) * (z - u) >= 0
  <2>1. z - u \in Int
    BY <1>3
  <2> QED  BY <2>1, Square
<1>8. (2 * s) * (2 * s) = 4 * (s * s)
  BY <1>3
<1>9. s * s \in Nat /\ u * z \in Nat
  BY <1>3, MulNat
<1>10. s * s >= u * z
  <2>1. 4 * (s * s) >= (z - u) * (z - u) + 4 * (u * z)
    BY <1>5, <1>6, <1>8
  <2>2. (z - u) * (z - u) \in Int
    BY <1>3
  <2> HIDE DEF s, u
  <2> QED  BY <1>7, <1>9, <2>1, <2>2
<1>11. s * s > m
  BY <1>4, <1>9, <1>10
<1>12. next # 0
  <2> SUFFICES ASSUME next = 0 PROVE FALSE
    OBVIOUS
  <2>1. s = 1
    BY DEF s
  <2>2. s * s = 1
    BY <2>1
  <2> QED  BY <1>11, <2>2
<1> QED
  BY <1>2, <1>11, <1>12 DEF s, next, q

\* An iterate that does not fall is no more than the root.
LEMMA NewtonStops ==
  ASSUME NEW m \in Nat \ {0}, NEW z \in Nat \ {0}, (z + m \div z) \div 2 >= z
  PROVE  z * z <= m
<1> DEFINE q == m \div z
<1>1. q \in Nat /\ q * z <= m
  BY DivBounds
<1>2. (z + q) \div 2 >= z
  OBVIOUS
<1> HIDE DEF q
<1>3. q >= z
  BY <1>1, <1>2
<1>4. z * z <= q * z /\ z * z \in Nat /\ q * z \in Nat
  BY <1>1, <1>3, MulMono, MulNat
<1> QED
  BY <1>1, <1>4

\* An iterate of no more than the root does not fall.
LEMMA NewtonRises ==
  ASSUME NEW m \in Nat \ {0}, NEW z \in Nat \ {0}, z * z <= m
  PROVE  (z + m \div z) \div 2 >= z
<1> DEFINE q == m \div z
<1>1. q \in Nat /\ m < (q + 1) * z
  BY DivBounds
<1> HIDE DEF q
<1>2. z <= q
  <2> SUFFICES ASSUME q + 1 <= z PROVE FALSE
    BY <1>1
  <2>1. (q + 1) * z <= z * z
    BY <1>1, MulMono
  <2>2. (q + 1) * z \in Nat /\ z * z \in Nat
    BY <1>1, MulNat
  <2> QED  BY <1>1, <2>1, <2>2
<1>3. (z + q) \div 2 >= z
  BY <1>1, <1>2
<1> QED
  BY <1>3 DEF q

\* r is the floor of the square root of m.
FloorRoot(r, m) == r * r <= m /\ m < (r + 1) * (r + 1)

LEMMA FloorRootExists ==
  ASSUME NEW m \in Nat
  PROVE  \E r \in Nat : FloorRoot(r, m)
<1> DEFINE Above == {r \in Nat : m < (r + 1) * (r + 1)}
<1>1. m \in Above
  <2>1. (m + 1) * (m + 1) = m * m + 2 * m + 1 /\ m * m \in Nat
    BY MulNat
  <2> QED  BY <2>1
<1>2. PICK r \in Above : \A k \in Above : r <= k
  <2>1. Above \subseteq Nat /\ Above # {}
    BY <1>1
  <2> HIDE DEF Above
  <2> QED  BY <2>1, LeastNat
<1>3. r * r <= m
  <2>1. CASE r = 0
    BY <2>1
  <2>2. CASE r # 0
    <3>1. r - 1 \in Nat /\ r - 1 \notin Above
      <4> HIDE DEF Above
      <4>1. r \in Nat
        BY DEF Above
      <4> QED  BY <1>2, <2>2, <4>1
    <3>2. (r - 1) + 1 = r
      OBVIOUS
    <3>3. ~ (m < r * r)
      BY <3>1, <3>2
    <3>4. r * r \in Nat
      BY MulNat
    <3> QED  BY <3>3, <3>4
  <2> QED  BY <2>1, <2>2
<1> QED
  BY <1>2, <1>3 DEF FloorRoot

LEMMA FloorRootUnique ==
  ASSUME NEW m \in Nat, NEW r \in Nat, NEW s \in Nat, FloorRoot(r, m), FloorRoot(s, m)
  PROVE  r = s
<1>1. \A i \in Nat, j \in Nat : i * i <= m /\ m < (j + 1) * (j + 1) => i <= j
  <2> SUFFICES ASSUME NEW i \in Nat, NEW j \in Nat,
                      i * i <= m, m < (j + 1) * (j + 1), j + 1 <= i
               PROVE  FALSE
    OBVIOUS
  <2>1. (j + 1) * (j + 1) <= i * (j + 1) /\ (j + 1) * i <= i * i
    BY MulMono
  <2>2. (j + 1) * i = i * (j + 1)
    OBVIOUS
  <2>3. (j + 1) * (j + 1) \in Nat /\ i * (j + 1) \in Nat /\ i * i \in Nat
    BY MulNat
  <2> QED  BY <2>1, <2>2, <2>3
<1> QED
  BY <1>1 DEF FloorRoot

\* The square root of the curve, as a function of its loop's locals, is what
\* the loop returns: the function the loop is defined to be exists, because
\* its values can be written down, and a smallest iterate for which another
\* one differs from them cannot be.
LEMMA IsqrtFloor ==
  ASSUME NEW m \in Nat
  PROVE  isqrt_u128(m) \in Nat /\ FloorRoot(isqrt_u128(m), m)
<1>1. CASE m = 0
  BY <1>1 DEF isqrt_u128, FloorRoot
<1>2. CASE m # 0
  <2> DEFINE Pairs == (Nat \ {0}) \X (Nat \ {0})
             After(z) == (z + m \div z) \div 2
             IsLoop(f) == f = [p \in Pairs |-> IF p[2] < p[1]
                                                THEN f[<<p[2], After(p[2])>>]
                                                ELSE p[1]]
             loop == CHOOSE f : IsLoop(f)
  <2>1. PICK r \in Nat : FloorRoot(r, m)
    BY FloorRootExists
  <2>2. \A z \in Nat \ {0} : /\ After(z) \in Nat \ {0}
                             /\ m < (After(z) + 1) * (After(z) + 1)
                             /\ After(z) >= z <=> z * z <= m
    BY <1>2, NewtonAbove, NewtonStops, NewtonRises
  <2> HIDE DEF After
  <2>3. \A z \in Nat \ {0} : After(z) * After(z) <= m => After(z) = r
    BY <2>1, <2>2, FloorRootUnique DEF FloorRoot
  <2> DEFINE Value(p) == IF p[2] >= p[1] THEN p[1]
                         ELSE IF p[2] * p[2] <= m THEN p[2] ELSE r
             g == [p \in Pairs |-> Value(p)]
  <2>4. \A i, j \in Nat \ {0} : j < i => Value(<<i, j>>) = Value(<<j, After(j)>>)
    <3> SUFFICES ASSUME NEW i \in Nat \ {0}, NEW j \in Nat \ {0}, j < i
                 PROVE  Value(<<i, j>>) = Value(<<j, After(j)>>)
      OBVIOUS
    <3>1. CASE j * j <= m
      BY <2>2, <3>1
    <3>2. CASE ~ (j * j <= m)
      BY <2>2, <2>3, <3>2
    <3> QED  BY <3>1, <3>2
  <2> HIDE DEF Value
  <2>5. IsLoop(g)
    <3>1. \A p \in Pairs : p = <<p[1], p[2]>> /\ p[1] \in Nat \ {0} /\ p[2] \in Nat \ {0}
      OBVIOUS
    <3>2. \A p \in Pairs : <<p[2], After(p[2])>> \in Pairs
      BY <2>2, <3>1
    <3>3. \A p \in Pairs : ~ (p[2] < p[1]) => Value(p) = p[1]
      BY <3>1 DEF Value
    <3>4. \A p \in Pairs : p[2] < p[1] => g[p] = g[<<p[2], After(p[2])>>]
      BY <2>4, <3>1, <3>2
    <3> HIDE DEF Pairs
    <3> QED  BY <3>3, <3>4
  <2>6. IsLoop(loop)
    <3> HIDE DEF IsLoop
    <3> QED  BY <2>5
  <2> HIDE DEF loop
  <2>7. \A p \in Pairs : loop[p] = IF p[2] < p[1] THEN loop[<<p[2], After(p[2])>>]
                                   ELSE p[1]
    BY <2>6
  <2> HIDE DEF IsLoop
  <2>8. ASSUME NEW i \in Nat \ {0}, NEW j \in Nat \ {0}, loop[<<i, j>>] # Value(<<i, j>>)
        PROVE  FALSE
    <3> DEFINE Wrong == {k \in Nat \ {0} : \E l \in Nat \ {0} : loop[<<k, l>>] # Value(<<k, l>>)}
    <3>1. PICK k \in Wrong : \A a \in Wrong : k <= a
      <4>1. Wrong \subseteq Nat /\ Wrong # {}
        BY <2>8
      <4> HIDE DEF Wrong
      <4> QED  BY <4>1, LeastNat
    <3>2. PICK l \in Nat \ {0} : loop[<<k, l>>] # Value(<<k, l>>)
      BY <3>1
    <3>3. k \in Nat \ {0} /\ <<k, l>> \in Pairs
      BY <3>1
    <3>4. loop[<<k, l>>] = IF l < k THEN loop[<<l, After(l)>>] ELSE k
      BY <2>7, <3>3
    <3>5. l < k
      BY <3>2, <3>3, <3>4 DEF Value
    <3>6. l \notin Wrong
      <4> HIDE DEF Wrong
      <4> QED  BY <3>1, <3>3, <3>5
    <3>7. loop[<<l, After(l)>>] = Value(<<l, After(l)>>)
      BY <2>2, <3>6
    <3> QED  BY <2>4, <3>2, <3>3, <3>4, <3>5, <3>7
  <2>9. m \div m = 1 /\ m \in Nat \ {0}
    BY <1>2
  <2>10. isqrt_u128(m) = loop[<<m, After(m)>>]
    BY <1>2, <2>9 DEF isqrt_u128, loop, IsLoop, After, Pairs
  <2>11. isqrt_u128(m) = Value(<<m, After(m)>>)
    BY <2>2, <2>8, <2>9, <2>10
  <2>12. m < (m + 1) * (m + 1)
    <3>1. (m + 1) * (m + 1) = m * m + 2 * m + 1 /\ m * m \in Nat
      BY MulNat
    <3> QED  BY <3>1
  <2> QED  BY <2>1, <2>2, <2>9, <2>11, <2>12 DEF Value, FloorRoot
<1> QED
  BY <1>1, <1>2

-----------------------------------------------------------------------------
(* The inductive invariant *)

LEMMA DiscriminantTypes ==
  ASSUME NEW P \in Nat \ {0}, NEW k \in Nat, NEW t \in Nat, NEW A \in Nat
  PROVE  QuoteB(P, k, t) \in Nat \ {0} /\ Discriminant(P, k, t, A) \in Nat \ {0}
<1> DEFINE v == QuoteB(P, k, t)
<1>1. k * t \in Nat /\ k * A \in Nat
  BY MulNat
<1>2. Scale \in Nat \ {0}
  BY ScaleAssumption
<1>3. (k * t) \div Scale \in Nat
  BY <1>1, <1>2, DivNat
<1>4. v \in Nat \ {0}
  BY <1>3 DEF QuoteB
<1>5. (2 * k * A) \div Scale \in Nat
  <2> DEFINE m == 2 * k * A
  <2>1. m \in Nat
    BY <1>1
  <2> HIDE DEF m
  <2>2. m \div Scale \in Nat
    BY <1>2, <2>1, DivNat
  <2> QED  BY <2>2 DEF m
<1>6. Discriminant(P, k, t, A) = v * v + (2 * k * A) \div Scale
  BY DEF Discriminant
<1> HIDE DEF v
<1>7. v * v \in Nat \ {0}
  BY <1>4, MulNat
<1>8. Discriminant(P, k, t, A) \in Nat \ {0}
  BY <1>5, <1>6, <1>7
<1> QED
  BY <1>4, <1>8 DEF v

LEMMA QuoteTypes ==
  ASSUME base_price \in Nat \ {0}, slope_scaled \in Nat, tokens_sold \in Nat, sol_amount \in Nat
  PROVE  b \in Nat \ {0} /\ n \in Nat \ {0}
BY DiscriminantTypes DEF b, n

\* What the loop knows: y is the iterate after x, and both are above the
\* floor of the root or at it; and what a quote is once it is answered.
QuoteInv ==
  /\ base_price \in Nat \ {0} /\ slope_scaled \in Nat
  /\ tokens_sold \in Nat /\ sol_amount \in Nat
  /\ pc \in {"quote", "newton"} \cup Outcomes
  /\ pc = "newton" => /\ slope_scaled # 0
                      /\ x \in Nat \ {0}
                      /\ y = (x + n \div x) \div 2
                      /\ (x + 1) * (x + 1) > n
  /\ pc \in Outcomes /\ slope_scaled # 0
       => /\ x \in Nat /\ x * x <= n /\ n < (x + 1) * (x + 1)
          /\ tokens = QuoteFromRoot(x, b, slope_scaled)
  /\ pc \in Outcomes /\ slope_scaled = 0 => tokens = sol_amount \div base_price

LEMMA InitQuote == Init => QuoteInv
BY QuoteAssumptions, MaxU64Assumption DEF Init, QuoteInv, Outcomes, U64

LEMMA OutcomeType == \A q : Outcome(q) \in Outcomes
BY DEF Outcome, Outcomes

LEMMA NextQuote == QuoteInv /\ [Next]_vars => QuoteInv'
<1> SUFFICES ASSUME QuoteInv, [Next]_vars PROVE QuoteInv'
  OBVIOUS
<1>1. CASE UNCHANGED vars
  BY <1>1 DEF vars, args, QuoteInv, n, b
<1> SUFFICES ASSUME Next, UNCHANGED args PROVE QuoteInv'
  BY <1>1 DEF Next, FlatQuote, StartNewton, NewtonStep, RootQuote
<1>a. n' = n /\ b' = b /\ n \in Nat \ {0} /\ b \in Nat \ {0}
  BY QuoteTypes DEF QuoteInv, args, n, b
<1>b. "quote" \notin Outcomes /\ "newton" \notin Outcomes
  BY DEF Outcomes
<1>2. CASE FlatQuote
  <2>1. /\ slope_scaled = 0 /\ tokens' = sol_amount \div base_price
        /\ pc' \in Outcomes
    BY <1>2, OutcomeType DEF FlatQuote, Charge
  <2> QED  BY <1>b, <2>1 DEF QuoteInv, args
<1>3. CASE StartNewton
  <2>1. pc' = "newton" /\ x' = n /\ y' = (n + 1) \div 2 /\ slope_scaled # 0
    BY <1>3 DEF StartNewton, FirstIterate
  <2>2. n \div n = 1
    <3>1. \A m \in Nat \ {0} : m \div m = 1
      OBVIOUS
    <3> QED  BY <1>a, <3>1
  <2>3. (n + 1) * (n + 1) > n
    <3>1. \A m \in Nat \ {0} : (m + 1) * (m + 1) > m
      <4> SUFFICES ASSUME NEW m \in Nat \ {0} PROVE (m + 1) * (m + 1) > m
        OBVIOUS
      <4>1. (m + 1) * (m + 1) = m * m + 2 * m + 1 /\ m * m \in Nat
        BY MulNat
      <4> QED  BY <4>1
    <3> QED  BY <1>a, <3>1
  <2> QED  BY <1>a, <1>b, <2>1, <2>2, <2>3 DEF QuoteInv, args
<1>4. CASE NewtonStep
  <2>1. pc = "newton" /\ pc' = "newton" /\ x' = y /\ y' = (y + n \div y) \div 2
    BY <1>4 DEF NewtonStep
  <2>2. y \in Nat \ {0} /\ (y + 1) * (y + 1) > n
    BY <1>a, <2>1, NewtonAbove DEF QuoteInv
  <2> QED  BY <1>a, <1>b, <2>1, <2>2 DEF QuoteInv, args
<1>5. CASE RootQuote
  <2>1. /\ pc = "newton" /\ ~ (y < x) /\ x' = x
        /\ tokens' = QuoteFromRoot(x, b, slope_scaled)
        /\ pc' \in Outcomes
    BY <1>5, OutcomeType DEF RootQuote, KeepGoing, Root, Charge
  <2>2. x \in Nat \ {0} /\ y = (x + n \div x) \div 2 /\ n < (x + 1) * (x + 1)
        /\ slope_scaled # 0
    BY <2>1, <1>a DEF QuoteInv
  <2>3. y \in Nat
    BY <1>a, <2>2, NewtonAbove
  <2>4. x * x <= n
    BY <1>a, <2>1, <2>2, <2>3, NewtonStops
  <2> QED
    <3> USE DEF args
    <3>1. /\ base_price' = base_price /\ slope_scaled' = slope_scaled
          /\ tokens_sold' = tokens_sold /\ sol_amount' = sol_amount
      OBVIOUS
    <3> QED  BY <1>a, <1>b, <2>1, <2>2, <2>4, <3>1 DEF QuoteInv
<1> QED
  BY <1>2, <1>3, <1>4, <1>5 DEF Next

LEMMA QuoteInvariance == Spec => []QuoteInv
<1> QED
  BY InitQuote, NextQuote, PTL DEF Spec

\* The quote has its types for every choice of arguments; what is charged is
\* a u64, for a cost that is none is answered MathOverflow.
THEOREM QuoteTypeOK == Spec => []TypeOK
<1>1. Init => TypeOK
  BY MaxU64Assumption DEF Init, TypeOK, U64
<1>2. TypeOK /\ QuoteInv /\ QuoteInv' /\ [Next]_vars => TypeOK'
  <2> SUFFICES ASSUME TypeOK, QuoteInv, QuoteInv', [Next]_vars PROVE TypeOK'
    OBVIOUS
  <2>1. CASE UNCHANGED vars
    BY <2>1 DEF vars, args, TypeOK
  <2> SUFFICES ASSUME Next, UNCHANGED args PROVE TypeOK'
    BY <2>1 DEF Next, FlatQuote, StartNewton, NewtonStep, RootQuote
  <2>a. n \in Nat \ {0} /\ b \in Nat \ {0} /\ x \in Nat /\ y \in Nat
    BY QuoteTypes DEF QuoteInv, TypeOK
  <2>b. \A q \in Nat : Cost(q) \in Nat
    <3> SUFFICES ASSUME NEW q \in Nat PROVE Cost(q) \in Nat
      OBVIOUS
    <3>1. base_price * q \in Nat /\ slope_scaled * q \in Nat /\ 2 * tokens_sold + q \in Nat
      BY MulNat DEF QuoteInv
    <3>2. slope_scaled * q * (2 * tokens_sold + q) \in Nat /\ 2 * Scale \in Nat \ {0}
      BY <3>1, MulNat, ScaleAssumption
    <3> DEFINE m == slope_scaled * q * (2 * tokens_sold + q)
               s == 2 * Scale
    <3> HIDE DEF m, s
    <3>3. m \div s \in Nat
      BY <3>2, DivNat DEF m, s
    <3> QED  BY <3>1, <3>3 DEF Cost, bonding_curve_cost, m, s
  <2>2. ASSUME NEW q \in Nat, Charge(q), UNCHANGED <<x, y>> PROVE TypeOK'
    <3>1. Outcome(q) = "charged" => Cost(q) \in U64
      <4>1. sol_amount <= MaxU64
        BY QuoteAssumptions, MaxU64Assumption DEF TypeOK
      <4> SUFFICES ASSUME Cost(q) \notin U64 PROVE Outcome(q) # "charged"
        OBVIOUS
      <4>2. ~ Fits(Cost(q))
        BY <2>b, MaxU64Assumption DEF U64, Fits
      <4> QED  BY <4>2 DEF Outcome
    <3>2. 0 \in U64
      BY MaxU64Assumption DEF U64
    <3>3. pc' = Outcome(q) /\ cost' \in U64 /\ tokens' = q
      BY <2>2, <3>1, <3>2 DEF Charge
    <3>4. pc' \in Outcomes
      BY <3>3, OutcomeType
    <3> QED  BY <2>a, <2>2, <3>3, <3>4 DEF TypeOK, args
  <2>3. CASE FlatQuote
    <3>1. sol_amount \div base_price \in Nat
      BY DivNat DEF QuoteInv
    <3> QED  BY <2>2, <2>3, <3>1 DEF FlatQuote
  <2>4. CASE StartNewton
    <3>1. /\ pc' = "newton" /\ x' = n /\ y' = (n + 1) \div 2
          /\ tokens' = tokens /\ cost' = cost
      BY <2>4 DEF StartNewton, FirstIterate
    <3>2. x' \in Nat /\ y' \in Nat
      BY <2>a, <3>1
    <3> QED  BY <3>1, <3>2 DEF TypeOK, args
  <2>5. CASE NewtonStep
    <3>1. /\ pc' = pc /\ x' = y /\ y' = (y + n \div y) \div 2
          /\ tokens' = tokens /\ cost' = cost /\ pc = "newton"
      BY <2>5 DEF NewtonStep
    <3>2. y \in Nat \ {0}
      BY <2>a, <3>1, NewtonAbove DEF QuoteInv
    <3>3. y' \in Nat
      BY <2>a, <3>1, <3>2, NewtonAbove
    <3> QED  BY <2>a, <3>1, <3>3 DEF TypeOK, args
  <2>6. CASE RootQuote
    <3>1. Charge(QuoteFromRoot(x, b, slope_scaled)) /\ UNCHANGED <<x, y>> /\ pc = "newton"
      BY <2>6 DEF RootQuote, Root
    <3>2. QuoteFromRoot(x, b, slope_scaled) \in Nat
      <4>1. CASE x <= b
        BY <4>1 DEF QuoteFromRoot
      <4>2. CASE ~ (x <= b)
        <5> DEFINE m == (x - b) * Scale
        <5>1. x - b \in Nat /\ slope_scaled \in Nat \ {0}
          BY <2>a, <3>1, <4>2 DEF QuoteInv
        <5>2. m \in Nat
          BY <5>1, MulNat, ScaleAssumption
        <5> HIDE DEF m
        <5>3. m \div slope_scaled \in Nat
          BY <5>1, <5>2, DivNat
        <5> QED  BY <4>2, <5>3 DEF QuoteFromRoot, m
      <4> QED  BY <4>1, <4>2
    <3> QED  BY <2>2, <3>1, <3>2
  <2> QED  BY <2>3, <2>4, <2>5, <2>6 DEF Next
<1> QED
  BY <1>1, <1>2, QuoteInvariance, PTL DEF Spec

\* No iterate passes below the floor of the root, whatever the curve: the
\* loop may stop at the first one that does not fall.
THEOREM IteratesStayAbove == Spec => []NewtonFromAbove
<1>1. QuoteInv => NewtonFromAbove
  <2> SUFFICES ASSUME QuoteInv, pc = "newton"
               PROVE  x > 0 /\ (x + 1) * (x + 1) > n /\ (y + 1) * (y + 1) > n
    BY DEF NewtonFromAbove
  <2>1. n \in Nat \ {0}
    BY QuoteTypes DEF QuoteInv
  <2>2. x \in Nat \ {0} /\ (x + 1) * (x + 1) > n /\ y = (x + n \div x) \div 2
    BY DEF QuoteInv
  <2> QED  BY <2>1, <2>2, NewtonAbove
<1> QED
  BY <1>1, QuoteInvariance, PTL

\* The loop returns the floor of the square root of every discriminant.
THEOREM RootExact == Spec => []IsqrtExact
<1>1. QuoteInv => IsqrtExact
  BY DEF QuoteInv, IsqrtExact, Root
<1> QED
  BY <1>1, QuoteInvariance, PTL

-----------------------------------------------------------------------------
(* The roundings of a quote *)

\* A quote from a root of at most the discriminant: tokens times the slope's
\* line, twice over, is at most twice the offer.
LEMMA QuoteUnderLine ==
  ASSUME NEW S \in Nat \ {0}, NEW k \in Nat \ {0}, NEW A \in Nat, NEW v \in Nat,
         NEW d \in Nat, NEW q \in Nat, NEW h \in Nat,
         d * (d + 2 * v) <= h, h * S <= 2 * (k * A), q * k <= d * S
  PROVE  q * (k * q + 2 * (v * S)) <= 2 * (A * S)
<1> DEFINE w == q * k
           e == d * S
           f == d + 2 * v
           vs == v * S
<1>1. w \in Nat /\ e \in Nat /\ f \in Nat /\ vs \in Nat
  BY MulNat
<1>2. e + 2 * vs = f * S
  OBVIOUS
<1>3. w * (w + 2 * vs) <= e * (e + 2 * vs)
  <2>0. w <= e
    OBVIOUS
  <2> HIDE DEF w, e, vs
  <2>1. w * (w + 2 * vs) <= e * (w + 2 * vs)
    <3>1. w + 2 * vs \in Nat
      BY <1>1
    <3> QED  BY <1>1, <2>0, <3>1, MulMono
  <2>2. (w + 2 * vs) * e <= (e + 2 * vs) * e
    <3>1. w + 2 * vs \in Nat /\ e + 2 * vs \in Nat /\ w + 2 * vs <= e + 2 * vs
      BY <1>1, <2>0
    <3> QED  BY <1>1, <3>1, MulMono
  <2>3. e * (w + 2 * vs) = (w + 2 * vs) * e /\ (e + 2 * vs) * e = e * (e + 2 * vs)
    BY <1>1
  <2> DEFINE i == w * (w + 2 * vs)
             j == e * (w + 2 * vs)
             l == e * (e + 2 * vs)
  <2>4. i \in Nat /\ j \in Nat /\ l \in Nat
    BY <1>1, MulNat
  <2>5. i <= j /\ j <= l
    BY <2>1, <2>2, <2>3
  <2> HIDE DEF i, j, l
  <2>6. i <= l
    BY <2>4, <2>5
  <2> QED
    BY <2>6 DEF i, l
<1>4. e * (f * S) = (d * f) * (S * S)
  <2> HIDE DEF f
  <2> QED  BY <1>1
<1>5. (d * f) * (S * S) <= h * (S * S)
  BY <1>1, MulNat, MulMono
<1>6. h * (S * S) <= (2 * (k * A)) * S
  <2>1. (h * S) * S <= (2 * (k * A)) * S
    BY MulNat, MulMono
  <2>2. (h * S) * S = h * (S * S)
    OBVIOUS
  <2> QED  BY <2>1, <2>2
<1>7. w * (w + 2 * vs) <= (2 * (k * A)) * S
  <2> DEFINE i == w * (w + 2 * vs)
             j == e * (e + 2 * vs)
             l == (d * f) * (S * S)
             o == h * (S * S)
             u == (2 * (k * A)) * S
  <2>1. i \in Nat /\ j \in Nat /\ l \in Nat /\ o \in Nat /\ u \in Nat
    BY <1>1, MulNat
  <2>2. i <= j /\ j = l /\ l <= o /\ o <= u
    BY <1>2, <1>3, <1>4, <1>5, <1>6
  <2> HIDE DEF i, j, l, o, u
  <2>3. i <= u
    BY <2>1, <2>2
  <2> QED  BY <2>3 DEF i, u
<1> DEFINE g == q * (k * q + 2 * vs)
           z == 2 * (A * S)
<1>8. w * (w + 2 * vs) = g * k /\ (2 * (k * A)) * S = z * k
  <2> HIDE DEF vs
  <2> QED  BY <1>1
<1>9. g \in Nat /\ z \in Nat
  BY <1>1, MulNat
<1>10. g <= z
  <2>1. g * k <= z * k
    BY <1>7, <1>8
  <2> HIDE DEF g, z
  <2> QED  BY <1>9, <2>1, MulMono
<1> QED
  BY <1>10 DEF g, z, vs

\* Such a quote costs at most a lamport per token more than the offer, and no
\* more than the offer where the division in b leaves no remainder.
LEMMA QuoteCost ==
  ASSUME NEW S \in Nat \ {0}, NEW k \in Nat \ {0}, NEW A \in Nat, NEW v \in Nat,
         NEW P \in Nat, NEW t \in Nat, NEW q \in Nat, NEW rem \in 0 .. S - 1,
         v * S + rem = P * S + k * t,
         q * (k * q + 2 * (v * S)) <= 2 * (A * S)
  PROVE  LET c == P * q + (k * q * (2 * t + q)) \div (2 * S)
         IN  c \in Nat /\ c <= A + q /\ (rem = 0 => c <= A)
<1> DEFINE num == k * q * (2 * t + q)
           g == num \div (2 * S)
           c == P * q + g
<1>1. num \in Nat /\ 2 * S \in Nat \ {0} /\ P * q \in Nat
  <2>1. k * q \in Nat /\ 2 * t + q \in Nat
    BY MulNat
  <2> QED  BY <2>1, MulNat
<1>2. g \in Nat /\ g * (2 * S) <= num
  <2> HIDE DEF num
  <2> QED  BY <1>1, DivBounds
<1>3. num + 2 * ((P * q) * S) = q * (k * q + 2 * (v * S)) + 2 * (rem * q)
  <2>1. num = q * (k * q + 2 * (k * t))
    OBVIOUS
  <2>2. (P * q) * S = q * (P * S) /\ rem * q = q * rem
    BY \A i \in Int, j \in Int, l \in Int : (i * j) * l = j * (i * l)
  <2> DEFINE kt == k * t
             kq == k * q
             ps == P * S
             vs == v * S
  <2>3. kt \in Nat /\ kq \in Nat /\ ps \in Nat /\ vs \in Nat /\ kt = vs + rem - ps
    BY MulNat
  <2>4. num = q * (kq + 2 * kt)
    BY <2>1
  <2>5. (P * q) * S = q * ps
    BY <2>2
  <2> HIDE DEF kt, kq, ps, vs, num
  <2>6. q * (kq + 2 * (vs + rem - ps)) + 2 * (q * ps) = q * (kq + 2 * vs) + 2 * (q * rem)
    BY <2>3
  <2>7. num + 2 * ((P * q) * S) = q * (kq + 2 * vs) + 2 * (q * rem)
    BY <2>3, <2>4, <2>5, <2>6
  <2> QED
    BY <2>2, <2>7 DEF kq, vs
<1>4. num + 2 * ((P * q) * S) <= 2 * (A * S) + 2 * (rem * q)
  <2> DEFINE i == q * (k * q + 2 * (v * S))
             j == rem * q
             l == A * S
             o == (P * q) * S
  <2>1. i \in Nat /\ j \in Nat /\ l \in Nat /\ o \in Nat /\ i <= 2 * l
    BY <1>1, MulNat
  <2>2. num + 2 * o = i + 2 * j
    BY <1>3
  <2> HIDE DEF i, j, l, o, num
  <2>3. num + 2 * o <= 2 * l + 2 * j
    BY <2>1, <2>2
  <2> QED  BY <2>3 DEF o, l, j
<1>5. c * (2 * S) <= 2 * (A * S) + 2 * (rem * q)
  <2>1. c * (2 * S) = g * (2 * S) + 2 * ((P * q) * S)
    <3> DEFINE pq == P * q
    <3> HIDE DEF g, pq
    <3>1. (pq + g) * (2 * S) = g * (2 * S) + 2 * (pq * S)
      BY <1>1, <1>2 DEF pq
    <3> QED  BY <3>1 DEF pq
  <2> DEFINE i == g * (2 * S)
             j == 2 * ((P * q) * S)
             l == 2 * (A * S) + 2 * (rem * q)
  <2>2. i \in Nat /\ j \in Nat /\ l \in Nat
    <3>1. rem * q \in Nat /\ A * S \in Nat /\ (P * q) * S \in Nat
      BY <1>1, MulNat
    <3>2. g * (2 * S) \in Nat
      BY <1>1, <1>2, MulNat
    <3> QED  BY <3>1, <3>2
  <2>3. i <= num /\ num + j <= l
    BY <1>2, <1>4
  <2> HIDE DEF i, j, l, num, c
  <2>4. i + j <= l
    BY <1>1, <2>2, <2>3
  <2> QED  BY <2>1, <2>4 DEF i, j, l
<1>6. c \in Nat
  BY <1>1, <1>2
<1> HIDE DEF c
<1>7. c <= A + q
  <2>1. rem * q <= S * q
    BY MulMono
  <2>2. (A + q) * (2 * S) = 2 * (A * S) + 2 * (S * q)
    OBVIOUS
  <2>3. c * (2 * S) <= (A + q) * (2 * S)
    <3>1. rem * q \in Nat /\ S * q \in Nat /\ A * S \in Nat /\ c * (2 * S) \in Nat
      BY <1>1, <1>6, MulNat
    <3> QED  BY <1>5, <2>1, <2>2, <3>1
  <2> QED
    BY <1>1, <1>6, <2>3, MulMono
<1>8. ASSUME rem = 0 PROVE c <= A
  <2>1. rem * q = 0
    BY <1>8
  <2>2. A * (2 * S) = 2 * (A * S)
    OBVIOUS
  <2>3. c * (2 * S) <= A * (2 * S)
    BY <1>5, <2>1, <2>2
  <2> QED
    BY <1>1, <1>6, <2>3, MulMono
<1> QED
  BY <1>6, <1>7, <1>8 DEF c, g, num

\* Rounding the coefficient of the quadratic down may quote more tokens than
\* the offer pays for, by a lamport per token at most, on every curve; where
\* the slope divides evenly the offer always pays.
LEMMA RootQuoteAffordable ==
  ASSUME NEW P \in Nat \ {0}, NEW k \in Nat, NEW t \in Nat, NEW A \in Nat, NEW q, NEW r,
         k = 0 => q = A \div P,
         k # 0 => /\ r \in Nat /\ r * r <= Discriminant(P, k, t, A)
                  /\ q = QuoteFromRoot(r, QuoteB(P, k, t), k)
  PROVE  /\ bonding_curve_cost(P, k, t, q) <= A + q
         /\ (k * t) % Scale = 0 => bonding_curve_cost(P, k, t, q) <= A
<1> DEFINE S == Scale
           v == QuoteB(P, k, t)
           disc == Discriminant(P, k, t, A)
           rem == (k * t) % S
<1>1. /\ S \in Nat \ {0} /\ k \in Nat /\ A \in Nat /\ P \in Nat \ {0} /\ t \in Nat
      /\ v \in Nat \ {0} /\ disc \in Nat \ {0}
  BY ScaleAssumption, DiscriminantTypes
<1>2. rem \in 0 .. S - 1 /\ v * S + rem = P * S + k * t
  <2>1. v = P + (k * t) \div S
    BY DEF v, QuoteB
  <2>2. k * t \in Nat
    BY <1>1, MulNat
  <2>3. \A m \in Nat, s \in Nat \ {0} : /\ m % s \in 0 .. s - 1
                                        /\ (m \div s) * s + (m % s) = m
                                        /\ m \div s \in Nat
    <3> SUFFICES ASSUME NEW m \in Nat, NEW s \in Nat \ {0}
                 PROVE  m % s \in 0 .. s - 1 /\ (m \div s) * s + (m % s) = m /\ m \div s \in Nat
      OBVIOUS
    <3>1. m % s \in 0 .. s - 1
      BY ModNat
    <3>2. m \div s \in Nat
      BY DivNat
    <3>3. (m \div s) * s + (m % s) = m
      OBVIOUS
    <3> QED  BY <3>1, <3>2, <3>3
  <2> DEFINE kt == k * t
             c == kt \div S
  <2>4. rem \in 0 .. S - 1 /\ c * S + rem = kt /\ c \in Nat
    BY <1>1, <2>2, <2>3
  <2>5. v = P + c
    BY <2>1
  <2> HIDE DEF c, rem, S, kt
  <2>6. (P + c) * S = P * S + c * S
    BY <1>1, <2>4
  <2>7. P * S \in Nat /\ c * S \in Nat /\ rem \in Nat
    BY <1>1, <2>4, MulNat
  <2>8. v * S + rem = P * S + kt
    BY <2>4, <2>5, <2>6, <2>7
  <2> QED  BY <2>4, <2>8 DEF kt
<1>3. /\ bonding_curve_cost(P, k, t, q) = P * q + (k * q * (2 * t + q)) \div (2 * S)
      /\ (k * t) % S = rem
  BY DEF bonding_curve_cost
<1>4. q \in Nat /\ q * (k * q + 2 * (v * S)) <= 2 * (A * S)
  <2>1. CASE k = 0
    <3>1. q = A \div P
      BY <2>1
    <3> HIDE DEF S
    <3>2. q \in Nat /\ q * P <= A
      BY <1>1, <3>1, DivBounds
    <3>3. v = P
      <4>1. \A s \in Nat \ {0}, i \in Nat : (0 * i) \div s = 0
        OBVIOUS
      <4> QED  BY <1>1, <2>1, <4>1 DEF v, QuoteB, S
    <3>4. (q * P) * S <= A * S
      BY <1>1, <3>2, MulNat, MulMono
    <3>5. q * (k * q + 2 * (v * S)) = 2 * ((q * P) * S)
      <4>1. q * (0 * q + 2 * (P * S)) = 2 * ((q * P) * S)
        BY <1>1, <3>2
      <4> QED  BY <2>1, <3>3, <4>1
    <3> QED
      <4>1. (q * P) * S \in Nat /\ A * S \in Nat
        BY <1>1, <3>2, MulNat
      <4> QED  BY <3>2, <3>4, <3>5, <4>1
  <2>2. CASE k # 0
    <3> DEFINE d == IF r <= v THEN 0 ELSE r - v
               h == (2 * k * A) \div S
    <3>1. r \in Nat /\ r * r <= disc /\ q = QuoteFromRoot(r, v, k)
      BY <2>2
    <3>2. disc = v * v + h
      BY DEF disc, Discriminant, v
    <3>3. h \in Nat /\ h * S <= 2 * (k * A)
      <4>1. 2 * k * A = 2 * (k * A) /\ 2 * (k * A) \in Nat
        BY <1>1, MulNat
      <4> DEFINE m == 2 * (k * A)
      <4>2. h = m \div S /\ m \in Nat
        BY <4>1
      <4> HIDE DEF m, h, S
      <4>3. h \in Nat /\ h * S <= m
        BY <1>1, <4>2, DivBounds
      <4> QED  BY <4>3 DEF m
    <3> HIDE DEF h, S, v, disc, rem
    <3>4. d \in Nat
      BY <1>1, <3>1
    <3>5. d * (d + 2 * v) <= h
      <4>1. CASE r <= v
        BY <1>1, <3>3, <4>1
      <4>2. CASE ~ (r <= v)
        <5>1. d = r - v
          BY <4>2
        <5>2. (r - v) * ((r - v) + 2 * v) = r * r - v * v
          BY <1>1, <3>1
        <5>3. r * r \in Nat /\ v * v \in Nat
          BY <1>1, <3>1, MulNat
        <5>4. r * r - v * v <= h
          BY <1>1, <3>1, <3>2, <3>3, <5>3
        <5> QED  BY <5>1, <5>2, <5>4
      <4> QED  BY <4>1, <4>2
    <3>6. q = IF r <= v THEN 0 ELSE (d * S) \div k
      BY <3>1 DEF QuoteFromRoot, S
    <3> HIDE DEF d
    <3>7. q \in Nat /\ q * k <= d * S
      <4>1. d * S \in Nat /\ k \in Nat \ {0}
        BY <1>1, <2>2, <3>4, MulNat
      <4>2. (d * S) \div k \in Nat /\ ((d * S) \div k) * k <= d * S
        BY <4>1, DivBounds
      <4> QED  BY <3>6, <4>1, <4>2
    <3> QED
      BY <1>1, <2>2, <3>3, <3>4, <3>5, <3>7, QuoteUnderLine
  <2> QED  BY <2>1, <2>2
<1> HIDE DEF S, v, disc, rem
<1>5. LET c == P * q + (k * q * (2 * t + q)) \div (2 * S)
      IN  c \in Nat /\ c <= A + q /\ (rem = 0 => c <= A)
  <2>1. CASE k # 0
    BY <1>1, <1>2, <1>4, <2>1, QuoteCost
  <2>2. CASE k = 0
    <3>1. q = A \div P
      BY <2>2
    <3>2. P * q <= A
      BY <1>1, <3>1, DivBounds
    <3>3. (k * q * (2 * t + q)) \div (2 * S) = 0
      <4>1. \A s \in Nat \ {0}, i \in Nat, j \in Nat : (0 * i * j) \div (2 * s) = 0
        OBVIOUS
      <4>2. 2 * t + q \in Nat
        BY <1>1, <1>4
      <4> QED  BY <1>1, <1>4, <2>2, <4>1, <4>2
    <3>4. P * q \in Nat
      BY <1>1, <1>4, MulNat
    <3> QED  BY <1>1, <1>4, <3>2, <3>3, <3>4
  <2> QED  BY <2>1, <2>2
<1> QED
  BY <1>3, <1>5 DEF S, rem

\* So it is of the quotes buy_curve gets at every step of a launch: what the
\* recursive isqrt_u128 of the model computes is the floor of the root.
THEOREM LaunchQuotesAffordable ==
  ASSUME NEW P \in Nat \ {0}, NEW k \in Nat, NEW t \in Nat, NEW A \in Nat
  PROVE  LET q == bonding_curve_tokens_for_sol(P, k, t, A)
         IN  /\ bonding_curve_cost(P, k, t, q) <= A + q
             /\ (k * t) % Scale = 0 => bonding_curve_cost(P, k, t, q) <= A
<1> DEFINE q == bonding_curve_tokens_for_sol(P, k, t, A)
           disc == Discriminant(P, k, t, A)
           r == isqrt_u128(disc)
<1>1. disc \in Nat
  BY DiscriminantTypes
<1>2. r \in Nat /\ r * r <= disc
  <2> HIDE DEF disc
  <2> QED  BY <1>1, IsqrtFloor DEF FloorRoot
<1>3. /\ k = 0 => q = A \div P
      /\ k # 0 => q = QuoteFromRoot(r, QuoteB(P, k, t), k)
  BY DEF bonding_curve_tokens_for_sol
<1> HIDE DEF q, r
<1>4. /\ bonding_curve_cost(P, k, t, q) <= A + q
      /\ (k * t) % Scale = 0 => bonding_curve_cost(P, k, t, q) <= A
  BY <1>2, <1>3, RootQuoteAffordable
<1> QED
  BY <1>4 DEF q

\* And of the handler's, iterating.
THEOREM QuotesAffordable == Spec => []QuoteNearlyAffordable
<1>1. QuoteInv => QuoteNearlyAffordable
  <2> SUFFICES ASSUME QuoteInv, pc \in Outcomes
               PROVE  /\ Cost(tokens) <= sol_amount + tokens
                      /\ (slope_scaled * tokens_sold) % Scale = 0
                           => Cost(tokens) <= sol_amount
    BY DEF QuoteNearlyAffordable
  <2>1. /\ base_price \in Nat \ {0} /\ slope_scaled \in Nat
        /\ tokens_sold \in Nat /\ sol_amount \in Nat
        /\ slope_scaled = 0 => tokens = sol_amount \div base_price
        /\ slope_scaled # 0 => x \in Nat /\ x * x <= n /\ tokens = QuoteFromRoot(x, b, slope_scaled)
    BY DEF QuoteInv
  <2> QED
    BY <2>1, RootQuoteAffordable DEF Cost, n, b
<1> QED
  BY <1>1, QuoteInvariance, PTL

\* One unit of the root more, and the tokens of that root are worth more than
\* twice the offer, by the same measure.
LEMMA QuoteOverLine ==
  ASSUME NEW S \in Nat \ {0}, NEW k \in Nat \ {0}, NEW A \in Nat, NEW v \in Nat,
         NEW d \in Nat, NEW q \in Nat, NEW h \in Nat,
         h + 1 <= d * (d + 2 * v), 2 * (k * A) < (h + 1) * S, d * S <= q * k
  PROVE  2 * (A * S) < q * (k * q + 2 * (v * S))
<1> DEFINE w == q * k
           e == d * S
           f == d + 2 * v
           vs == v * S
<1>1. w \in Nat /\ e \in Nat /\ f \in Nat /\ vs \in Nat /\ e <= w
  BY MulNat
<1>2. e + 2 * vs = f * S
  OBVIOUS
<1>3. e * (e + 2 * vs) <= w * (w + 2 * vs)
  <2> HIDE DEF w, e, vs
  <2> DEFINE i == e + 2 * vs
             j == w + 2 * vs
  <2>1. i \in Nat /\ j \in Nat /\ i <= j
    BY <1>1
  <2> HIDE DEF i, j
  <2>2. e * i <= w * i /\ i * w <= j * w
    BY <1>1, <2>1, MulMono
  <2>3. e * i \in Nat /\ w * i \in Nat /\ j * w \in Nat /\ w * i = i * w /\ j * w = w * j
    BY <1>1, <2>1, MulNat
  <2>4. e * i <= w * j
    BY <2>2, <2>3
  <2> QED  BY <2>4 DEF i, j
<1>4. e * (f * S) = (d * f) * (S * S)
  <2> HIDE DEF f
  <2> QED  BY <1>1
<1>5. (h + 1) * (S * S) <= (d * f) * (S * S)
  BY <1>1, MulNat, MulMono
<1>6. (2 * (k * A)) * S < (h + 1) * (S * S)
  <2>1. 2 * (k * A) \in Nat /\ (h + 1) * S \in Nat
    BY MulNat
  <2>2. (2 * (k * A)) * S < ((h + 1) * S) * S
    BY <2>1, MulMono
  <2>3. ((h + 1) * S) * S = (h + 1) * (S * S)
    OBVIOUS
  <2> QED  BY <2>2, <2>3
<1>7. (2 * (k * A)) * S < w * (w + 2 * vs)
  <2> DEFINE i == w * (w + 2 * vs)
             j == e * (e + 2 * vs)
             l == (d * f) * (S * S)
             o == (h + 1) * (S * S)
             u == (2 * (k * A)) * S
  <2>1. i \in Nat /\ j \in Nat /\ l \in Nat /\ o \in Nat /\ u \in Nat
    BY <1>1, MulNat
  <2>2. u < o /\ o <= l /\ l = j /\ j <= i
    BY <1>2, <1>3, <1>4, <1>5, <1>6
  <2> HIDE DEF i, j, l, o, u
  <2>3. u < i
    BY <2>1, <2>2
  <2> QED  BY <2>3 DEF i, u
<1> DEFINE g == q * (k * q + 2 * vs)
           z == 2 * (A * S)
<1>8. w * (w + 2 * vs) = g * k /\ (2 * (k * A)) * S = z * k
  <2> HIDE DEF vs
  <2> QED  BY <1>1
<1>9. g \in Nat /\ z \in Nat
  BY <1>1, MulNat
<1>10. z < g
  <2>1. z * k < g * k
    BY <1>7, <1>8
  <2> HIDE DEF g, z
  <2>2. g <= z => g * k <= z * k
    BY <1>9, MulMono
  <2>3. g * k \in Nat /\ z * k \in Nat
    BY <1>9, MulNat
  <2> QED  BY <1>9, <2>1, <2>2, <2>3
<1> QED
  BY <1>10 DEF g, z, vs

\* Such a number of tokens costs no less than the offer.
LEMMA OverLineCost ==
  ASSUME NEW S \in Nat \ {0}, NEW k \in Nat \ {0}, NEW A \in Nat, NEW v \in Nat,
         NEW P \in Nat, NEW t \in Nat, NEW q \in Nat,
         v * S <= P * S + k * t,
         2 * (A * S) < q * (k * q + 2 * (v * S))
  PROVE  A <= P * q + (k * q * (2 * t + q)) \div (2 * S)
<1> DEFINE num == k * q * (2 * t + q)
           g == num \div (2 * S)
           pq == P * q
           kt == k * t
           kq == k * q
           ps == P * S
           vs == v * S
<1>1. /\ num \in Nat /\ 2 * S \in Nat \ {0} /\ pq \in Nat
      /\ kt \in Nat /\ kq \in Nat /\ ps \in Nat /\ vs \in Nat
  <2>1. k * q \in Nat /\ 2 * t + q \in Nat
    BY MulNat
  <2> QED  BY <2>1, MulNat
<1>2. g \in Nat /\ num < (g + 1) * (2 * S)
  <2> HIDE DEF num
  <2> QED  BY <1>1, DivBounds
<1>3. num + 2 * (pq * S) = q * (kq + 2 * (ps + kt))
  <2>1. num = q * (kq + 2 * kt)
    OBVIOUS
  <2>2. pq * S = q * ps
    BY \A i \in Int, j \in Int, l \in Int : (i * j) * l = j * (i * l)
  <2> HIDE DEF num, pq, kt, kq, ps
  <2>3. q * (kq + 2 * kt) + 2 * (q * ps) = q * (kq + 2 * (ps + kt))
    BY <1>1
  <2> QED  BY <2>1, <2>2, <2>3
<1>4. q * (kq + 2 * vs) <= q * (kq + 2 * (ps + kt))
  <2> HIDE DEF num, pq, kt, kq, ps, vs
  <2> DEFINE i == kq + 2 * vs
             j == kq + 2 * (ps + kt)
  <2>1. i \in Nat /\ j \in Nat /\ i <= j
    BY <1>1 DEF vs, ps, kt
  <2> HIDE DEF i, j
  <2>2. i * q <= j * q /\ i * q = q * i /\ j * q = q * j
    BY <2>1, MulMono
  <2> QED  BY <2>2 DEF i, j
<1>5. 2 * (A * S) < (g + 1) * (2 * S) + 2 * (pq * S)
  <2> DEFINE i == q * (kq + 2 * vs)
             j == q * (kq + 2 * (ps + kt))
             l == pq * S
             o == (g + 1) * (2 * S)
             u == A * S
  <2>1. i \in Nat /\ j \in Nat /\ l \in Nat /\ o \in Nat /\ u \in Nat
    BY <1>1, <1>2, MulNat
  <2>2. 2 * u < i /\ i <= j /\ num + 2 * l = j /\ num < o
    BY <1>2, <1>3, <1>4
  <2> HIDE DEF i, j, l, o, u, num
  <2>3. 2 * u < o + 2 * l
    BY <1>1, <2>1, <2>2
  <2> QED  BY <2>3 DEF o, l, u
<1> HIDE DEF g, pq
<1>6. (g + 1) * (2 * S) + 2 * (pq * S) = 2 * ((pq + g + 1) * S)
  BY <1>1, <1>2
<1> DEFINE i == pq + g + 1
<1>7. i \in Nat /\ 2 * (A * S) < 2 * (i * S) /\ A * S \in Nat /\ i * S \in Nat
  BY <1>1, <1>2, <1>5, <1>6, MulNat
<1> HIDE DEF i
<1>8. A < i
  <2>1. i <= A => i * S <= A * S
    BY <1>7, MulMono
  <2> QED  BY <1>7, <2>1
<1> QED
  BY <1>1, <1>2, <1>8 DEF i, g, pq, num

\* On no curve is a quote short of what the offer buys by more than the tokens
\* one unit of the root stands for and one.
THEOREM QuotesTight == Spec => []QuoteShortByOneQuantum
<1>1. QuoteInv => QuoteShortByOneQuantum
  <2> SUFFICES ASSUME QuoteInv, pc \in Outcomes, slope_scaled # 0
               PROVE  sol_amount <= Cost(tokens + Quantum + 1)
    BY DEF QuoteShortByOneQuantum
  <2> DEFINE S == Scale
             k == slope_scaled
             A == sol_amount
             P == base_price
             t == tokens_sold
             h == (2 * k * A) \div S
             q == tokens + Quantum + 1
             d == x + 1 - b
  <2>1. /\ S \in Nat \ {0} /\ k \in Nat \ {0} /\ A \in Nat /\ P \in Nat \ {0} /\ t \in Nat
        /\ b \in Nat \ {0} /\ n \in Nat \ {0}
    BY ScaleAssumption, QuoteTypes DEF QuoteInv
  <2>2. x \in Nat /\ n < (x + 1) * (x + 1) /\ tokens = QuoteFromRoot(x, b, k)
    BY DEF QuoteInv
  <2>3. n = b * b + h
    BY DEF n, Discriminant, b
  <2>4. h \in Nat /\ 2 * (k * A) < (h + 1) * S
    <3> DEFINE m == 2 * (k * A)
    <3>1. h = m \div S /\ m \in Nat
      <4>1. 2 * k * A = 2 * (k * A) /\ 2 * (k * A) \in Nat
        BY <2>1, MulNat
      <4> QED  BY <4>1
    <3> HIDE DEF m, h, S
    <3>2. h \in Nat /\ m < (h + 1) * S
      BY <2>1, <3>1, DivBounds
    <3> QED  BY <3>2 DEF m
  <2>5. b * S <= P * S + k * t
    <3> DEFINE kt == k * t
               c == kt \div S
    <3>1. b = P + c /\ kt \in Nat
      BY <2>1, MulNat DEF b, QuoteB
    <3> HIDE DEF S, P, kt
    <3>2. c \in Nat /\ c * S <= kt
      BY <2>1, <3>1, DivBounds
    <3> HIDE DEF c
    <3>3. b * S = P * S + c * S /\ P * S \in Nat /\ c * S \in Nat
      BY <2>1, <3>1, <3>2, MulNat
    <3>4. b * S <= P * S + kt
      BY <3>1, <3>2, <3>3
    <3> QED  BY <3>4 DEF kt
  <2>6. Cost(q) = P * q + (k * q * (2 * t + q)) \div (2 * S)
    BY DEF Cost, bonding_curve_cost
  <2>7. Quantum = (S + k - 1) \div k
    BY DEF Quantum
  <2>8. tokens = IF x <= b THEN 0 ELSE ((x - b) * S) \div k
    BY <2>2 DEF QuoteFromRoot
  <2> HIDE DEF h, S, k, A, P, t
  <2>9. b <= x
    <3> SUFFICES ASSUME x + 1 <= b PROVE FALSE
      BY <2>1, <2>2
    <3>1. (x + 1) * (x + 1) <= b * (x + 1) /\ (x + 1) * b <= b * b
      BY <2>1, <2>2, MulMono
    <3>2. (x + 1) * b = b * (x + 1)
      BY <2>1, <2>2
    <3>3. (x + 1) * (x + 1) \in Nat /\ b * (x + 1) \in Nat /\ b * b \in Nat
      BY <2>1, <2>2, MulNat
    <3> QED  BY <2>1, <2>2, <2>3, <2>4, <3>1, <3>2, <3>3
  <2>10. d \in Nat /\ x - b \in Nat /\ d = (x - b) + 1
    BY <2>1, <2>2, <2>9
  <2>11. h + 1 <= d * (d + 2 * b)
    <3>1. (x + 1 - b) * ((x + 1 - b) + 2 * b) = (x + 1) * (x + 1) - b * b
      BY <2>1, <2>2
    <3>2. (x + 1) * (x + 1) \in Nat /\ b * b \in Nat
      BY <2>1, <2>2, MulNat
    <3>3. h + 1 <= (x + 1) * (x + 1) - b * b
      BY <2>1, <2>2, <2>3, <2>4, <3>2
    <3> QED  BY <3>1, <3>3
  <2> HIDE DEF d
  <2>12. tokens \in Nat /\ (x - b) * S < (tokens + 1) * k
    <3>1. CASE x <= b
      <4>1. x - b = 0 /\ tokens = 0
        BY <2>1, <2>2, <2>8, <2>9, <3>1
      <4> QED  BY <2>1, <4>1
    <3>2. CASE ~ (x <= b)
      <4>1. (x - b) * S \in Nat
        BY <2>1, <2>10, MulNat
      <4> QED  BY <2>1, <2>8, <3>2, <4>1, DivBounds
    <3> QED  BY <3>1, <3>2
  <2>13. Quantum \in Nat /\ S <= Quantum * k
    <3> DEFINE m == S + k - 1
    <3>1. m \in Nat
      BY <2>1
    <3>2. Quantum = m \div k
      BY <2>7
    <3> HIDE DEF m
    <3>3. Quantum \in Nat /\ m < (Quantum + 1) * k
      BY <2>1, <3>1, <3>2, DivBounds
    <3>4. (Quantum + 1) * k = Quantum * k + k /\ Quantum * k \in Nat
      BY <2>1, <3>3, MulNat
    <3> QED  BY <2>1, <3>3, <3>4 DEF m
  <2>14. q \in Nat /\ d * S <= q * k
    <3> DEFINE i == (x - b) * S
               j == (tokens + 1) * k
               l == Quantum * k
    <3>1. d * S = i + S
      <4>1. \A u \in Nat : (u + 1) * S = u * S + S
        BY <2>1
      <4> QED  BY <2>10, <4>1
    <3>2. q * k = j + l
      <4>1. \A u \in Nat, v \in Nat : (u + v + 1) * k = (u + 1) * k + v * k
        BY <2>1
      <4> QED  BY <2>12, <2>13, <4>1
    <3>3. i \in Nat /\ j \in Nat /\ l \in Nat /\ i < j /\ S <= l
      BY <2>1, <2>10, <2>12, <2>13, MulNat
    <3> HIDE DEF i, j, l
    <3>4. d * S <= q * k
      BY <2>1, <3>1, <3>2, <3>3
    <3> QED  BY <2>12, <2>13, <3>4
  <2> HIDE DEF q
  <2>15. 2 * (A * S) < q * (k * q + 2 * (b * S))
    BY <2>1, <2>4, <2>10, <2>11, <2>14, QuoteOverLine
  <2>16. A <= P * q + (k * q * (2 * t + q)) \div (2 * S)
    BY <2>1, <2>5, <2>14, <2>15, OverLineCost
  <2> QED
    BY <2>6, <2>16 DEF A, q
<1> QED
  BY <1>1, QuoteInvariance, PTL

=============================================================================
