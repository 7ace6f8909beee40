---------------------------- MODULE BondingCurve ----------------------------
(***************************************************************************)
(* The linear bonding curve of programs/sames/src/state.rs, as operators   *)
(* on naturals:  price = base_price + slope_scaled * tokens_sold / Scale.  *)
(*                                                                         *)
(* The code computes in u128 and answers in u64.  An operator here returns *)
(* the exact natural; where the code answers None because the result is    *)
(* above u64::MAX, the caller's ok_or(MathOverflow) is the guard Fits.     *)
(* (The u128 products of two u64 never overflow, and where a product of    *)
(* three does, the quotient would be above u64::MAX as well.)              *)
(***************************************************************************)
EXTENDS Integers

CONSTANTS
  Scale,    \* the scaling factor of slopes: 1_000_000_000 in the code
  MaxU64    \* u64::MAX

ASSUME ScaleAssumption == Scale \in Nat \ {0}
ASSUME MaxU64Assumption == MaxU64 \in Nat \ {0}

U64 == 0 .. MaxU64

\* Mutant: an operation that is not checked.
FitsUnchecked(n) == n = n

\* A checked operation's Some(result): the result is representable.
Fits(n) == n <= MaxU64

\* u64::saturating_add and u64::saturating_sub.
SatAdd(m, n) == IF m + n > MaxU64 THEN MaxU64 ELSE m + n
SatSub(m, n) == IF m < n THEN 0 ELSE m - n

-----------------------------------------------------------------------------
\* Lamports charged for amount tokens bought when tokens_sold are out.
bonding_curve_cost(base_price, slope_scaled, tokens_sold, amount) ==
  base_price * amount
    + (slope_scaled * amount * (2 * tokens_sold + amount)) \div (2 * Scale)

\* Spot price; saturates at u64::MAX instead of failing.
bonding_curve_price(base_price, slope_scaled, tokens_sold) ==
  SatAdd(base_price, (slope_scaled * tokens_sold) \div Scale)

\* Newton's iteration, kept as the loop the code runs on (x, y).
isqrt_u128(n) ==
  LET loop[p \in (Nat \ {0}) \X (Nat \ {0})] ==
        IF p[2] < p[1]
        THEN loop[<<p[2], (p[2] + n \div p[2]) \div 2>>]
        ELSE p[1]
  IN  IF n = 0 THEN 0 ELSE loop[<<n, (n + 1) \div 2>>]

\* The coefficient b and the discriminant of the quadratic
\*   slope * x^2 / (2 * Scale) + b * x = sol_amount,
\* each rounded down where the code rounds.
QuoteB(base_price, slope_scaled, tokens_sold) ==
  base_price + (slope_scaled * tokens_sold) \div Scale

\* Mutant: 2ac in place of 4ac.
DiscriminantHalved(base_price, slope_scaled, tokens_sold, sol_amount) ==
  LET b == QuoteB(base_price, slope_scaled, tokens_sold)
  IN  b * b + (slope_scaled * sol_amount) \div Scale

Discriminant(base_price, slope_scaled, tokens_sold, sol_amount) ==
  LET b == QuoteB(base_price, slope_scaled, tokens_sold)
  IN  b * b + (2 * slope_scaled * sol_amount) \div Scale

\* Mutant: the quote is rounded up.
QuoteFromRootUp(root, b, slope_scaled) ==
  IF root <= b THEN 0 ELSE ((root - b) * Scale + slope_scaled - 1) \div slope_scaled

\* The positive root, given the integer square root of the discriminant.
QuoteFromRoot(root, b, slope_scaled) ==
  IF root <= b THEN 0 ELSE ((root - b) * Scale) \div slope_scaled

\* Tokens quoted for sol_amount lamports.
bonding_curve_tokens_for_sol(base_price, slope_scaled, tokens_sold, sol_amount) ==
  IF slope_scaled = 0
  THEN sol_amount \div base_price
  ELSE QuoteFromRoot(
         isqrt_u128(Discriminant(base_price, slope_scaled, tokens_sold, sol_amount)),
         QuoteB(base_price, slope_scaled, tokens_sold),
         slope_scaled)

=============================================================================
