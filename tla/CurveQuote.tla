----------------------------- MODULE CurveQuote -----------------------------
(***************************************************************************)
(* How buy_curve turns the lamports offered into tokens and a charge: the  *)
(* quadratic of bonding_curve_tokens_for_sol, its integer square root with *)
(* Newton's loop iteration by iteration, and the test of the cost against  *)
(* the offer.  The question is what the roundings do to the buyer and to   *)
(* the next quote.                                                         *)
(***************************************************************************)
EXTENDS BondingCurve

CONSTANTS
  BasePrices, Slopes, Positions, Offers   \* arguments tried

ASSUME QuoteAssumptions ==
  /\ BasePrices \subseteq 1 .. MaxU64     \* create_launch, update_price: > 0
  /\ Slopes \cup Positions \subseteq U64
  /\ Offers \subseteq 1 .. MaxU64         \* buy_curve: sol_amount > 0

VARIABLES
  base_price, slope_scaled, tokens_sold, sol_amount,   \* the arguments
  pc,       \* "quote", "newton", then "charged" or an error
  x, y,     \* the locals of isqrt_u128
  tokens,   \* the quote
  cost      \* what the vault is paid

args == <<base_price, slope_scaled, tokens_sold, sol_amount>>
vars == <<args, pc, x, y, tokens, cost>>

n == Discriminant(base_price, slope_scaled, tokens_sold, sol_amount)
b == QuoteB(base_price, slope_scaled, tokens_sold)

Outcomes == {"charged", "MathOverflow", "ZeroDeposit", "InsufficientBalance"}

Init ==
  /\ base_price \in BasePrices
  /\ slope_scaled \in Slopes
  /\ tokens_sold \in Positions
  /\ sol_amount \in Offers
  /\ pc = "quote"
  /\ x = 0 /\ y = 0
  /\ tokens = 0 /\ cost = 0

Cost(amount) == bonding_curve_cost(base_price, slope_scaled, tokens_sold, amount)

\* Mutant: only the empty quote is refused.
OutcomeUnchecked(q) == IF q = 0 THEN "ZeroDeposit" ELSE "charged"

\* What buy_curve answers to the quote q, its checks in their order.
Outcome(q) ==
  CASE q = 0                                   -> "ZeroDeposit"
    [] q > 0 /\ ~ (Fits(q) /\ Fits(Cost(q)))   -> "MathOverflow"
    [] q > 0 /\ Fits(q) /\ Cost(q) \in sol_amount + 1 .. MaxU64
                                               -> "InsufficientBalance"
    [] OTHER                                   -> "charged"

\* buy_curve once the quote is q.
Charge(q) ==
  /\ tokens' = q
  /\ pc' = Outcome(q)
  /\ cost' = IF Outcome(q) = "charged" THEN Cost(q) ELSE 0

\* A flat curve divides.
FlatQuote ==
  /\ pc = "quote"
  /\ slope_scaled = 0
  /\ Charge(sol_amount \div base_price)
  /\ UNCHANGED <<args, x, y>>

\* Mutant: the first iterate is rounded down.
FirstIterateDown == n \div 2

FirstIterate == (n + 1) \div 2

\* let mut x = n; let mut y = (x + 1) / 2;  (n > 0, for b > 0)
StartNewton ==
  /\ pc = "quote"
  /\ slope_scaled # 0
  /\ pc' = "newton"
  /\ x' = n
  /\ y' = FirstIterate
  /\ UNCHANGED <<args, tokens, cost>>

\* Mutant: the loop also runs on equality.
KeepGoingOnEqual == y <= x

\* The condition of the loop.
KeepGoing == y < x

NewtonStep ==
  /\ pc = "newton"
  /\ KeepGoing
  /\ x' = y
  /\ y' = (y + n \div y) \div 2
  /\ UNCHANGED <<args, pc, tokens, cost>>

\* Mutant: the last iterate is returned, not the one before.
LastIterate == y

Root == x

\* isqrt_u128 returns; the rest of the quote and of the charge.
RootQuote ==
  /\ pc = "newton"
  /\ ~ KeepGoing
  /\ Charge(QuoteFromRoot(Root, b, slope_scaled))
  /\ UNCHANGED <<args, x, y>>

Next == FlatQuote \/ StartNewton \/ NewtonStep \/ RootQuote

\* A handler that runs keeps running.
Spec == Init /\ [][Next]_vars /\ WF_vars(Next)

-----------------------------------------------------------------------------
(***************************************************************************)
(* Properties                                                              *)
(***************************************************************************)

TypeOK ==
  /\ base_price \in BasePrices /\ slope_scaled \in Slopes
  /\ tokens_sold \in Positions /\ sol_amount \in Offers
  /\ pc \in {"quote", "newton"} \cup Outcomes
  /\ x \in Nat /\ y \in Nat
  /\ tokens \in Nat
  /\ cost \in U64

\* Newton's iterates come down to the root and never pass below its floor,
\* which is what lets the loop stop at the first iterate that does not fall.
NewtonFromAbove ==
  pc = "newton" => x > 0 /\ (x + 1) * (x + 1) > n /\ (y + 1) * (y + 1) > n

\* The loop returns the floor of the square root.
IsqrtExact ==
  pc \in Outcomes /\ slope_scaled # 0 => Root * Root <= n /\ n < (Root + 1) * (Root + 1)

\* Rounding b down may quote more tokens than the offer pays for, by less
\* than one lamport per token; where slope * tokens_sold divides evenly the
\* offer always pays, so buy_curve cannot answer InsufficientBalance.
QuoteNearlyAffordable ==
  pc \in Outcomes
    => /\ Cost(tokens) <= sol_amount + tokens
       /\ (slope_scaled * tokens_sold) % Scale = 0 => Cost(tokens) <= sol_amount

\* The quote is short of what the offer buys by at most the Scale / slope
\* tokens one unit of the root stands for, rounded up, and one more for the
\* rounding of the tokens.
Quantum == (Scale + slope_scaled - 1) \div slope_scaled

QuoteShortByOneQuantum ==
  pc \in Outcomes /\ slope_scaled # 0 => sol_amount <= Cost(tokens + Quantum + 1)

\* The loop ends: every quote is answered.
QuoteAnswered == <>(pc \in Outcomes)

=============================================================================
