-------------------------- MODULE SamesFairLaunch ---------------------------
(***************************************************************************)
(* The current program implements FairLaunch.  The refinement mapping is a *)
(* reading of its accounts: the end of the presale is not an instruction   *)
(* but the moment the clock passes end_time, and start_bonding_curve,      *)
(* buy_curve, sell_curve and graduate are the market's opening, trades and *)
(* end.  Price updates and registrations are stutters, and so is a         *)
(* finalisation of a buyer who has been finalised before.                  *)
(***************************************************************************)
EXTENDS SamesLaunch

Phase ==
  CASE pool.status = "Uncreated"                              -> "none"
    [] pool.status = "Presale" /\ ~ is_presale_over(clock)    -> "open"
    [] pool.status = "Presale" /\ is_presale_over(clock)      -> "closed"
    [] pool.status = "BondingCurve"                           -> "trading"
    [] pool.status \in {"Graduated", "Closed"}                -> "over"

Fair == INSTANCE FairLaunch WITH
  Buyers  <- Wallets,
  Amounts <- U64,
  phase   <- Phase,
  stock   <- pool.total_supply,
  pot     <- pool.total_sol_collected,
  deposit <- [w \in Wallets |-> record[w].sol_deposited],
  share   <- [w \in Wallets |-> record[w].tokens_allocated],
  bought  <- [w \in Wallets |-> record[w].curve_tokens_bought],
  sold    <- [w \in Wallets |-> record[w].tokens_sold]

\* The program keeps the promises of FairLaunch: over any interleaving of
\* instructions, no deposit follows the closing second, every buyer gets the
\* share of final deposits once however often finalize_launch runs, and the
\* records let nobody sell more than that share and the curve purchases.
ImplementsFairLaunch == Fair!Spec

=============================================================================
