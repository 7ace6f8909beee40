--------------------------- MODULE MCLegacyLaunch ---------------------------
(* Instances of LegacyLaunch for TLC. *)
EXTENDS LegacyLaunch, TLC

CONSTANTS w1, w2, w3

\* No action or property singles a wallet out.
Symmetry == Permutations(Wallets)

=============================================================================
