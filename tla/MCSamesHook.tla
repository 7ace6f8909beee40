---------------------------- MODULE MCSamesHook -----------------------------
(* Instances of SamesHook for TLC. *)
EXTENDS SamesHook, TLC

CONSTANTS w1, w2, m1, m2

\* Neither an action nor a property singles out a wallet or a market.
Symmetry == Permutations(Wallets) \cup Permutations(Markets)

=============================================================================
