--------------------------- MODULE MCSamesLaunch ----------------------------
(* Instances of SamesLaunch, with its refinement, for TLC. *)
EXTENDS SamesFairLaunch, TLC

CONSTANTS w1, w2, w3, m1, m2

\* Wallets are interchangeable: no action or property singles one out, and
\* the runs that use the symmetry check no liveness.
Symmetry == Permutations(Wallets)

=============================================================================
