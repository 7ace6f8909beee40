-------------------------- MODULE MCSamesPurchase ---------------------------
(* Instances of SamesPurchase for TLC. *)
EXTENDS SamesPurchase, TLC

CONSTANTS l1, l2, s1, s2

=============================================================================
