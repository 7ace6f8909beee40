---------------------------- MODULE MCSamesPages ----------------------------
(* Instances of SamesPages for TLC. *)
EXTENDS SamesPages, TLC

CONSTANTS l1, l2, i1, i2

\* People chat about one launch only.
MCMaxMessages == l1 :> 1 @@ l2 :> 0

=============================================================================
