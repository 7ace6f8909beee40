---------------------------- MODULE MCCurveQuote ----------------------------
(* Instances of CurveQuote for TLC. *)
EXTENDS CurveQuote

MCBasePrices == 1 .. 4
MCSlopes == {0, 1, 2, 3, 4, 7, 10, 13}
MCPositions == {0, 1, 3, 5, 10, 13}
MCOffers == 1 .. 40

=============================================================================
