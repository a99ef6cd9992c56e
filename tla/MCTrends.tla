------------------------------ MODULE MCTrends ------------------------------
(* The instance of Trends for TLC.                                          *)
EXTENDS Trends

ForcedFrom == {2, 3}
=============================================================================
