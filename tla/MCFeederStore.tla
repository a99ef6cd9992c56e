---------------------------- MODULE MCFeederStore ----------------------------
(* Instances of FeederStore for TLC.                                        *)
EXTENDS FeederStore

CONSTANTS c1, p1, p2

OneCode == {c1}
TwoPrices == {p1, p2}
TwoTimes == {1, 2}
=============================================================================
