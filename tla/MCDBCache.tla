------------------------------ MODULE MCDBCache ------------------------------
(* The instance of DBCache for TLC.                                         *)
EXTENDS DBCache

CONSTANTS close, a, b, trends

OneColumn  == {close}
TwoValues  == {a, b}
OneReader  == {trends}
=============================================================================
