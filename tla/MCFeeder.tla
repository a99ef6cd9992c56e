------------------------------- MODULE MCFeeder -------------------------------
(* Instances of Feeder for TLC: a week of a working day, a day off and two  *)
(* working days, of eight minutes of three seconds.                         *)
EXTENDS Feeder

SecondDay == {1}
=============================================================================
