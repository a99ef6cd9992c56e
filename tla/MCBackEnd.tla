------------------------------ MODULE MCBackEnd ------------------------------
(* The instance of BackEnd for TLC.                                         *)
EXTENDS BackEnd

(* The table of which all columns are compared; its rows differ in both, so *)
(* that an answer may be mixed of two.                                      *)
MCTables == {"sday"}
MCRows == {<<1, 1>>, <<2, 2>>}

MCForced == {2}

(* Series without data, of days, with two results of a day, and of times. *)
MCSeries ==
  {[days |-> <<>>, times |-> <<>>], [days |-> <<1, 2>>, times |-> <<>>],
   [days |-> <<1, 3>>, times |-> <<>>], [days |-> <<2>>, times |-> <<>>],
   [days |-> <<1, 1, 2>>, times |-> <<>>], [days |-> <<1, 1, 2>>, times |-> <<1, 2, 1>>],
   [days |-> <<2, 2>>, times |-> <<1, 2>>], [days |-> <<1, 3>>, times |-> <<2, 1>>]}
=============================================================================
