----------------------------- MODULE MCICMessages -----------------------------
(* Instances of ICMessages for TLC.                                         *)
EXTENDS ICMessages, TLC

CONSTANTS f1, s1, c1

OneFeeder == {f1}
OneScheduler == {s1}
OneManager == {c1}

(* What a control is asked to send: no event, an update of statistics,      *)
(* ICEVENT_EVENT2, the two controls; no subevent, the ping and the stop.    *)
SomeEvents == {0, 2, 4, 5, 6}
SomeSubs == {-1, 0, 2}
=============================================================================
