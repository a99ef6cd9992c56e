---------------------------- MODULE MCNotification ----------------------------
(* The instance of Notification for TLC.                                    *)
EXTENDS Notification

CONSTANT m1

One == {m1}
=============================================================================
