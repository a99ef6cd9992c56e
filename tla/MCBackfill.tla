----------------------------- MODULE MCBackfill -----------------------------
(* The instance of Backfill for TLC.                                        *)
EXTENDS Backfill

FromSecondDay == {2}
=============================================================================
