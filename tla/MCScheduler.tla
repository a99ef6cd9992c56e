----------------------------- MODULE MCScheduler -----------------------------
(* The instance of Scheduler for TLC.                                       *)
EXTENDS Scheduler

Daily(start, off) == [interval |-> 0, time_start |-> start, days_off |-> off]
Once(start) == [interval |-> -1, time_start |-> start, days_off |-> {}]
Every(interval, start, off) ==
  [interval |-> interval, time_start |-> start, days_off |-> off]

(* Two commands at the same time, one after an exhausted command, weekends  *)
(* masked, and one repeated within the day.                                 *)
Mixed == <<Daily(2, {0, 6}), Once(1), Every(3, 0, {0, 3}), Daily(2, {})>>
=============================================================================
