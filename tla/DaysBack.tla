------------------------------- MODULE DaysBack -------------------------------
(***************************************************************************)
(* What the last plugins of the cruncher have in common: a run goes back   *)
(* from today, day by day, to force_until or, when that is 0, until it     *)
(* finds a reason to end; statements may fail, and the process may be      *)
(* started again.                                                          *)
(* Source: src/cruncher/plugins/wealth/Wealth.cc, interpolator/            *)
(* Interpolator.cc, regression/Regression.cc.                              *)
(***************************************************************************)
EXTENDS Integers, Sequences, FiniteSets, SequencesExt

CONSTANTS
  FirstDay, LastDay,   \* bound: the days on which the process runs
  EmptyLimit,   \* empty days in a row that are passed over (15)
  Forced,       \* values of force_until besides 0: not forced
  MaxMishaps    \* bound: statements that fail, and times the process starts again

ASSUME DaysBackAssumption ==
  /\ FirstDay \in Nat \ {0} /\ LastDay \in Nat /\ FirstDay <= LastDay
  /\ Forced \subseteq Nat \ {0}
  /\ {EmptyLimit, MaxMishaps} \subseteq Nat

VARIABLES
  today,
  force,        \* force_until
  updated,      \* the plugin's counter of updates is not zero
  pc, day, empty_days,   \* the run
  mishaps

process == <<updated, pc, day, empty_days>>
daysBack == <<today, force, process, mishaps>>

NoRow == <<>>

Ahead(d) == force = 0 \/ force < d

DaysInit ==
  /\ today = FirstDay /\ force \in {0} \cup Forced
  /\ updated = TRUE /\ pc = "idle" /\ day = 0 /\ empty_days = 0
  /\ mishaps = 0

MidNight == today < LastDay /\ today' = today + 1 /\ UNCHANGED <<force, process, mishaps>>

(* A run begins at label, unless force_until is not before today.           *)
BeginAt(label) ==
  /\ pc = "idle" /\ updated
  /\ updated' = FALSE
  /\ pc' = label /\ day' = today /\ empty_days' = 0
  /\ UNCHANGED <<today, force, mishaps>>

Goto(label) == pc' = label /\ UNCHANGED <<today, force, updated, day, empty_days, mishaps>>

Return ==
  /\ pc' = "idle" /\ day' = 0 /\ empty_days' = 0
  /\ UNCHANGED <<today, force, updated, mishaps>>

(* The next turn of the loop, at label.                                     *)
DayBefore(label) ==
  /\ pc' = label /\ day' = day - 1
  /\ UNCHANGED <<today, force, updated, empty_days, mishaps>>

(* A statement fails or not; the plugin goes on to label either way.        *)
FailsAt(label) ==
  /\ mishaps < MaxMishaps /\ mishaps' = mishaps + 1 /\ pc' = label
  /\ UNCHANGED <<today, force, updated, day, empty_days>>

(* The list of codes could not be read, and is empty: nothing is done.      *)
CodesFail ==
  /\ pc = "idle" /\ updated
  /\ mishaps < MaxMishaps /\ mishaps' = mishaps + 1
  /\ updated' = FALSE
  /\ UNCHANGED <<today, force, pc, day, empty_days>>

(* The process ends wherever it is and starts again.                        *)
Restart ==
  /\ mishaps < MaxMishaps /\ mishaps' = mishaps + 1
  /\ updated' = TRUE /\ pc' = "idle" /\ day' = 0 /\ empty_days' = 0
  /\ UNCHANGED <<today, force>>

DaysTypeOK ==
  /\ today \in FirstDay..LastDay /\ force \in {0} \cup Forced
  /\ updated \in BOOLEAN /\ day <= today /\ empty_days \in Nat
  /\ mishaps \in 0..MaxMishaps
=============================================================================
