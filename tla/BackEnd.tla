-------------------------------- MODULE BackEnd --------------------------------
(***************************************************************************)
(* The last plugins of the cruncher: nothing reads in the process what     *)
(* they write, and each writes tables of its own, so each is looked at     *)
(* alone, over the tables that the statistics and the trends write; and so *)
(* is the output, a program of its own that reads the tables.              *)
(* Source: src/cruncher/plugins/wealth/Wealth.cc, interpolator/            *)
(* Interpolator.cc, regression/Regression.cc, src/cruncher/                *)
(* CruncherManager.cc (the plugins are loaded by name).                    *)
(***************************************************************************)
EXTENDS Wealth, Fitting, Output

VARIABLE loaded    \* the plugin, or the program

backEndVars == <<loaded, daysBack, wealthVars, fittingVars, outputVars>>

Init ==
  /\ loaded \in {"wealth", "interpolator", "regression", "output"}
  /\ DaysInit /\ WealthInit /\ FittingInit /\ OutputInit
  /\ loaded \in {"wealth", "output"} => statistics = {}   \* they see others
  /\ loaded = "output" => force = 0

(* loaded is one of plugins, and the tables of the others stay.             *)
Loaded(plugins) == loaded \in plugins /\ UNCHANGED loaded
LoadedWealth == Loaded({"wealth"}) /\ UNCHANGED <<fittingVars, outputVars>>
LoadedFitting(plugins) == Loaded(plugins) /\ UNCHANGED <<wealthVars, outputVars>>

(* The plugin's thread.                                                     *)
Run ==
  \/ LoadedWealth /\ WealthRun
  \/ LoadedFitting({"interpolator"}) /\ Interpolator
  \/ LoadedFitting({"regression"}) /\ Regression

World ==
  \/ LoadedWealth /\ WealthWorld
  \/ LoadedFitting({"interpolator", "regression"}) /\ FittingWorld

(* The output program.                                                      *)
Show == Loaded({"output"}) /\ Output /\ UNCHANGED <<daysBack, wealthVars, fittingVars>>

Next == Run \/ World \/ Show

(* The plugin's thread runs.                                                *)
Spec == Init /\ [][Next]_backEndVars /\ WF_backEndVars(Run)

-----------------------------------------------------------------------------
(* Properties.                                                              *)

(* Types; what is not loaded writes nothing.                                *)
TypeOK ==
  /\ DaysTypeOK /\ WealthTypeOK /\ FittingTypeOK /\ OutputTypeOK
  /\ loaded # "wealth" => \A t \in Tables : \A d \in Days : wealth[t][d] = NoRow
  /\ loaded = "wealth" => equations = {}

(* What either of the fittings leaves when it ran without a failure.        *)
Fitted ==
  /\ loaded = "interpolator" => RanThrough(Interpolable)
  /\ loaded = "regression" => RanThrough(Fittable)
=============================================================================
