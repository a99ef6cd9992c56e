----------------------------- MODULE MCCrunchers -----------------------------
(* Instances of Crunchers for TLC: which plugins the configuration names,   *)
(* what their sources observe, accept and send, and what control may send.  *)
EXTENDS Crunchers, TLC

MCEvent == {"NEWFEED", "STATISTICS_UPDATED", "TRENDS_UPDATED"}

FrontEnd    == {"statistics", "trends"}
WithFitting == {"statistics", "trends", "interpolator"}

MCObserves ==
  [c \in Crunchers |-> CASE c = "statistics" -> "NEWFEED"
                         [] c = "trends"     -> "STATISTICS_UPDATED"
                         [] OTHER            -> "TRENDS_UPDATED"]
MCAccepts ==
  [c \in Crunchers |-> IF c = "interpolator" THEN "STATISTICS_UPDATED"
                                             ELSE Observes[c]]
MCEmits ==
  [c \in Crunchers |-> CASE c = "statistics" -> "STATISTICS_UPDATED"
                         [] c = "trends"     -> "TRENDS_UPDATED"
                         [] OTHER            -> None]

NoPlugin      == {}
NoControl     == {}
ControlAll    == MCEvent \cup {Stop}
=============================================================================
