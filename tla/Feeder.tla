-------------------------------- MODULE Feeder --------------------------------
(***************************************************************************)
(* When the feeder feeds: Feeder::run computes from the wall clock how     *)
(* long to poll, from the days off, the hours of a day and the delay       *)
(* between feeds, and computes it again whenever the poll ends, for a      *)
(* message or a signal too.  A feed blocks the loop.                       *)
(* Source: src/feeder/Feeder.cc, src/feeder/FeederConfig.cc,               *)
(* src/feeder/ccltor_feeder.cc.                                            *)
(*                                                                         *)
(* Time goes round a week; hours and minutes are counted in minutes of     *)
(* MinuteLen ticks (seconds), which the code's start and stop have, and    *)
(* its delays not.                                                         *)
(***************************************************************************)
EXTENDS Integers

CONSTANTS
  Week,          \* days of a week (7)
  DayMinutes,    \* minutes of a day (24 * 60)
  MinuteLen,     \* seconds of a minute (60)
  DaysOff,       \* the days of the week without feeds
  TimeStart, TimeStop,  \* the minutes of a day that feeds start between
  Sdelay,        \* seconds between feeds
  MaxLate,       \* bound: seconds the process is late at a step
  MaxFeed        \* bound: seconds a feed takes

DayLen == DayMinutes * MinuteLen

ASSUME FeederAssumption ==
  /\ {Week, DayMinutes, MinuteLen} \subseteq Nat \ {0}
  /\ {TimeStart, TimeStop, Sdelay, MaxLate, MaxFeed} \subseteq Nat
  /\ DaysOff \subseteq 0..(Week - 1)

VARIABLES
  now,      \* seconds since the week began
  since,    \* seconds since last_feed, none kept past Sdelay
  at,       \* where the loop is: to read the clock, to poll, to feed, polling, ...
  left,     \* seconds of the poll's timeout left; of the feed passed
  late,     \* seconds the process lags behind
  overdue   \* seconds a feed has been due

vars == <<now, since, at, left, late, overdue>>

Wday == now \div DayLen
DaySec == now % DayLen
DayMin == DaySec \div MinuteLen

Most(S) == CHOOSE x \in S : \A y \in S : y <= x
Least(a, b) == IF a < b THEN a ELSE b

(* last_feed is 0, long ago.                                                *)
Init ==
  /\ now \in 0..(Week * DayLen - 1) /\ since = Sdelay
  /\ at = "clock" /\ left = 0 /\ late = 0 /\ overdue = 0

DayIsOver == Wday \in DaysOff \/ TimeStop < DayMin

(* Faulty variant: the rest of the day is counted from a day's start.       *)
WaitTimeDay ==
  IF DayIsOver THEN DayLen
  ELSE IF TimeStart > DayMin THEN (TimeStart - DayMin) * MinuteLen
  ELSE Sdelay - since

(* Faulty variant: after the hours, the wait is for the next day's start.   *)
WaitTimeToStart ==
  IF DayIsOver THEN (DayLen - DaySec) + TimeStart * MinuteLen
  ELSE IF TimeStart > DayMin THEN (TimeStart - DayMin) * MinuteLen
  ELSE Sdelay - since

(* wait_time when no feed is due: to midnight, to the start, to the delay's *)
(* end.  0 when a feed is.                                                  *)
WaitTime ==
  IF DayIsOver THEN DayLen - DaySec
  ELSE IF TimeStart > DayMin THEN (TimeStart - DayMin) * MinuteLen
  ELSE Sdelay - since

(* The loop reads the clock, and goes on to poll or to feed.                *)
ReadClock ==
  /\ at = "clock"
  /\ at' = IF WaitTime <= 0 THEN "due" ELSE "wait"
  /\ left' = WaitTime /\ late' = 0
  /\ UNCHANGED <<now, since, overdue>>

Poll ==
  /\ at = "wait" /\ at' = "poll" /\ late' = 0
  /\ UNCHANGED <<now, since, left, overdue>>

StartFeed ==
  /\ at = "due"
  /\ at' = "feed" /\ left' = 0 /\ since' = 0 /\ overdue' = 0 /\ late' = 0
  /\ UNCHANGED now

(* Faulty variant: a message is handled, and the poll goes on, with the     *)
(* whole delay.                                                             *)
EndPollAgain ==
  /\ at = "poll" /\ late' = 0
  /\ \/ left = 0 /\ at' = "clock" /\ UNCHANGED left
     \/ left > 0 /\ at' = at /\ left' = Sdelay
  /\ UNCHANGED <<now, since, overdue>>

(* The timeout, a message (a ping, a log level, a registration) or SIGCHLD. *)
EndPoll ==
  /\ at = "poll"
  /\ at' = "clock" /\ left' = 0 /\ late' = 0
  /\ UNCHANGED <<now, since, overdue>>

(* The stop message.                                                        *)
Stop ==
  /\ at = "poll" /\ at' = "ended" /\ left' = 0 /\ late' = 0
  /\ UNCHANGED <<now, since, overdue>>

(* feed returns, observers are notified, main calls run again.              *)
EndFeed ==
  /\ at = "feed" /\ at' = "clock" /\ left' = 0 /\ late' = 0
  /\ UNCHANGED <<now, since, overdue>>

(* A feed is due: the delay is over at an hour of a day that has feeds.     *)
Due == ~DayIsOver /\ TimeStart <= DayMin /\ since >= Sdelay

(* A second passes.                                                         *)
Tick ==
  /\ now' = (now + 1) % (Week * DayLen)
  /\ since' = Least(since + 1, Sdelay)
  /\ CASE at = "poll" /\ left > 0 -> left' = left - 1 /\ late' = late
       [] at = "feed" -> left < MaxFeed /\ left' = left + 1 /\ late' = late
       [] at = "ended" -> left' = left /\ late' = late
       [] OTHER -> late < MaxLate /\ late' = late + 1 /\ left' = left
  /\ overdue' = IF Due' /\ Due /\ at \notin {"feed", "ended"} THEN overdue + 1 ELSE 0
  /\ UNCHANGED at

Next == ReadClock \/ Poll \/ StartFeed \/ EndPoll \/ Stop \/ EndFeed \/ Tick

Spec == Init /\ [][Next]_vars

(* The process runs, time passes, and feeds end: wget gives up by itself.   *)
Fairness == WF_vars(ReadClock) /\ WF_vars(Poll) /\ WF_vars(StartFeed) /\ WF_vars(EndFeed) /\ WF_vars(Tick)
            /\ WF_vars(EndPoll /\ left = 0)

FairSpec == Spec /\ Fairness

-----------------------------------------------------------------------------
(* Properties.                                                              *)

TypeOK ==
  /\ now \in 0..(Week * DayLen - 1) /\ since \in 0..Sdelay
  /\ at \in {"clock", "wait", "due", "poll", "feed", "ended"}
  /\ left \in 0..Most({DayLen, TimeStart * MinuteLen, Sdelay, MaxFeed}) /\ late \in 0..MaxLate
  /\ overdue \in Nat

(* No feed that is due is slept over: a poll started before the hours, on a *)
(* day off or within the delay ends at the feed's time, but for the seconds *)
(* of the minute a wait for time_start begins in, and the lags of four steps*)
OnSchedule == overdue <= MinuteLen - 1 + 4 * MaxLate

(* The feeder never stops feeding by itself, over nights and days off.      *)
FeedsForever == []<>(at \in {"feed", "ended"})
=============================================================================
