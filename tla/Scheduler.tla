------------------------------ MODULE Scheduler ------------------------------
(***************************************************************************)
(* The scheduler process: it sleeps until the next command is due, forks   *)
(* it, and works out which command comes next.                             *)
(* Source: src/scheduler/Scheduler.cc, SchedulerConfig.cc.                 *)
(*                                                                         *)
(* A day has DayLen ticks instead of 86400 seconds, and all days are       *)
(* equally long (no change to summer time).  The clock may be set back     *)
(* (Adjust); the poll's timeout, counted in rest, does not follow it.      *)
(***************************************************************************)
EXTENDS Integers, Sequences, FiniteSetsExt

CONSTANTS
  Cmds,       \* the configured commands, in order
  DayLen,     \* ticks of a day
  Horizon,    \* bound: the last tick
  MaxLate,    \* bound: ticks the process is late, in all
  MaxWait,    \* the longest wait whose milliseconds fit an int (2147483 s)
  MaxAdjust   \* bound: ticks the clock is set back, in all

Cmd == 1..Len(Cmds)
None == 0     \* the code's next == -1

(* A command starts at time_start on the days of the week not in days_off;  *)
(* interval is 0 (daily), negative (once) or positive (repeated).  Poll can *)
(* wait for eight days (691200 s), which are the most to an unmasked one.   *)
ASSUME SchedulerAssumption ==
  /\ DayLen \in Nat \ {0} /\ {Horizon, MaxLate, MaxWait, MaxAdjust} \subseteq Nat
  /\ 2 * DayLen <= Horizon /\ 8 * DayLen <= MaxWait
  /\ Cmds \in Seq([interval : Int, time_start : 0..(DayLen - 1), days_off : SUBSET (0..6)])

VARIABLES
  wday0,      \* the weekday of day 0
  now, adjusted,
  pc, late,   \* the process, and the ticks it has been late
  rest,       \* ticks until the poll times out; Forever without a timeout
  tt,         \* the time read at the top of run's loop
  next, next_time, delay, last_stamps,
  pass,       \* commands executed since tt was read
  runs,       \* per command: how often it was executed
  ran,        \* per command: the days on which it was executed
  up          \* when the process started

plan == <<next, next_time, delay, last_stamps>>
history == <<pass, runs, ran, up>>
vars == <<wday0, now, adjusted, pc, late, rest, tt, plan, history>>

Forever == -1
Never == 0                          \* a last_stamp of a command never run

Day(t) == t \div DayLen
Wday(t) == (wday0 + Day(t)) % 7     \* tm_wday of localtime_r
Day0(t) == Day(t) * DayLen

-----------------------------------------------------------------------------
(* update(t0): when each command is due, and which comes first.             *)

(* The for loop that walks over masked days: at most to the seventh.        *)
Masked(i, t, j) == (Wday(t) + j) % 7 \in Cmds[i].days_off
(* Faulty variant: the walk does not start at tomorrow when t is tomorrow.  *)
SkippedFromToday(i, t0, j) == Min({k \in 0..7 : k = 7 \/ ~Masked(i, t0, k)})

Skipped(i, t0, j) == Min({k \in 0..(7 - j) : j + k = 7 \/ ~Masked(i, t0, j + k)})

(* Faulty variant: a command that ran is due again the same day.            *)
StartTimeAgain(i, t0, last) ==
  LET t == Day0(t0) + Cmds[i].time_start
      j == IF t < t0 THEN 1 ELSE 0
  IN  t + (j + Skipped(i, t0, j)) * DayLen

(* Faulty variant: a command that ran one day ago is not due today.         *)
StartTimeLater(i, t0, last) ==
  LET t == Day0(t0) + Cmds[i].time_start
      j == IF t < t0 \/ t - last <= DayLen THEN 1 ELSE 0
  IN  t + (j + Skipped(i, t0, j)) * DayLen

(* A command that never ran, or runs daily: today or tomorrow at its time,  *)
(* or the first day after that is not masked.                               *)
StartTime(i, t0, last) ==
  LET t == Day0(t0) + Cmds[i].time_start
      j == IF t < t0 \/ t - last < DayLen THEN 1 ELSE 0
  IN  t + (j + Skipped(i, t0, j)) * DayLen

(* A repeated command that ran: an interval later, the mask looked at as if *)
(* that were today or tomorrow.                                             *)
RepeatTime(i, t0, last) ==
  LET t == last + Cmds[i].interval
      j == IF t >= Day0(t0) + DayLen THEN 1 ELSE 0
  IN  t + Skipped(i, t0, j) * DayLen

Exhausted(i, last) == last[i] # Never /\ Cmds[i].interval < 0

DueTime(i, t0, last) ==
  IF last[i] = Never \/ Cmds[i].interval = 0
    THEN StartTime(i, t0, last[i]) ELSE RepeatTime(i, t0, last[i])

(* The body's if: c is the choice so far.                                   *)
Earlier(c, i, t) ==
  IF (c.next = None /\ t # 0) \/ (c.next # None /\ t < c.time)
    THEN [next |-> i, time |-> t, t |-> t] ELSE [c EXCEPT !.t = t]

(* The for loop over the commands.  t is not reset between its turns: the   *)
(* turn of an exhausted command compares the t of the command before it.    *)
Choice(t0, last) ==
  LET first[i \in 0..Len(Cmds)] ==
        IF i = 0 THEN [next |-> None, time |-> next_time, t |-> 0]
        ELSE Earlier(first[i-1], i,
               IF Exhausted(i, last) THEN first[i-1].t ELSE DueTime(i, t0, last))
  IN  first[Len(Cmds)]

Update(t0, last) ==
  /\ next' = Choice(t0, last).next
  /\ next_time' = Choice(t0, last).time
  /\ delay' = Choice(t0, last).time - t0

-----------------------------------------------------------------------------
Init ==
  /\ wday0 \in 0..6
  /\ now \in DayLen..(2 * DayLen - 1) /\ up = now
  /\ adjusted = 0 /\ late = 0 /\ rest = 0 /\ tt = 0
  /\ pc = "start"
  /\ next = None /\ next_time = 0 /\ delay = 0
  /\ last_stamps = [i \in Cmd |-> Never]
  /\ pass = {} /\ runs = [i \in Cmd |-> 0] /\ ran = [i \in Cmd |-> {}]

Start ==
  /\ pc = "start"
  /\ Update(now, last_stamps)
  /\ pc' = "top"
  /\ UNCHANGED <<wday0, now, adjusted, late, rest, tt, last_stamps, history>>

ReadClock ==
  /\ pc = "top"
  /\ tt' = now /\ pass' = {}
  /\ pc' = "while"
  /\ UNCHANGED <<wday0, now, adjusted, late, rest, plan, runs, ran, up>>

WaitTime == next_time - tt
Waits == WaitTime > 0 /\ WaitTime <= delay

(* exec() and what follows it; last_stamps is set whether or not fork and   *)
(* execvp succeed.                                                          *)
Exec ==
  /\ pc = "while" /\ next # None /\ ~Waits
  /\ last_stamps' = [last_stamps EXCEPT ![next] = tt]
  /\ Update(tt, last_stamps')
  /\ pass' = pass \cup {next}
  /\ runs' = [runs EXCEPT ![next] = @ + 1]
  /\ ran' = [ran EXCEPT ![next] = @ \cup {Day(now)}]
  /\ UNCHANGED <<wday0, now, adjusted, pc, late, rest, tt, up>>

(* poll's argument, wait_time * 1000, is an int: beyond MaxWait it overflows *)
(* (undefined), and a negative result has no timeout.                       *)
Timeouts ==
  IF next = None THEN {Forever}
  ELSE IF WaitTime <= MaxWait THEN {WaitTime} ELSE {Forever} \cup 0..MaxWait

(* Faulty variant: a wait longer than the delay is slept.                   *)
SleepAnyTime ==
  /\ pc = "while" /\ (next # None => WaitTime > 0)
  /\ rest' \in Timeouts
  /\ pc' = "poll"
  /\ UNCHANGED <<wday0, now, adjusted, late, tt, plan, history>>

(* Faulty variant: the wait is counted from the last update.                *)
SleepDelay ==
  /\ pc = "while" /\ (next # None => Waits)
  /\ rest' = (IF next = None THEN Forever ELSE delay)
  /\ pc' = "poll"
  /\ UNCHANGED <<wday0, now, adjusted, late, tt, plan, history>>

Sleep ==
  /\ pc = "while" /\ (next # None => Waits)
  /\ rest' \in Timeouts
  /\ pc' = "poll"
  /\ UNCHANGED <<wday0, now, adjusted, late, tt, plan, history>>

(* The poll times out, or ends early: a child's SIGCHLD, or a message that  *)
(* handle_msg answers or logs.                                              *)
Wake ==
  /\ pc = "poll"
  /\ pc' = "top"
  /\ UNCHANGED <<wday0, now, adjusted, late, rest, tt, plan, history>>

(* handle_msg, ICEVENT2_CONTROL_RUNNING_STOP: exit(0).                      *)
Stop ==
  /\ pc = "poll"
  /\ pc' = "exited"
  /\ UNCHANGED <<wday0, now, adjusted, late, rest, tt, plan, history>>

(* Time passes while the process sleeps, and for MaxLate ticks, in all,     *)
(* when it should go on.                                                    *)
Tick ==
  /\ now < Horizon /\ pc \notin {"start", "exited"}
  /\ now' = now + 1
  /\ IF pc = "poll" /\ rest # 0
       THEN /\ rest' = IF rest = Forever THEN Forever ELSE rest - 1
            /\ UNCHANGED late
       ELSE late < MaxLate /\ late' = late + 1 /\ UNCHANGED rest
  /\ UNCHANGED <<wday0, adjusted, pc, tt, plan, history>>

(* The clock is set back.                                                   *)
Adjust ==
  /\ adjusted < MaxAdjust /\ now > DayLen /\ pc \notin {"start", "exited"}
  /\ now' = now - 1 /\ adjusted' = adjusted + 1
  /\ UNCHANGED <<wday0, pc, late, rest, tt, plan, history>>

Next == Start \/ ReadClock \/ Exec \/ Sleep \/ Wake \/ Stop \/ Tick \/ Adjust

Spec == Init /\ [][Next]_vars

-----------------------------------------------------------------------------
(* Properties.                                                              *)

TypeOK ==
  /\ wday0 \in 0..6 /\ now \in DayLen..Horizon /\ up \in 0..Horizon
  /\ adjusted \in 0..MaxAdjust /\ late \in 0..MaxLate
  /\ pc \in {"start", "top", "while", "poll", "exited"}
  /\ rest \in Int /\ tt \in 0..Horizon
  /\ pc = "poll" /\ next # None => rest \in {Forever} \cup 0..delay
  /\ next \in Cmd \cup {None} /\ next_time \in Nat /\ delay \in Int
  /\ last_stamps \in [Cmd -> 0..Horizon]
  /\ pass \subseteq Cmd /\ runs \in [Cmd -> Nat]
  /\ ran \in [Cmd -> SUBSET (0..Day(Horizon))]

(* run's inner while ends: no command is executed twice for one reading of  *)
(* the clock, however late the process wakes or far the clock is set back.  *)
NotTwiceInAPass ==
  [][\A i \in Cmd : runs'[i] > runs[i] => i \notin pass]_vars

(* So far the process was never late, nor was its clock set back.           *)
Punctual == late = 0 /\ adjusted = 0

(* "If the interval is 0, the command is run every day that is not masked   *)
(* at its starting time." (doc/DevelopmentTrack.txt:163): on every unmasked *)
(* day the process was up all day.  Not so when it is late: a time that has *)
(* passed is the next day's (Scheduler.cc:28).                              *)
DailyRuns ==
  Punctual /\ pc # "exited" =>
    \A i \in Cmd, d \in 0..Day(Horizon) :
      /\ Cmds[i].interval = 0 /\ (wday0 + d) % 7 \notin Cmds[i].days_off
      /\ up <= d * DayLen /\ (d + 1) * DayLen <= now
      => d \in ran[i]

(* The process never sleeps past the time of the next command, though it is *)
(* woken early by children and messages ("If interval is positive, the      *)
(* starting time is used to start the secuence", doc/DevelopmentTrack.txt:  *)
(* 166: a sequence that is started goes on), if poll can wait that long.    *)
DueIsExecuted ==
  Punctual /\ pc = "poll" /\ next # None /\ delay <= MaxWait => now <= next_time

(* The mask is kept but for three kinds of command.  The walk over masked   *)
(* days ends at the seventh (Scheduler.cc:29), so one that has all masked   *)
(* runs every week.  After more than a day, a repeated command's mask is    *)
(* tested for tomorrow (37).  And when two days running are masked and      *)
(* another command is executed on the second, the mask is tested from there,*)
(* and the days are added to a time of the first: the second, again (38).   *)
MaskIsKept(i) ==
  /\ Cmds[i].days_off # 0..6
  /\ Cmds[i].interval > 0 =>
       /\ Cmds[i].interval <= DayLen
       /\ \A d \in Cmds[i].days_off : (d + 1) % 7 \notin Cmds[i].days_off

(* "Mask days are skipped" (doc/DevelopmentTrack.txt:167): no command but   *)
(* those is executed on a masked day.                                       *)
MaskDaysAreSkipped ==
  Punctual => \A i \in Cmd : MaskIsKept(i) =>
                \A d \in ran[i] : (wday0 + d) % 7 \notin Cmds[i].days_off
=============================================================================
