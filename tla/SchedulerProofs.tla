--------------------------- MODULE SchedulerProofs ---------------------------
(***************************************************************************)
(* The scheduler for any configured commands, any length of a day, and     *)
(* whatever the process is late or its clock set back: update chooses the  *)
(* earliest command, no pass of the loop executes one twice, and a process *)
(* that is punctual oversleeps none, runs the daily ones every day and     *)
(* keeps the masks.                                                        *)
(***************************************************************************)
EXTENDS Scheduler, FiniteSetTheorems, WellFoundedInduction, TLAPS

-----------------------------------------------------------------------------
(* Smallest numbers, and the induction they give.                           *)

(* A set of natural numbers that is not empty has a smallest one: their     *)
(* intervals are ordered by inclusion, which is well founded.               *)
LEMMA Smallest ==
  ASSUME NEW S, S \subseteq Nat, S # {}
  PROVE \E m \in S : \A k \in S : m <= k
<1> DEFINE R == StrictSubsetOrdering(Nat)
           T == {0..k : k \in S}
<1>1. T \subseteq FiniteSubsetsOf(Nat)
  <2>1. \A k \in S : IsFiniteSet(0..k) /\ 0..k \in SUBSET Nat  BY FS_Interval
  <2> QED  BY <2>1 DEF FiniteSubsetsOf
<1>2. T # {}  OBVIOUS
<1> HIDE DEF T
<1>3. PICK t \in T : \A u \in T : ~ (<<u, t>> \in R)
  BY <1>1, <1>2, FS_StrictSubsetOrderingWellFounded, WFMin
<1>4. PICK m \in S : t = 0..m  BY DEF T
<1>5. ASSUME NEW k \in S, k < m PROVE FALSE
  <2>1. 0..k \in T /\ 0..k \subseteq 0..m /\ 0..k # 0..m  BY <1>5 DEF T
  <2>2. <<0..k, t>> \in R  BY <2>1, <1>4 DEF StrictSubsetOrdering
  <2> QED  BY <2>1, <2>2, <1>3
<1> QED  BY <1>5

(* What a set has of 0 and of the successors of its elements.               *)
LEMMA UpTo ==
  ASSUME NEW n \in Nat, NEW P, 0 \in P,
         \A i \in 0..(n - 1) : i \in P => i + 1 \in P
  PROVE 0..n \subseteq P
<1> DEFINE S == {i \in 0..n : i \notin P}
<1> SUFFICES ASSUME S # {} PROVE FALSE  OBVIOUS
<1>0. S \subseteq Nat  OBVIOUS
<1>1. PICK m \in S : \A k \in S : m <= k  BY <1>0, Smallest
<1>2. m # 0 /\ m \in 0..n  OBVIOUS
<1>3. m - 1 \in 0..(n - 1) /\ m - 1 \notin S  BY <1>1, <1>2
<1>4. m - 1 \in P  BY <1>3
<1>5. (m - 1) + 1 \in P  BY <1>3, <1>4
<1> QED  BY <1>2, <1>5

(* The smallest of a set is in it.                                         *)
LEMMA MinIs ==
  ASSUME NEW S, S \subseteq Nat, S # {}
  PROVE Min(S) \in S /\ \A k \in S : Min(S) <= k
BY Smallest DEF Min

-----------------------------------------------------------------------------
(* Days and weekdays.                                                       *)

(* What is assumed of the lengths, and of each command.                     *)
LEMMA Bounds ==
  /\ DayLen \in Nat \ {0} /\ Horizon \in Nat /\ MaxLate \in Nat /\ MaxWait \in Nat
  /\ MaxAdjust \in Nat /\ 2 * DayLen <= Horizon /\ 8 * DayLen <= MaxWait
BY SchedulerAssumption

LEMMA CmdsAre ==
  /\ Len(Cmds) \in Nat /\ Cmd = 1..Len(Cmds) /\ None \notin Cmd
  /\ \A i \in Cmd : /\ Cmds[i].interval \in Int /\ Cmds[i].time_start \in 0..(DayLen - 1)
                    /\ Cmds[i].days_off \subseteq 0..6
<1>1. Cmds \in Seq([interval : Int, time_start : 0..(DayLen - 1), days_off : SUBSET (0..6)])
  BY SchedulerAssumption
<1>2. Len(Cmds) \in Nat /\ Cmd = 1..Len(Cmds) /\ None \notin Cmd  BY <1>1 DEF Cmd, None
<1>3. \A i \in Cmd :
        Cmds[i] \in [interval : Int, time_start : 0..(DayLen - 1), days_off : SUBSET (0..6)]
  <2> DEFINE R == [interval : Int, time_start : 0..(DayLen - 1), days_off : SUBSET (0..6)]
  <2>1. Cmds \in Seq(R)  BY <1>1
  <2> HIDE DEF R
  <2>2. \A i \in 1..Len(Cmds) : Cmds[i] \in R  BY <2>1
  <2> QED  BY <1>2, <2>2 DEF R
<1> QED  BY <1>2, <1>3

USE Bounds

(* A time is in its day; the multiples of a day are ordered as their        *)
(* numbers; the day a time is in is the only one; and days go on with time. *)
LEMMA DayIs ==
  ASSUME NEW t \in Nat
  PROVE Day(t) \in Nat /\ Day(t) * DayLen <= t /\ t < Day(t) * DayLen + DayLen
        /\ Day0(t) = Day(t) * DayLen /\ Day0(t) \in Nat
<1>1. Day(t) \in Int /\ Day(t) * DayLen <= t /\ t < Day(t) * DayLen + DayLen
  BY SMTT(30) DEF Day
<1>2. Day(t) >= 0  BY <1>1, SMTT(30)
<1> QED  BY <1>1, <1>2, SMTT(30) DEF Day0

LEMMA Monotone == \A a, b \in Int : a <= b => a * DayLen <= b * DayLen
<1> SUFFICES ASSUME NEW a \in Int, NEW b \in Int, a <= b PROVE a * DayLen <= b * DayLen
  OBVIOUS
<1>1. (b - a) * DayLen >= 0  BY SMTT(30)
<1>2. (b - a) * DayLen = b * DayLen - a * DayLen  BY SMTT(30)
<1> QED  BY <1>1, <1>2

LEMMA DayOf ==
  ASSUME NEW t \in Nat, NEW d \in Int, d * DayLen <= t, t < d * DayLen + DayLen
  PROVE Day(t) = d
<1>1. Day(t) \in Nat /\ Day(t) * DayLen <= t /\ t < Day(t) * DayLen + DayLen  BY DayIs
<1>2. CASE Day(t) < d
  <2>1. (Day(t) + 1) * DayLen <= d * DayLen
    BY <1>1, <1>2, Monotone
  <2> QED  BY <1>1, <2>1, SMTT(30)
<1>3. CASE d < Day(t)
  <2>1. (d + 1) * DayLen <= Day(t) * DayLen
    BY <1>1, <1>3, Monotone
  <2> QED  BY <1>1, <2>1, SMTT(30)
<1> QED  BY <1>1, <1>2, <1>3

LEMMA DayGrows ==
  ASSUME NEW s \in Nat, NEW t \in Nat, s <= t PROVE Day(s) <= Day(t)
<1>1. /\ Day(t) \in Nat /\ Day(t) * DayLen <= t /\ t < Day(t) * DayLen + DayLen
      /\ Day(s) \in Nat /\ Day(s) * DayLen <= s /\ s < Day(s) * DayLen + DayLen
  BY DayIs
<1>2. CASE Day(t) < Day(s)
  <2>1. (Day(t) + 1) * DayLen <= Day(s) * DayLen
    BY <1>1, <1>2, Monotone
  <2> QED  BY <1>1, <2>1, SMTT(30)
<1> QED  BY <1>1, <1>2

(* The weekday of a day is a weekday that command i has off.                *)
OffDay(i, d) == (wday0 + d) % 7 \in Cmds[i].days_off

(* The walk's test is about the day it has come to.                         *)
LEMMA MaskedIs ==
  ASSUME wday0 \in 0..6, NEW i, NEW t \in Nat, NEW j \in Nat
  PROVE Masked(i, t, j) <=> OffDay(i, Day(t) + j)
<1>1. Day(t) \in Nat  BY DayIs
<1>2. (((wday0 + Day(t)) % 7) + j) % 7 = (wday0 + (Day(t) + j)) % 7
  BY <1>1, SMTT(30)
<1> QED  BY <1>2 DEF Masked, OffDay, Wday

(* A week of masked days has them all masked.                               *)
LEMMA WeekOff ==
  ASSUME wday0 \in 0..6, NEW i \in Cmd, NEW d \in Nat, \A m \in 0..6 : OffDay(i, d + m)
  PROVE Cmds[i].days_off = 0..6
<1> SUFFICES ASSUME NEW r \in 0..6 PROVE r \in Cmds[i].days_off  BY CmdsAre
<1>1. \E m \in 0..6 : (wday0 + (d + m)) % 7 = r
  <2> DEFINE a == (wday0 + d) % 7
             m == IF a <= r THEN r - a ELSE r - a + 7
  <2>1. a \in 0..6  BY SMTT(30)
  <2> HIDE DEF a
  <2>2. m \in 0..6 /\ (a + m) % 7 = r  BY <2>1
  <2>3. (wday0 + (d + m)) % 7 = (a + m) % 7  BY <2>2, SMTT(30) DEF a
  <2> QED  BY <2>2, <2>3
<1> QED  BY <1>1 DEF OffDay

(* The walk over masked days passes masked days only, seven at most, and    *)
(* ends at one that is not masked if there is any.                          *)
LEMMA SkippedIs ==
  ASSUME wday0 \in 0..6, NEW i \in Cmd, NEW t \in Nat, NEW j \in 0..1
  PROVE LET k == Skipped(i, t, j)
        IN  /\ k \in 0..(7 - j)
            /\ \A m \in 0..(k - 1) : OffDay(i, Day(t) + j + m)
            /\ Cmds[i].days_off # 0..6 => ~OffDay(i, Day(t) + j + k)
            /\ k > 0 => OffDay(i, Day(t) + j)
<1> DEFINE S == {k \in 0..(7 - j) : j + k = 7 \/ ~Masked(i, t, j + k)}
<1> DEFINE k == Min(S)
<1>0. k = Skipped(i, t, j)  BY DEF Skipped
<1>1. S \subseteq Nat /\ S # {}
  <2>1. 7 - j \in 0..(7 - j) /\ j + (7 - j) = 7  OBVIOUS
  <2>2. 7 - j \in S  BY <2>1
  <2>3. S \subseteq 0..(7 - j)  OBVIOUS
  <2> HIDE DEF S
  <2> QED  BY <2>2, <2>3
<1> HIDE DEF S
<1>2. k \in S /\ \A m \in S : k <= m  BY <1>1, MinIs
<1> HIDE DEF k
<1>3. k \in 0..(7 - j) /\ (j + k = 7 \/ ~Masked(i, t, j + k))  BY <1>2 DEF S
<1>4. Day(t) \in Nat  BY DayIs
<1>5. ASSUME NEW m \in 0..(k - 1) PROVE OffDay(i, Day(t) + j + m)
  <2>1. m \in 0..(7 - j) /\ m \notin S  BY <1>2, <1>3
  <2>2. Masked(i, t, j + m)  BY <2>1 DEF S
  <2> QED  BY <2>1, <2>2, <1>4, MaskedIs
<1>6. ASSUME Cmds[i].days_off # 0..6, OffDay(i, Day(t) + j + k) PROVE FALSE
  <2>1. j + k = 7
    <3>1. Masked(i, t, j + k) <=> OffDay(i, Day(t) + (j + k))  BY <1>3, MaskedIs
    <3>2. Day(t) + (j + k) = Day(t) + j + k  BY <1>3, <1>4
    <3> QED  BY <1>3, <1>6, <3>1, <3>2
  <2>2. \A m \in 0..6 : OffDay(i, (Day(t) + j) + m)
    <3> SUFFICES ASSUME NEW m \in 0..6 PROVE OffDay(i, Day(t) + j + m)  OBVIOUS
    <3>1. CASE m <= k - 1  BY <1>3, <1>5, <3>1
    <3>2. CASE m > k - 1
      <4>1. m = k /\ j = 1  BY <1>3, <2>1, <3>2
      <4> QED  BY <1>6, <4>1
    <3> QED  BY <1>3, <3>1, <3>2
  <2> QED  BY <1>4, <1>6, <2>2, WeekOff
<1>7. k > 0 => OffDay(i, Day(t) + j)
  <2> SUFFICES ASSUME k > 0 PROVE OffDay(i, Day(t) + j)  OBVIOUS
  <2>1. OffDay(i, Day(t) + j + 0)  BY <1>3, <1>5
  <2> QED  BY <1>4, <2>1
<1> QED  BY <1>0, <1>3, <1>5, <1>6, <1>7

-----------------------------------------------------------------------------
(* When a command is due.                                                   *)

(* The time of command i on day d.                                          *)
TimeOn(i, d) == d * DayLen + Cmds[i].time_start

(* It is a time of that day.                                                *)
LEMMA TimeOnIs ==
  ASSUME NEW i \in Cmd, NEW d \in Nat
  PROVE /\ TimeOn(i, d) \in Nat /\ Day(TimeOn(i, d)) = d
        /\ d * DayLen <= TimeOn(i, d) /\ TimeOn(i, d) < d * DayLen + DayLen
        /\ \A e \in Int : TimeOn(i, e) = e * DayLen + Cmds[i].time_start
<1>1. Cmds[i].time_start \in 0..(DayLen - 1)  BY CmdsAre
<1>2. d * DayLen \in Nat  BY SMTT(30)
<1>3. /\ TimeOn(i, d) \in Nat
      /\ d * DayLen <= TimeOn(i, d) /\ TimeOn(i, d) < d * DayLen + DayLen
  BY <1>1, <1>2 DEF TimeOn
<1> QED  BY <1>3, DayOf DEF TimeOn

(* A start is today's or a later day's, the next that is not masked, but    *)
(* today's when the command ran less than a day before it.                  *)
LEMMA StartTimeIs ==
  ASSUME wday0 \in 0..6, NEW i \in Cmd, NEW t0 \in Nat, NEW last \in Int
  PROVE \E d \in Nat :
          /\ StartTime(i, t0, last) = TimeOn(i, d)
          /\ Cmds[i].days_off # 0..6 => ~OffDay(i, d)
          /\ t0 <= TimeOn(i, d) /\ TimeOn(i, d) <= t0 + 8 * DayLen
          /\ TimeOn(i, Day(t0)) - last < DayLen => t0 < TimeOn(i, d)
          /\ \A e \in Nat : e < d /\ ~OffDay(i, e) /\ t0 <= TimeOn(i, e)
                              => e = Day(t0) /\ TimeOn(i, e) - last < DayLen
<1> DEFINE D0 == Day(t0)
           t == Day0(t0) + Cmds[i].time_start
           j == IF t < t0 \/ t - last < DayLen THEN 1 ELSE 0
           k == Skipped(i, t0, j)
           d == D0 + j + k
<1>1. /\ D0 \in Nat /\ D0 * DayLen <= t0 /\ t0 < D0 * DayLen + DayLen
      /\ Day0(t0) = D0 * DayLen
  BY DayIs
<1>2. Cmds[i].time_start \in 0..(DayLen - 1) /\ t = TimeOn(i, D0) /\ t \in Nat
  <2>1. t = TimeOn(i, D0)  BY <1>1 DEF TimeOn
  <2> QED  BY <1>1, <2>1, CmdsAre, TimeOnIs
<1>3. j \in 0..1  OBVIOUS
<1>4. /\ k \in 0..(7 - j)
      /\ \A m \in 0..(k - 1) : OffDay(i, D0 + j + m)
      /\ Cmds[i].days_off # 0..6 => ~OffDay(i, D0 + j + k)
  BY <1>3, SkippedIs
<1>5. StartTime(i, t0, last) = t + (j + k) * DayLen  BY DEF StartTime
<1>6. d \in Nat  BY <1>1, <1>3, <1>4
<1>7. t + (j + k) * DayLen = TimeOn(i, d)
  <2>1. (D0 + (j + k)) * DayLen = D0 * DayLen + (j + k) * DayLen
    BY <1>1, <1>3, <1>4, SMTT(30)
  <2>2. D0 + (j + k) = d  BY <1>1, <1>3, <1>4
  <2>3. (j + k) * DayLen \in Int /\ D0 * DayLen \in Int  BY <1>1, <1>3, <1>4, SMTT(30)
  <2> QED  BY <1>2, <2>1, <2>2, <2>3 DEF TimeOn
<1>8. t0 <= TimeOn(i, d) /\ (j = 1 => t0 < TimeOn(i, d)) /\ TimeOn(i, d) <= t0 + 8 * DayLen
  <2>1. j + k \in 0..7 /\ (j = 1 => j + k >= 1)  BY <1>3, <1>4
  <2>2. /\ 0 <= (j + k) * DayLen /\ (j + k) * DayLen <= 7 * DayLen
        /\ j = 1 => DayLen <= (j + k) * DayLen
        /\ (j + k) * DayLen \in Int
    <3> DEFINE a == j + k
    <3>1. a \in 0..7 /\ (j = 1 => a >= 1)  BY <2>1
    <3> HIDE DEF a, j
    <3>2. 0 * DayLen <= a * DayLen /\ a * DayLen <= 7 * DayLen  BY <3>1, Monotone
    <3>3. j = 1 => 1 * DayLen <= a * DayLen  BY <3>1, Monotone
    <3>4. a * DayLen \in Int  BY <3>1, SMTT(30)
    <3> QED  BY <3>2, <3>3, <3>4 DEF a
  <2>3. j = 0 => t0 <= t  BY <1>2
  <2>4. t <= t0 + DayLen /\ t0 < t + DayLen  BY <1>1, <1>2
  <2> HIDE DEF t, j, d
  <2> QED  BY <1>2, <1>3, <1>7, <2>2, <2>3, <2>4
<1>9. TimeOn(i, D0) - last < DayLen => t0 < TimeOn(i, d)  BY <1>2, <1>8
<1>10. ASSUME NEW e \in Nat, e < d, ~OffDay(i, e), t0 <= TimeOn(i, e)
       PROVE e = D0 /\ TimeOn(i, e) - last < DayLen
  <2>1. D0 <= e
    <3>1. TimeOn(i, e) \in Nat /\ Day(TimeOn(i, e)) = e  BY TimeOnIs
    <3> QED  BY <1>10, <3>1, DayGrows
  <2>2. CASE e < D0 + j
    <3>1. e = D0 /\ j = 1  BY <1>1, <1>3, <2>1, <2>2
    <3> QED  BY <1>2, <1>10, <3>1
  <2>3. CASE D0 + j <= e
    <3> DEFINE m == e - (D0 + j)
    <3>1. m \in 0..(k - 1) /\ D0 + j + m = e  BY <1>1, <1>3, <1>4, <1>10, <2>3
    <3> HIDE DEF m, k, j
    <3>2. OffDay(i, D0 + j + m)  BY <1>4, <3>1
    <3> QED  BY <1>10, <3>1, <3>2
  <2> QED  BY <1>1, <1>3, <2>2, <2>3
<1> HIDE DEF d, k, j, t
<1> QED  BY <1>4, <1>5, <1>6, <1>7, <1>8, <1>9, <1>10 DEF d

(* A repetition is an interval after the last, and whole days later.        *)
LEMMA RepeatTimeIs ==
  ASSUME wday0 \in 0..6, NEW i \in Cmd, NEW t0 \in Nat, NEW last \in Nat,
         Cmds[i].interval > 0
  PROVE LET t == last + Cmds[i].interval
            j == IF t >= Day0(t0) + DayLen THEN 1 ELSE 0
        IN  \E k \in 0..(7 - j) :
              /\ RepeatTime(i, t0, last) = t + k * DayLen
              /\ t <= t + k * DayLen /\ t + k * DayLen <= t + 7 * DayLen
              /\ \A m \in 0..(k - 1) : OffDay(i, Day(t0) + j + m)
              /\ Cmds[i].days_off # 0..6 => ~OffDay(i, Day(t0) + j + k)
<1> DEFINE t == last + Cmds[i].interval
           j == IF t >= Day0(t0) + DayLen THEN 1 ELSE 0
           k == Skipped(i, t0, j)
<1>1. Cmds[i].interval \in Int  BY CmdsAre
<1>2. j \in 0..1  OBVIOUS
<1>3. /\ k \in 0..(7 - j)
      /\ \A m \in 0..(k - 1) : OffDay(i, Day(t0) + j + m)
      /\ Cmds[i].days_off # 0..6 => ~OffDay(i, Day(t0) + j + k)
  BY <1>2, SkippedIs
<1>4. RepeatTime(i, t0, last) = t + k * DayLen  BY DEF RepeatTime
<1>5. t \in Int  BY <1>1
<1> HIDE DEF t, k
<1>6. 0 * DayLen <= k * DayLen /\ k * DayLen <= 7 * DayLen /\ k * DayLen \in Int
  BY <1>2, <1>3, Monotone, SMTT(30)
<1> HIDE DEF j
<1> QED  BY <1>3, <1>4, <1>5, <1>6 DEF t, j

(* No command is due at 0, the time that the loop takes for none.           *)
LEMMA DueTimeIs ==
  ASSUME wday0 \in 0..6, NEW t0 \in Nat, t0 >= DayLen, NEW last \in [Cmd -> Nat],
         NEW i \in Cmd, ~Exhausted(i, last)
  PROVE DueTime(i, t0, last) \in Nat \ {0}
<1>1. Cmds[i].interval \in Int /\ last[i] \in Nat  BY CmdsAre
<1>2. CASE last[i] = Never \/ Cmds[i].interval = 0
  <2>1. DueTime(i, t0, last) = StartTime(i, t0, last[i])  BY <1>2 DEF DueTime
  <2>2. \A l \in Int : \E d \in Nat : StartTime(i, t0, l) = TimeOn(i, d) /\ t0 <= TimeOn(i, d)
    <3> SUFFICES ASSUME NEW l \in Int
                 PROVE \E d \in Nat : StartTime(i, t0, l) = TimeOn(i, d) /\ t0 <= TimeOn(i, d)
      OBVIOUS
    <3>1. PICK d \in Nat : StartTime(i, t0, l) = TimeOn(i, d) /\ t0 <= TimeOn(i, d)
      BY StartTimeIs
    <3> QED  BY <3>1
  <2>5. PICK d \in Nat : StartTime(i, t0, last[i]) = TimeOn(i, d) /\ t0 <= TimeOn(i, d)
    BY <1>1, <2>2
  <2>3. TimeOn(i, d) \in Nat  BY TimeOnIs
  <2> QED  BY <2>1, <2>5, <2>3
<1>3. CASE ~(last[i] = Never \/ Cmds[i].interval = 0)
  <2>1. Cmds[i].interval > 0  BY <1>1, <1>3 DEF Exhausted
  <2>2. DueTime(i, t0, last) = RepeatTime(i, t0, last[i])  BY <1>3 DEF DueTime
  <2> DEFINE t == last[i] + Cmds[i].interval
  <2>3. \E k \in 0..7 : RepeatTime(i, t0, last[i]) = t + k * DayLen /\ t <= t + k * DayLen
    <3> DEFINE j == IF t >= Day0(t0) + DayLen THEN 1 ELSE 0
    <3>1. \E k \in 0..(7 - j) : RepeatTime(i, t0, last[i]) = t + k * DayLen /\ t <= t + k * DayLen
      BY <1>1, <2>1, RepeatTimeIs, Zenon
    <3>2. 0..(7 - j) \subseteq 0..7  OBVIOUS
    <3> HIDE DEF j
    <3> QED  BY <3>1, <3>2
  <2>4. t \in Nat \ {0}  BY <1>1, <2>1
  <2> HIDE DEF t
  <2>5. \A k \in 0..7 : k * DayLen \in Int  BY SMTT(30)
  <2> QED  BY <2>2, <2>3, <2>4, <2>5
<1> QED  BY <1>2, <1>3

-----------------------------------------------------------------------------
(* The choice of the next command.                                          *)

(* What one turn of the loop over the commands does, and the function that  *)
(* the turns are up to command n.                                           *)
Turn(f, i, t0, last) ==
  IF i = 0 THEN [next |-> None, time |-> next_time, t |-> 0]
  ELSE Earlier(f[i-1], i, IF Exhausted(i, last) THEN f[i-1].t ELSE DueTime(i, t0, last))

Turns(f, n, t0, last) == f = [i \in 0..n |-> Turn(f, i, t0, last)]

(* There is such a function, so Choice, which is its value at the last      *)
(* command, is what the turns come to.                                      *)
LEMMA TurnsExist ==
  ASSUME NEW t0, NEW last, NEW n \in Nat
  PROVE \E f : Turns(f, n, t0, last)
<1> DEFINE P == {m \in 0..n : \E f : Turns(f, m, t0, last)}
<1>1. 0 \in P
  <2> DEFINE f == [i \in 0..0 |-> [next |-> None, time |-> next_time, t |-> 0]]
  <2>1. f = [i \in 0..0 |-> Turn(f, i, t0, last)]  BY DEF Turn
  <2> QED  BY <2>1 DEF Turns
<1>2. ASSUME NEW m \in 0..(n - 1), m \in P PROVE m + 1 \in P
  <2>1. PICK f : Turns(f, m, t0, last)  BY <1>2
  <2> DEFINE g == [i \in 0..(m + 1) |-> IF i = m + 1 THEN Turn(f, i, t0, last) ELSE f[i]]
  <2>2. \A i \in 0..m : g[i] = f[i]  OBVIOUS
  <2>3. ASSUME NEW i \in 0..(m + 1) PROVE g[i] = Turn(g, i, t0, last)
    <3>1. i # 0 => g[i-1] = f[i-1]  BY <2>2
    <3>2. Turn(g, i, t0, last) = Turn(f, i, t0, last)
      <4> HIDE DEF g
      <4> QED  BY <3>1 DEF Turn
    <3>3. i # m + 1 => f[i] = Turn(f, i, t0, last)  BY <2>1 DEF Turns
    <3> QED  BY <3>2, <3>3
  <2>4. g = [i \in 0..(m + 1) |-> g[i]]  OBVIOUS
  <2> HIDE DEF g
  <2>5. g = [i \in 0..(m + 1) |-> Turn(g, i, t0, last)]  BY <2>3, <2>4
  <2>6. Turns(g, m + 1, t0, last)  BY <2>5 DEF Turns
  <2> QED  BY <2>6
<1> HIDE DEF P
<1>3. 0..n \subseteq P  BY <1>1, <1>2, UpTo
<1> QED  BY <1>3 DEF P

LEMMA ChoiceIsLastTurn ==
  ASSUME NEW t0, NEW last
  PROVE \E f : Turns(f, Len(Cmds), t0, last) /\ Choice(t0, last) = f[Len(Cmds)]
<1> DEFINE f == CHOOSE f : Turns(f, Len(Cmds), t0, last)
<1>1. Turns(f, Len(Cmds), t0, last)  BY CmdsAre, TurnsExist
<1>2. Choice(t0, last) = f[Len(Cmds)]  BY DEF Choice, Turns, Turn
<1> QED  BY <1>1, <1>2

(* The earliest of the first n commands, of those not exhausted; the time   *)
(* the variable t still has is no earlier.                                  *)
Earliest(c, n, t0, last) ==
  /\ c \in [next : {None} \cup 1..n, time : Nat, t : Nat]
  /\ c.next = None => /\ c.time = next_time /\ c.t = 0
                      /\ \A i \in 1..n : Exhausted(i, last)
  /\ c.next # None => /\ ~Exhausted(c.next, last) /\ c.time = DueTime(c.next, t0, last)
                      /\ c.time <= c.t
                      /\ \A i \in 1..n : ~Exhausted(i, last) => c.time <= DueTime(i, t0, last)

(* The loop chooses the earliest of the commands.                           *)
LEMMA ChoiceIs ==
  ASSUME wday0 \in 0..6, next_time \in Nat,
         NEW t0 \in Nat, t0 >= DayLen, NEW last \in [Cmd -> Nat]
  PROVE Earliest(Choice(t0, last), Len(Cmds), t0, last)
<1>1. PICK f : Turns(f, Len(Cmds), t0, last) /\ Choice(t0, last) = f[Len(Cmds)]
  BY ChoiceIsLastTurn
<1>2. \A i \in 0..Len(Cmds) : f[i] = Turn(f, i, t0, last)  BY <1>1 DEF Turns
<1> DEFINE P == {n \in 0..Len(Cmds) : Earliest(f[n], n, t0, last)}
<1>3. 0 \in P
  <2>1. f[0] = [next |-> None, time |-> next_time, t |-> 0]  BY <1>2, CmdsAre DEF Turn
  <2>2. Earliest(f[0], 0, t0, last)  BY <2>1 DEF Earliest, None
  <2> QED  BY <2>2, CmdsAre
<1>4. ASSUME NEW m \in 0..(Len(Cmds) - 1), m \in P PROVE m + 1 \in P
  <2> DEFINE i == m + 1
             c == f[m]
             t == IF Exhausted(i, last) THEN c.t ELSE DueTime(i, t0, last)
  <2>1. Earliest(c, m, t0, last)  BY <1>4
  <2>2. i \in Cmd /\ i # 0 /\ i - 1 = m /\ i # None /\ i \in 0..Len(Cmds) /\ m \in Nat
    BY CmdsAre DEF None
  <2>3. f[i] = Earlier(c, i, t)
    <3>1. f[i] = Turn(f, i, t0, last)  BY <1>2, <2>2
    <3> QED  BY <2>2, <3>1 DEF Turn
  <2>4. ~Exhausted(i, last) => DueTime(i, t0, last) \in Nat \ {0}  BY <2>2, DueTimeIs
  <2>5. /\ f[i].next = IF (c.next = None /\ t # 0) \/ (c.next # None /\ t < c.time) THEN i ELSE c.next
        /\ f[i].time = IF (c.next = None /\ t # 0) \/ (c.next # None /\ t < c.time) THEN t ELSE c.time
        /\ f[i].t = t
    <3>1. c = [next |-> c.next, time |-> c.time, t |-> c.t]  BY <2>1 DEF Earliest
    <3> QED  BY <2>3, <3>1 DEF Earlier
  <2>6. /\ f[i] = [next |-> f[i].next, time |-> f[i].time, t |-> f[i].t]
        /\ c.next \in {None} \cup 1..m /\ c.time \in Nat /\ c.t \in Nat
    <3>1. c \in [next : {None} \cup 1..m, time : Nat, t : Nat]  BY <2>1 DEF Earliest
    <3> HIDE DEF i, t, c
    <3>2. \/ f[i] = [next |-> i, time |-> t, t |-> t]
          \/ f[i] = [c EXCEPT !.t = t]
      BY <2>3 DEF Earlier
    <3> QED  BY <3>1, <3>2
  <2>7. CASE Exhausted(i, last)
    <3>1. f[i].next = c.next /\ f[i].time = c.time /\ f[i].t = c.t
      BY <2>1, <2>5, <2>6, <2>7 DEF Earliest
    <3>2. \A k \in 1..i : k \in 1..m \/ k = i  BY <2>2
    <3> HIDE DEF i, t, c
    <3>3. f[i] \in [next : {None} \cup 1..i, time : Nat, t : Nat]
      <4>1. 1..m \subseteq 1..i  BY <2>2 DEF i
      <4> QED  BY <2>6, <3>1, <4>1
    <3>4. Earliest(f[i], i, t0, last)  BY <2>1, <2>7, <3>1, <3>2, <3>3 DEF Earliest
    <3> QED  BY <2>2, <3>4 DEF i
  <2>8. CASE ~Exhausted(i, last)
    <3>1. t = DueTime(i, t0, last) /\ t \in Nat \ {0}  BY <2>4, <2>8
    <3>2. \A k \in 1..i : k \in 1..m \/ k = i  BY <2>2
    <3>3. \A k \in 1..m : ~Exhausted(k, last) => DueTime(k, t0, last) \in Nat
      <4>1. 1..m \subseteq Cmd  BY <2>2, CmdsAre
      <4> QED  BY <4>1, DueTimeIs
    <3>4. 1..m \subseteq 1..i /\ i \in 1..i  BY <2>2
    <3> HIDE DEF i, t, c
    <3>5. f[i] \in [next : {None} \cup 1..i, time : Nat, t : Nat]
      BY <2>5, <2>6, <3>1, <3>4
    <3>6. CASE (c.next = None /\ t # 0) \/ (c.next # None /\ t < c.time)
      <4>1. f[i].next = i /\ f[i].time = t /\ f[i].t = t  BY <2>5, <3>6
      <4>2. \A k \in 1..m : ~Exhausted(k, last) => t <= DueTime(k, t0, last)
        BY <2>1, <2>6, <3>1, <3>3, <3>6 DEF Earliest
      <4>3. \A k \in 1..i : ~Exhausted(k, last) => t <= DueTime(k, t0, last)
        BY <3>1, <3>2, <4>2
      <4>4. Earliest(f[i], i, t0, last)  BY <2>2, <2>8, <3>1, <3>5, <4>1, <4>3 DEF Earliest
      <4> QED  BY <2>2, <4>4 DEF i
    <3>7. CASE c.next # None /\ c.time <= t
      <4>1. f[i].next = c.next /\ f[i].time = c.time /\ f[i].t = t
        BY <2>5, <2>6, <3>1, <3>7
      <4>2. Earliest(f[i], i, t0, last)
        BY <2>1, <3>1, <3>2, <3>5, <3>7, <4>1 DEF Earliest
      <4> QED  BY <2>2, <4>2 DEF i
    <3> QED  BY <2>6, <3>1, <3>6, <3>7
  <2> QED  BY <2>7, <2>8
<1> HIDE DEF P
<1>5. 0..Len(Cmds) \subseteq P  BY <1>3, <1>4, UpTo, CmdsAre
<1> QED  BY <1>1, <1>5, CmdsAre DEF P

-----------------------------------------------------------------------------
(* Types.                                                                   *)

(* The time of the last update, from which the delay is counted.            *)
Updated == next_time - delay

Exhaustion(i) == Exhausted(i, last_stamps)
Due(i) == DueTime(i, Updated, last_stamps)

(* What update left: the earliest of the commands, as of its time.          *)
Planned ==
  /\ Updated >= DayLen
  /\ next = None => \A i \in Cmd : Exhaustion(i)
  /\ next # None => /\ ~Exhaustion(next) /\ next_time = Due(next)
                    /\ \A i \in Cmd : ~Exhaustion(i) => next_time <= Due(i)

(* A plan is made before anything else, and the clock read before the loop. *)
Clocks ==
  /\ pc # "start" => Planned
  /\ pc = "while" => tt >= DayLen

Basics == TypeOK /\ Clocks

(* update leaves a plan as of the time it is given.                         *)
LEMMA UpdatePlans ==
  ASSUME TypeOK, NEW t0 \in Nat, t0 >= DayLen, NEW last \in [Cmd -> Nat], Update(t0, last),
         last_stamps' = last, wday0' = wday0
  PROVE /\ Planned' /\ Updated' = t0
        /\ next' \in Cmd \cup {None} /\ next_time' \in Nat /\ delay' \in Int
<1> DEFINE c == Choice(t0, last)
<1>1. Earliest(c, Len(Cmds), t0, last)  BY ChoiceIs DEF TypeOK
<1>2. next' = c.next /\ next_time' = c.time /\ delay' = c.time - t0  BY DEF Update
<1>3. c.next \in Cmd \cup {None} /\ c.time \in Nat  BY <1>1, CmdsAre DEF Earliest
<1> HIDE DEF c
<1>4. Updated' = t0  BY <1>2, <1>3 DEF Updated
<1>5. \A i : Exhaustion(i)' = Exhausted(i, last)  BY DEF Exhaustion, Exhausted
<1>6. \A i : Due(i)' = DueTime(i, t0, last)
  BY <1>4 DEF Due, DueTime, StartTime, RepeatTime, Skipped, Masked, Wday, Day, Day0
<1>7. Planned'  BY <1>1, <1>2, <1>4, <1>5, <1>6, CmdsAre DEF Planned, Earliest
<1> QED  BY <1>2, <1>3, <1>4, <1>7

(* A plan stands while nothing of it changes.                               *)
LEMMA PlanStands ==
  ASSUME wday0' = wday0, plan' = plan
  PROVE /\ (Planned' <=> Planned) /\ Updated' = Updated
        /\ \A i : Due(i)' = Due(i) /\ Exhaustion(i)' = Exhaustion(i)
<1>1. next' = next /\ next_time' = next_time /\ delay' = delay /\ last_stamps' = last_stamps
  BY DEF plan
<1>2. Updated' = Updated  BY <1>1 DEF Updated
<1>3. \A i : Exhaustion(i)' = Exhaustion(i)  BY <1>1 DEF Exhaustion, Exhausted
<1>4. \A i : Due(i)' = Due(i)
  BY <1>1, <1>2 DEF Due, DueTime, StartTime, RepeatTime, Skipped, Masked, Wday, Day, Day0
<1>5. Planned' <=> Planned  BY <1>1, <1>2, <1>3, <1>4 DEF Planned
<1> QED  BY <1>2, <1>3, <1>4, <1>5

(* Types and plans, initially and after a step.                             *)
LEMMA InitTypes == Init => Basics
<1> SUFFICES ASSUME Init PROVE Basics  OBVIOUS
<1>1. TypeOK
  <2>1. 0 \in 0..Day(Horizon) /\ 2 * DayLen - 1 <= Horizon  BY DayIs
  <2>2. ran \in [Cmd -> SUBSET (0..Day(Horizon))]  BY DEF Init
  <2>3. runs \in [Cmd -> Nat] /\ last_stamps \in [Cmd -> 0..Horizon]  BY DEF Init, Never
  <2>4. now \in DayLen..Horizon /\ up \in 0..Horizon  BY <2>1 DEF Init
  <2> QED  BY <2>2, <2>3, <2>4 DEF Init, TypeOK
<1>2. Clocks  BY DEF Init, Clocks
<1> QED  BY <1>1, <1>2 DEF Basics

LEMMA StepTypes == Basics /\ [Next]_vars => Basics'
<1> SUFFICES ASSUME TypeOK, Clocks, [Next]_vars PROVE TypeOK' /\ Clocks'  BY DEF Basics
<1>1. /\ wday0 \in 0..6 /\ now \in DayLen..Horizon /\ up \in 0..Horizon
      /\ adjusted \in 0..MaxAdjust /\ late \in 0..MaxLate
      /\ pc \in {"start", "top", "while", "poll", "exited"}
      /\ rest \in Int /\ tt \in 0..Horizon
      /\ pc = "poll" /\ next # None => rest \in {Forever} \cup 0..delay
      /\ next \in Cmd \cup {None} /\ next_time \in Nat /\ delay \in Int
      /\ last_stamps \in [Cmd -> 0..Horizon]
      /\ pass \subseteq Cmd /\ runs \in [Cmd -> Nat]
      /\ ran \in [Cmd -> SUBSET (0..Day(Horizon))]
  BY DEF TypeOK
<1>2. CASE Start
  <2>1. Update(now, last_stamps) /\ UNCHANGED <<wday0, now, adjusted, late, rest, tt, last_stamps, history>>
        /\ pc' = "top"
    BY <1>2 DEF Start
  <2>2. now \in Nat /\ now >= DayLen /\ last_stamps \in [Cmd -> Nat]  BY <1>1
  <2>3. Planned' /\ next' \in Cmd \cup {None} /\ next_time' \in Nat /\ delay' \in Int
    BY <2>1, <2>2, UpdatePlans
  <2>4. TypeOK'  BY <1>1, <2>1, <2>3 DEF TypeOK, history, Day
  <2> QED  BY <2>1, <2>3, <2>4 DEF Clocks
<1>3. CASE Exec
  <2>1. /\ pc = "while" /\ next # None
        /\ last_stamps' = [last_stamps EXCEPT ![next] = tt]
        /\ Update(tt, last_stamps') /\ pass' = pass \cup {next}
        /\ runs' = [runs EXCEPT ![next] = @ + 1]
        /\ ran' = [ran EXCEPT ![next] = @ \cup {Day(now)}]
        /\ UNCHANGED <<wday0, now, adjusted, pc, late, rest, tt, up>>
    BY <1>3 DEF Exec
  <2>2. tt \in Nat /\ tt >= DayLen /\ last_stamps' \in [Cmd -> 0..Horizon] /\ next \in Cmd
    BY <1>1, <2>1 DEF Clocks
  <2>3. \A l \in [Cmd -> 0..Horizon] : l = last_stamps' => Planned' /\ next' \in Cmd \cup {None}
          /\ next_time' \in Nat /\ delay' \in Int
    <3> SUFFICES ASSUME NEW l \in [Cmd -> 0..Horizon], l = last_stamps'
                 PROVE Planned' /\ next' \in Cmd \cup {None} /\ next_time' \in Nat /\ delay' \in Int
      OBVIOUS
    <3>1. l \in [Cmd -> Nat] /\ Update(tt, l)  BY <2>1
    <3> QED  BY <2>1, <2>2, <3>1, UpdatePlans
  <2>4. ran' \in [Cmd -> SUBSET (0..Day(Horizon))]
    <3>1. Day(now) \in 0..Day(Horizon)  BY <1>1, DayIs, DayGrows
    <3> QED  BY <1>1, <2>1, <2>2, <3>1
  <2>5. runs' \in [Cmd -> Nat] /\ pass' \subseteq Cmd  BY <1>1, <2>1, <2>2
  <2>6. TypeOK'
    <3>1. (Day(Horizon))' = Day(Horizon)  BY DEF Day
    <3> QED  BY <1>1, <2>1, <2>2, <2>3, <2>4, <2>5, <3>1 DEF TypeOK
  <2> QED  BY <2>1, <2>2, <2>3, <2>6 DEF Clocks
<1>4. ASSUME wday0' = wday0, plan' = plan, pc # "start", pc' # "start",
             now' \in DayLen..Horizon, adjusted' \in 0..MaxAdjust, late' \in 0..MaxLate,
             pc' \in {"top", "while", "poll", "exited"}, rest' \in Int, tt' \in 0..Horizon,
             pc' = "poll" /\ next # None => rest' \in {Forever} \cup 0..delay,
             pass' \subseteq Cmd, UNCHANGED <<runs, ran, up>>, pc' = "while" => tt' >= DayLen
      PROVE TypeOK' /\ Clocks'
  <2>1. next' = next /\ next_time' = next_time /\ delay' = delay /\ last_stamps' = last_stamps
    BY <1>4 DEF plan
  <2>2. TypeOK'
    <3>1. (Day(Horizon))' = Day(Horizon)  BY DEF Day
    <3> QED  BY <1>1, <1>4, <2>1, <3>1 DEF TypeOK
  <2>3. Clocks'  BY <1>4, PlanStands DEF Clocks
  <2> QED  BY <2>2, <2>3
<1>5. CASE ReadClock
  <2>1. /\ pc = "top" /\ tt' = now /\ pass' = {} /\ pc' = "while"
        /\ UNCHANGED <<wday0, now, adjusted, late, rest, plan, runs, ran, up>>
    BY <1>5 DEF ReadClock
  <2> QED  BY <1>1, <1>4, <2>1
<1>6. CASE Sleep
  <2>1. /\ pc = "while" /\ (next # None => Waits) /\ rest' \in Timeouts /\ pc' = "poll"
        /\ UNCHANGED <<wday0, now, adjusted, late, tt, plan, history>>
    BY <1>6 DEF Sleep
  <2>2. rest' \in Int /\ (next # None => rest' \in {Forever} \cup 0..delay)
    BY <1>1, <2>1 DEF Timeouts, Waits, WaitTime, Forever
  <2> QED  BY <1>1, <1>4, <2>1, <2>2 DEF history
<1>7. CASE Wake \/ Stop
  <2>1. /\ pc = "poll" /\ pc' \in {"top", "exited"}
        /\ UNCHANGED <<wday0, now, adjusted, late, rest, tt, plan, history>>
    BY <1>7 DEF Wake, Stop
  <2> QED  BY <1>1, <1>4, <2>1 DEF history
<1>8. CASE Tick
  <2>1. /\ now < Horizon /\ pc \notin {"start", "exited"} /\ now' = now + 1
        /\ UNCHANGED <<wday0, adjusted, pc, tt, plan, history>>
    BY <1>8 DEF Tick
  <2>2. late' \in 0..MaxLate /\ rest' \in Int
        /\ (pc = "poll" /\ next # None => rest' \in {Forever} \cup 0..delay)
    BY <1>1, <1>8 DEF Tick, Forever
  <2> QED  BY <1>1, <1>4, <2>1, <2>2 DEF history, Clocks
<1>9. CASE Adjust
  <2>1. /\ adjusted < MaxAdjust /\ now > DayLen /\ pc \notin {"start", "exited"}
        /\ now' = now - 1 /\ adjusted' = adjusted + 1
        /\ UNCHANGED <<wday0, pc, late, rest, tt, plan, history>>
    BY <1>9 DEF Adjust
  <2> QED  BY <1>1, <1>4, <2>1 DEF history, Clocks
<1>10. CASE UNCHANGED vars
  <2>1. UNCHANGED <<wday0, now, adjusted, pc, late, rest, tt, plan, history>>  BY <1>10 DEF vars
  <2>2. TypeOK'
    <3>1. (Day(Horizon))' = Day(Horizon)  BY DEF Day
    <3> QED  BY <1>1, <2>1, <3>1 DEF TypeOK, plan, history
  <2> QED  BY <2>1, <2>2, PlanStands DEF Clocks
<1> QED  BY <1>2, <1>3, <1>5, <1>6, <1>7, <1>8, <1>9, <1>10 DEF Next

-----------------------------------------------------------------------------
(* Passes of the loop.                                                      *)

(* What was executed since the clock was read has that stamp, and the plan  *)
(* was made at that time.                                                   *)
Passes ==
  pc = "while" => /\ \A i \in pass : last_stamps[i] = tt
                  /\ pass # {} => Updated = tt

(* A command that was just executed is due later.                           *)
LEMMA DueAgainLater ==
  ASSUME wday0 \in 0..6, NEW t0 \in Nat, t0 >= DayLen, NEW last \in [Cmd -> Nat],
         NEW i \in Cmd, ~Exhausted(i, last), last[i] = t0
  PROVE DueTime(i, t0, last) > t0
<1>1. Cmds[i].interval \in Int  BY CmdsAre
<1>2. CASE Cmds[i].interval = 0
  <2>1. DueTime(i, t0, last) = StartTime(i, t0, t0)  BY <1>2 DEF DueTime
  <2>2. PICK d \in Nat : /\ StartTime(i, t0, t0) = TimeOn(i, d)
                         /\ TimeOn(i, Day(t0)) - t0 < DayLen => t0 < TimeOn(i, d)
    BY StartTimeIs
  <2>3. Day(t0) \in Nat /\ Day(t0) * DayLen <= t0 /\ Day(t0) * DayLen \in Int  BY DayIs
  <2>4. TimeOn(i, Day(t0)) - t0 < DayLen  BY <2>3, TimeOnIs
  <2> QED  BY <2>1, <2>2, <2>4, TimeOnIs
<1>3. CASE Cmds[i].interval # 0
  <2>1. Cmds[i].interval > 0 /\ last[i] # Never  BY <1>1, <1>3 DEF Exhausted, Never
  <2>2. DueTime(i, t0, last) = RepeatTime(i, t0, t0)  BY <2>1 DEF DueTime
  <2> DEFINE t == t0 + Cmds[i].interval
             j == IF t >= Day0(t0) + DayLen THEN 1 ELSE 0
  <2>3. \E k \in 0..(7 - j) : RepeatTime(i, t0, t0) = t + k * DayLen /\ t <= t + k * DayLen
    BY <2>1, RepeatTimeIs, Zenon
  <2>4. t > t0 /\ t \in Int  BY <1>1, <2>1
  <2> HIDE DEF t, j
  <2>5. \A k \in Int : k * DayLen \in Int  BY SMTT(30)
  <2> QED  BY <2>2, <2>3, <2>4, <2>5
<1> QED  BY <1>2, <1>3

(* The loop does not execute a command that it executed in this pass.       *)
LEMMA ExecutesAnother ==
  ASSUME Basics, Passes, Exec PROVE next \notin pass
<1> SUFFICES ASSUME next \in pass PROVE FALSE  OBVIOUS
<1>1. pc = "while" /\ next # None /\ ~Waits  BY DEF Exec
<1>2. last_stamps[next] = tt /\ Updated = tt  BY <1>1 DEF Passes
<1>3. /\ next \in Cmd /\ tt \in Nat /\ tt >= DayLen /\ last_stamps \in [Cmd -> Nat]
      /\ wday0 \in 0..6 /\ next_time \in Nat /\ delay \in Int
  BY <1>1 DEF Basics, TypeOK, Clocks
<1>4. ~Exhausted(next, last_stamps) /\ next_time = DueTime(next, tt, last_stamps)
  BY <1>1, <1>2 DEF Basics, Clocks, Planned, Due, Exhaustion
<1>5. next_time > tt  BY <1>2, <1>3, <1>4, DueAgainLater
<1> QED  BY <1>1, <1>2, <1>3, <1>5 DEF Waits, WaitTime, Updated

(* A step keeps the stamps of the pass.                                     *)
LEMMA StepPasses ==
  ASSUME Basics, Passes, [Next]_vars PROVE Passes'
<1>1. CASE Start  BY <1>1 DEF Start, Passes
<1>2. CASE ReadClock  BY <1>2 DEF ReadClock, Passes
<1>3. CASE Exec
  <2>1. /\ pc = "while" /\ pc' = pc /\ tt' = tt /\ pass' = pass \cup {next}
        /\ last_stamps' = [last_stamps EXCEPT ![next] = tt] /\ delay' = next_time' - tt
    BY <1>3 DEF Exec, Update
  <2>2. \A i \in pass : last_stamps[i] = tt  BY <2>1 DEF Passes
  <2>3. pass \subseteq Cmd /\ next \in Cmd /\ last_stamps \in [Cmd -> 0..Horizon] /\ tt \in Nat
    BY <1>3 DEF Basics, TypeOK, Exec
  <2>4. \A i \in pass' : last_stamps'[i] = tt  BY <2>1, <2>2, <2>3
  <2>5. next_time' \in Nat
    <3>1. Basics'  BY <1>3, StepTypes DEF Next
    <3> QED  BY <3>1 DEF Basics, TypeOK
  <2>6. Updated' = tt
    <3>1. delay' = next_time' - tt /\ tt \in Int /\ next_time' \in Int  BY <2>1, <2>3, <2>5
    <3>2. \A a, b \in Int : a - (a - b) = b  OBVIOUS
    <3>3. next_time' - (next_time' - tt) = tt  BY <3>1, <3>2
    <3> QED  BY <3>1, <3>3 DEF Updated
  <2> QED  BY <2>1, <2>4, <2>6 DEF Passes
<1>4. CASE Sleep \/ Wake \/ Stop  BY <1>4 DEF Sleep, Wake, Stop, Passes
<1>5. CASE Tick \/ Adjust \/ UNCHANGED vars
  BY <1>5 DEF Tick, Adjust, vars, plan, history, Passes, Updated
<1> QED  BY <1>1, <1>2, <1>3, <1>4, <1>5 DEF Next

-----------------------------------------------------------------------------
(* Time, while the process is punctual.                                     *)

(* What it starts with.                                                     *)
Starting ==
  pc = "start" => up = now /\ \A i \in Cmd : last_stamps[i] = Never /\ ran[i] = {}

(* Whatever poll can wait for is not overslept, unless it was overdue when  *)
(* the plan was made: that is now.                                          *)
InTime ==
  next # None /\ delay <= MaxWait =>
    /\ pc = "poll" => rest \in Nat /\ now + rest = next_time
    /\ pc \in {"top", "while"} => now <= next_time \/ Updated = now

(* No plan and no stamp is of a later time than now.                        *)
Timely ==
  Punctual /\ pc # "start" =>
    /\ Updated <= now /\ \A i \in Cmd : last_stamps[i] <= Updated
    /\ pc = "while" => tt = now
    /\ InTime

(* Steps keep these.                                                        *)
LEMMA StepStarting ==
  ASSUME Starting, [Next]_vars PROVE Starting'
<1>1. CASE Start \/ ReadClock \/ Sleep \/ Wake \/ Stop \/ Tick \/ Adjust
  BY <1>1 DEF Start, ReadClock, Sleep, Wake, Stop, Tick, Adjust, Starting
<1>2. CASE Exec  BY <1>2 DEF Exec, Starting
<1>3. CASE UNCHANGED vars  BY <1>3 DEF vars, plan, history, Starting
<1> QED  BY <1>1, <1>2, <1>3 DEF Next

LEMMA StepTimely ==
  ASSUME Basics, Starting, Timely, [Next]_vars PROVE Timely'
<1> SUFFICES ASSUME Punctual', pc' # "start"
             PROVE /\ Updated' <= now' /\ \A i \in Cmd : last_stamps'[i] <= Updated'
                   /\ pc' = "while" => tt' = now'
                   /\ InTime'
  BY DEF Timely
<1>1. /\ now \in Nat /\ now >= DayLen /\ late \in Nat /\ adjusted \in Nat
      /\ rest \in Int /\ tt \in Nat /\ next \in Cmd \cup {None}
      /\ next_time \in Nat /\ delay \in Int /\ last_stamps \in [Cmd -> Nat]
      /\ pc \in {"start", "top", "while", "poll", "exited"}
  BY DEF Basics, TypeOK
<1>2. late' = 0 /\ adjusted' = 0  BY DEF Punctual
<1>3. CASE Start
  <2>1. Update(now, last_stamps) /\ UNCHANGED <<wday0, now, last_stamps>> /\ pc' = "top" /\ pc = "start"
    BY <1>3 DEF Start
  <2>2. Updated' = now
    BY <1>1, <2>1, UpdatePlans DEF Basics
  <2> QED  BY <1>1, <2>1, <2>2 DEF Starting, InTime, Never
<1>4. ASSUME pc # "start", late = 0, adjusted = 0
      PROVE /\ Updated <= now /\ \A i \in Cmd : last_stamps[i] <= Updated
            /\ pc = "while" => tt = now
            /\ InTime
  BY <1>4 DEF Timely, Punctual
<1>5. Updated \in Int  BY <1>1 DEF Updated
<1>6. CASE Exec
  <2>1. /\ pc = "while" /\ next # None /\ pc' = "while" /\ late = 0 /\ adjusted = 0
        /\ last_stamps' = [last_stamps EXCEPT ![next] = tt]
        /\ Update(tt, last_stamps') /\ UNCHANGED <<wday0, now, tt>>
    BY <1>2, <1>6 DEF Exec
  <2>2. tt = now /\ Updated <= now /\ \A i \in Cmd : last_stamps[i] <= now
    <3>1. tt = now /\ Updated <= now /\ \A i \in Cmd : last_stamps[i] <= Updated
      BY <1>4, <2>1
    <3>2. \A i \in Cmd : last_stamps[i] \in Nat  BY <1>1
    <3> QED  BY <1>1, <1>5, <3>1, <3>2
  <2>3. next \in Cmd  BY <1>1, <2>1
  <2>4. last_stamps' \in [Cmd -> Nat] /\ \A i \in Cmd : last_stamps'[i] <= now
    BY <1>1, <2>1, <2>2, <2>3
  <2>5. \A l \in [Cmd -> Nat] : l = last_stamps' => Updated' = tt
    <3> SUFFICES ASSUME NEW l \in [Cmd -> Nat], l = last_stamps' PROVE Updated' = tt  OBVIOUS
    <3>1. Update(tt, l)  BY <2>1
    <3> QED  BY <1>1, <2>1, <2>2, <3>1, UpdatePlans DEF Basics
  <2>6. Updated' = now  BY <2>2, <2>4, <2>5
  <2> QED  BY <1>1, <2>1, <2>2, <2>4, <2>6 DEF InTime
<1>7. ASSUME UNCHANGED <<wday0, plan>>, pc # "start", late = 0, adjusted = 0, now' \in Nat, now <= now',
             pc' = "while" => tt' = now', InTime'
      PROVE /\ Updated' <= now' /\ \A i \in Cmd : last_stamps'[i] <= Updated'
            /\ pc' = "while" => tt' = now'
            /\ InTime'
  <2>1. Updated' = Updated /\ last_stamps' = last_stamps  BY <1>7, PlanStands DEF plan
  <2>2. Updated <= now' /\ \A i \in Cmd : last_stamps[i] <= Updated
    BY <1>1, <1>4, <1>5, <1>7
  <2> QED  BY <1>7, <2>1, <2>2
<1>8. UNCHANGED <<wday0, plan>> => Updated' = Updated /\ next' = next /\ next_time' = next_time /\ delay' = delay
  BY PlanStands DEF plan
<1>9. CASE ReadClock
  <2>1. /\ pc = "top" /\ tt' = now /\ pc' = "while" /\ late = 0 /\ adjusted = 0
        /\ UNCHANGED <<wday0, now, rest, plan>>
    BY <1>2, <1>9 DEF ReadClock
  <2>2. InTime'  BY <1>4, <1>8, <2>1 DEF InTime
  <2> QED  BY <1>1, <1>7, <2>1, <2>2
<1>10. CASE Sleep
  <2>1. /\ pc = "while" /\ (next # None => Waits) /\ rest' \in Timeouts /\ pc' = "poll"
        /\ late = 0 /\ adjusted = 0 /\ UNCHANGED <<wday0, now, tt, plan>>
    BY <1>2, <1>10 DEF Sleep
  <2>2. tt = now  BY <1>4, <2>1
  <2>3. ASSUME next # None, delay <= MaxWait PROVE rest' \in Nat /\ now + rest' = next_time
    BY <1>1, <2>1, <2>2, <2>3 DEF Timeouts, Waits, WaitTime
  <2>4. InTime'  BY <1>8, <2>1, <2>3 DEF InTime
  <2> QED  BY <1>1, <1>7, <2>1, <2>4
<1>11. CASE Wake \/ Stop
  <2>1. /\ pc = "poll" /\ pc' \in {"top", "exited"} /\ late = 0 /\ adjusted = 0
        /\ UNCHANGED <<wday0, now, rest, tt, plan>>
    BY <1>2, <1>11 DEF Wake, Stop
  <2>2. InTime
    BY <1>4, <2>1
  <2>3. next # None /\ delay <= MaxWait => now <= next_time
    BY <1>1, <2>1, <2>2 DEF InTime
  <2>4. InTime'  BY <1>8, <2>1, <2>3 DEF InTime
  <2> QED  BY <1>1, <1>7, <2>1, <2>4
<1>12. CASE Tick
  <2>1. /\ pc = "poll" /\ rest # 0 /\ pc' = pc /\ late = 0 /\ adjusted = 0 /\ now' = now + 1
        /\ rest' = (IF rest = Forever THEN Forever ELSE rest - 1) /\ UNCHANGED <<wday0, tt, plan>>
    BY <1>1, <1>2, <1>12 DEF Tick
  <2>2. InTime  BY <1>4, <2>1
  <2>3. next # None /\ delay <= MaxWait => rest' \in Nat /\ now' + rest' = next_time
    BY <1>1, <2>1, <2>2 DEF InTime, Forever
  <2>4. InTime'  BY <1>8, <2>1, <2>3 DEF InTime
  <2>5. now' \in Nat /\ now <= now'  BY <1>1, <2>1
  <2> QED  BY <1>7, <2>1, <2>4, <2>5
<1>13. CASE Adjust
  BY <1>1, <1>2, <1>13 DEF Adjust
<1>14. CASE UNCHANGED vars
  <2>1. UNCHANGED <<wday0, now, adjusted, pc, late, rest, tt, plan>>  BY <1>14 DEF vars
  <2>2. pc # "start" /\ late = 0 /\ adjusted = 0  BY <1>2, <2>1
  <2>3. InTime'  BY <1>4, <1>8, <2>1, <2>2 DEF InTime
  <2> QED  BY <1>1, <1>4, <1>7, <2>1, <2>2, <2>3
<1> QED  BY <1>3, <1>6, <1>9, <1>10, <1>11, <1>12, <1>13, <1>14 DEF Next

(* A command that starts, or is repeated within the day, is due in eight    *)
(* days: poll can wait for it.                                              *)
LEMMA DueBound ==
  ASSUME wday0 \in 0..6, NEW t0 \in Nat, NEW last \in [Cmd -> Nat],
         NEW i \in Cmd, ~Exhausted(i, last), last[i] <= t0, Cmds[i].interval <= DayLen
  PROVE DueTime(i, t0, last) <= t0 + 8 * DayLen
<1>1. Cmds[i].interval \in Int /\ last[i] \in Nat  BY CmdsAre
<1>2. CASE last[i] = Never \/ Cmds[i].interval = 0
  <2>1. DueTime(i, t0, last) = StartTime(i, t0, last[i])  BY <1>2 DEF DueTime
  <2>2. \A l \in Int : StartTime(i, t0, l) <= t0 + 8 * DayLen
    <3> SUFFICES ASSUME NEW l \in Int PROVE StartTime(i, t0, l) <= t0 + 8 * DayLen
      OBVIOUS
    <3>1. PICK d \in Nat : /\ StartTime(i, t0, l) = TimeOn(i, d)
                           /\ TimeOn(i, d) <= t0 + 8 * DayLen
      BY StartTimeIs
    <3> QED  BY <3>1
  <2> QED  BY <1>1, <2>1, <2>2
<1>3. CASE ~(last[i] = Never \/ Cmds[i].interval = 0)
  <2>1. Cmds[i].interval > 0  BY <1>1, <1>3 DEF Exhausted
  <2>2. DueTime(i, t0, last) = RepeatTime(i, t0, last[i])  BY <1>3 DEF DueTime
  <2> DEFINE t == last[i] + Cmds[i].interval
             j == IF t >= Day0(t0) + DayLen THEN 1 ELSE 0
  <2>3. \E k \in 0..(7 - j) : /\ RepeatTime(i, t0, last[i]) = t + k * DayLen
                              /\ t + k * DayLen <= t + 7 * DayLen
    BY <1>1, <2>1, RepeatTimeIs, Zenon
  <2>4. t \in Int /\ t <= t0 + DayLen  BY <1>1, <2>1
  <2> HIDE DEF t, j
  <2>5. \A k \in Int : k * DayLen \in Int  BY SMTT(30)
  <2> QED  BY <2>2, <2>3, <2>4, <2>5
<1> QED  BY <1>2, <1>3

(* What is planned while the process is punctual is not past, unless it was *)
(* when the plan was made.                                                  *)
LEMMA NotYet ==
  ASSUME Basics, Timely, Punctual, pc \in {"top", "while", "poll"},
         NEW i \in Cmd, ~Exhaustion(i), Cmds[i].interval <= DayLen
  PROVE /\ next # None /\ next_time <= Due(i) /\ Due(i) \in Nat /\ Updated \in Nat
        /\ now <= next_time \/ (Updated = now /\ pc # "poll")
<1>1. /\ now \in Nat /\ wday0 \in 0..6 /\ next_time \in Nat /\ delay \in Int
      /\ last_stamps \in [Cmd -> Nat]
  BY DEF Basics, TypeOK
<1>2. Planned /\ InTime /\ \A k \in Cmd : last_stamps[k] <= Updated
  BY DEF Basics, Clocks, Timely
<1>3. Updated \in Nat /\ Updated >= DayLen /\ Updated \in Int
  BY <1>1, <1>2 DEF Planned, Updated
<1>4. next # None /\ next_time <= Due(i)  BY <1>2 DEF Planned
<1>5. Due(i) \in Nat /\ Due(i) <= Updated + 8 * DayLen
  BY <1>1, <1>2, <1>3, DueTimeIs, DueBound DEF Due, Exhaustion
<1>6. delay <= MaxWait
  <2>1. next_time <= Updated + 8 * DayLen  BY <1>1, <1>3, <1>4, <1>5
  <2> QED  BY <1>1, <2>1 DEF Updated
<1>7. now <= next_time \/ (Updated = now /\ pc # "poll")
  <2>1. CASE pc = "poll"
    <3>1. rest \in Nat /\ now + rest = next_time  BY <1>2, <1>4, <1>6, <2>1 DEF InTime
    <3> QED  BY <1>1, <3>1
  <2>2. CASE pc # "poll"  BY <1>2, <1>4, <1>6, <2>2 DEF InTime
  <2> QED  BY <2>1, <2>2
<1> QED  BY <1>3, <1>4, <1>5, <1>7

(* What the loop executes is due.                                           *)
LEMMA ExecutesDue ==
  ASSUME Basics, Timely, Punctual, Exec
  PROVE /\ pc = "while" /\ tt = now /\ next \in Cmd /\ now \in Nat /\ now >= DayLen
        /\ ~Exhaustion(next) /\ next_time = Due(next) /\ Due(next) \in Nat
        /\ Updated \in Nat /\ Updated <= now /\ next_time <= now
<1>1. /\ now \in Nat /\ now >= DayLen /\ wday0 \in 0..6 /\ next_time \in Nat /\ delay \in Int
      /\ last_stamps \in [Cmd -> Nat] /\ next \in Cmd \cup {None} /\ tt \in Nat
  BY DEF Basics, TypeOK
<1>2. pc = "while" /\ next # None /\ ~Waits  BY DEF Exec
<1>3. tt = now /\ Updated <= now /\ Planned  BY <1>2 DEF Timely, Basics, Clocks
<1>4. Updated \in Nat /\ Updated >= DayLen  BY <1>1, <1>3 DEF Planned, Updated
<1>5. ~Exhaustion(next) /\ next_time = Due(next) /\ next \in Cmd
  BY <1>1, <1>2, <1>3 DEF Planned
<1>6. next_time <= now
  <2>1. ~(next_time - now > 0 /\ next_time - now <= delay)
    BY <1>2, <1>3 DEF Waits, WaitTime
  <2>2. next_time - delay <= now  BY <1>3 DEF Updated
  <2> QED  BY <1>1, <2>1, <2>2
<1> QED  BY <1>1, <1>2, <1>3, <1>4, <1>5, <1>6

-----------------------------------------------------------------------------
(* Commands of every day.                                                   *)

(* A daily command ran on its time of a day, and on the days whose time has *)
(* come since the process started.                                          *)
Dailies ==
  Punctual /\ pc # "start" =>
    \A i \in Cmd : Cmds[i].interval = 0 =>
      /\ last_stamps[i] # Never => /\ last_stamps[i] = TimeOn(i, Day(last_stamps[i]))
                                   /\ Day(last_stamps[i]) \in ran[i]
      /\ \A d \in Nat : ~OffDay(i, d) /\ up <= TimeOn(i, d) /\ TimeOn(i, d) < Due(i)
                          => d \in ran[i]

(* The days between a time and a start that are not masked: at most that of *)
(* the time, when it was the last.                                          *)
LEMMA DaysToStart ==
  ASSUME wday0 \in 0..6, NEW i \in Cmd, NEW t0 \in Nat, t0 >= DayLen, NEW last \in Nat,
         last <= t0, last # Never => last = TimeOn(i, Day(last)),
         NEW d \in Nat, ~OffDay(i, d), t0 <= TimeOn(i, d), TimeOn(i, d) < StartTime(i, t0, last)
  PROVE last # Never /\ d = Day(last) /\ d = Day(t0)
<1>1. PICK e \in Nat :
        /\ StartTime(i, t0, last) = TimeOn(i, e)
        /\ \A c \in Nat : c < e /\ ~OffDay(i, c) /\ t0 <= TimeOn(i, c)
                            => c = Day(t0) /\ TimeOn(i, c) - last < DayLen
  BY StartTimeIs
<1>2. TimeOn(i, d) \in Nat /\ Day(TimeOn(i, d)) = d /\ TimeOn(i, e) \in Nat /\ Day(TimeOn(i, e)) = e
  BY TimeOnIs
<1>3. d < e
  <2>1. CASE e <= d
    <3>1. e * DayLen <= d * DayLen /\ e * DayLen \in Int /\ d * DayLen \in Int
      BY <2>1, Monotone, SMTT(30)
    <3>2. Cmds[i].time_start \in Int  BY CmdsAre
    <3>3. e * DayLen + Cmds[i].time_start <= d * DayLen + Cmds[i].time_start
      <4> DEFINE a == e * DayLen
                 b == d * DayLen
      <4>1. a <= b /\ a \in Int /\ b \in Int  BY <3>1
      <4> HIDE DEF a, b
      <4>2. a + Cmds[i].time_start <= b + Cmds[i].time_start  BY <3>2, <4>1
      <4> QED  BY <4>2 DEF a, b
    <3>4. TimeOn(i, e) <= TimeOn(i, d)  BY <3>3 DEF TimeOn
    <3> QED  BY <1>1, <1>2, <3>4
  <2> QED  BY <2>1
<1>4. d = Day(t0) /\ TimeOn(i, d) - last < DayLen  BY <1>1, <1>3
<1>5. last # Never  BY <1>2, <1>4 DEF Never
<1>6. last = TimeOn(i, Day(last)) /\ Day(last) \in Nat  BY <1>5, DayIs
<1>7. Day(last) <= d  BY <1>4, DayGrows
<1>8. CASE Day(last) < d
  <2>1. (Day(last) + 1) * DayLen <= d * DayLen  BY <1>6, <1>8, Monotone
  <2>2. /\ (Day(last) + 1) * DayLen = Day(last) * DayLen + DayLen
        /\ Day(last) * DayLen \in Int /\ d * DayLen \in Int
    BY <1>6, SMTT(30)
  <2>3. /\ TimeOn(i, Day(last)) = Day(last) * DayLen + Cmds[i].time_start
        /\ TimeOn(i, d) = d * DayLen + Cmds[i].time_start /\ Cmds[i].time_start \in Int
    BY CmdsAre DEF TimeOn
  <2>4. TimeOn(i, d) - TimeOn(i, Day(last)) >= DayLen  BY <2>1, <2>2, <2>3
  <2> QED  BY <1>2, <1>4, <1>6, <2>4
<1> QED  BY <1>4, <1>5, <1>6, <1>7, <1>8

(* When a daily command is due.                                             *)
LEMMA DueDaily ==
  ASSUME NEW i \in Cmd, Cmds[i].interval = 0
  PROVE Due(i) = StartTime(i, Updated, last_stamps[i]) /\ ~Exhaustion(i)
BY DEF Due, DueTime, Exhaustion, Exhausted

(* A step keeps them: executing any command moves the plan to a time that   *)
(* is not later than the daily command was due.                             *)
LEMMA StepDailies ==
  ASSUME Basics, Starting, Timely, Dailies, [Next]_vars PROVE Dailies'
<1> DEFINE Daily(i) ==
      /\ last_stamps[i] # Never => /\ last_stamps[i] = TimeOn(i, Day(last_stamps[i]))
                                   /\ Day(last_stamps[i]) \in ran[i]
      /\ \A d \in Nat : ~OffDay(i, d) /\ up <= TimeOn(i, d) /\ TimeOn(i, d) < Due(i)
                          => d \in ran[i]
<1> SUFFICES ASSUME Punctual', pc' # "start", NEW i \in Cmd, Cmds[i].interval = 0
             PROVE Daily(i)'
  BY DEF Dailies
<1>1. /\ now \in Nat /\ now >= DayLen /\ late \in Nat /\ adjusted \in Nat /\ wday0 \in 0..6
      /\ last_stamps \in [Cmd -> Nat] /\ next \in Cmd \cup {None} /\ next_time \in Nat
      /\ ran \in [Cmd -> SUBSET (0..Day(Horizon))]
  BY DEF Basics, TypeOK
<1>2. late' = 0 /\ adjusted' = 0  BY DEF Punctual
<1>3. ASSUME Punctual, pc # "start" PROVE Daily(i)  BY <1>3 DEF Dailies
<1>4. wday0' = wday0 => \A d : OffDay(i, d)' = OffDay(i, d) /\ TimeOn(i, d)' = TimeOn(i, d)
  BY DEF OffDay, TimeOn
<1>5. \A t \in Nat : Day(t)' = Day(t)  BY DEF Day
<1>6. ASSUME UNCHANGED <<wday0, plan, ran, up>>, Punctual, pc # "start" PROVE Daily(i)'
  <2>1. Due(i)' = Due(i) /\ last_stamps' = last_stamps  BY <1>6, PlanStands DEF plan
  <2> QED  BY <1>3, <1>4, <1>6, <2>1 DEF Day, TimeOn, OffDay
<1>7. CASE Start
  <2>1. /\ Update(now, last_stamps) /\ pc = "start"
        /\ UNCHANGED <<wday0, now, last_stamps, ran, up>>
    BY <1>7 DEF Start, history
  <2>2. Updated' = now  BY <1>1, <2>1, UpdatePlans DEF Basics
  <2>3. up = now /\ last_stamps[i] = Never  BY <2>1 DEF Starting
  <2>4. Due(i)' = StartTime(i, now, Never)
    BY <2>1, <2>2, <2>3
    DEF Due, DueTime, StartTime, Skipped, Masked, Wday, Day, Day0
  <2>5. ASSUME NEW d \in Nat, ~OffDay(i, d), now <= TimeOn(i, d), TimeOn(i, d) < StartTime(i, now, Never)
        PROVE FALSE
    BY <1>1, <2>5, DaysToStart DEF Never
  <2> QED  BY <1>4, <2>1, <2>3, <2>4, <2>5 DEF OffDay, TimeOn
<1>8. CASE Exec
  <2>1. /\ pc = "while" /\ next # None /\ late = 0 /\ adjusted = 0
        /\ last_stamps' = [last_stamps EXCEPT ![next] = tt]
        /\ Update(tt, last_stamps') /\ UNCHANGED <<wday0, now, tt, up>>
        /\ ran' = [ran EXCEPT ![next] = @ \cup {Day(now)}]
    BY <1>2, <1>8 DEF Exec
  <2>2. Punctual /\ Daily(i)  BY <1>3, <2>1 DEF Punctual
  <2>3. /\ tt = now /\ next \in Cmd /\ next_time = Due(next) /\ Updated \in Nat /\ Updated <= now
        /\ next_time <= now
    BY <1>8, <2>2, ExecutesDue
  <2>4. ~Exhaustion(i) /\ Due(i) = StartTime(i, Updated, last_stamps[i])  BY DueDaily
  <2>5. Cmds[i].interval <= DayLen  OBVIOUS
  <2>6. /\ next_time <= Due(i) /\ Due(i) \in Nat
        /\ now <= next_time \/ Updated = now
    BY <2>1, <2>2, <2>4, <2>5, NotYet
  <2>7. PICK e \in Nat : Due(i) = TimeOn(i, e) /\ Updated <= TimeOn(i, e)
    <3>1. \A l \in Int : \E e \in Nat : StartTime(i, Updated, l) = TimeOn(i, e) /\ Updated <= TimeOn(i, e)
      <4> SUFFICES ASSUME NEW l \in Int
                   PROVE \E e \in Nat : StartTime(i, Updated, l) = TimeOn(i, e) /\ Updated <= TimeOn(i, e)
        OBVIOUS
      <4>1. PICK e \in Nat : StartTime(i, Updated, l) = TimeOn(i, e) /\ Updated <= TimeOn(i, e)
        BY <1>1, <2>3, StartTimeIs
      <4> QED  BY <4>1
    <3> QED  BY <1>1, <2>4, <3>1
  <2>8. now <= Due(i)
    <3>1. Due(i) >= Updated  BY <2>3, <2>6, <2>7
    <3> QED  BY <1>1, <2>3, <2>6, <3>1
  <2>9. i = next => now = TimeOn(i, Day(now))
    <3> SUFFICES ASSUME i = next PROVE now = TimeOn(i, Day(now))  OBVIOUS
    <3>1. now = TimeOn(i, e)  BY <1>1, <2>3, <2>6, <2>7, <2>8
    <3>2. Day(TimeOn(i, e)) = e  BY TimeOnIs
    <3> QED  BY <3>1, <3>2
  <2> DEFINE l == last_stamps'[i]
             r == ran'[i]
  <2>10. /\ i = next => l = now /\ Day(now) \in r
         /\ i # next => l = last_stamps[i]
         /\ ran[i] \subseteq r /\ l \in Nat /\ l <= now
    <3>1. last_stamps[i] <= Updated /\ last_stamps[i] \in Nat  BY <1>1, <2>1, <2>2 DEF Timely
    <3>2. /\ i = next => l = now /\ Day(now) \in r
          /\ i # next => l = last_stamps[i]
          /\ ran[i] \subseteq r
      BY <1>1, <2>1, <2>3
    <3> QED  BY <1>1, <2>3, <3>1, <3>2
  <2>11. l # Never => l = TimeOn(i, Day(l)) /\ Day(l) \in r
    BY <2>2, <2>9, <2>10
  <2>12. Due(i)' = StartTime(i, now, l)
    <3>1. \A ls \in [Cmd -> Nat] : ls = last_stamps' => Updated' = tt
      <4> SUFFICES ASSUME NEW ls \in [Cmd -> Nat], ls = last_stamps' PROVE Updated' = tt  OBVIOUS
      <4>1. Update(tt, ls)  BY <2>1
      <4> QED  BY <1>1, <2>1, <2>3, <4>1, UpdatePlans DEF Basics
    <3>2. last_stamps' \in [Cmd -> Nat]  BY <1>1, <2>1, <2>3
    <3>3. Updated' = now  BY <2>3, <3>1, <3>2
    <3> QED  BY <2>1, <3>3 DEF Due, DueTime, StartTime, Skipped, Masked, Wday, Day, Day0
  <2> HIDE DEF l, r
  <2>13. ASSUME NEW d \in Nat, ~OffDay(i, d), up <= TimeOn(i, d), TimeOn(i, d) < StartTime(i, now, l)
         PROVE d \in r
    <3>1. TimeOn(i, d) \in Nat  BY TimeOnIs
    <3>2. CASE TimeOn(i, d) < Due(i)  BY <2>2, <2>10, <2>13, <3>2
    <3>3. CASE Due(i) <= TimeOn(i, d)
      <4>1. now <= TimeOn(i, d)  BY <1>1, <2>6, <2>8, <3>1, <3>3
      <4>2. l # Never /\ d = Day(l)
        BY <1>1, <2>10, <2>11, <2>13, <4>1, DaysToStart
      <4> QED  BY <2>11, <4>2
    <3> QED  BY <2>6, <3>1, <3>2, <3>3
  <2>14. /\ l # Never => l = TimeOn(i, Day(l)) /\ Day(l) \in r
         /\ \A d \in Nat : ~OffDay(i, d) /\ up <= TimeOn(i, d) /\ TimeOn(i, d) < Due(i)' => d \in r
    BY <2>11, <2>12, <2>13
  <2> QED  BY <1>4, <2>1, <2>14 DEF l, r, TimeOn, Day, OffDay
<1>9. CASE ReadClock \/ Sleep \/ Wake \/ Stop
  <2>1. UNCHANGED <<wday0, plan, ran, up>> /\ pc # "start" /\ late = 0 /\ adjusted = 0
    BY <1>2, <1>9 DEF ReadClock, Sleep, Wake, Stop, history
  <2> QED  BY <1>6, <2>1 DEF Punctual
<1>10. CASE Tick \/ Adjust
  <2>1. UNCHANGED <<wday0, plan, ran, up>> /\ pc # "start" /\ late = 0 /\ adjusted = 0
    BY <1>1, <1>2, <1>10 DEF Tick, Adjust, history
  <2> QED  BY <1>6, <2>1 DEF Punctual
<1>11. CASE UNCHANGED vars
  <2>1. UNCHANGED <<wday0, plan, ran, up>> /\ pc # "start" /\ late = 0 /\ adjusted = 0
    BY <1>2, <1>11 DEF vars, history
  <2> QED  BY <1>6, <2>1 DEF Punctual
<1> QED  BY <1>7, <1>8, <1>9, <1>10, <1>11 DEF Next

(* On a day that is over the command's time has come.                       *)
LEMMA DayIsOver ==
  ASSUME Basics, Starting, Timely, Dailies PROVE DailyRuns
<1> SUFFICES ASSUME Punctual, pc # "exited", NEW i \in Cmd, NEW d \in 0..Day(Horizon),
                    Cmds[i].interval = 0, (wday0 + d) % 7 \notin Cmds[i].days_off,
                    up <= d * DayLen, (d + 1) * DayLen <= now
             PROVE d \in ran[i]
  BY DEF DailyRuns
<1>1. /\ now \in Nat /\ next_time \in Nat /\ up \in Nat
      /\ pc \in {"start", "top", "while", "poll"}
  BY DEF Basics, TypeOK
<1>2. /\ d \in Nat /\ ~OffDay(i, d) /\ d * DayLen \in Int
      /\ (d + 1) * DayLen = d * DayLen + DayLen
  BY SMTT(30) DEF OffDay
<1>3. TimeOn(i, d) \in Nat /\ d * DayLen <= TimeOn(i, d) /\ TimeOn(i, d) < d * DayLen + DayLen
  BY <1>2, TimeOnIs
<1>4. up <= TimeOn(i, d) /\ TimeOn(i, d) < now /\ up < now  BY <1>1, <1>2, <1>3
<1>5. pc # "start"  BY <1>1, <1>4 DEF Starting
<1>6. ~Exhaustion(i) /\ Cmds[i].interval <= DayLen  BY DueDaily
<1>7. /\ next_time <= Due(i) /\ Due(i) \in Nat /\ Updated \in Nat
      /\ now <= next_time \/ Updated = now
  BY <1>1, <1>5, <1>6, NotYet
<1>8. Updated <= Due(i)
  <2>1. \A l \in Int : Updated <= StartTime(i, Updated, l)
    <3> SUFFICES ASSUME NEW l \in Int PROVE Updated <= StartTime(i, Updated, l)  OBVIOUS
    <3>1. PICK e \in Nat : StartTime(i, Updated, l) = TimeOn(i, e) /\ Updated <= TimeOn(i, e)
      BY <1>7, StartTimeIs DEF Basics, TypeOK
    <3> QED  BY <3>1
  <2>2. last_stamps[i] \in Int  BY DEF Basics, TypeOK
  <2> QED  BY <2>1, <2>2, DueDaily
<1>9. TimeOn(i, d) < Due(i)  BY <1>1, <1>3, <1>4, <1>7, <1>8
<1> QED  BY <1>2, <1>4, <1>5, <1>9 DEF Dailies

-----------------------------------------------------------------------------
(* Masked days.                                                             *)

(* The time of the next repetition, before the mask is looked at.           *)
Again(i) == last_stamps[i] + Cmds[i].interval

(* A command whose mask is kept ran on no masked day; and when it is to be  *)
(* repeated, the plan was made before that time, or at the latest on the    *)
(* day after it when its day is masked.                                     *)
Kept(i) ==
  /\ \A d \in ran[i] : ~OffDay(i, d)
  /\ Cmds[i].interval > 0 /\ last_stamps[i] # Never =>
       IF OffDay(i, Day(Again(i))) THEN Day(Updated) <= Day(Again(i)) + 1
                                   ELSE Updated <= Again(i)

Masks == Punctual /\ pc # "start" => \A i \in Cmd : MaskIsKept(i) => Kept(i)

(* No two days running are masked.                                          *)
LEMMA NextDayIsOn ==
  ASSUME wday0 \in 0..6, NEW i \in Cmd, Cmds[i].interval > 0, MaskIsKept(i),
         NEW d \in Nat, OffDay(i, d)
  PROVE ~OffDay(i, d + 1)
<1>1. (wday0 + (d + 1)) % 7 = (((wday0 + d) % 7) + 1) % 7  BY SMTT(30)
<1> QED  BY <1>1 DEF MaskIsKept, OffDay

(* A repetition whose day is not masked is due at its time; one whose day   *)
(* is masked, a day later, or at its time when that day has come.           *)
LEMMA RepeatDue ==
  ASSUME wday0 \in 0..6, NEW i \in Cmd, Cmds[i].interval > 0, MaskIsKept(i),
         NEW u \in Nat, NEW last \in Nat, last <= u
  PROVE LET t == last + Cmds[i].interval
            r == RepeatTime(i, u, last)
        IN  /\ ~OffDay(i, Day(t)) /\ u <= t => r = t
            /\ OffDay(i, Day(t)) /\ Day(u) <= Day(t) => r = t + DayLen
            /\ OffDay(i, Day(t)) /\ Day(u) = Day(t) + 1 => r = t
<1> DEFINE t == last + Cmds[i].interval
           r == RepeatTime(i, u, last)
           j == IF t >= Day0(u) + DayLen THEN 1 ELSE 0
<1>1. /\ Cmds[i].interval \in Int /\ Cmds[i].interval <= DayLen /\ Cmds[i].days_off # 0..6
  BY CmdsAre DEF MaskIsKept
<1>2. t \in Nat /\ t <= u + DayLen  BY <1>1
<1>3. /\ Day(t) \in Nat /\ Day(t) * DayLen <= t /\ t < Day(t) * DayLen + DayLen
      /\ Day(u) \in Nat /\ Day(u) * DayLen <= u /\ u < Day(u) * DayLen + DayLen
      /\ Day0(u) = Day(u) * DayLen
      /\ Day(t) * DayLen \in Int /\ Day(u) * DayLen \in Int
  <2> HIDE DEF t
  <2>1. \A n \in Int : n * DayLen \in Int  BY SMTT(30)
  <2>2. Day(t) \in Nat /\ Day(t) * DayLen <= t /\ t < Day(t) * DayLen + DayLen
    BY <1>2, DayIs
  <2>3. /\ Day(u) \in Nat /\ Day(u) * DayLen <= u /\ u < Day(u) * DayLen + DayLen
        /\ Day0(u) = Day(u) * DayLen
    BY DayIs
  <2>4. Day(t) * DayLen \in Int /\ Day(u) * DayLen \in Int  BY <2>1, <2>2, <2>3
  <2> QED  BY <2>2, <2>3, <2>4
<1>4. PICK k \in 0..(7 - j) :
        /\ r = t + k * DayLen
        /\ \A m \in 0..(k - 1) : OffDay(i, Day(u) + j + m)
        /\ Cmds[i].days_off # 0..6 => ~OffDay(i, Day(u) + j + k)
  BY RepeatTimeIs, Zenon
<1>5. 0 * DayLen = 0 /\ 1 * DayLen = DayLen  OBVIOUS
<1>6. (Day(u) + 2) * DayLen = Day(u) * DayLen + 2 * DayLen /\ (Day(u) + 1) * DayLen = Day(u) * DayLen + DayLen
  BY <1>3, SMTT(30)
<1> HIDE DEF t, r
<1>7. ASSUME Day(u) <= Day(t) PROVE Day(u) + j = Day(t)
  <2>1. Day(t) <= Day(u) + 1
    <3> SUFFICES ASSUME Day(u) + 2 <= Day(t) PROVE FALSE  BY <1>3
    <3>1. (Day(u) + 2) * DayLen <= Day(t) * DayLen  BY <1>3, Monotone
    <3> QED  BY <1>2, <1>3, <1>6, <3>1
  <2>2. CASE Day(t) = Day(u)
    <3>1. t < Day(u) * DayLen + DayLen  BY <1>3, <2>2
    <3> QED  BY <1>2, <1>3, <2>2, <3>1
  <2>3. CASE Day(t) = Day(u) + 1
    <3>1. Day(u) * DayLen + DayLen <= t  BY <1>3, <1>6, <2>3
    <3>2. t >= Day0(u) + DayLen  BY <1>2, <1>3, <3>1
    <3>3. j = 1  BY <3>2
    <3> HIDE DEF j
    <3> QED  BY <2>3, <3>3
  <2>4. Day(t) = Day(u) \/ Day(t) = Day(u) + 1
    <3>1. Day(t) \in Int /\ Day(u) \in Int /\ Day(u) <= Day(t)  BY <1>3, <1>7
    <3> QED  BY <2>1, <3>1
  <2> HIDE DEF j
  <2> QED  BY <2>2, <2>3, <2>4
<1>8. k \in 0..7 /\ k \in Nat  OBVIOUS
<1>9. ASSUME ~OffDay(i, Day(t)), u <= t PROVE r = t
  <2>1. Day(u) + j = Day(t)  BY <1>2, <1>7, <1>9, DayGrows
  <2>2. k = 0
    <3> SUFFICES ASSUME k # 0 PROVE FALSE  OBVIOUS
    <3>1. 0 \in 0..(k - 1)  BY <1>8
    <3>2. OffDay(i, Day(u) + j + 0)  BY <1>4, <3>1
    <3> HIDE DEF j
    <3>3. Day(u) + j + 0 = Day(t)  BY <1>3, <2>1
    <3> QED  BY <1>9, <3>2, <3>3
  <2> QED  BY <1>2, <1>4, <1>5, <2>2
<1>10. ASSUME OffDay(i, Day(t)), Day(u) <= Day(t) PROVE r = t + DayLen
  <2>1. Day(u) + j = Day(t)  BY <1>7, <1>10
  <2>2. ~OffDay(i, Day(t) + 1)  BY <1>3, <1>10, NextDayIsOn
  <2>3. k # 0
    <3> SUFFICES ASSUME k = 0 PROVE FALSE  OBVIOUS
    <3>1. ~OffDay(i, Day(u) + j + 0)  BY <1>1, <1>4
    <3> HIDE DEF j
    <3>2. Day(u) + j + 0 = Day(t)  BY <1>3, <2>1
    <3> QED  BY <1>10, <3>1, <3>2
  <2>4. k < 2
    <3> SUFFICES ASSUME k >= 2 PROVE FALSE  BY <1>8
    <3>1. 1 \in 0..(k - 1)  BY <1>8
    <3>2. OffDay(i, Day(u) + j + 1)  BY <1>4, <3>1
    <3> QED  BY <2>1, <2>2, <3>2
  <2>5. k = 1  BY <1>8, <2>3, <2>4
  <2> QED  BY <1>2, <1>4, <1>5, <2>5
<1>11. ASSUME OffDay(i, Day(t)), Day(u) = Day(t) + 1 PROVE r = t
  <2>1. ~OffDay(i, Day(t) + 1)  BY <1>3, <1>11, NextDayIsOn
  <2>2. j = 0
    <3>1. (Day(t) + 1) * DayLen = Day(t) * DayLen + DayLen  BY <1>3, SMTT(30)
    <3> QED  BY <1>2, <1>3, <1>11, <3>1
  <2>3. k = 0
    <3> SUFFICES ASSUME k # 0 PROVE FALSE  OBVIOUS
    <3>1. 0 \in 0..(k - 1)  BY <1>8
    <3>2. OffDay(i, Day(u) + j + 0)  BY <1>4, <3>1
    <3> HIDE DEF j
    <3>3. Day(u) + j + 0 = Day(t) + 1  BY <1>3, <1>11, <2>2
    <3> QED  BY <2>1, <3>2, <3>3
  <2> QED  BY <1>2, <1>4, <1>5, <2>3
<1> QED  BY <1>9, <1>10, <1>11 DEF t, r

(* What is due and may be executed: its day is not masked.                  *)
LEMMA RunsOnItsDay ==
  ASSUME Basics, Timely, Masks, Punctual, Exec, MaskIsKept(next)
  PROVE ~OffDay(next, Day(now))
<1>1. /\ pc = "while" /\ next \in Cmd /\ now \in Nat /\ now >= DayLen
      /\ ~Exhaustion(next) /\ next_time = Due(next) /\ Due(next) \in Nat
      /\ Updated \in Nat /\ Updated <= now /\ next_time <= now
  BY ExecutesDue
<1>2. /\ wday0 \in 0..6 /\ last_stamps \in [Cmd -> Nat] /\ last_stamps[next] <= Updated
      /\ last_stamps[next] \in Nat
  BY <1>1 DEF Basics, TypeOK, Timely
<1>3. Cmds[next].interval \in Int /\ Cmds[next].days_off # 0..6
      /\ (Cmds[next].interval > 0 => Cmds[next].interval <= DayLen)
      /\ Cmds[next].interval <= DayLen
  <2>1. Cmds[next].interval \in Int  BY <1>1, CmdsAre
  <2>2. Cmds[next].interval > 0 => Cmds[next].interval <= DayLen  BY DEF MaskIsKept
  <2> QED  BY <2>1, <2>2 DEF MaskIsKept
<1>4. now <= Due(next) \/ Updated = now  BY <1>1, <1>3, NotYet
<1>5. CASE last_stamps[next] = Never \/ Cmds[next].interval = 0
  <2>1. Due(next) = StartTime(next, Updated, last_stamps[next])  BY <1>5 DEF Due, DueTime
  <2>2. \A l \in Int : \E d \in Nat : /\ StartTime(next, Updated, l) = TimeOn(next, d)
                                      /\ ~OffDay(next, d) /\ Updated <= TimeOn(next, d)
    <3> SUFFICES ASSUME NEW l \in Int
                 PROVE \E d \in Nat : /\ StartTime(next, Updated, l) = TimeOn(next, d)
                                      /\ ~OffDay(next, d) /\ Updated <= TimeOn(next, d)
      OBVIOUS
    <3>1. PICK d \in Nat : /\ StartTime(next, Updated, l) = TimeOn(next, d)
                           /\ ~OffDay(next, d) /\ Updated <= TimeOn(next, d)
      BY <1>1, <1>2, <1>3, StartTimeIs
    <3> QED  BY <3>1
  <2>3. PICK d \in Nat : /\ Due(next) = TimeOn(next, d)
                         /\ ~OffDay(next, d) /\ Updated <= TimeOn(next, d)
    BY <1>2, <2>1, <2>2
  <2>4. TimeOn(next, d) = now  BY <1>1, <1>4, <2>3
  <2>5. Day(TimeOn(next, d)) = d  BY <1>1, TimeOnIs
  <2> QED  BY <2>3, <2>4, <2>5
<1>6. CASE ~(last_stamps[next] = Never \/ Cmds[next].interval = 0)
  <2> DEFINE t == Again(next)
  <2>1. Cmds[next].interval > 0 /\ last_stamps[next] # Never
    BY <1>1, <1>3, <1>6 DEF Exhaustion, Exhausted
  <2>2. Due(next) = RepeatTime(next, Updated, last_stamps[next])  BY <1>6 DEF Due, DueTime
  <2>3. /\ ~OffDay(next, Day(t)) /\ Updated <= t => Due(next) = t
        /\ OffDay(next, Day(t)) /\ Day(Updated) <= Day(t) => Due(next) = t + DayLen
        /\ OffDay(next, Day(t)) /\ Day(Updated) = Day(t) + 1 => Due(next) = t
    BY <1>1, <1>2, <2>1, <2>2, RepeatDue DEF Again
  <2>4. t \in Nat  BY <1>2, <1>3, <2>1 DEF Again
  <2>5. IF OffDay(next, Day(t)) THEN Day(Updated) <= Day(t) + 1 ELSE Updated <= t
    BY <1>1, <2>1 DEF Masks, Kept
  <2> HIDE DEF t
  <2>6. Day(t) \in Nat /\ Day(Updated) \in Nat  BY <1>1, <2>4, DayIs
  <2>7. CASE ~OffDay(next, Day(t))
    <3>1. now = t  BY <1>1, <1>4, <2>3, <2>4, <2>5, <2>7
    <3> QED  BY <2>7, <3>1
  <2>8. CASE OffDay(next, Day(t)) /\ Day(Updated) <= Day(t)
    <3>1. Due(next) = t + DayLen  BY <2>3, <2>8
    <3>2. Day(t + DayLen) = Day(t) + 1
      <4>1. Day(t) * DayLen <= t /\ t < Day(t) * DayLen + DayLen  BY <2>4, DayIs
      <4>2. (Day(t) + 1) * DayLen = Day(t) * DayLen + DayLen /\ Day(t) * DayLen \in Int
        BY <2>6, SMTT(30)
      <4>3. /\ t + DayLen \in Nat /\ Day(t) + 1 \in Int
            /\ (Day(t) + 1) * DayLen <= t + DayLen /\ t + DayLen < (Day(t) + 1) * DayLen + DayLen
        BY <2>4, <2>6, <4>1, <4>2
      <4> QED  BY <4>3, DayOf
    <3>3. now # Updated
      <4> SUFFICES ASSUME now = Updated PROVE FALSE  OBVIOUS
      <4>1. Day(t + DayLen) <= Day(Updated)  BY <1>1, <2>4, <3>1, DayGrows
      <4> QED  BY <2>6, <2>8, <3>2, <4>1
    <3>4. now = t + DayLen  BY <1>1, <1>4, <2>4, <3>1, <3>3
    <3> QED  BY <1>1, <1>2, <2>1, <2>6, <2>8, <3>2, <3>4, NextDayIsOn
  <2>9. CASE OffDay(next, Day(t)) /\ Day(Updated) = Day(t) + 1
    <3>1. Due(next) = t  BY <2>3, <2>9
    <3>2. ~(now <= t)
      <4> SUFFICES ASSUME now <= t PROVE FALSE  OBVIOUS
      <4>1. Updated <= t  BY <1>1, <2>4
      <4>2. Day(Updated) <= Day(t)  BY <1>1, <2>4, <4>1, DayGrows
      <4> QED  BY <2>6, <2>9, <4>2
    <3>3. now = Updated  BY <1>4, <3>1, <3>2
    <3> QED  BY <1>1, <1>2, <2>1, <2>6, <2>9, <3>3, NextDayIsOn
  <2> QED  BY <2>5, <2>6, <2>7, <2>8, <2>9
<1> QED  BY <1>5, <1>6

(* Once another command is executed, the next repetition is not past: not   *)
(* by more than the day of a mask.                                          *)
LEMMA PlansAgain ==
  ASSUME Basics, Timely, Masks, Punctual, Exec, NEW i \in Cmd, MaskIsKept(i),
         Cmds[i].interval > 0, last_stamps[i] # Never
  PROVE IF OffDay(i, Day(Again(i))) THEN Day(now) <= Day(Again(i)) + 1 ELSE now <= Again(i)
<1>1. /\ pc = "while" /\ now \in Nat /\ Updated \in Nat /\ Updated <= now
  BY ExecutesDue
<1>2. /\ wday0 \in 0..6 /\ last_stamps \in [Cmd -> Nat] /\ last_stamps[i] <= Updated
      /\ last_stamps[i] \in Nat /\ next_time \in Nat
  BY <1>1 DEF Basics, TypeOK, Timely
<1>3. Cmds[i].interval \in Int /\ Cmds[i].interval <= DayLen
  BY CmdsAre DEF MaskIsKept
<1>4. ~Exhaustion(i) /\ Due(i) = RepeatTime(i, Updated, last_stamps[i])
  <2>1. ~(Cmds[i].interval < 0) /\ Cmds[i].interval # 0  BY <1>3
  <2> QED  BY <2>1 DEF Exhaustion, Exhausted, Due, DueTime
<1>5. Due(i) \in Nat /\ (now <= Due(i) \/ Updated = now)
  <2>1. /\ next_time <= Due(i) /\ Due(i) \in Nat
        /\ now <= next_time \/ Updated = now
    BY <1>1, <1>3, <1>4, NotYet
  <2> QED  BY <1>1, <1>2, <2>1
<1> DEFINE t == Again(i)
<1>6. /\ ~OffDay(i, Day(t)) /\ Updated <= t => Due(i) = t
      /\ OffDay(i, Day(t)) /\ Day(Updated) <= Day(t) => Due(i) = t + DayLen
      /\ OffDay(i, Day(t)) /\ Day(Updated) = Day(t) + 1 => Due(i) = t
  BY <1>1, <1>2, <1>4, RepeatDue DEF Again
<1>7. t \in Nat  BY <1>2, <1>3 DEF Again
<1>8. IF OffDay(i, Day(t)) THEN Day(Updated) <= Day(t) + 1 ELSE Updated <= t
  BY <1>1 DEF Masks, Kept
<1> HIDE DEF t
<1>9. Day(t) \in Nat /\ Day(Updated) \in Nat /\ Day(now) \in Nat  BY <1>1, <1>7, DayIs
<1>10. CASE ~OffDay(i, Day(t))
  <2>1. now <= t  BY <1>1, <1>5, <1>6, <1>7, <1>8, <1>10
  <2> QED  BY <1>10, <2>1 DEF t
<1>11. CASE OffDay(i, Day(t)) /\ Day(Updated) <= Day(t)
  <2>1. CASE Updated = now  BY <1>9, <1>11, <2>1 DEF t
  <2>2. CASE now <= Due(i)
    <3>1. now <= t + DayLen /\ t + DayLen \in Nat  BY <1>6, <1>7, <1>11, <2>2
    <3>2. Day(t + DayLen) = Day(t) + 1
      <4>1. Day(t) * DayLen <= t /\ t < Day(t) * DayLen + DayLen  BY <1>7, DayIs
      <4>2. (Day(t) + 1) * DayLen = Day(t) * DayLen + DayLen /\ Day(t) * DayLen \in Int
        BY <1>9, SMTT(30)
      <4>3. /\ t + DayLen \in Nat /\ Day(t) + 1 \in Int
            /\ (Day(t) + 1) * DayLen <= t + DayLen /\ t + DayLen < (Day(t) + 1) * DayLen + DayLen
        BY <1>7, <1>9, <4>1, <4>2
      <4> QED  BY <4>3, DayOf
    <3>3. Day(now) <= Day(t) + 1
      <4>1. Day(now) <= Day(t + DayLen)  BY <1>1, <3>1, DayGrows
      <4> QED  BY <3>2, <4>1
    <3> QED  BY <1>11, <3>3 DEF t
  <2> QED  BY <1>5, <2>1, <2>2
<1>12. CASE OffDay(i, Day(t)) /\ Day(Updated) = Day(t) + 1
  <2>1. CASE Updated = now
    <3>1. Day(now) <= Day(t) + 1  BY <1>9, <1>12, <2>1
    <3> QED  BY <1>12, <3>1 DEF t
  <2>2. CASE now <= Due(i)
    <3>1. now <= t  BY <1>6, <1>12, <2>2
    <3>2. Day(now) <= Day(t)  BY <1>1, <1>7, <3>1, DayGrows
    <3>3. Day(now) <= Day(t) + 1  BY <1>9, <3>2
    <3> QED  BY <1>12, <3>3 DEF t
  <2> QED  BY <1>5, <2>1, <2>2
<1> QED  BY <1>8, <1>9, <1>10, <1>11, <1>12

(* A step keeps the masks.                                                  *)
LEMMA StepMasks ==
  ASSUME Basics, Starting, Timely, Masks, [Next]_vars PROVE Masks'
<1> SUFFICES ASSUME Punctual', pc' # "start", NEW i \in Cmd, MaskIsKept(i) PROVE Kept(i)'
  BY DEF Masks, MaskIsKept
<1>1. /\ now \in Nat /\ now >= DayLen /\ late \in Nat /\ adjusted \in Nat /\ wday0 \in 0..6
      /\ last_stamps \in [Cmd -> Nat] /\ next \in Cmd \cup {None}
      /\ ran \in [Cmd -> SUBSET (0..Day(Horizon))]
  BY DEF Basics, TypeOK
<1>2. late' = 0 /\ adjusted' = 0  BY DEF Punctual
<1>3. ASSUME UNCHANGED <<wday0, plan, ran>>, Punctual, pc # "start" PROVE Kept(i)'
  <2>1. Updated' = Updated /\ last_stamps' = last_stamps  BY <1>3, PlanStands DEF plan
  <2>2. Kept(i)  BY <1>3 DEF Masks
  <2> QED  BY <1>3, <2>1, <2>2 DEF Kept, OffDay, Again, Day
<1>4. CASE Start
  <2>1. pc = "start" /\ UNCHANGED <<last_stamps, ran>>  BY <1>4 DEF Start, history
  <2> QED  BY <2>1 DEF Starting, Kept
<1>5. CASE Exec
  <2>1. /\ pc = "while" /\ late = 0 /\ adjusted = 0
        /\ last_stamps' = [last_stamps EXCEPT ![next] = tt]
        /\ Update(tt, last_stamps') /\ UNCHANGED <<wday0, now>>
        /\ ran' = [ran EXCEPT ![next] = @ \cup {Day(now)}]
    BY <1>2, <1>5 DEF Exec
  <2>2. Punctual /\ Kept(i)  BY <2>1 DEF Punctual, Masks
  <2>3. tt = now /\ next \in Cmd  BY <1>5, <2>2, ExecutesDue
  <2>4. Updated' = now
    <3>1. \A ls \in [Cmd -> Nat] : ls = last_stamps' => Updated' = tt
      <4> SUFFICES ASSUME NEW ls \in [Cmd -> Nat], ls = last_stamps' PROVE Updated' = tt  OBVIOUS
      <4>1. Update(tt, ls)  BY <2>1
      <4> QED  BY <1>1, <2>1, <2>3, <4>1, UpdatePlans DEF Basics
    <3>2. last_stamps' \in [Cmd -> Nat]  BY <1>1, <2>1, <2>3
    <3> QED  BY <2>3, <3>1, <3>2
  <2>5. CASE i = next
    <3>1. last_stamps'[i] = now /\ ran'[i] = ran[i] \cup {Day(now)}  BY <1>1, <2>1, <2>3, <2>5
    <3>2. ~OffDay(i, Day(now))  BY <1>5, <2>2, <2>5, RunsOnItsDay
    <3>3. \A d \in ran'[i] : ~OffDay(i, d)  BY <2>2, <3>1, <3>2 DEF Kept
    <3> DEFINE t == now + Cmds[i].interval
    <3>4. Cmds[i].interval > 0 => now <= t /\ Day(now) <= Day(t) + 1
      <4> SUFFICES ASSUME Cmds[i].interval > 0 PROVE now <= t /\ Day(now) <= Day(t) + 1  OBVIOUS
      <4>1. Cmds[i].interval \in Int  BY CmdsAre
      <4>2. t \in Nat /\ now <= t  BY <1>1, <4>1
      <4> HIDE DEF t
      <4>3. Day(now) <= Day(t) /\ Day(now) \in Nat /\ Day(t) \in Nat  BY <1>1, <4>2, DayGrows, DayIs
      <4> QED  BY <4>2, <4>3
    <3>5. Again(i)' = t  BY <3>1 DEF Again
    <3> HIDE DEF t
    <3> QED  BY <2>1, <2>4, <3>3, <3>4, <3>5 DEF Kept, OffDay, Day
  <2>6. CASE i # next
    <3>1. last_stamps'[i] = last_stamps[i] /\ ran'[i] = ran[i]  BY <1>1, <2>1, <2>3, <2>6
    <3>2. Again(i)' = Again(i)  BY <3>1 DEF Again
    <3>3. Cmds[i].interval > 0 /\ last_stamps[i] # Never =>
            IF OffDay(i, Day(Again(i))) THEN Day(now) <= Day(Again(i)) + 1 ELSE now <= Again(i)
      BY <1>5, <2>2, PlansAgain
    <3> QED  BY <2>1, <2>2, <2>4, <3>1, <3>2, <3>3 DEF Kept, OffDay, Day
  <2> QED  BY <2>5, <2>6
<1>6. CASE ReadClock \/ Sleep \/ Wake \/ Stop
  <2>1. UNCHANGED <<wday0, plan, ran>> /\ pc # "start" /\ late = 0 /\ adjusted = 0
    BY <1>2, <1>6 DEF ReadClock, Sleep, Wake, Stop, history
  <2> QED  BY <1>3, <2>1 DEF Punctual
<1>7. CASE Tick \/ Adjust
  <2>1. UNCHANGED <<wday0, plan, ran>> /\ pc # "start" /\ late = 0 /\ adjusted = 0
    BY <1>1, <1>2, <1>7 DEF Tick, Adjust, history
  <2> QED  BY <1>3, <2>1 DEF Punctual
<1>8. CASE UNCHANGED vars
  <2>1. UNCHANGED <<wday0, plan, ran>> /\ pc # "start" /\ late = 0 /\ adjusted = 0
    BY <1>2, <1>8 DEF vars, history
  <2> QED  BY <1>3, <2>1 DEF Punctual
<1> QED  BY <1>4, <1>5, <1>6, <1>7, <1>8 DEF Next

-----------------------------------------------------------------------------
(* The theorems.                                                            *)

(* What the scheduler's steps preserve.                                     *)
Inv == Basics /\ Passes /\ Starting /\ Timely /\ Dailies /\ Masks

(* The process keeps them all, from its start.                              *)
THEOREM Invariance == Spec => []Inv
<1>1. Init => Inv
  BY InitTypes DEF Init, Inv, Passes, Starting, Timely, Dailies, Masks
<1>2. Inv /\ [Next]_vars => Inv'
  BY StepTypes, StepPasses, StepStarting, StepTimely, StepDailies, StepMasks DEF Inv
<1> QED  BY <1>1, <1>2, PTL DEF Spec

(* The scheduler's variables keep their types: a wait is never negative but *)
(* for the one without a timeout, and never longer than the delay.          *)
THEOREM TypeCorrect == Spec => []TypeOK
BY Invariance, PTL DEF Inv, Basics

(* However late the process wakes or far its clock is set back, one reading *)
(* of the clock executes no command twice.                                  *)
THEOREM NotTwice == Spec => NotTwiceInAPass
<1>1. Inv /\ [Next]_vars => [\A i \in Cmd : runs'[i] > runs[i] => i \notin pass]_vars
  <2> SUFFICES ASSUME Inv, [Next]_vars, NEW i \in Cmd, runs'[i] > runs[i] PROVE i \notin pass
    OBVIOUS
  <2>1. runs \in [Cmd -> Nat] /\ next \in Cmd \cup {None}  BY DEF Inv, Basics, TypeOK
  <2>2. CASE Exec
    <3>1. next \in Cmd /\ runs' = [runs EXCEPT ![next] = runs[next] + 1]
      BY <2>1, <2>2 DEF Exec
    <3>2. i = next  BY <2>1, <3>1
    <3> QED  BY <2>2, <3>2, ExecutesAnother DEF Inv
  <2>3. CASE Start \/ ReadClock \/ Sleep \/ Wake \/ Stop \/ Tick \/ Adjust \/ UNCHANGED vars
    <3>1. runs' = runs
      BY <2>3 DEF Start, ReadClock, Sleep, Wake, Stop, Tick, Adjust, vars, history
    <3> QED  BY <2>1, <3>1
  <2> QED  BY <2>2, <2>3 DEF Next
<1> QED  BY <1>1, Invariance, PTL DEF Spec, NotTwiceInAPass

(* A punctual process does not sleep past the time of the next command, if  *)
(* poll can wait that long.                                                 *)
THEOREM NotOverslept == Spec => []DueIsExecuted
<1>1. Inv => DueIsExecuted
  <2> SUFFICES ASSUME Inv, Punctual, pc = "poll", next # None, delay <= MaxWait
               PROVE now <= next_time
    BY DEF DueIsExecuted
  <2>1. rest \in Nat /\ now + rest = next_time  BY DEF Inv, Timely, InTime
  <2>2. now \in Nat  BY DEF Inv, Basics, TypeOK
  <2> QED  BY <2>1, <2>2
<1> QED  BY <1>1, Invariance, PTL

(* A punctual process executes a daily command on every unmasked day that   *)
(* it is up all day.                                                        *)
THEOREM EveryDay == Spec => []DailyRuns
<1>1. Inv => DailyRuns  BY DayIsOver DEF Inv
<1> QED  BY <1>1, Invariance, PTL

(* A punctual process executes no command on a masked day, the three kinds  *)
(* of MaskIsKept apart.                                                     *)
THEOREM MasksAreKept == Spec => []MaskDaysAreSkipped
<1>1. Inv => MaskDaysAreSkipped
  <2> SUFFICES ASSUME Inv, Punctual, NEW i \in Cmd, MaskIsKept(i), NEW d \in ran[i]
               PROVE (wday0 + d) % 7 \notin Cmds[i].days_off
    BY DEF MaskDaysAreSkipped
  <2>1. CASE pc = "start"  BY <2>1 DEF Inv, Starting
  <2>2. CASE pc # "start"  BY <2>2 DEF Inv, Masks, Kept, OffDay
  <2> QED  BY <2>1, <2>2
<1> QED  BY <1>1, Invariance, PTL
=============================================================================
