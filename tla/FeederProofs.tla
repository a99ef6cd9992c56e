----------------------------- MODULE FeederProofs -----------------------------
(***************************************************************************)
(* What is proved of the feeder, in the order of a feed: when it starts    *)
(* (Feeder), its children and the handlers of SIGCHLD, the scheduler's too *)
(* (Children), how what the parser writes is read (XmlReader, Feed), what  *)
(* is stored of it (FeederStore), and who is told (Notification).  Only    *)
(* Feed and Children have variables in common.                             *)
(***************************************************************************)
EXTENDS Feeder, Feed, FeederStore, Notification, FiniteSetTheorems, WellFoundedInduction,
        SequenceTheorems, TLAPS

-----------------------------------------------------------------------------
(* The schedule.  A feed is due only in the hours of a day and after the    *)
(* delay, and each of these stays away for a time that can be told          *)
(* (NotDueFor, Lag).  So the wait that was computed and the lags of the     *)
(* steps since bound how long a feed has been due.                          *)

USE FeederAssumption

(* A day and a week have a positive number of seconds.                     *)
LEMMA DayLenIs == DayLen \in Nat \ {0} /\ Week * DayLen \in Nat \ {0}
<1>1. DayLen \in Nat \ {0}  BY DEF DayLen
<1> HIDE DEF DayLen
<1> QED  BY <1>1

(* The clock of a day, and its minutes.                                     *)
LEMMA DayClock ==
  ASSUME now \in Nat
  PROVE /\ Wday \in Int /\ DaySec \in 0..(DayLen - 1) /\ now = Wday * DayLen + DaySec
        /\ DayMin \in Int /\ DayMin * MinuteLen <= DaySec
        /\ DaySec <= DayMin * MinuteLen + (MinuteLen - 1) /\ DayMin < DayMinutes
<1>1. Wday \in Int /\ DaySec \in 0..(DayLen - 1) /\ now = Wday * DayLen + DaySec
  BY DayLenIs, SMTT(30) DEF Wday, DaySec
<1>2. /\ DayMin \in Int /\ DayMin * MinuteLen <= DaySec
      /\ DaySec <= DayMin * MinuteLen + (MinuteLen - 1)
  BY <1>1, DayLenIs, SMTT(30) DEF DayMin
<1>3. DayMin * MinuteLen < DayMinutes * MinuteLen
  BY <1>1, <1>2, DayLenIs DEF DayLen
<1>4. DayMin < DayMinutes
  BY <1>2, <1>3, SMTT(30)
<1> QED  BY <1>1, <1>2, <1>4

(* A second later it is the next of the day, or midnight.                   *)
LEMMA NextSecond ==
  ASSUME now \in 0..(Week * DayLen - 1), now' = (now + 1) % (Week * DayLen)
  PROVE /\ now' \in 0..(Week * DayLen - 1)
        /\ DaySec + 1 = DayLen => DaySec' = 0
        /\ DaySec + 1 < DayLen => DaySec' = DaySec + 1 /\ Wday' = Wday
<1> DEFINE w == Week * DayLen
           d == DayLen
<1>1. w \in Nat \ {0} /\ d \in Nat \ {0} /\ w = Week * d  BY DayLenIs
<1> HIDE DEF w, d
<1>2. Wday \in Int /\ DaySec \in 0..(d - 1) /\ now = Wday * d + DaySec
  BY DayClock, <1>1 DEF d, w
<1>3. now' = (now + 1) % w /\ now \in 0..(w - 1)  BY DEF w
<1>4. now + 1 = w \/ (now + 1 < w /\ now' = now + 1)
  BY <1>1, <1>3
<1>5. now + 1 = w => now' = 0
  BY <1>1, <1>3
<1>6. CASE now + 1 = w
  <2>1. (now + 1) % d = 0
    <3>1. \A k \in Nat : (k * d) % d = 0  BY <1>1, SMTT(30)
    <3> QED  BY <1>1, <1>6, <3>1
  <2>2. DaySec + 1 = d
    <3>1. (Wday * d + (DaySec + 1)) % d = 0  BY <1>1, <1>2, <2>1
    <3>2. CASE DaySec + 1 < d
      <4>1. (Wday * d + (DaySec + 1)) % d = DaySec + 1  BY <1>1, <1>2, <3>2, SMTT(30)
      <4> QED  BY <1>2, <3>1, <4>1
    <3> QED  BY <1>1, <1>2, <3>2
  <2>3. DaySec' = 0  BY <1>1, <1>5, <1>6 DEF DaySec, d
  <2> QED  BY <1>3, <1>5, <1>6, <1>1, <2>2, <2>3 DEF d, w
<1>7. CASE now + 1 < w /\ now' = now + 1
  <2>1. DaySec + 1 = d => (now + 1) % d = 0
    BY <1>1, <1>2, SMTT(30)
  <2>2. DaySec + 1 < d => (now + 1) % d = DaySec + 1 /\ (now + 1) \div d = Wday
    BY <1>1, <1>2, SMTT(30)
  <2>3. DaySec' = (now + 1) % d /\ Wday' = (now + 1) \div d
    BY <1>7 DEF DaySec, Wday, d
  <2> QED  BY <1>1, <1>3, <1>7, <2>1, <2>2, <2>3 DEF d, w
<1> QED  BY <1>4, <1>6, <1>7

(* Minutes only go by in the course of a day.                               *)
LEMMA NextMinute ==
  ASSUME now \in 0..(Week * DayLen - 1), now' = (now + 1) % (Week * DayLen),
         DaySec + 1 < DayLen
  PROVE DayMin <= DayMin'
<1>1. DaySec' = DaySec + 1 /\ DaySec \in Int  BY NextSecond, DayClock, DayLenIs
<1>2. DayMin' = (DaySec + 1) \div MinuteLen  BY <1>1 DEF DayMin
<1>3. DaySec \div MinuteLen <= (DaySec + 1) \div MinuteLen  BY <1>1, SMTT(30)
<1> QED  BY <1>2, <1>3 DEF DayMin

-----------------------------------------------------------------------------
(* No feed is due for n ticks, whatever happens.                            *)
NotDueFor(n) ==
  \/ n <= Sdelay - since
  \/ DayIsOver /\ n <= DayLen - DaySec
  \/ TimeStart > DayMin /\ n <= TimeStart * MinuteLen - DaySec
  \/ TimeStart >= DayMinutes

(* A feed has been due for -n ticks at most, or is not for n.               *)
Lag(n) == IF n > 0 THEN NotDueFor(n) ELSE overdue <= -n

(* A feed that will not be due for a while is not due.                      *)
LEMMA DueThen ==
  ASSUME TypeOK, NEW n \in Int, n > 0, NotDueFor(n) PROVE ~Due
<1>1. since \in Int /\ now \in Nat  BY DEF TypeOK
<1> QED  BY <1>1, DayClock DEF NotDueFor, Due, DayIsOver

(* A smaller lag is a weaker one.                                           *)
LEMMA LagSmaller ==
  ASSUME TypeOK, overdue > 0 => Due, NEW n \in Int, NEW m \in Int, m <= n, Lag(n)
  PROVE Lag(m)
<1>0. overdue \in Nat /\ since \in Int /\ now \in Nat  BY DEF TypeOK
<1>1. CASE n > 0
  <2>1. overdue = 0  BY <1>0, <1>1, DueThen DEF Lag
  <2>2. NotDueFor(n) => NotDueFor(m)
    BY <1>0, DayClock, DayLenIs DEF NotDueFor
  <2> QED  BY <1>1, <2>1, <2>2 DEF Lag
<1>2. CASE n <= 0  BY <1>0, <1>2 DEF Lag
<1> QED  BY <1>1, <1>2

(* A second takes one from the lag, across midnights and ends of hours.     *)
LEMMA LagTicks ==
  ASSUME TypeOK, overdue > 0 => Due, Tick, at \notin {"feed", "ended"}, NEW n \in Int, Lag(n)
  PROVE Lag(n - 1)'
<1>0. overdue \in Nat /\ since \in 0..Sdelay /\ now \in 0..(Week * DayLen - 1)
  BY DEF TypeOK
<1>1. /\ now' = (now + 1) % (Week * DayLen) /\ since' = Least(since + 1, Sdelay)
      /\ overdue' = IF Due' /\ Due THEN overdue + 1 ELSE 0
  BY DEF Tick
<1>2. CASE n > 0
  <2>1. NotDueFor(n) /\ ~Due  BY <1>2, DueThen DEF Lag
  <2>2. overdue' = 0  BY <1>1, <2>1
  <2>3. ASSUME n > 1 PROVE NotDueFor(n - 1)'
    <3>0. DayLen \in Nat /\ Week * DayLen \in Nat /\ now \in Nat /\ now' \in Nat
      BY <1>0, <1>1, NextSecond, DayLenIs
    <3>1. CASE n <= Sdelay - since
      BY <1>0, <1>1, <3>1 DEF NotDueFor, Least
    <3>2. CASE DayIsOver /\ n <= DayLen - DaySec
      <4>1. DaySec + 1 < DayLen /\ DaySec \in Int  BY <2>3, <3>0, <3>2, DayClock
      <4>2. DaySec' = DaySec + 1 /\ Wday' = Wday  BY <1>0, <1>1, <4>1, NextSecond
      <4>3. DayMin <= DayMin' /\ DayMin \in Int /\ DayMin' \in Int
        BY <1>0, <1>1, <3>0, <4>1, <4>2, NextMinute, DayClock, DayLenIs DEF DayMin
      <4>4. DayIsOver'  BY <3>2, <4>2, <4>3 DEF DayIsOver
      <4> QED  BY <3>0, <3>2, <4>1, <4>2, <4>4 DEF NotDueFor
    <3>3. CASE TimeStart > DayMin /\ n <= TimeStart * MinuteLen - DaySec /\ TimeStart < DayMinutes
      <4>1. TimeStart * MinuteLen <= DayLen - MinuteLen /\ TimeStart * MinuteLen \in Int
        BY <3>3 DEF DayLen
      <4>2. DaySec + 1 < DayLen /\ DaySec \in Int  BY <2>3, <3>0, <3>3, <4>1, DayClock
      <4>3. DaySec' = DaySec + 1  BY <1>0, <1>1, <4>2, NextSecond
      <4>4. DaySec' < TimeStart * MinuteLen  BY <2>3, <3>3, <4>1, <4>2, <4>3
      <4>5. DayMin' \in Int /\ DayMin' * MinuteLen <= DaySec'
        BY <4>2, <4>3, SMTT(30) DEF DayMin
      <4>6. TimeStart > DayMin'  BY <4>4, <4>5, <4>2, <4>3, <4>1, SMTT(30)
      <4> QED  BY <3>3, <4>1, <4>2, <4>3, <4>6 DEF NotDueFor
    <3>4. CASE TimeStart >= DayMinutes  BY <3>4 DEF NotDueFor
    <3> QED  BY <2>1, <3>1, <3>2, <3>3, <3>4 DEF NotDueFor
  <2> QED  BY <1>2, <2>2, <2>3 DEF Lag
<1>3. CASE n <= 0  BY <1>0, <1>1, <1>3 DEF Lag
<1> QED  BY <1>2, <1>3

(* The waits are for the delay, for the start or to midnight.               *)
LEMMA WaitTimeIs ==
  ASSUME TypeOK
  PROVE /\ WaitTime \in Nat
        /\ \/ WaitTime <= DayLen
           \/ WaitTime <= TimeStart * MinuteLen
           \/ WaitTime <= Sdelay
        /\ WaitTime <= 0 <=> Due
        /\ NotDueFor(WaitTime - (MinuteLen - 1))
<1>1. /\ Wday \in Int /\ DaySec \in 0..(DayLen - 1) /\ DayMin \in Int
      /\ DayMin * MinuteLen \in Int /\ DayMin * MinuteLen <= DaySec
      /\ DaySec <= DayMin * MinuteLen + (MinuteLen - 1)
      /\ since \in 0..Sdelay /\ DayLen \in Nat /\ TimeStart * MinuteLen \in Int
  BY DayClock, DayLenIs DEF TypeOK
<1>2. CASE DayIsOver
  BY <1>1, <1>2 DEF WaitTime, NotDueFor, Due
<1>3. CASE ~DayIsOver /\ TimeStart > DayMin
  <2>1. WaitTime = TimeStart * MinuteLen - DayMin * MinuteLen
    BY <1>1, <1>3 DEF WaitTime
  <2>2. DayMin >= 0  BY <1>1, SMTT(30) DEF DayMin
  <2>3. WaitTime > 0 /\ WaitTime <= TimeStart * MinuteLen
    <3>1. WaitTime = (TimeStart - DayMin) * MinuteLen  BY <1>3 DEF WaitTime
    <3>2. (TimeStart - DayMin) \in Nat \ {0}  BY <1>1, <1>3
    <3>3. DayMin * MinuteLen >= 0  BY <1>1, <2>2, SMTT(30)
    <3> QED  BY <1>1, <2>1, <3>1, <3>2, <3>3, SMTT(30)
  <2>4. WaitTime - (MinuteLen - 1) <= TimeStart * MinuteLen - DaySec
    BY <1>1, <2>1
  <2> QED  BY <1>1, <1>3, <2>1, <2>3, <2>4 DEF NotDueFor, Due
<1>4. CASE ~DayIsOver /\ ~(TimeStart > DayMin)
  BY <1>1, <1>4 DEF WaitTime, NotDueFor, Due
<1> QED  BY <1>2, <1>3, <1>4

(* Most of four numbers.                                                    *)
LEMMA MostIs ==
  ASSUME NEW a \in Int, NEW b \in Int, NEW c \in Int, NEW d \in Int,
         NEW S, S = {a, b, c, d}
  PROVE /\ Most(S) \in Int
        /\ a <= Most(S) /\ b <= Most(S) /\ c <= Most(S) /\ d <= Most(S)
<1>1. \E x \in {a, b, c, d} : \A y \in {a, b, c, d} : y <= x
  <2>1. \E x \in {a, b} : a <= x /\ b <= x  OBVIOUS
  <2>2. \E x \in {c, d} : c <= x /\ d <= x  OBVIOUS
  <2>3. PICK x \in {a, b} : a <= x /\ b <= x  BY <2>1
  <2>4. PICK z \in {c, d} : c <= z /\ d <= z  BY <2>2
  <2>5. CASE x <= z  BY <2>3, <2>4, <2>5
  <2>6. CASE z <= x  BY <2>3, <2>4, <2>6
  <2> QED  BY <2>3, <2>4, <2>5, <2>6
<1> QED  BY <1>1 DEF Most

(* A step keeps the types: a wait is never negative nor longer than all of  *)
(* its three kinds.                                                         *)
LEMMA StepTypes ==
  ASSUME TypeOK, [Next]_vars PROVE TypeOK'
<1> DEFINE m == Most({DayLen, TimeStart * MinuteLen, Sdelay, MaxFeed})
<1>1. m \in Int /\ DayLen <= m /\ TimeStart * MinuteLen <= m /\ Sdelay <= m /\ MaxFeed <= m
  <2>1. /\ DayLen \in Int /\ TimeStart * MinuteLen \in Int
        /\ Sdelay \in Int /\ MaxFeed \in Int
    BY DayLenIs
  <2>2. ASSUME NEW S, S = {DayLen, TimeStart * MinuteLen, Sdelay, MaxFeed}
        PROVE Most(S) \in Int /\ DayLen <= Most(S) /\ TimeStart * MinuteLen <= Most(S)
              /\ Sdelay <= Most(S) /\ MaxFeed <= Most(S)
    BY <2>1, <2>2, MostIs, Zenon
  <2> QED  BY <2>2
<1> HIDE DEF m
<1>2. /\ now \in 0..(Week * DayLen - 1) /\ since \in 0..Sdelay
      /\ at \in {"clock", "wait", "due", "poll", "feed", "ended"}
      /\ left \in 0..m /\ late \in 0..MaxLate /\ overdue \in Nat
  BY DEF TypeOK, m
<1>3. SUFFICES /\ now' \in 0..(Week * DayLen - 1) /\ since' \in 0..Sdelay
               /\ at' \in {"clock", "wait", "due", "poll", "feed", "ended"}
               /\ left' \in 0..m /\ late' \in 0..MaxLate /\ overdue' \in Nat
  BY DEF TypeOK, m
<1>4. CASE ReadClock
  <2>1. WaitTime \in 0..m  BY <1>1, WaitTimeIs, DayLenIs
  <2> QED  BY <1>2, <1>4, <2>1 DEF ReadClock
<1>5. CASE Poll \/ StartFeed \/ EndPoll \/ Stop \/ EndFeed
  BY <1>1, <1>2, <1>5 DEF Poll, StartFeed, EndPoll, Stop, EndFeed
<1>6. CASE Tick
  <2>1. now' \in 0..(Week * DayLen - 1)  BY <1>2, <1>6, NextSecond DEF Tick
  <2>2. since' \in 0..Sdelay  BY <1>2, <1>6 DEF Tick, Least
  <2>3. left' \in 0..m /\ late' \in 0..MaxLate
    <3>1. CASE at = "poll" /\ left > 0
      <4>1. left' = left - 1 /\ late' = late  BY <1>6, <3>1 DEF Tick
      <4> QED  BY <1>1, <1>2, <3>1, <4>1
    <3>2. CASE at = "feed"  BY <1>1, <1>2, <1>6, <3>2 DEF Tick
    <3>3. CASE at = "ended"  BY <1>2, <1>6, <3>3 DEF Tick
    <3>4. CASE ~(at = "poll" /\ left > 0) /\ at # "feed" /\ at # "ended"
      BY <1>2, <1>6, <3>4 DEF Tick
    <3> QED  BY <3>1, <3>2, <3>3, <3>4
  <2>4. overdue' \in Nat /\ at' = at  BY <1>2, <1>6 DEF Tick
  <2> QED  BY <1>2, <2>1, <2>2, <2>3, <2>4
<1>7. CASE UNCHANGED vars  BY <1>2, <1>7 DEF vars
<1> QED  BY <1>4, <1>5, <1>6, <1>7 DEF Next

(* How long a feed has been due at most, or is not due yet, wherever the    *)
(* loop is: the minute a wait began in, and the lag of each step since.     *)
Lags ==
  /\ overdue > 0 /\ at # "ended" => Due
  /\ at = "wait" => Lag(left - (MinuteLen - 1) - late)
  /\ at = "poll" => Lag(left - (MinuteLen - 1) - MaxLate - late)
  /\ at = "clock" => Lag(0 - (MinuteLen - 1) - 2 * MaxLate - late)
  /\ at = "due" => Lag(0 - (MinuteLen - 1) - 3 * MaxLate - late)
  /\ at = "feed" => overdue = 0
  /\ at = "ended" => overdue <= (MinuteLen - 1) + 2 * MaxLate

(* Every step keeps the lags: a second takes one from each, and the three   *)
(* steps that end a wait lose what they were late.                          *)
LEMMA StepLags ==
  ASSUME TypeOK, Lags, [Next]_vars PROVE Lags'
<1>1. /\ left \in Nat /\ late \in 0..MaxLate /\ overdue \in Nat
      /\ MinuteLen - 1 \in Nat /\ MaxLate \in Nat /\ 2 * MaxLate \in Nat /\ 3 * MaxLate \in Nat
  BY DEF TypeOK
<1>2. ASSUME UNCHANGED <<now, since, overdue>> PROVE \A n : Lag(n)' = Lag(n) /\ Due' = Due
  BY <1>2 DEF Lag, NotDueFor, Due, DayIsOver, Wday, DayMin, DaySec
<1>3. CASE ReadClock
  <2>1. /\ at = "clock" /\ left' = WaitTime /\ late' = 0 /\ UNCHANGED <<now, since, overdue>>
        /\ at' = IF Due THEN "due" ELSE "wait"
    BY <1>3, WaitTimeIs DEF ReadClock
  <2>2. CASE Due
    <3>1. Lag(0 - (MinuteLen - 1) - 2 * MaxLate - late) /\ (overdue > 0 => Due)
      BY <2>1 DEF Lags
    <3>2. Lag(0 - (MinuteLen - 1) - 3 * MaxLate - 0)
      BY <1>1, <3>1, LagSmaller
    <3> QED  BY <1>2, <2>1, <2>2, <3>2 DEF Lags
  <2>3. CASE ~Due
    <3>1. overdue = 0  BY <1>1, <2>1, <2>3 DEF Lags
    <3>2. Lag(WaitTime - (MinuteLen - 1) - 0)
      BY <1>1, <3>1, WaitTimeIs DEF Lag
    <3> QED  BY <1>2, <2>1, <2>3, <3>1, <3>2 DEF Lags
  <2> QED  BY <2>2, <2>3
<1>4. CASE Poll
  <2>1. /\ at = "wait" /\ at' = "poll" /\ late' = 0 /\ UNCHANGED <<now, since, left, overdue>>
    BY <1>4 DEF Poll
  <2>2. Lag(left - (MinuteLen - 1) - late) /\ (overdue > 0 => Due)  BY <2>1 DEF Lags
  <2>3. Lag(left - (MinuteLen - 1) - MaxLate - 0)  BY <1>1, <2>2, LagSmaller
  <2> QED  BY <1>2, <2>1, <2>2, <2>3 DEF Lags
<1>5. CASE StartFeed
  BY <1>1, <1>5 DEF StartFeed, Lags
<1>6. CASE EndPoll \/ Stop
  <2>1. /\ at = "poll" /\ late' = 0 /\ UNCHANGED <<now, since, overdue>>
        /\ at' \in {"clock", "ended"}
    BY <1>6 DEF EndPoll, Stop
  <2>2. Lag(left - (MinuteLen - 1) - MaxLate - late) /\ (overdue > 0 => Due)  BY <2>1 DEF Lags
  <2>3. Lag(0 - (MinuteLen - 1) - 2 * MaxLate - 0)  BY <1>1, <2>2, LagSmaller
  <2>4. overdue <= (MinuteLen - 1) + 2 * MaxLate  BY <1>1, <2>3 DEF Lag
  <2> QED  BY <1>2, <2>1, <2>2, <2>3, <2>4 DEF Lags
<1>7. CASE EndFeed
  <2>1. /\ at = "feed" /\ at' = "clock" /\ late' = 0 /\ UNCHANGED <<now, since, overdue>>
    BY <1>7 DEF EndFeed
  <2>2. overdue = 0  BY <2>1 DEF Lags
  <2>3. Lag(0 - (MinuteLen - 1) - 2 * MaxLate - 0)  BY <1>1, <2>2 DEF Lag
  <2> QED  BY <1>2, <2>1, <2>2, <2>3 DEF Lags
<1>8. CASE Tick
  <2>1. at' = at /\ overdue' = IF Due' /\ Due /\ at \notin {"feed", "ended"} THEN overdue + 1 ELSE 0
    BY <1>8 DEF Tick
  <2>2. overdue' > 0 => Due' /\ at \notin {"feed", "ended"}  BY <2>1
  <2>3. CASE at \in {"feed", "ended"}
    BY <1>1, <2>1, <2>3 DEF Lags
  <2>4. ASSUME at \notin {"feed", "ended"}, NEW n \in Int, Lag(n), overdue > 0 => Due
        PROVE Lag(n - 1)'
    BY <1>8, <2>4, LagTicks
  <2>5. CASE at = "wait"
    <3>1. left' = left /\ late' = late + 1  BY <1>8, <2>5 DEF Tick
    <3>2. Lag(left - (MinuteLen - 1) - late) /\ (overdue > 0 => Due)  BY <2>5 DEF Lags
    <3>3. \A n \in Int : n = left - (MinuteLen - 1) - late => Lag(n - 1)'  BY <2>4, <2>5, <3>2
    <3>4. Lag(left - (MinuteLen - 1) - late)'  BY <1>1, <3>1, <3>3
    <3> QED  BY <2>1, <2>2, <2>5, <3>4 DEF Lags
  <2>6. CASE at = "poll"
    <3>1. \/ left' = left - 1 /\ late' = late
          \/ left = 0 /\ left' = left /\ late' = late + 1
      BY <1>1, <1>8, <2>6 DEF Tick
    <3>2. Lag(left - (MinuteLen - 1) - MaxLate - late) /\ (overdue > 0 => Due)  BY <2>6 DEF Lags
    <3>3. \A n \in Int : n = left - (MinuteLen - 1) - MaxLate - late => Lag(n - 1)'
      BY <2>4, <2>6, <3>2
    <3>4. Lag(left - (MinuteLen - 1) - MaxLate - late)'  BY <1>1, <3>1, <3>3
    <3> QED  BY <2>1, <2>2, <2>6, <3>4 DEF Lags
  <2>7. CASE at = "clock"
    <3>1. late' = late + 1  BY <1>8, <2>7 DEF Tick
    <3>2. Lag(0 - (MinuteLen - 1) - 2 * MaxLate - late) /\ (overdue > 0 => Due)  BY <2>7 DEF Lags
    <3>3. \A n \in Int : n = 0 - (MinuteLen - 1) - 2 * MaxLate - late => Lag(n - 1)'
      BY <2>4, <2>7, <3>2
    <3>4. Lag(0 - (MinuteLen - 1) - 2 * MaxLate - late)'  BY <1>1, <3>1, <3>3
    <3> QED  BY <2>1, <2>2, <2>7, <3>4 DEF Lags
  <2>8. CASE at = "due"
    <3>1. late' = late + 1  BY <1>8, <2>8 DEF Tick
    <3>2. Lag(0 - (MinuteLen - 1) - 3 * MaxLate - late) /\ (overdue > 0 => Due)  BY <2>8 DEF Lags
    <3>3. \A n \in Int : n = 0 - (MinuteLen - 1) - 3 * MaxLate - late => Lag(n - 1)'
      BY <2>4, <2>8, <3>2
    <3>4. Lag(0 - (MinuteLen - 1) - 3 * MaxLate - late)'  BY <1>1, <3>1, <3>3
    <3> QED  BY <2>1, <2>2, <2>8, <3>4 DEF Lags
  <2> QED  BY <2>3, <2>5, <2>6, <2>7, <2>8 DEF TypeOK
<1>9. CASE UNCHANGED vars
  BY <1>2, <1>9 DEF vars, Lags
<1> QED  BY <1>3, <1>4, <1>5, <1>6, <1>7, <1>8, <1>9 DEF Next

(* Wherever the loop is, the lag allows no more than OnSchedule says.       *)
LEMMA LagsBoundOverdue ==
  ASSUME TypeOK, Lags PROVE OnSchedule
<1>1. /\ left \in Nat /\ late \in 0..MaxLate /\ overdue \in Nat
      /\ MinuteLen - 1 \in Nat /\ MaxLate \in Nat
      /\ at \in {"clock", "wait", "due", "poll", "feed", "ended"}
  BY DEF TypeOK
<1>2. ASSUME NEW n \in Int, Lag(n), n >= 0 - (MinuteLen - 1) - 4 * MaxLate, at # "ended"
      PROVE OnSchedule
  <2>1. CASE n > 0
    <3>1. overdue > 0 => Due  BY <1>2 DEF Lags
    <3>2. ~Due  BY <1>2, <2>1, DueThen DEF Lag
    <3> QED  BY <1>1, <3>1, <3>2 DEF OnSchedule
  <2>2. CASE n <= 0  BY <1>1, <1>2, <2>2 DEF Lag, OnSchedule
  <2> QED  BY <2>1, <2>2
<1>3. CASE at = "wait"  BY <1>1, <1>2, <1>3 DEF Lags
<1>4. CASE at = "poll"  BY <1>1, <1>2, <1>4 DEF Lags
<1>5. CASE at = "clock"  BY <1>1, <1>2, <1>5 DEF Lags
<1>6. CASE at = "due"  BY <1>1, <1>2, <1>6 DEF Lags
<1>7. CASE at \in {"feed", "ended"}  BY <1>1, <1>7 DEF Lags, OnSchedule
<1> QED  BY <1>1, <1>3, <1>4, <1>5, <1>6, <1>7

(* At the start no feed was due yet.                                        *)
LEMMA ScheduleInit == Init => TypeOK /\ Lags
<1> SUFFICES ASSUME Init PROVE TypeOK /\ Lags  OBVIOUS
<1>1. overdue = 0 /\ at = "clock" /\ late = 0 /\ left = 0 /\ since = Sdelay
      /\ now \in 0..(Week * DayLen - 1)
  BY DEF Init
<1> DEFINE m == Most({DayLen, TimeStart * MinuteLen, Sdelay, MaxFeed})
<1>2. m \in Int /\ DayLen <= m
  <2>1. /\ DayLen \in Int /\ TimeStart * MinuteLen \in Int
        /\ Sdelay \in Int /\ MaxFeed \in Int
    BY DayLenIs
  <2>2. ASSUME NEW S, S = {DayLen, TimeStart * MinuteLen, Sdelay, MaxFeed}
        PROVE Most(S) \in Int /\ DayLen <= Most(S) /\ TimeStart * MinuteLen <= Most(S)
              /\ Sdelay <= Most(S) /\ MaxFeed <= Most(S)
    BY <2>1, <2>2, MostIs, Zenon
  <2> QED  BY <2>2
<1>3. TypeOK
  <2> HIDE DEF m
  <2>1. left \in 0..m  BY <1>1, <1>2, DayLenIs
  <2> QED  BY <1>1, <2>1 DEF TypeOK, m
<1>4. Lags  BY <1>1 DEF Lags, Lag
<1> QED  BY <1>3, <1>4

(* Types of the schedule, for any week, hours, delay and lateness.          *)
THEOREM ScheduleTypes == Spec => []TypeOK
<1> QED  BY ScheduleInit, StepTypes, PTL DEF Spec

(* No feed that is due is slept over, for any week, hours, delay and         *)
(* lateness: the feeder is late by its own four lags and by the minute that *)
(* wait_time counts from, whatever messages and signals end its polls.      *)
THEOREM FeedsOnSchedule == Spec => []OnSchedule
<1>1. Init => TypeOK /\ Lags  BY ScheduleInit
<1>2. TypeOK /\ Lags /\ [Next]_vars => (TypeOK /\ Lags)'  BY StepTypes, StepLags
<1>3. TypeOK /\ Lags => OnSchedule  BY LagsBoundOverdue
<1> QED  BY <1>1, <1>2, <1>3, PTL DEF Spec

HIDE FeederAssumption

-----------------------------------------------------------------------------
(* Children.  The counting behind the SIGCHLD handlers, for any number of   *)
(* children: the scheduler's handler never blocks, the feeder's only after  *)
(* main took a child, and the zombies that stay are those of merged signals.*)

USE ChildrenAssumption

(* What exits and reaps add up to is inductive with the types and with main *)
(* not reaping in the scheduler.                                            *)
ChildrenInv == ChildrenTypeOK /\ EveryExitIsCounted /\ (~feeds => byMain = 0)

LEMMA ChildrenInitHolds == ChildrenInit => ChildrenInv
<1> SUFFICES ASSUME ChildrenInit PROVE ChildrenInv  OBVIOUS
<1>1. Pendings = 0 /\ Handlers = 0  BY Zenon DEF ChildrenInit, Pendings, Handlers
<1>2. parser \in BOOLEAN /\ pending \in BOOLEAN /\ handler \in BOOLEAN  BY Zenon DEF ChildrenInit
<1>3. ~parser  BY DEF ChildrenInit
<1>4. ChildrenTypeOK  BY <1>2, <1>3 DEF ChildrenInit, ChildrenTypeOK
<1>5. EveryExitIsCounted  BY <1>1 DEF ChildrenInit, EveryExitIsCounted
<1> QED  BY <1>4, <1>5 DEF ChildrenInit, ChildrenInv

(* A step of main's that only moves it disturbs no count.                   *)
LEMMA MainStep ==
  ASSUME ChildrenInv, NEW m \in {"idle", "wget", "reading", "waiting"}, MainGoes(m), main # "idle"
  PROVE ChildrenInv'
BY DEF ChildrenInv, ChildrenTypeOK, EveryExitIsCounted, MainGoes, Pendings, Handlers

(* An exit makes one zombie, and one signal pending or merged.              *)
LEMMA ExitCounts ==
  ASSUME ChildrenInv, Exit, alive > 0, parser' \in BOOLEAN, parser' => alive > 1
  PROVE ChildrenInv'
BY DEF ChildrenInv, ChildrenTypeOK, EveryExitIsCounted, Exit, Pendings, Handlers

LEMMA ChildrenStepHolds == ChildrenInv /\ [ChildrenNext]_childrenVars => ChildrenInv'
<1> SUFFICES ASSUME ChildrenInv, [ChildrenNext]_childrenVars PROVE ChildrenInv'  OBVIOUS
<1> USE DEF ChildrenInv
<1>1. CASE Exec
  BY <1>1 DEF Exec, Fork, ChildrenTypeOK, EveryExitIsCounted, Pendings, Handlers
<1>2. CASE ForkWget
  BY <1>2 DEF ForkWget, Fork, ChildrenTypeOK, EveryExitIsCounted, Pendings, Handlers
<1>3. CASE ForkParser
  BY <1>3 DEF ForkParser, Fork, ChildrenTypeOK, EveryExitIsCounted, Pendings, Handlers
<1>4. CASE PipeFails \/ ForkParserFails \/ ReadEnds \/ MainHasNone
  BY <1>4, MainStep DEF PipeFails, ForkParserFails, ReadEnds, MainHasNone
<1>5. CASE ReadFails
  BY <1>5 DEF ReadFails, ChildrenTypeOK, EveryExitIsCounted, Pendings, Handlers
<1>6. CASE MainReaps
  BY <1>6 DEF MainReaps, ChildrenTypeOK, EveryExitIsCounted, Pendings, Handlers
<1>7. CASE ParserExits
  BY <1>7, ExitCounts DEF ParserExits, ChildrenTypeOK
<1>8. CASE ChildExits
  <2>1. alive > 0 /\ (parser => alive > 1)  BY <1>8 DEF ChildExits, ChildrenTypeOK
  <2> QED  BY <1>8, <2>1, ExitCounts DEF ChildExits, ChildrenTypeOK
<1>9. CASE HandlerStarts
  <2>1. Pendings = 1 /\ Handlers = 0 /\ Pendings' = 0 /\ Handlers' = 1
    BY <1>9, Zenon DEF HandlerStarts, ChildrenTypeOK, Pendings, Handlers
  <2>2. Pendings \in Nat  BY DEF Pendings, Handlers
  <2>3. parser' \in BOOLEAN /\ pending' \in BOOLEAN /\ handler' \in BOOLEAN
    BY <1>9, Zenon DEF HandlerStarts, ChildrenTypeOK
  <2>4. parser' = parser  BY <1>9 DEF HandlerStarts
  <2>5. /\ UNCHANGED <<feeds, main, alive, merged, byMain, forks>>
        /\ zombies' \in Nat /\ idled' \in Nat
        /\ zombies' = zombies /\ idled' = idled
    BY <1>9 DEF HandlerStarts, ChildrenTypeOK
  <2>6. ChildrenTypeOK'  BY <2>3, <2>4, <2>5 DEF ChildrenTypeOK
  <2>7. EveryExitIsCounted'
    BY <2>1, <2>2, <2>5 DEF ChildrenTypeOK, EveryExitIsCounted, Pendings, Handlers
  <2> QED  BY <2>5, <2>6, <2>7
<1>10. CASE HandlerReaps
  <2>1. Handlers = 1 /\ Handlers' = 0 /\ Pendings' = Pendings
    BY <1>10, Zenon DEF HandlerReaps, ChildrenTypeOK, Pendings, Handlers
  <2>2. Pendings \in Nat  BY DEF Pendings, Handlers
  <2>3. parser' \in BOOLEAN /\ pending' \in BOOLEAN /\ handler' \in BOOLEAN
    BY <1>10, Zenon DEF HandlerReaps, ChildrenTypeOK
  <2>4. parser' = parser  BY <1>10 DEF HandlerReaps
  <2>5. /\ UNCHANGED <<feeds, main, alive, merged, byMain, forks>>
        /\ zombies' \in Nat /\ idled' \in Nat
        /\ zombies' = zombies - 1 /\ idled' = idled
    BY <1>10 DEF HandlerReaps, ChildrenTypeOK
  <2>6. ChildrenTypeOK'  BY <2>3, <2>4, <2>5 DEF ChildrenTypeOK
  <2>7. EveryExitIsCounted'
    BY <2>1, <2>2, <2>5 DEF ChildrenTypeOK, EveryExitIsCounted, Pendings, Handlers
  <2> QED  BY <2>5, <2>6, <2>7
<1>11. CASE HandlerHasNone
  <2>1. Handlers = 1 /\ Handlers' = 0 /\ Pendings' = Pendings
    BY <1>11, Zenon DEF HandlerHasNone, ChildrenTypeOK, Pendings, Handlers
  <2>2. Pendings \in Nat  BY DEF Pendings, Handlers
  <2>3. parser' \in BOOLEAN /\ pending' \in BOOLEAN /\ handler' \in BOOLEAN
    BY <1>11, Zenon DEF HandlerHasNone, ChildrenTypeOK
  <2>4. parser' = parser  BY <1>11 DEF HandlerHasNone
  <2>5. /\ UNCHANGED <<feeds, main, alive, merged, byMain, forks>>
        /\ zombies' \in Nat /\ idled' \in Nat
        /\ zombies' = zombies /\ idled' = idled + 1
    BY <1>11 DEF HandlerHasNone, ChildrenTypeOK
  <2>6. ChildrenTypeOK'  BY <2>3, <2>4, <2>5 DEF ChildrenTypeOK
  <2>7. EveryExitIsCounted'
    BY <2>1, <2>2, <2>5 DEF ChildrenTypeOK, EveryExitIsCounted, Pendings, Handlers
  <2> QED  BY <2>5, <2>6, <2>7
<1>12. CASE UNCHANGED childrenVars
  BY <1>12 DEF childrenVars, ChildrenTypeOK, EveryExitIsCounted, Pendings, Handlers
<1> QED
  BY <1>1, <1>2, <1>3, <1>4, <1>5, <1>6, <1>7, <1>8, <1>9, <1>10, <1>11, <1>12
  DEF ChildrenNext, FeedSteps, Handler, Child

LEMMA ChildrenInvariant == ChildrenSpec => []ChildrenInv
BY ChildrenInitHolds, ChildrenStepHolds, PTL DEF ChildrenSpec

(* Types of main, the children and the handlers.                            *)
THEOREM ChildrenTypes == ChildrenSpec => []ChildrenTypeOK
BY ChildrenInvariant, PTL DEF ChildrenInv

(* Zombies, and what main and the handlers reaped, account for every exit.  *)
THEOREM ExitsAreCounted == ChildrenSpec => []EveryExitIsCounted
BY ChildrenInvariant, PTL DEF ChildrenInv

(* The scheduler's handler, and the feeder's until main reaps a child, has  *)
(* a zombie to reap.                                                        *)
THEOREM HandlersWaitForNobody == ChildrenSpec => []WaitFindsAChild
<1>1. ChildrenInv => WaitFindsAChild
  BY DEF ChildrenInv, ChildrenTypeOK, EveryExitIsCounted, WaitFindsAChild, Pendings, Handlers
<1> QED  BY <1>1, ChildrenInvariant, PTL

HIDE ChildrenAssumption

-----------------------------------------------------------------------------
(* The reader, for any text, well formed or not, and any pieces.  A turn of *)
(* its loop leaves what Kept and KeptData say of a reader, and uses letters *)
(* or is the last; in the data's, the turn that ends a tree uses none, but  *)
(* the next does.  So the loop ends, and what it keeps is short.            *)

(* A set of natural numbers that is not empty has a smallest one: their     *)
(* intervals are ordered by inclusion, which is well founded.               *)
LEMMA Smallest ==
  ASSUME NEW S, S \subseteq Nat, S # {}
  PROVE \E m \in S : \A k \in S : m <= k
<1> DEFINE R == StrictSubsetOrdering(Nat)
           T == {0..k : k \in S}
<1>1. T \subseteq FiniteSubsetsOf(Nat)
  <2>1. \A k \in S : IsFiniteSet(0..k) /\ 0..k \in SUBSET Nat  BY FS_Interval
  <2> QED  BY <2>1 DEF FiniteSubsetsOf
<1>2. T # {}  OBVIOUS
<1> HIDE DEF T
<1>3. PICK t \in T : \A u \in T : ~ (<<u, t>> \in R)
  BY <1>1, <1>2, FS_StrictSubsetOrderingWellFounded, WFMin
<1>4. PICK m \in S : t = 0..m  BY DEF T
<1>5. ASSUME NEW k \in S, k < m PROVE FALSE
  <2>1. 0..k \in T /\ 0..k \subseteq 0..m /\ 0..k # 0..m  BY <1>5 DEF T
  <2>2. <<0..k, t>> \in R  BY <2>1, <1>4 DEF StrictSubsetOrdering
  <2> QED  BY <2>1, <2>2, <1>3
<1> QED  BY <1>5

-----------------------------------------------------------------------------
Labels == {Root, Tree, Code, Time, Price}
Longest == Max({Len(l) : l \in Labels})

(* Labels are short and have no tag in them.                                *)
LEMMA LabelsAre ==
  /\ Longest \in Nat
  /\ \A l \in Labels : /\ l \in Seq(Letters) /\ Len(l) <= Longest
                       /\ \A i \in 1..Len(l) : l[i] \notin {"<", ">"}
<1>1. \A l \in Labels : l \in Seq(Letters \ {"<", ">"})  BY ReaderAssumption DEF Labels
<1>2. ASSUME NEW l \in Labels
      PROVE l \in Seq(Letters) /\ Len(l) \in Nat /\ \A i \in 1..Len(l) : l[i] \notin {"<", ">"}
  BY <1>1
<1> DEFINE S == {Len(l) : l \in Labels}
<1>3. \E m \in S : \A k \in S : m >= k
  <2>1. \A a, b \in Nat : \E m \in {a, b} : m >= a /\ m >= b  OBVIOUS
  <2>2. S \subseteq Nat  BY <1>2
  <2>3. /\ Len(Root) \in S /\ Len(Tree) \in S /\ Len(Code) \in S
        /\ Len(Time) \in S /\ Len(Price) \in S
        /\ \A k \in S : k \in {Len(Root), Len(Tree), Len(Code), Len(Time), Len(Price)}
    BY DEF Labels
  <2> HIDE DEF S
  <2>4. PICK a \in S : a >= Len(Root) /\ a >= Len(Tree)  BY <2>1, <2>2, <2>3
  <2>5. PICK b \in S : b >= a /\ b >= Len(Code)  BY <2>1, <2>2, <2>3
  <2>6. PICK c \in S : c >= b /\ c >= Len(Time)  BY <2>1, <2>2, <2>3
  <2>7. c \in Nat /\ Len(Price) \in Nat  BY <2>2, <2>3
  <2>8. PICK d \in {c, Len(Price)} : d >= c /\ d >= Len(Price)  BY <2>1, <2>7
  <2>9. d \in S  BY <2>3, <2>8
  <2>10. a >= Len(Root) /\ a >= Len(Tree) /\ b >= a /\ a \in Nat /\ b \in Nat
    BY <2>2, <2>4, <2>5
  <2>11. d >= Len(Root) /\ d >= Len(Tree) /\ d >= Len(Code) /\ d >= Len(Time)
    <3>1. d \in Nat /\ \A k \in S : k \in Nat  BY <2>2, <2>9
    <3>2. Len(Root) \in Nat /\ Len(Tree) \in Nat /\ Len(Code) \in Nat /\ Len(Time) \in Nat
      BY <3>1, <2>3
    <3> QED  BY <3>1, <3>2, <2>5, <2>6, <2>7, <2>8, <2>10
  <2> QED  BY <2>3, <2>8, <2>9, <2>11
<1>4. Longest \in S /\ \A k \in S : Longest >= k  BY <1>3 DEF Longest, Max
<1> QED  BY <1>2, <1>4

LEMMA TagsAre ==
  ASSUME NEW l \in Labels
  PROVE /\ Tag(l) \in Seq(Letters) /\ Len(Tag(l)) = Len(l) + 1
        /\ \A i \in 1..Len(Tag(l)) : Tag(l)[i] # "<"
        /\ Tag(l)[Len(l) + 1] = ">" /\ \A i \in 1..Len(l) : Tag(l)[i] # ">"
<1>1. l \in Seq(Letters) /\ \A i \in 1..Len(l) : l[i] # "<" /\ l[i] # ">"  BY LabelsAre
<1>2. <<">">> \in Seq(Letters) /\ Len(<<">">>) = 1 /\ <<">">>[1] = ">"
  <2>1. ">" \in Letters  BY ReaderAssumption
  <2> QED  BY <2>1
<1>3. Tag(l) \in Seq(Letters) /\ Len(Tag(l)) = Len(l) + 1  BY <1>1, <1>2 DEF Tag
<1>4. ASSUME NEW i \in 1..Len(Tag(l)) PROVE Tag(l)[i] # "<"
  <2>1. CASE i \in 1..Len(l)  BY <2>1, <1>1, <1>2 DEF Tag
  <2>2. CASE i = Len(l) + 1  BY <2>2, <1>1, <1>2 DEF Tag
  <2> QED  BY <2>1, <2>2, <1>1, <1>3
<1>5. ASSUME NEW i \in 1..Len(l) PROVE Tag(l)[i] # ">"
  BY <1>1, <1>2 DEF Tag
<1>6. Tag(l)[Len(l) + 1] = ">"  BY <1>1, <1>2 DEF Tag
<1> QED  BY <1>3, <1>4, <1>5, <1>6

-----------------------------------------------------------------------------
(* A reader: its fields, and the types of those that say where it is.       *)
Reader(r) ==
  /\ r = [root |-> r.root, state |-> r.state, ign_deep |-> r.ign_deep, offset |-> r.offset,
          buffer |-> r.buffer, cur_value |-> r.cur_value, cur_tree |-> r.cur_tree,
          values |-> r.values, count |-> r.count, given |-> r.given]
  /\ r.root \in {Root, Tree} /\ r.state \in 0..6 /\ r.ign_deep \in Nat
  /\ r.buffer \in Seq(Letters) /\ r.offset \in 0..Len(r.buffer)

(* The fields that do not say where a reader is may have any value.         *)
LEMMA ReaderExcept ==
  ASSUME NEW r, Reader(r), NEW x
  PROVE /\ Reader([r EXCEPT !.cur_value = x]) /\ Reader([r EXCEPT !.cur_tree = x])
        /\ Reader([r EXCEPT !.values = x]) /\ Reader([r EXCEPT !.count = x])
        /\ Reader([r EXCEPT !.given = x])
        /\ x \in 0..6 => Reader([r EXCEPT !.state = x])
        /\ x \in Nat => Reader([r EXCEPT !.ign_deep = x])
        /\ x \in 0..Len(r.buffer) => Reader([r EXCEPT !.offset = x])
<1>1. Reader([r EXCEPT !.cur_value = x])  BY DEF Reader
<1>2. Reader([r EXCEPT !.cur_tree = x])  BY DEF Reader
<1>3. Reader([r EXCEPT !.values = x])  BY DEF Reader
<1>4. Reader([r EXCEPT !.count = x])  BY DEF Reader
<1>5. Reader([r EXCEPT !.given = x])  BY DEF Reader
<1>6. x \in 0..6 => Reader([r EXCEPT !.state = x])  BY DEF Reader
<1>7. x \in Nat => Reader([r EXCEPT !.ign_deep = x])  BY DEF Reader
<1>8. x \in 0..Len(r.buffer) => Reader([r EXCEPT !.offset = x])  BY DEF Reader
<1> QED  BY <1>1, <1>2, <1>3, <1>4, <1>5, <1>6, <1>7, <1>8

(* The end of a sequence.                                                   *)
LEMMA EndIs ==
  ASSUME NEW u \in Seq(Letters), NEW n \in 0..Len(u)
  PROVE /\ SubSeq(u, n + 1, Len(u)) \in Seq(Letters)
        /\ Len(SubSeq(u, n + 1, Len(u))) = Len(u) - n
        /\ \A i \in 1..(Len(u) - n) : SubSeq(u, n + 1, Len(u))[i] = u[n + i]
OBVIOUS

LEMMA RestIs ==
  ASSUME NEW r, Reader(r)
  PROVE /\ Rest(r) \in Seq(Letters) /\ Len(Rest(r)) = Len(r.buffer) - r.offset
        /\ \A i \in 1..Len(Rest(r)) : Rest(r)[i] = r.buffer[r.offset + i]
BY DEF Rest, Reader

(* A label that matches is in the buffer, and the start of one that is cut  *)
(* off is short and has no tag in it.                                       *)
LEMMA MatchFits ==
  ASSUME NEW r, Reader(r), NEW l \in Labels, Matches(r, l)
  PROVE Len(Tag(l)) \in Nat \ {0} /\ r.offset + Len(Tag(l)) <= Len(r.buffer)
<1>1. Len(Tag(l)) = Len(l) + 1 /\ Len(l) \in Nat  BY TagsAre, LabelsAre
<1> QED  BY <1>1, RestIs DEF Matches, IsPrefix, Reader

LEMMA CutOffIsShort ==
  ASSUME NEW r, Reader(r), NEW labels \in SUBSET Labels, CutOff(r, labels)
  PROVE /\ Len(r.buffer) - r.offset <= Longest
        /\ \A i \in (r.offset + 1)..Len(r.buffer) : r.buffer[i] # "<"
<1>1. PICK l \in labels : IsPrefix(Rest(r), Tag(l)) /\ Rest(r) # Tag(l)
  BY DEF CutOff, IsStrictPrefix
<1> DEFINE s == Rest(r)
           u == Tag(l)
<1>2. /\ u \in Seq(Letters) /\ Len(u) = Len(l) + 1 /\ \A i \in 1..Len(u) : u[i] # "<"
      /\ Len(l) \in Nat /\ Len(l) <= Longest
  BY TagsAre, LabelsAre
<1>3. /\ s \in Seq(Letters) /\ Len(s) = Len(r.buffer) - r.offset
      /\ \A i \in 1..Len(s) : s[i] = r.buffer[r.offset + i]
  BY RestIs
<1>4. Len(s) <= Len(u) /\ SubSeq(s, 1, Len(s)) = SubSeq(u, 1, Len(s))
  BY <1>1 DEF IsPrefix
<1> HIDE DEF s, u
<1>5. \A i \in 1..Len(s) : s[i] = u[i]
  <2>1. ASSUME NEW i \in 1..Len(s) PROVE s[i] = u[i]
    <3>1. SubSeq(s, 1, Len(s))[i] = s[i] /\ SubSeq(u, 1, Len(s))[i] = u[i]
      BY <1>2, <1>3, <1>4
    <3> QED  BY <3>1, <1>4
  <2> QED  BY <2>1
<1>6. Len(s) # Len(u)
  <2>1. s # u  BY <1>1 DEF s, u
  <2>2. Len(s) = Len(u) => s = u  BY <1>2, <1>3, <1>5
  <2> QED  BY <2>1, <2>2
<1>7. Len(s) <= Longest  BY <1>2, <1>3, <1>4, <1>6, LabelsAre
<1>8. ASSUME NEW i \in (r.offset + 1)..Len(r.buffer) PROVE r.buffer[i] # "<"
  <2>1. i - r.offset \in 1..Len(s) /\ r.offset + (i - r.offset) = i  BY <1>3 DEF Reader
  <2>2. s[i - r.offset] = r.buffer[i] /\ s[i - r.offset] = u[i - r.offset]
    BY <2>1, <1>3, <1>5
  <2>3. i - r.offset \in 1..Len(u)  BY <2>1, <1>2, <1>3, <1>4
  <2> QED  BY <2>2, <2>3, <1>2
<1> QED  BY <1>3, <1>7, <1>8

-----------------------------------------------------------------------------
(* The turns of read's loop.                                                *)

(* A label that is cut off comes right after "<" or "</".                   *)
AtTag(r) ==
  /\ r.offset < Len(r.buffer) /\ Len(r.buffer) - r.offset <= Longest
  /\ \E back \in {1, 2} :
       /\ r.offset - back >= 0 /\ r.buffer[r.offset - back + 1] = "<"
       /\ \A i \in (r.offset - back + 2)..Len(r.buffer) : r.buffer[i] # "<"

(* What the cases of a reader that looks at a letter do with it: it goes on *)
(* in the buffer, r was at a tag, and the states it may come to.            *)
Goes(r, s) ==
  /\ Reader(s) /\ s.buffer = r.buffer /\ s.root = r.root /\ s.offset >= r.offset
  /\ Partial(s.state) => AtTag(s)
  /\ s.state = TREE => s.root = Root /\ s.cur_tree = SubReader

(* r is after a "<", or a "</".                                             *)
AfterTag(r) ==
  /\ r.offset < Len(r.buffer)
  /\ \E back \in {1, 2} :
       /\ r.offset - back >= 0 /\ r.buffer[r.offset - back + 1] = "<"
       /\ back = 2 => r.buffer[r.offset] = "/"

LEMMA CutAtTag ==
  ASSUME NEW r, Reader(r), AfterTag(r), NEW labels \in SUBSET Labels, CutOff(r, labels)
  PROVE AtTag(r)
<1>1. PICK back \in {1, 2} : /\ r.offset - back >= 0 /\ r.buffer[r.offset - back + 1] = "<"
                             /\ back = 2 => r.buffer[r.offset] = "/"
  BY DEF AfterTag
<1>2. /\ Len(r.buffer) - r.offset <= Longest
      /\ \A i \in (r.offset + 1)..Len(r.buffer) : r.buffer[i] # "<"
  BY CutOffIsShort
<1>3. r.offset \in Nat /\ Len(r.buffer) \in Nat /\ r.offset < Len(r.buffer)
  BY DEF Reader, AfterTag
<1>4. ASSUME NEW i \in (r.offset - back + 2)..Len(r.buffer) PROVE r.buffer[i] # "<"
  <2>1. i >= r.offset + 1 \/ (back = 2 /\ i = r.offset)  BY <1>3
  <2>2. CASE i >= r.offset + 1  BY <2>2, <1>2, <1>3
  <2>3. CASE back = 2 /\ i = r.offset  BY <2>3, <1>1
  <2> QED  BY <2>1, <2>2, <2>3
<1> QED  BY <1>1, <1>2, <1>3, <1>4 DEF AtTag

(* A reader after a label that matches, and one whose label is cut off.     *)
LEMMA AfterIs ==
  ASSUME NEW r, Reader(r), NEW l \in Labels, Matches(r, l)
  PROVE /\ Reader(After(r, l)) /\ After(r, l) = [r EXCEPT !.offset = After(r, l).offset]
        /\ After(r, l).buffer = r.buffer /\ After(r, l).offset > r.offset
        /\ After(r, l).root = r.root /\ After(r, l).state = r.state
<1> DEFINE here == r.offset + Len(Tag(l))
<1>1. here \in 0..Len(r.buffer) /\ here > r.offset  BY MatchFits DEF Reader
<1>2. After(r, l) = [r EXCEPT !.offset = here]  BY DEF After
<1> HIDE DEF here
<1>3. /\ After(r, l).offset = here /\ After(r, l).buffer = r.buffer
      /\ After(r, l).root = r.root /\ After(r, l).state = r.state
  BY <1>2 DEF Reader
<1>4. Reader(After(r, l))  BY <1>1, <1>2 DEF Reader
<1> QED  BY <1>1, <1>2, <1>3, <1>4

LEMMA CutIs ==
  ASSUME NEW r, Reader(r), r.state \in {NULL, LOOKING}, AfterTag(r),
         NEW labels \in SUBSET Labels, CutOff(r, labels)
  PROVE Goes(r, Cut(r)) /\ Cut(r).state # VALUE
<1>1. AtTag(r)  BY CutAtTag
<1>2. Cut(r) = [r EXCEPT !.state = r.state + 1]
  BY DEF Cut, Partial, NULL, LOOKING
<1>3. /\ Reader(Cut(r)) /\ Cut(r).buffer = r.buffer /\ Cut(r).offset = r.offset
      /\ Cut(r).root = r.root /\ Cut(r).state \in {1, 3}
  BY <1>2 DEF Reader, NULL, LOOKING
<1>4. AtTag(Cut(r))  BY <1>1, <1>3 DEF AtTag
<1> QED  BY <1>3, <1>4 DEF Goes, Reader, TREE, VALUE

LEMMA InNullGoes ==
  ASSUME NEW r, Reader(r), r.state = NULL, AfterTag(r)
  PROVE Goes(r, InNull(r)) /\ InNull(r).state # VALUE
<1>1. r.root \in Labels /\ {r.root} \in SUBSET Labels  BY DEF Reader, Labels
<1>2. CASE Matches(r, r.root)
  <2> DEFINE s == After(r, r.root)
  <2>1. /\ Reader(s) /\ s.buffer = r.buffer /\ s.offset > r.offset /\ s.root = r.root
    BY <1>1, <1>2, AfterIs
  <2>2. InNull(r) = [s EXCEPT !.state = LOOKING]  BY <1>2 DEF InNull
  <2> HIDE DEF s
  <2> QED  BY <2>1, <2>2 DEF Goes, Reader, LOOKING, Partial, TREE, VALUE
<1>3. CASE ~Matches(r, r.root) /\ CutOff(r, {r.root})
  BY <1>1, <1>3, CutIs DEF InNull
<1>4. CASE ~Matches(r, r.root) /\ ~CutOff(r, {r.root})
  BY <1>4 DEF InNull, Goes, Reader, NULL, Partial, TREE, VALUE
<1> QED  BY <1>2, <1>3, <1>4

LEMMA InEndGoes ==
  ASSUME NEW r, Reader(r), r.state = LOOKING, AfterTag(r)
  PROVE Goes(r, InEnd(r)) /\ InEnd(r).state # VALUE
<1>1. r.root \in Labels /\ {r.root} \in SUBSET Labels  BY DEF Reader, Labels
<1>2. CASE Matches(r, r.root)
  <2> DEFINE s == After(r, r.root)
  <2>1. /\ Reader(s) /\ s.buffer = r.buffer /\ s.offset > r.offset /\ s.root = r.root
    BY <1>1, <1>2, AfterIs
  <2>2. PICK g : InEnd(r) = [s EXCEPT !.state = DONE, !.given = g]
    BY <1>2 DEF InEnd
  <2> HIDE DEF s
  <2> DEFINE u == InEnd(r)
  <2>3. u.buffer = s.buffer /\ u.root = s.root /\ u.offset = s.offset /\ u.state = DONE
    BY <2>1, <2>2 DEF Reader
  <2>4. Reader(u)
    <3>0. DONE \in 0..6  BY DEF DONE
    <3>1. Reader([s EXCEPT !.state = DONE])  BY <2>1, <3>0, ReaderExcept, Zenon
    <3>2. Reader([[s EXCEPT !.state = DONE] EXCEPT !.given = g])
      BY <3>1, ReaderExcept, Zenon
    <3> QED  BY <3>2, <2>2
  <2>5. s.offset >= r.offset  BY <2>1 DEF Reader
  <2> HIDE DEF u
  <2>6. Goes(r, u)  BY <2>1, <2>3, <2>4, <2>5 DEF Goes, DONE, Partial, TREE
  <2> QED  BY <2>3, <2>6 DEF u, DONE, VALUE
<1>3. CASE ~Matches(r, r.root) /\ CutOff(r, {r.root})
  BY <1>1, <1>3, CutIs DEF InEnd
<1>4. CASE ~Matches(r, r.root) /\ ~CutOff(r, {r.root})
  BY <1>4 DEF InEnd, Goes, Reader, LOOKING, Partial, TREE, VALUE
<1> QED  BY <1>2, <1>3, <1>4

LEMMA InStartGoes ==
  ASSUME NEW r, Reader(r), r.state = LOOKING, AfterTag(r)
  PROVE Goes(r, InStart(r))
<1> DEFINE value == {l \in ValueLabels(r) : Matches(r, l)}
           tree == {l \in TreeLabels(r) : Matches(r, l)}
<1>1. ValueLabels(r) \subseteq Labels /\ TreeLabels(r) \subseteq Labels /\ Tree \in Labels
  BY DEF ValueLabels, TreeLabels, Labels
<1>2. CASE value # {}
  <2> DEFINE l == CHOOSE x \in value : TRUE
             s == After(r, l)
  <2>1. l \in Labels /\ Matches(r, l)  BY <1>1, <1>2
  <2>2. InStart(r) = [s EXCEPT !.state = VALUE, !.cur_value = l]  BY <1>2 DEF InStart
  <2> HIDE DEF l
  <2>3. /\ Reader(s) /\ s.buffer = r.buffer /\ s.offset > r.offset /\ s.root = r.root
    BY <2>1, AfterIs
  <2> HIDE DEF s
  <2> DEFINE u == InStart(r)
  <2>4. u.buffer = s.buffer /\ u.root = s.root /\ u.offset = s.offset /\ u.state = VALUE
    BY <2>2, <2>3 DEF Reader
  <2>5. Reader(u)
    <3>0. VALUE \in 0..6  BY DEF VALUE
    <3>1. Reader([s EXCEPT !.state = VALUE])  BY <2>3, <3>0, ReaderExcept, Zenon
    <3>2. Reader([[s EXCEPT !.state = VALUE] EXCEPT !.cur_value = l])
      BY <3>1, ReaderExcept, Zenon
    <3> QED  BY <3>2, <2>2
  <2>6. s.offset >= r.offset  BY <2>3 DEF Reader
  <2> HIDE DEF u
  <2>7. Goes(r, u)  BY <2>3, <2>4, <2>5, <2>6 DEF Goes, VALUE, Partial, TREE
  <2> QED  BY <2>7 DEF u
<1>3. CASE value = {} /\ tree # {}
  <2> DEFINE s == After(r, Tree)
  <2>1. Matches(r, Tree) /\ r.root = Root  BY <1>3 DEF TreeLabels
  <2>2. InStart(r) = [s EXCEPT !.state = TREE, !.cur_tree = SubReader, !.count = @ + 1]
    BY <1>3 DEF InStart
  <2>3. /\ Reader(s) /\ s.buffer = r.buffer /\ s.offset > r.offset /\ s.root = r.root
    BY <2>1, <1>1, AfterIs
  <2> HIDE DEF s
  <2> DEFINE u == InStart(r)
  <2>4. /\ u.buffer = s.buffer /\ u.root = s.root /\ u.offset = s.offset /\ u.state = TREE
        /\ u.cur_tree = SubReader
    BY <2>2, <2>3 DEF Reader
  <2>5. Reader(u)
    <3>0. TREE \in 0..6  BY DEF TREE
    <3>1. Reader([s EXCEPT !.state = TREE])  BY <2>3, <3>0, ReaderExcept, Zenon
    <3>2. Reader([[s EXCEPT !.state = TREE] EXCEPT !.cur_tree = SubReader])
      BY <3>1, ReaderExcept, Zenon
    <3> DEFINE v == [[s EXCEPT !.state = TREE] EXCEPT !.cur_tree = SubReader]
    <3>3. Reader([v EXCEPT !.count = s.count + 1])  BY <3>2, ReaderExcept, Zenon
    <3>4. u = [v EXCEPT !.count = s.count + 1]  BY <2>2, <2>3 DEF Reader
    <3> QED  BY <3>3, <3>4
  <2>6. s.offset >= r.offset  BY <2>3 DEF Reader
  <2> HIDE DEF u
  <2>7. Goes(r, u)  BY <2>1, <2>3, <2>4, <2>5, <2>6 DEF Goes, TREE, Partial
  <2> QED  BY <2>7 DEF u
<1>4. CASE value = {} /\ tree = {} /\ CutOff(r, ValueLabels(r) \cup TreeLabels(r))
  <2>1. InStart(r) = Cut(r)  BY <1>4 DEF InStart
  <2>2. ValueLabels(r) \cup TreeLabels(r) \in SUBSET Labels  BY <1>1
  <2> QED  BY <1>4, <2>1, <2>2, CutIs
<1>5. CASE value = {} /\ tree = {} /\ ~CutOff(r, ValueLabels(r) \cup TreeLabels(r))
  <2>1. InStart(r) = [r EXCEPT !.ign_deep = 1]  BY <1>5 DEF InStart
  <2> QED  BY <2>1 DEF Goes, Reader, LOOKING, Partial, TREE
<1> QED  BY <1>2, <1>3, <1>4, <1>5

-----------------------------------------------------------------------------
(* A turn of the loop over the buffer, with a piece of size letters: where  *)
(* it is, what is to be kept of the buffer, and, when it ends the loop,     *)
(* that no label is cut off and little is kept.                             *)
InLoop(t, root, buffer, size) ==
  /\ t = [reader |-> t.reader, shrink |-> t.shrink, used |-> t.used, ends |-> t.ends]
  /\ t.ends \in BOOLEAN /\ t.used \in Int /\ t.used <= size
  /\ Reader(t.reader) /\ t.reader.buffer = buffer /\ t.reader.root = root
  /\ t.shrink \in -1..t.reader.offset /\ (t.shrink = -1 <=> t.reader.state # VALUE)
  /\ t.reader.state = TREE => root = Root /\ (t.ends => t.reader.offset = Len(buffer))
  /\ Partial(t.reader.state) => ~t.ends /\ AtTag(t.reader)
  /\ t.ends /\ t.reader.state # VALUE => Len(buffer) - t.reader.offset <= Longest + 2

(* A turn that goes on with a reader that goes on.                          *)
LEMMA TurnGoes ==
  ASSUME NEW root, NEW buffer, NEW size \in Int, NEW r, NEW s, Goes(r, s), r.root = root,
         r.buffer = buffer, NEW used \in Int, used <= size,
         NEW shrink \in -1..s.offset, shrink = -1 <=> s.state # VALUE
  PROVE InLoop(Turn(s, shrink, used), root, buffer, size)
<1> DEFINE t == Turn(s, shrink, used)
<1>1. t.reader = s /\ t.shrink = shrink /\ t.used = used /\ t.ends = FALSE  BY DEF Turn
<1>2. t = [reader |-> t.reader, shrink |-> t.shrink, used |-> t.used, ends |-> t.ends]
  BY DEF Turn
<1> HIDE DEF t
<1>3. InLoop(t, root, buffer, size)  BY <1>1, <1>2 DEF Goes, InLoop
<1> QED  BY <1>3 DEF t

(* One that ends it, at an offset after which there is little.              *)
LEMMA EndFits ==
  ASSUME NEW root, NEW buffer, NEW size \in Int, NEW s, Reader(s), s.buffer = buffer,
         s.root = root, NEW used \in Int, used <= size, ~Partial(s.state),
         NEW shrink \in -1..s.offset, shrink = -1 <=> s.state # VALUE,
         s.state = TREE => root = Root /\ s.offset = Len(buffer),
         s.state # VALUE => Len(buffer) - s.offset <= Longest + 2
  PROVE InLoop(End(s, shrink, used), root, buffer, size)
<1> DEFINE t == End(s, shrink, used)
<1>1. t = [reader |-> s, shrink |-> shrink, used |-> used, ends |-> TRUE]  BY DEF End
<1>2. t.reader = s /\ t.shrink = shrink /\ t.used = used /\ t.ends = TRUE  BY <1>1
<1>3. t = [reader |-> t.reader, shrink |-> t.shrink, used |-> t.used, ends |-> t.ends]
  BY <1>1
<1> HIDE DEF t
<1>4. InLoop(t, root, buffer, size)  BY <1>2, <1>3 DEF InLoop
<1> QED  BY <1>4 DEF t

LEMMA NextTagIs ==
  ASSUME NEW r, Reader(r)
  PROVE /\ NextTag(r) \in r.offset..Len(r.buffer)
        /\ NextTag(r) < Len(r.buffer) => r.buffer[NextTag(r) + 1] = "<"
<1> DEFINE tags == {p \in r.offset..(Len(r.buffer) - 1) : r.buffer[p + 1] = "<"}
<1>1. r.offset \in Nat /\ Len(r.buffer) \in Nat /\ r.offset <= Len(r.buffer)  BY DEF Reader
<1>2. CASE tags = {}  BY <1>1, <1>2 DEF NextTag
<1>3. CASE tags # {}
  <2>1. tags \subseteq Nat  BY <1>1
  <2>2. Min(tags) \in tags  BY <1>3, <2>1, Smallest DEF Min
  <2>3. NextTag(r) = Min(tags)  BY <1>3 DEF NextTag
  <2> QED  BY <1>1, <2>2, <2>3
<1> QED  BY <1>2, <1>3

(* A cut label goes back to its tag.                                        *)
LEMMA BackIs ==
  ASSUME NEW r, Reader(r), NEW back \in {1, 2}, r.offset < Len(r.buffer), r.offset - back >= 0,
         r.buffer[r.offset - back + 1] = "<",
         \A i \in (r.offset - back + 2)..Len(r.buffer) : r.buffer[i] # "<"
  PROVE BackToTag(r) = [r EXCEPT !.offset = r.offset - back, !.state = r.state - 1]
<1> DEFINE here == r.offset - back
           S == {p \in 0..r.offset : r.buffer[p + 1] = "<"}
<1>1. r.offset \in Nat /\ Len(r.buffer) \in Nat  BY DEF Reader
<1>2. here \in S  BY <1>1
<1>3. ASSUME NEW p \in S, p > here PROVE FALSE
  <2>1. p + 1 \in (r.offset - back + 2)..Len(r.buffer)  BY <1>1, <1>3
  <2> QED  BY <2>1, <1>3
<1>4. \A p \in S : p \in Int  BY <1>1
<1>5. here \in Int  BY <1>1
<1> HIDE DEF here
<1>6. Max(S) = here
  <2> HIDE DEF S
  <2>1. \A p \in S : here >= p  BY <1>3, <1>4, <1>5
  <2>2. Max(S) \in S /\ \A p \in S : Max(S) >= p  BY <2>1, <1>2 DEF Max
  <2>3. Max(S) >= here /\ here >= Max(S)  BY <2>1, <2>2, <1>2
  <2> QED  BY <2>2, <2>3, <1>4, <1>5
<1>7. BackToTag(r) = [r EXCEPT !.offset = here, !.state = r.state - 1]  BY <1>6 DEF BackToTag
<1> QED  BY <1>7 DEF here

LEMMA BackToTagIs ==
  ASSUME NEW r, Reader(r), Partial(r.state), AtTag(r)
  PROVE \E here \in 0..Len(r.buffer) :
          /\ BackToTag(r) = [r EXCEPT !.offset = here, !.state = r.state - 1]
          /\ Len(r.buffer) - here <= Longest + 2
<1>1. PICK back \in {1, 2} :
        /\ r.offset - back >= 0 /\ r.buffer[r.offset - back + 1] = "<"
        /\ \A i \in (r.offset - back + 2)..Len(r.buffer) : r.buffer[i] # "<"
  BY DEF AtTag
<1>2. /\ r.offset \in Nat /\ Len(r.buffer) \in Nat /\ r.offset < Len(r.buffer)
      /\ Len(r.buffer) - r.offset <= Longest /\ Longest \in Nat
  BY LabelsAre DEF Reader, AtTag
<1>3. BackToTag(r) = [r EXCEPT !.offset = r.offset - back, !.state = r.state - 1]
  BY <1>1, <1>2, BackIs
<1>4. \A o, n, x \in Nat, b \in 1..2 :
        o < n /\ n - o <= x /\ o - b >= 0 => o - b \in 0..n /\ n - (o - b) <= x + 2
  OBVIOUS
<1>5. back \in 1..2  OBVIOUS
<1>6. r.offset - back \in 0..Len(r.buffer) /\ Len(r.buffer) - (r.offset - back) <= Longest + 2
  BY <1>1, <1>2, <1>4, <1>5
<1> QED  BY <1>3, <1>6

(* What a turn u after t is: it ends the loop or uses letters, and a tree   *)
(* is a new one.                                                            *)
Turned(t, u, root, buffer, size) ==
  /\ InLoop(u, root, buffer, size)
  /\ u.ends \/ u.reader.offset > t.reader.offset
  /\ u.reader.state = TREE => ~u.ends /\ u.reader.cur_tree = SubReader

LEMMA TurnedGoes ==
  ASSUME NEW root, NEW buffer, NEW size \in Int, NEW t, InLoop(t, root, buffer, size),
         NEW r, NEW s, Reader(r), Goes(r, s), r.root = root,
         r.buffer = buffer, r.offset > t.reader.offset,
         NEW shrink \in -1..s.offset, shrink = -1 <=> s.state # VALUE
  PROVE Turned(t, Turn(s, shrink, t.used), root, buffer, size)
<1> DEFINE u == Turn(s, shrink, t.used)
<1>0. t.used \in Int /\ t.used <= size  BY DEF InLoop
<1>1. InLoop(u, root, buffer, size)  BY <1>0, TurnGoes
<1>2. u.ends = FALSE /\ u.reader = s  BY DEF Turn
<1> HIDE DEF u
<1>3. s.offset > t.reader.offset  BY DEF Goes, Reader, InLoop
<1>4. Turned(t, u, root, buffer, size)  BY <1>1, <1>2, <1>3 DEF Turned, Goes
<1> QED  BY <1>4 DEF u

LEMMA TurnedEnds ==
  ASSUME NEW root, NEW buffer, NEW size \in Int, NEW t, InLoop(t, root, buffer, size),
         NEW s, Reader(s), s.buffer = buffer, s.root = root, NEW used \in Int, used <= size,
         s.state \in {NULL, LOOKING, VALUE, DONE},
         NEW shrink \in -1..s.offset, shrink = -1 <=> s.state # VALUE,
         s.state # VALUE => Len(buffer) - s.offset <= Longest + 2
  PROVE Turned(t, End(s, shrink, used), root, buffer, size)
<1> DEFINE u == End(s, shrink, used)
<1>1. ~Partial(s.state) /\ s.state # TREE  BY DEF Partial, NULL, LOOKING, VALUE, DONE, TREE
<1>2. InLoop(u, root, buffer, size)  BY <1>1, EndFits
<1>3. u.ends = TRUE /\ u.reader = s  BY DEF End
<1> HIDE DEF u
<1>4. Turned(t, u, root, buffer, size)  BY <1>1, <1>2, <1>3 DEF Turned
<1> QED  BY <1>4 DEF u

LEMMA LookTurns ==
  ASSUME NEW root, NEW buffer, NEW size \in Int, NEW t, InLoop(t, root, buffer, size),
         t.reader.state \in {NULL, LOOKING, VALUE}
  PROVE Turned(t, Look(t.reader, t.shrink, t.used), root, buffer, size)
<1> DEFINE r == t.reader
           here == NextTag(r)
           s == [r EXCEPT !.offset = here + 1]
           u == Look(r, t.shrink, t.used)
<1>1. /\ Reader(r) /\ r.buffer = buffer /\ r.root = root /\ t.used \in Int /\ t.used <= size
      /\ t.shrink \in -1..r.offset /\ (t.shrink = -1 <=> r.state # VALUE)
  BY DEF InLoop
<1>2. /\ r.offset \in Nat /\ Len(buffer) \in Nat /\ here \in r.offset..Len(buffer)
      /\ here < Len(buffer) => buffer[here + 1] = "<"
  BY <1>1, NextTagIs DEF Reader
<1> HIDE DEF r, here
<1>3. CASE here + 1 >= Len(buffer)
  <2> DEFINE v == [r EXCEPT !.offset = here]
  <2>1. here \in 0..Len(r.buffer)  BY <1>1, <1>2
  <2>2. Reader(v)  BY <1>1, <2>1, ReaderExcept, Zenon
  <2>3. v.buffer = buffer /\ v.root = root /\ v.state = r.state /\ v.offset = here
    BY <1>1 DEF Reader
  <2>4. u = End(v, t.shrink, t.used)  BY <1>1, <1>3 DEF Look, here
  <2> HIDE DEF v, u
  <2>5. Len(buffer) - here <= Longest + 2
    <3>1. Longest \in Nat  BY LabelsAre
    <3> QED  BY <3>1, <1>2, <1>3
  <2>6. t.shrink \in -1..v.offset  BY <1>1, <1>2, <2>3
  <2>7. v.state \in {NULL, LOOKING, VALUE, DONE}  BY <2>3 DEF r
  <2>8. Turned(t, End(v, t.shrink, t.used), root, buffer, size)
    BY <1>1, <2>2, <2>3, <2>5, <2>6, <2>7, TurnedEnds
  <2> QED  BY <2>4, <2>8 DEF u, r
<1>4. CASE here + 1 < Len(buffer)
  <2>1. here + 1 \in 0..Len(r.buffer) /\ here \in Nat  BY <1>1, <1>2, <1>4
  <2>2. Reader(s)  BY <1>1, <2>1, ReaderExcept, Zenon
  <2>3. /\ s.buffer = buffer /\ s.root = root /\ s.state = r.state /\ s.offset = here + 1
        /\ s.ign_deep = r.ign_deep
    BY <1>1 DEF Reader
  <2>4. s.offset > t.reader.offset  BY <1>2, <2>1, <2>3 DEF r
  <2>5. AfterTag(s)
    <3>1. s.offset < Len(s.buffer) /\ s.offset - 1 >= 0 /\ s.buffer[s.offset - 1 + 1] = "<"
      BY <1>2, <1>4, <2>1, <2>3
    <3> QED  BY <3>1 DEF AfterTag
  <2>6. ~(here + 1 >= Len(r.buffer))  BY <1>1, <1>2, <1>4
  <2>7. r.state \in {NULL, LOOKING, VALUE} /\ ~Partial(r.state) /\ r.state # TREE
    BY DEF r, NULL, LOOKING, VALUE, Partial, TREE
  <2>8. r.ign_deep \in Nat  BY <1>1 DEF Reader
  <2>9. t.shrink \in -1..s.offset  BY <1>1, <1>2, <2>1, <2>3
  <2>10. ASSUME NEW v, Goes(s, v), NEW shrink \in -1..v.offset, shrink = -1 <=> v.state # VALUE,
                u = Turn(v, shrink, t.used)
         PROVE Turned(t, u, root, buffer, size)
    <3> HIDE DEF s, u
    <3>1. Turned(t, Turn(v, shrink, t.used), root, buffer, size)
      BY <2>2, <2>3, <2>4, <2>10, TurnedGoes
    <3> QED  BY <2>10, <3>1
  <2>11. CASE r.ign_deep > 0
    <3>1. PICK deep \in Nat : Ignore(s) = [s EXCEPT !.ign_deep = deep]
      <4>1. s.ign_deep - 1 \in Nat /\ s.ign_deep + 1 \in Nat  BY <2>3, <2>8, <2>11
      <4> HIDE DEF s
      <4> QED  BY <4>1 DEF Ignore
    <3>2. u = Turn(Ignore(s), t.shrink, t.used)  BY <2>6, <2>11 DEF Look, here
    <3> HIDE DEF s, u
    <3> DEFINE v == [s EXCEPT !.ign_deep = deep]
    <3>3. /\ v.buffer = s.buffer /\ v.root = s.root /\ v.state = s.state /\ v.offset = s.offset
      BY <2>2 DEF Reader
    <3>4. Reader(v)  BY <2>2, ReaderExcept, Zenon
    <3> HIDE DEF v
    <3>5. Goes(s, v)  BY <2>2, <2>3, <2>7, <3>3, <3>4 DEF Goes, Reader
    <3>6. u = Turn(v, t.shrink, t.used)  BY <3>1, <3>2 DEF v
    <3>7. t.shrink \in -1..v.offset /\ (t.shrink = -1 <=> v.state # VALUE)
      BY <1>1, <2>3, <2>9, <3>3
    <3>8. Turned(t, u, root, buffer, size)  BY <2>10, <3>5, <3>6, <3>7
    <3> QED  BY <3>8 DEF u, r
  <2>12. CASE ~(r.ign_deep > 0) /\ r.state = NULL
    <3>1. u = Turn(InNull(s), t.shrink, t.used)  
      BY <2>6, <2>12 DEF Look, here, NULL, LOOKING, VALUE
    <3> HIDE DEF s, u
    <3>2. Goes(s, InNull(s)) /\ InNull(s).state # VALUE  BY <2>2, <2>3, <2>5, <2>12, InNullGoes
    <3>3. t.shrink = -1  BY <1>1, <2>12 DEF NULL, VALUE
    <3>4. InNull(s).offset \in Nat  BY <3>2 DEF Goes, Reader
    <3>5. t.shrink \in -1..InNull(s).offset  BY <3>3, <3>4
    <3>6. Turned(t, u, root, buffer, size)  BY <2>10, <3>1, <3>2, <3>3, <3>5
    <3> QED  BY <3>6 DEF u, r
  <2>13. CASE ~(r.ign_deep > 0) /\ r.state = LOOKING
    <3>1. u = InLooking(s, t.shrink, t.used)
      BY <2>6, <2>13 DEF Look, here, NULL, LOOKING, VALUE
    <3>2. t.shrink = -1  BY <1>1, <2>13 DEF LOOKING, VALUE
    <3> HIDE DEF s, u
    <3>3. CASE Letter(s) = "/" /\ s.offset + 1 >= Len(s.buffer)
      <4> DEFINE v == [s EXCEPT !.offset = s.offset + 1]
                 w == [v EXCEPT !.offset = v.offset - 2]
      <4>1. v.offset = s.offset + 1 /\ v.buffer = s.buffer  BY <2>2 DEF Reader
      <4>2. u = End(w, t.shrink, t.used)
        BY <3>1, <3>3, <4>1 DEF InLooking
      <4>3. w = [s EXCEPT !.offset = here]
        <5>1. v.offset - 2 = here  BY <2>1, <2>3, <4>1
        <5>2. [v EXCEPT !.offset = here] = [s EXCEPT !.offset = here]  BY <2>2 DEF Reader
        <5> HIDE DEF v
        <5> QED  BY <5>1, <5>2
      <4>4. here \in 0..Len(s.buffer)  BY <1>2, <2>1, <2>3
      <4> HIDE DEF w
      <4>5. Reader(w)
        <5>1. Reader([s EXCEPT !.offset = here])  BY <2>2, <4>4, ReaderExcept, Zenon
        <5> QED  BY <5>1, <4>3
      <4>6. w.buffer = buffer /\ w.root = root /\ w.state = LOOKING /\ w.offset = here
        BY <2>2, <2>3, <2>13, <4>3 DEF Reader
      <4>7. Len(buffer) - here <= Longest + 2
        <5>1. Longest \in Nat  BY LabelsAre
        <5> QED  BY <5>1, <1>2, <2>1, <2>3, <3>3
      <4>8. /\ w.state \in {NULL, LOOKING, VALUE, DONE} /\ t.shrink \in -1..w.offset
            /\ w.state # VALUE
        BY <2>1, <3>2, <4>6 DEF LOOKING, VALUE
      <4>9. Turned(t, End(w, t.shrink, t.used), root, buffer, size)
        BY <1>1, <3>2, <4>5, <4>6, <4>7, <4>8, TurnedEnds
      <4> QED  BY <4>2, <4>9 DEF u, r
    <3>4. CASE Letter(s) = "/" /\ ~(s.offset + 1 >= Len(s.buffer))
      <4> DEFINE v == [s EXCEPT !.offset = s.offset + 1]
      <4>1. v.offset = s.offset + 1 /\ v.buffer = s.buffer /\ v.root = s.root /\ v.state = s.state
        BY <2>2 DEF Reader
      <4>2. u = Turn(InEnd(v), t.shrink, t.used)
        BY <3>1, <3>4, <4>1 DEF InLooking
      <4>3. s.offset + 1 \in 0..Len(s.buffer)  BY <1>2, <2>1, <2>3, <3>4
      <4>4. Reader(v)  BY <2>2, <4>3, ReaderExcept, Zenon
      <4> HIDE DEF v
      <4>5. AfterTag(v)
        <5>1. v.offset < Len(v.buffer)  BY <1>2, <2>1, <2>3, <3>4, <4>1
        <5>2. v.offset - 2 >= 0 /\ v.offset - 2 + 1 = here + 1  BY <2>1, <2>3, <4>1
        <5>3. v.buffer[here + 1] = "<"  BY <1>2, <1>4, <2>1, <2>3, <4>1
        <5>4. v.buffer[v.offset] = "/"  BY <3>4, <4>1 DEF Letter
        <5> QED  BY <5>1, <5>2, <5>3, <5>4 DEF AfterTag
      <4>6. Goes(v, InEnd(v)) /\ InEnd(v).state # VALUE
        BY <2>3, <2>13, <4>1, <4>4, <4>5, InEndGoes
      <4>7. Goes(s, InEnd(v))
        <5>1. InEnd(v).offset \in Nat /\ v.offset \in Nat /\ s.offset \in Nat
          BY <2>2, <4>4, <4>6 DEF Goes, Reader
        <5> QED  BY <4>1, <4>6, <5>1 DEF Goes
      <4>8. t.shrink \in -1..InEnd(v).offset
        <5>1. InEnd(v).offset \in Nat  BY <4>6 DEF Goes, Reader
        <5> QED  BY <3>2, <5>1
      <4>9. Turned(t, u, root, buffer, size)  BY <2>10, <3>2, <4>2, <4>6, <4>7, <4>8
      <4> QED  BY <4>9 DEF u, r
    <3>5. CASE Letter(s) # "/"
      <4> DEFINE v == InStart(s)
                 shrink == IF v.state = VALUE THEN v.offset ELSE t.shrink
      <4>1. u = Turn(v, shrink, t.used)  BY <3>1, <3>5 DEF InLooking
      <4>2. Goes(s, v)  BY <2>2, <2>3, <2>5, <2>13, InStartGoes
      <4> HIDE DEF v
      <4>3. v.offset \in Nat  BY <4>2 DEF Goes, Reader
      <4>4. shrink \in -1..v.offset /\ (shrink = -1 <=> v.state # VALUE)  BY <3>2, <4>3
      <4> HIDE DEF shrink
      <4>5. Turned(t, u, root, buffer, size)  BY <2>10, <4>1, <4>2, <4>4
      <4> QED  BY <4>5 DEF u, r
    <3> QED  BY <3>3, <3>4, <3>5
  <2>14. CASE ~(r.ign_deep > 0) /\ r.state = VALUE
    <3>1. u = InValue(s, t.shrink, t.used)
      BY <2>6, <2>14 DEF Look, here, NULL, LOOKING, VALUE
    <3> HIDE DEF s, u
    <3>2. CASE Letter(s) = "/"
      <4> DEFINE vals == Append(s.values, <<s.cur_value, SubSeq(s.buffer, t.shrink + 1, s.offset - 1)>>)
                 v == [[s EXCEPT !.values = vals] EXCEPT !.state = LOOKING]
      <4>1. u = Turn(v, -1, t.used)  BY <2>2, <3>1, <3>2 DEF InValue, Reader
      <4>2. LOOKING \in 0..6  BY DEF LOOKING
      <4> HIDE DEF vals
      <4>3. Reader([s EXCEPT !.values = vals])  BY <2>2, ReaderExcept, Zenon
      <4>4. Reader(v)  BY <4>2, <4>3, ReaderExcept, Zenon
      <4>5. v.buffer = s.buffer /\ v.root = s.root /\ v.state = LOOKING /\ v.offset = s.offset
        BY <2>2 DEF Reader
      <4> HIDE DEF v
      <4>6. Goes(s, v)
        BY <2>2, <4>4, <4>5 DEF Goes, Reader, LOOKING, Partial, TREE
      <4>7. -1 \in -1..v.offset /\ v.state # VALUE
        BY <4>4, <4>5 DEF Reader, LOOKING, VALUE
      <4>8. Turned(t, u, root, buffer, size)  BY <2>10, <4>1, <4>6, <4>7
      <4> QED  BY <4>8 DEF u, r
    <3>3. CASE Letter(s) # "/"
      <4> DEFINE v == [s EXCEPT !.ign_deep = 1]
      <4>1. u = Turn(v, t.shrink, t.used)  BY <3>1, <3>3 DEF InValue
      <4>2. 1 \in Nat  OBVIOUS
      <4>3. Reader(v)  BY <2>2, <4>2, ReaderExcept, Zenon
      <4>4. v.buffer = s.buffer /\ v.root = s.root /\ v.state = s.state /\ v.offset = s.offset
        BY <2>2 DEF Reader
      <4> HIDE DEF v
      <4>5. Goes(s, v)  BY <2>2, <2>3, <2>7, <4>3, <4>4 DEF Goes, Reader
      <4>6. t.shrink \in -1..v.offset /\ (t.shrink = -1 <=> v.state # VALUE)
        BY <1>1, <2>3, <2>9, <4>4
      <4>7. Turned(t, u, root, buffer, size)  BY <2>10, <4>1, <4>5, <4>6
      <4> QED  BY <4>7 DEF u, r
    <3> QED  BY <3>2, <3>3
  <2> QED  BY <2>7, <2>11, <2>12, <2>13, <2>14
<1> QED  BY <1>2, <1>3, <1>4

LEMMA ValueBodyTurns ==
  ASSUME NEW root, NEW buffer, NEW old \in Nat, NEW size \in Int, size = Len(buffer) - old,
         NEW t, InLoop(t, root, buffer, size), ~Over(t), t.reader.state # TREE
  PROVE Turned(t, ValueBody(t, old), root, buffer, size)
<1> DEFINE r == t.reader
           u == ValueBody(t, old)
<1>1. /\ Reader(r) /\ r.buffer = buffer /\ r.root = root /\ t.used \in Int /\ t.used <= size
      /\ t.shrink \in -1..r.offset /\ (t.shrink = -1 <=> r.state # VALUE)
      /\ Partial(r.state) => AtTag(r)
  BY DEF InLoop
<1>2. Len(buffer) \in Nat /\ r.offset \in 0..Len(buffer) /\ Longest \in Nat
  BY <1>1, LabelsAre DEF Reader
<1>3. CASE r.state = DONE
  <2> DEFINE s == [r EXCEPT !.offset = Len(r.buffer)]
  <2>1. u = End(s, t.shrink, r.offset - old)  BY <1>3 DEF ValueBody, Partial, DONE
  <2>2. Len(r.buffer) \in 0..Len(r.buffer)  BY <1>1, <1>2
  <2> HIDE DEF r
  <2>3. Reader(s)  BY <1>1, <2>2, ReaderExcept, Zenon
  <2>4. s.buffer = buffer /\ s.root = root /\ s.state = DONE /\ s.offset = Len(buffer)
    BY <1>1, <1>3 DEF Reader
  <2> HIDE DEF s
  <2>5. t.shrink = -1  BY <1>1, <1>3 DEF DONE, VALUE
  <2>6. r.offset - old \in Int /\ r.offset - old <= size  BY <1>2
  <2>7. /\ s.state \in {NULL, LOOKING, VALUE, DONE} /\ t.shrink \in -1..s.offset /\ s.state # VALUE
        /\ Len(buffer) - s.offset <= Longest + 2
    BY <1>2, <2>4, <2>5 DEF DONE, VALUE
  <2>8. Turned(t, End(s, t.shrink, r.offset - old), root, buffer, size)
    BY <2>3, <2>4, <2>5, <2>6, <2>7, TurnedEnds
  <2> QED  BY <2>1, <2>8
<1>4. CASE Partial(r.state)
  <2>1. u = End(BackToTag(r), t.shrink, t.used)  BY <1>4 DEF ValueBody, Partial, DONE
  <2> HIDE DEF r, u
  <2>2. PICK here \in 0..Len(r.buffer) :
          /\ BackToTag(r) = [r EXCEPT !.offset = here, !.state = r.state - 1]
          /\ Len(r.buffer) - here <= Longest + 2
    BY <1>1, <1>4, BackToTagIs
  <2> DEFINE v == [r EXCEPT !.offset = here]
             s == [v EXCEPT !.state = r.state - 1]
  <2>3. r.state - 1 \in 0..6 /\ r.state - 1 \in {NULL, LOOKING}
    BY <1>4 DEF Partial, NULL, LOOKING
  <2>4. Reader(v)  BY <1>1, ReaderExcept, Zenon
  <2>5. Reader(s)  BY <2>3, <2>4, ReaderExcept, Zenon
  <2>6. s.buffer = buffer /\ s.root = root /\ s.state = r.state - 1 /\ s.offset = here
    BY <1>1 DEF Reader
  <2>7. BackToTag(r) = s  BY <2>2
  <2> HIDE DEF s
  <2>8. t.shrink = -1  BY <1>1, <1>4 DEF Partial, VALUE
  <2>9. /\ s.state \in {NULL, LOOKING, VALUE, DONE} /\ t.shrink \in -1..s.offset /\ s.state # VALUE
        /\ Len(buffer) - s.offset <= Longest + 2
    BY <1>1, <1>2, <2>2, <2>3, <2>6, <2>8 DEF NULL, LOOKING, VALUE
  <2>10. Turned(t, End(s, t.shrink, t.used), root, buffer, size)
    BY <1>1, <2>5, <2>6, <2>8, <2>9, TurnedEnds
  <2> QED  BY <2>1, <2>7, <2>10 DEF u
<1>5. CASE r.state # DONE /\ ~Partial(r.state)
  <2>1. u = Look(r, t.shrink, t.used)  BY <1>5 DEF ValueBody
  <2>2. r.state \in {NULL, LOOKING, VALUE}
    BY <1>1, <1>5 DEF Reader, Partial, DONE, TREE, NULL, LOOKING, VALUE
  <2>3. Turned(t, Look(r, t.shrink, t.used), root, buffer, size)
    BY <2>2, LookTurns
  <2> QED  BY <2>1, <2>3
<1> QED  BY <1>3, <1>4, <1>5

-----------------------------------------------------------------------------
(* Between two pieces.                                                      *)

(* What a reader keeps: of its buffer no more than a tag that is not        *)
(* finished, unless it is a value that is not, and nothing inside a tree.   *)
Kept(r, root) ==
  /\ Reader(r) /\ r.root = root /\ ~Partial(r.state)
  /\ r.state # VALUE => Len(r.buffer) <= Longest + 2
  /\ r.state = TREE => root = Root /\ r.buffer = <<>>

EndsWith(s, t) ==
  Len(s) <= Len(t) /\ \A i \in 1..Len(s) : s[i] = t[Len(t) - Len(s) + i]

(* The first turn over a buffer and a piece.                                *)
LEMMA FirstIs ==
  ASSUME NEW root, NEW r, Kept(r, root), NEW piece \in Seq(Letters)
  PROVE /\ InLoop(First(r, piece), root, r.buffer \o piece, Len(piece))
        /\ First(r, piece).reader.state = r.state
        /\ First(r, piece).reader.cur_tree = r.cur_tree
        /\ First(r, piece).reader.offset = r.offset
        /\ First(r, piece).used = Len(piece)
<1> DEFINE s == [r EXCEPT !.buffer = @ \o piece]
           shrink == IF r.state = VALUE THEN 0 ELSE -1
<1>1. Reader(r) /\ r.root = root /\ r.buffer \in Seq(Letters) /\ ~Partial(r.state)
  BY DEF Kept, Reader
<1>2. /\ r.buffer \o piece \in Seq(Letters) /\ r.offset \in Nat /\ r.offset <= Len(r.buffer)
      /\ Len(r.buffer \o piece) = Len(r.buffer) + Len(piece) /\ Len(piece) \in Nat
      /\ Len(r.buffer) \in Nat
  BY <1>1 DEF Reader
<1>3. /\ s.buffer = r.buffer \o piece /\ s.root = root /\ s.state = r.state
      /\ s.offset = r.offset /\ s.cur_tree = r.cur_tree
  BY <1>1 DEF Reader
<1>4. Reader(s)
  <2> DEFINE b == r.buffer \o piece
  <2>1. r.offset \in 0..Len(b) /\ b \in Seq(Letters)  BY <1>2
  <2>2. s = [r EXCEPT !.buffer = b]  BY <1>1 DEF Reader
  <2> HIDE DEF b, s
  <2> QED  BY <1>1, <2>1, <2>2 DEF Reader
<1> DEFINE t == First(r, piece)
<1>5. t = [reader |-> s, shrink |-> shrink, used |-> Len(piece), ends |-> FALSE]
  BY DEF First, Turn
<1> HIDE DEF s, t
<1>6. t.reader = s /\ t.shrink = shrink /\ t.used = Len(piece) /\ t.ends = FALSE  BY <1>5
<1>7. InLoop(t, root, r.buffer \o piece, Len(piece))
  <2>1. shrink \in -1..s.offset /\ (shrink = -1 <=> s.state # VALUE)  BY <1>2, <1>3
  <2>2. Len(piece) \in Int /\ Len(piece) <= Len(piece)  BY <1>2
  <2>3. s.state = TREE => root = Root  BY <1>3 DEF Kept
  <2>4. t = [reader |-> t.reader, shrink |-> t.shrink, used |-> t.used, ends |-> t.ends]
    BY <1>5
  <2> HIDE DEF shrink
  <2> QED  BY <1>1, <1>3, <1>4, <1>6, <2>1, <2>2, <2>3, <2>4 DEF InLoop
<1> QED  BY <1>3, <1>6, <1>7 DEF t

(* What the last one leaves.                                                *)
LEMMA ShrinkKeeps ==
  ASSUME NEW root, NEW buffer \in Seq(Letters), NEW size \in Int,
         NEW t, InLoop(t, root, buffer, size), Over(t)
  PROVE /\ Kept(Shrink(t).reader, root) /\ EndsWith(Shrink(t).reader.buffer, buffer)
        /\ Shrink(t).reader.state = t.reader.state
        /\ Shrink(t).reader.cur_tree = t.reader.cur_tree /\ Shrink(t).used = t.used
<1> DEFINE r == t.reader
           here == IF t.shrink < 0 THEN r.offset ELSE t.shrink
           s == Shrink(t).reader
           rest == SubSeq(buffer, here + 1, Len(buffer))
<1>1. /\ Reader(r) /\ r.buffer = buffer /\ r.root = root
      /\ t.shrink \in -1..r.offset /\ (t.shrink = -1 <=> r.state # VALUE)
      /\ r.state = TREE => root = Root /\ (t.ends => r.offset = Len(buffer))
      /\ Partial(r.state) => ~t.ends /\ AtTag(r)
      /\ t.ends /\ r.state # VALUE => Len(buffer) - r.offset <= Longest + 2
  BY DEF InLoop
<1>2. Len(buffer) \in Nat /\ r.offset \in 0..Len(buffer) /\ Longest \in Nat
  BY <1>1, LabelsAre DEF Reader
<1>3. t.ends \/ r.offset = Len(buffer)  BY <1>1, <1>2 DEF Over
<1>4. ~Partial(r.state)
  <2>1. Partial(r.state) => r.offset < Len(buffer) /\ ~t.ends  BY <1>1 DEF AtTag
  <2> QED  BY <1>2, <1>3, <2>1
<1>5. /\ here \in 0..Len(buffer) /\ here <= r.offset /\ r.offset - here \in Nat
      /\ r.state # VALUE => here = r.offset
  BY <1>1, <1>2
<1>6. Shrink(t).used = t.used
      /\ s = [r EXCEPT !.buffer = rest, !.offset = r.offset - here]
  <2> DEFINE u == [r EXCEPT !.buffer = SubSeq(@, here + 1, Len(@)), !.offset = @ - here]
  <2>1. Shrink(t) = [reader |-> u, used |-> t.used]  BY Zenon DEF Shrink
  <2> HIDE DEF here
  <2>2. u = [r EXCEPT !.buffer = rest, !.offset = r.offset - here]  BY <1>1
  <2> HIDE DEF u
  <2>3. Shrink(t).used = t.used /\ Shrink(t).reader = u  BY <2>1
  <2> QED  BY <2>2, <2>3
<1> HIDE DEF here
<1>7. /\ rest \in Seq(Letters) /\ Len(rest) = Len(buffer) - here
      /\ \A i \in 1..Len(rest) : rest[i] = buffer[here + i]
  BY <1>2, <1>5, EndIs
<1> HIDE DEF rest, s
<1>8. /\ s.buffer = rest /\ s.offset = r.offset - here /\ s.root = root /\ s.state = r.state
      /\ s.cur_tree = r.cur_tree
  BY <1>1, <1>6 DEF Reader
<1>9. Reader(s)
  <2>1. r.offset - here \in 0..Len(rest)  BY <1>2, <1>5, <1>7
  <2> HIDE DEF r
  <2> QED  BY <1>1, <1>6, <1>7, <2>1 DEF Reader
<1>10. s.state # VALUE => Len(rest) <= Longest + 2
  BY <1>1, <1>2, <1>3, <1>5, <1>7, <1>8
<1>11. s.state = TREE => root = Root /\ rest = <<>>
  <2>1. s.state = TREE => here = Len(buffer)  BY <1>1, <1>3, <1>5, <1>8 DEF TREE, VALUE
  <2>2. s.state = TREE => Len(rest) = 0  BY <1>2, <1>7, <2>1
  <2>3. Len(rest) = 0 => rest = <<>>  BY <1>7
  <2> QED  BY <1>1, <1>8, <2>2, <2>3
<1>12. EndsWith(rest, buffer)
  <2>1. Len(rest) <= Len(buffer) /\ Len(buffer) - Len(rest) = here  BY <1>2, <1>5, <1>7
  <2> QED  BY <1>7, <2>1 DEF EndsWith
<1> QED  BY <1>4, <1>6, <1>8, <1>9, <1>10, <1>11, <1>12 DEF Kept, s

-----------------------------------------------------------------------------
(* The loops.  Their turns exist, and are over when the function ends.      *)

(* What a set has of 0 and of the successors of its elements.               *)
LEMMA UpTo ==
  ASSUME NEW n \in Nat, NEW P, 0 \in P,
         \A i \in 0..(n - 1) : i \in P => i + 1 \in P
  PROVE 0..n \subseteq P
<1> DEFINE S == {i \in 0..n : i \notin P}
<1> SUFFICES ASSUME S # {} PROVE FALSE  OBVIOUS
<1>0. S \subseteq Nat  OBVIOUS
<1>1. PICK m \in S : \A k \in S : m <= k  BY <1>0, Smallest
<1>2. m # 0 /\ m \in 0..n  OBVIOUS
<1>3. m - 1 \in 0..(n - 1) /\ m - 1 \notin S  BY <1>1, <1>2
<1>4. m - 1 \in P  BY <1>3
<1>5. (m - 1) + 1 \in P  BY <1>3, <1>4
<1> QED  BY <1>2, <1>5

(* The loop leads from a turn t to one that is over, v, in n turns.         *)
LeadsIn(n, t, old, v) ==
  \E f : f[0] = t /\ f[n] = v /\ \A i \in 0..(n - 1) : f[i + 1] = DataTurn(f[i], old)

Leads(t, old, v) == Over(v) /\ \E n \in Nat : LeadsIn(n, t, old, v)

LEMMA LeadsNow ==
  ASSUME NEW t, NEW old, NEW v
  PROVE LeadsIn(0, t, old, v) <=> v = t
<1>1. LeadsIn(0, t, old, v) => v = t  BY DEF LeadsIn
<1>2. LeadsIn(0, t, old, t)
  <2> DEFINE f == [i \in {0} |-> t]
  <2>1. f[0] = t /\ \A i \in 0..(0 - 1) : f[i + 1] = DataTurn(f[i], old)  OBVIOUS
  <2> QED  BY <2>1 DEF LeadsIn
<1> QED  BY <1>1, <1>2

LEMMA LeadsNext ==
  ASSUME NEW n \in Nat, NEW t, NEW old, NEW v
  PROVE LeadsIn(n + 1, t, old, v) <=> LeadsIn(n, DataTurn(t, old), old, v)
<1>1. ASSUME LeadsIn(n + 1, t, old, v) PROVE LeadsIn(n, DataTurn(t, old), old, v)
  <2>1. PICK f : /\ f[0] = t /\ f[n + 1] = v
                 /\ \A i \in 0..((n + 1) - 1) : f[i + 1] = DataTurn(f[i], old)
    BY <1>1 DEF LeadsIn
  <2> DEFINE g == [i \in 0..n |-> f[i + 1]]
  <2>2. \A i \in 0..n : g[i] = f[i + 1]  OBVIOUS
  <2> HIDE DEF g
  <2>3. g[0] = DataTurn(t, old)
    <3>1. 0 \in 0..((n + 1) - 1) /\ 0 \in 0..n  OBVIOUS
    <3>2. f[0 + 1] = DataTurn(f[0], old)  BY <2>1, <3>1
    <3> QED  BY <2>1, <2>2, <3>1, <3>2
  <2>4. g[n] = v
    <3>1. n \in 0..n  OBVIOUS
    <3> QED  BY <2>1, <2>2, <3>1
  <2>5. ASSUME NEW i \in 0..(n - 1) PROVE g[i + 1] = DataTurn(g[i], old)
    <3>1. i + 1 \in 0..((n + 1) - 1) /\ i \in 0..n /\ i + 1 \in 0..n  OBVIOUS
    <3>2. f[(i + 1) + 1] = DataTurn(f[i + 1], old)  BY <2>1, <3>1
    <3> QED  BY <2>2, <3>1, <3>2
  <2> QED  BY <2>3, <2>4, <2>5 DEF LeadsIn
<1>2. ASSUME LeadsIn(n, DataTurn(t, old), old, v) PROVE LeadsIn(n + 1, t, old, v)
  <2>1. PICK f : /\ f[0] = DataTurn(t, old) /\ f[n] = v
                 /\ \A i \in 0..(n - 1) : f[i + 1] = DataTurn(f[i], old)
    BY <1>2 DEF LeadsIn
  <2> DEFINE g == [i \in 0..(n + 1) |-> IF i = 0 THEN t ELSE f[i - 1]]
  <2>2. g[0] = t /\ \A i \in 1..(n + 1) : g[i] = f[i - 1]  OBVIOUS
  <2> HIDE DEF g
  <2>3. g[n + 1] = v
    <3>1. n + 1 \in 1..(n + 1) /\ (n + 1) - 1 = n  OBVIOUS
    <3>2. g[n + 1] = f[(n + 1) - 1]  BY <2>2, <3>1
    <3> QED  BY <2>1, <3>1, <3>2
  <2>4. ASSUME NEW i \in 0..((n + 1) - 1) PROVE g[i + 1] = DataTurn(g[i], old)
    <3>1. i + 1 \in 1..(n + 1) /\ (i + 1) - 1 = i  OBVIOUS
    <3>2. g[i + 1] = f[i]
      <4>1. g[i + 1] = f[(i + 1) - 1]  BY <2>2, <3>1
      <4> QED  BY <3>1, <4>1
    <3>3. CASE i = 0  BY <2>1, <2>2, <3>2, <3>3
    <3>4. CASE i # 0
      <4>1. i - 1 \in 0..(n - 1) /\ (i - 1) + 1 = i /\ i \in 1..(n + 1)  BY <3>4
      <4>2. f[(i - 1) + 1] = DataTurn(f[i - 1], old)  BY <2>1, <4>1
      <4>3. g[i] = f[i - 1]  BY <2>2, <4>1
      <4> QED  BY <3>2, <4>1, <4>2, <4>3
    <3> QED  BY <3>3, <3>4
  <2> QED  BY <2>2, <2>3, <2>4 DEF LeadsIn
<1> QED  BY <1>1, <1>2

(* It leads to one turn only, and what leads there from the next turn leads *)
(* there from this one.                                                     *)
LEMMA LeadsOnce ==
  ASSUME NEW t, NEW old, NEW v, Leads(t, old, v), NEW w, Leads(t, old, w)
  PROVE v = w
<1>1. PICK n \in Nat : LeadsIn(n, t, old, v)  BY DEF Leads
<1>2. PICK m \in Nat : LeadsIn(m, t, old, w)  BY DEF Leads
<1>3. Over(v) /\ Over(w)  BY DEF Leads
<1>4. ASSUME NEW k \in Nat, NEW x, NEW y, Over(x)
      PROVE LeadsIn(k, x, old, y) => y = x
  <2> DEFINE P == {i \in 0..k : LeadsIn(i, x, old, y) => y = x}
  <2>1. 0 \in P  BY LeadsNow
  <2>2. ASSUME NEW i \in 0..(k - 1), i \in P PROVE i + 1 \in P
    <3>1. DataTurn(x, old) = x  BY <1>4 DEF DataTurn
    <3>2. i \in Nat /\ i + 1 \in 0..k  OBVIOUS
    <3>3. LeadsIn(i + 1, x, old, y) <=> LeadsIn(i, x, old, y)  BY <3>1, <3>2, LeadsNext
    <3> QED  BY <2>2, <3>2, <3>3
  <2> HIDE DEF P
  <2>3. 0..k \subseteq P  BY <2>1, <2>2, UpTo
  <2>4. k \in P  BY <2>3
  <2> QED  BY <2>4 DEF P
<1> DEFINE P == {i \in 0..n : \A x : \A k \in Nat :
                   LeadsIn(i, x, old, v) /\ LeadsIn(k, x, old, w) => v = w}
<1>5. 0 \in P
  <2>1. ASSUME NEW x, NEW k \in Nat, LeadsIn(0, x, old, v), LeadsIn(k, x, old, w)
        PROVE v = w
    <3>1. x = v  BY <2>1, LeadsNow
    <3> QED  BY <1>3, <1>4, <2>1, <3>1
  <2> QED  BY <2>1
<1>6. ASSUME NEW i \in 0..(n - 1), i \in P PROVE i + 1 \in P
  <2>1. ASSUME NEW x, NEW k \in Nat, LeadsIn(i + 1, x, old, v), LeadsIn(k, x, old, w)
        PROVE v = w
    <3>1. i \in Nat  OBVIOUS
    <3>2. LeadsIn(i, DataTurn(x, old), old, v)  BY <2>1, <3>1, LeadsNext
    <3>3. CASE k = 0
      <4>1. x = w  BY <2>1, <3>3, LeadsNow
      <4>2. i + 1 \in Nat  BY <3>1
      <4> QED  BY <1>3, <1>4, <2>1, <4>1, <4>2
    <3>4. CASE k # 0
      <4>1. k - 1 \in Nat /\ (k - 1) + 1 = k  BY <3>4
      <4>2. LeadsIn(k - 1, DataTurn(x, old), old, w)  BY <2>1, <4>1, LeadsNext
      <4> QED  BY <1>6, <3>2, <4>1, <4>2
    <3> QED  BY <3>3, <3>4
  <2>2. i + 1 \in 0..n  OBVIOUS
  <2> QED  BY <2>1, <2>2
<1> HIDE DEF P
<1>7. 0..n \subseteq P  BY <1>5, <1>6, UpTo
<1>8. n \in P  BY <1>7
<1> QED  BY <1>1, <1>2, <1>8 DEF P

LEMMA LeadsFrom ==
  ASSUME NEW t, NEW old, NEW v
  PROVE /\ Over(t) => Leads(t, old, t)
        /\ ~Over(t) => (Leads(t, old, v) <=> Leads(Body(t, old), old, v))
<1>1. Over(t) => Leads(t, old, t)  BY LeadsNow DEF Leads
<1>2. ASSUME ~Over(t) PROVE DataTurn(t, old) = Body(t, old)  BY <1>2 DEF DataTurn
<1>3. ASSUME ~Over(t), Leads(t, old, v) PROVE Leads(Body(t, old), old, v)
  <2>1. PICK n \in Nat : LeadsIn(n, t, old, v)  BY <1>3 DEF Leads
  <2>2. Over(v) /\ n # 0
    <3>1. Over(v)  BY <1>3 DEF Leads
    <3>2. n = 0 => v = t  BY <2>1, LeadsNow
    <3> QED  BY <1>3, <3>1, <3>2
  <2>3. n - 1 \in Nat /\ (n - 1) + 1 = n  BY <2>2
  <2>4. LeadsIn(n - 1, DataTurn(t, old), old, v)  BY <2>1, <2>3, LeadsNext
  <2> QED  BY <1>2, <1>3, <2>2, <2>3, <2>4 DEF Leads
<1>4. ASSUME ~Over(t), Leads(Body(t, old), old, v) PROVE Leads(t, old, v)
  <2>1. PICK n \in Nat : LeadsIn(n, Body(t, old), old, v)  BY <1>4 DEF Leads
  <2>2. LeadsIn(n + 1, t, old, v)  BY <1>2, <1>4, <2>1, LeadsNext
  <2>3. n + 1 \in Nat /\ Over(v)  BY <1>4 DEF Leads
  <2> QED  BY <2>2, <2>3 DEF Leads
<1> QED  BY <1>1, <1>3, <1>4

ValueTurns(f, r, piece, n) ==
  f = [i \in 0..n |-> IF i = 0 THEN First(r, piece)
                      ELSE CHOOSE next \in {ValueTurn(t, Len(r.buffer)) : t \in {f[i - 1]}} : TRUE]

LEMMA ValueTurnsExist ==
  ASSUME NEW r, NEW piece, NEW n \in Nat
  PROVE \E f : ValueTurns(f, r, piece, n)
<1> DEFINE Then(x) == CHOOSE next \in {ValueTurn(t, Len(r.buffer)) : t \in {x}} : TRUE
           Is(f, m) == f = [i \in 0..m |-> IF i = 0 THEN First(r, piece) ELSE Then(f[i - 1])]
           P == {m \in 0..n : \E f : Is(f, m)}
<1> HIDE DEF Then
<1>1. 0 \in P
  <2> DEFINE f == [i \in 0..0 |-> First(r, piece)]
  <2>1. Is(f, 0)  OBVIOUS
  <2>2. 0 \in 0..n  OBVIOUS
  <2> HIDE DEF f
  <2> QED  BY <2>1, <2>2
<1>2. ASSUME NEW m \in 0..(n - 1), m \in P PROVE m + 1 \in P
  <2>1. PICK f : Is(f, m)  BY <1>2
  <2> DEFINE g == [i \in 0..(m + 1) |-> IF i = m + 1 THEN Then(f[m]) ELSE f[i]]
  <2>2. \A i \in 0..m : g[i] = f[i] /\ f[i] = IF i = 0 THEN First(r, piece) ELSE Then(f[i - 1])
    BY <2>1
  <2>3. ASSUME NEW i \in 0..(m + 1)
        PROVE g[i] = IF i = 0 THEN First(r, piece) ELSE Then(g[i - 1])
    <3>1. CASE i = m + 1
      <4>1. g[i] = Then(f[m]) /\ g[m] = f[m] /\ i # 0 /\ i - 1 = m  BY <2>2, <3>1
      <4> HIDE DEF g
      <4> QED  BY <4>1
    <3>2. CASE i \in 0..m
      <4>1. i # 0 => i - 1 \in 0..m  BY <3>2
      <4> HIDE DEF g
      <4> QED  BY <2>2, <3>2, <4>1
    <3> QED  BY <3>1, <3>2
  <2>4. g = [i \in 0..(m + 1) |-> g[i]]  OBVIOUS
  <2> HIDE DEF g
  <2>5. Is(g, m + 1)  BY <2>3, <2>4
  <2> QED  BY <2>5
<1> HIDE DEF P
<1>3. 0..n \subseteq P  BY <1>1, <1>2, UpTo
<1>4. PICK f : Is(f, n)  BY <1>3 DEF P
<1> QED  BY <1>4 DEF ValueTurns, Then

(* Each turn fits and, when the loop goes on, as many letters are used, so  *)
(* that the last one ends it.                                               *)
LEMMA ValueLoopEnds ==
  ASSUME NEW r, Kept(r, Tree), NEW piece \in Seq(Letters)
  PROVE \E t : /\ InLoop(t, Tree, r.buffer \o piece, Len(piece)) /\ Over(t)
               /\ Leads(First(r, piece), Len(r.buffer), t)
               /\ ReadValue(r, piece) = Shrink(t)
<1> DEFINE old == Len(r.buffer)
           most == old + Len(piece)
           b == r.buffer \o piece
           f == CHOOSE f : ValueTurns(f, r, piece, most)
<1>1. old \in Nat /\ Len(piece) \in Nat /\ most \in Nat /\ Len(b) = most /\ r.offset \in Nat
  BY DEF Kept, Reader
<1>2. ValueTurns(f, r, piece, most)  BY <1>1, ValueTurnsExist
<1>3. ReadValue(r, piece) = Result(f, most)
  BY DEF ReadValue, ValueTurns
<1>4. Result(f, most) = Shrink(f[most])  BY DEF Result
<1> HIDE DEF f
<1>5. f[0] = First(r, piece)  BY <1>1, <1>2 DEF ValueTurns
<1>6. ASSUME NEW i \in 0..(most - 1) PROVE f[i + 1] = ValueTurn(f[i], old)
  <2>1. i + 1 \in 0..most /\ i + 1 # 0 /\ (i + 1) - 1 = i  BY <1>1
  <2>2. f[i + 1] = CHOOSE next \in {ValueTurn(t, old) : t \in {f[i]}} : TRUE
    BY <1>2, <2>1 DEF ValueTurns
  <2> QED  BY <2>2
<1> DEFINE P == {i \in 0..most : /\ InLoop(f[i], Tree, b, Len(piece))
                                 /\ Over(f[i]) \/ f[i].reader.offset >= i}
<1> HIDE DEF b, most, old
<1>7. 0 \in P
  <2>1. InLoop(f[0], Tree, b, Len(piece)) /\ f[0].reader.offset = r.offset
    BY <1>5, FirstIs DEF b
  <2> QED  BY <1>1, <2>1
<1>8. ASSUME NEW i \in 0..(most - 1), i \in P PROVE i + 1 \in P
  <2>1. CASE Over(f[i])
    <3>1. f[i + 1] = f[i]  BY <1>6, <2>1 DEF ValueTurn
    <3> QED  BY <1>1, <1>8, <2>1, <3>1
  <2>2. CASE ~Over(f[i])
    <3>1. f[i + 1] = ValueBody(f[i], old)  BY <1>6, <2>2 DEF ValueTurn
    <3>2. InLoop(f[i], Tree, b, Len(piece)) /\ f[i].reader.offset >= i  BY <1>8, <2>2
    <3>3. f[i].reader.state # TREE
      BY <3>2, ReaderAssumption DEF InLoop
    <3>4. Len(piece) \in Int /\ Len(piece) = Len(b) - old  BY <1>1 DEF most
    <3>5. Turned(f[i], f[i + 1], Tree, b, Len(piece))
      BY <1>1, <2>2, <3>1, <3>2, <3>3, <3>4, ValueBodyTurns
    <3>6. /\ InLoop(f[i + 1], Tree, b, Len(piece))
          /\ f[i + 1].ends \/ f[i + 1].reader.offset > f[i].reader.offset
      BY <3>5 DEF Turned
    <3>7. f[i + 1].reader.offset \in Nat /\ f[i].reader.offset \in Nat
      BY <3>2, <3>6 DEF InLoop, Reader
    <3>8. Over(f[i + 1]) \/ f[i + 1].reader.offset >= i + 1
      BY <3>2, <3>6, <3>7 DEF Over
    <3>9. i + 1 \in 0..most  BY <1>1
    <3> QED  BY <3>6, <3>8, <3>9
  <2> QED  BY <2>1, <2>2
<1>9. 0..most \subseteq P
  <2> HIDE DEF P
  <2> QED  BY <1>1, <1>7, <1>8, UpTo
<1>10. InLoop(f[most], Tree, b, Len(piece)) /\ (Over(f[most]) \/ f[most].reader.offset >= most)
  <2>1. most \in 0..most  BY <1>1
  <2> QED  BY <1>9, <2>1
<1>11. Over(f[most])  BY <1>1, <1>10 DEF Over, InLoop
<1>12. ASSUME NEW i \in 0..(most - 1) PROVE f[i + 1] = DataTurn(f[i], old)
  <2>1. i \in 0..most  BY <1>1
  <2>2. InLoop(f[i], Tree, b, Len(piece))  BY <1>9, <2>1
  <2>3. f[i].reader.state # TREE  BY <2>2, ReaderAssumption DEF InLoop
  <2>4. DataTurn(f[i], old) = ValueTurn(f[i], old)  BY <2>3 DEF DataTurn, ValueTurn, Body
  <2> QED  BY <1>6, <2>4
<1>13. LeadsIn(most, First(r, piece), old, f[most])  BY <1>5, <1>12 DEF LeadsIn
<1>14. Leads(First(r, piece), old, f[most])  BY <1>1, <1>11, <1>13 DEF Leads
<1> QED  BY <1>3, <1>4, <1>10, <1>11, <1>14 DEF b, old

(* A reader of a value keeps what it must of its buffer and the piece, and  *)
(* says no more was used than was given.                                    *)
LEMMA ValueRead ==
  ASSUME NEW r, Kept(r, Tree), NEW piece \in Seq(Letters)
  PROVE /\ Kept(ReadValue(r, piece).reader, Tree)
        /\ EndsWith(ReadValue(r, piece).reader.buffer, r.buffer \o piece)
        /\ ReadValue(r, piece).used \in Int /\ ReadValue(r, piece).used <= Len(piece)
<1>1. PICK t : /\ InLoop(t, Tree, r.buffer \o piece, Len(piece)) /\ Over(t)
               /\ ReadValue(r, piece) = Shrink(t)
  BY ValueLoopEnds
<1>2. r.buffer \o piece \in Seq(Letters) /\ Len(piece) \in Int  BY DEF Kept, Reader
<1>3. /\ Kept(Shrink(t).reader, Tree) /\ EndsWith(Shrink(t).reader.buffer, r.buffer \o piece)
      /\ Shrink(t).used = t.used
  BY <1>1, <1>2, ShrinkKeeps
<1>4. t.used \in Int /\ t.used <= Len(piece)  BY <1>1 DEF InLoop
<1> QED  BY <1>1, <1>3, <1>4

-----------------------------------------------------------------------------
(* Ends of texts.                                                           *)

LEMMA EndsWithItself ==
  ASSUME NEW s \in Seq(Letters)
  PROVE EndsWith(s, s) /\ <<>> \o s = s /\ s \o <<>> = s
BY DEF EndsWith

LEMMA EndsWithMore ==
  ASSUME NEW s \in Seq(Letters), NEW t \in Seq(Letters), NEW piece \in Seq(Letters),
         EndsWith(s, t)
  PROVE EndsWith(s \o piece, t \o piece)
<1> DEFINE u == s \o piece
           v == t \o piece
<1>1. /\ Len(s) \in Nat /\ Len(t) \in Nat /\ Len(piece) \in Nat
      /\ Len(u) = Len(s) + Len(piece) /\ Len(v) = Len(t) + Len(piece)
  OBVIOUS
<1>2. Len(s) <= Len(t) /\ \A i \in 1..Len(s) : s[i] = t[Len(t) - Len(s) + i]  BY DEF EndsWith
<1>3. /\ \A i \in 1..Len(s) : u[i] = s[i]
      /\ \A i \in (Len(s) + 1)..(Len(s) + Len(piece)) : u[i] = piece[i - Len(s)]
  OBVIOUS
<1>4. /\ \A i \in 1..Len(t) : v[i] = t[i]
      /\ \A i \in (Len(t) + 1)..(Len(t) + Len(piece)) : v[i] = piece[i - Len(t)]
  OBVIOUS
<1> HIDE DEF u, v
<1>5. ASSUME NEW i \in 1..Len(u) PROVE u[i] = v[Len(v) - Len(u) + i]
  <2> DEFINE j == Len(v) - Len(u) + i
  <2>1. j = Len(t) - Len(s) + i /\ j \in Int  BY <1>1
  <2> HIDE DEF j
  <2>2. CASE i <= Len(s)
    <3>1. i \in 1..Len(s) /\ j \in 1..Len(t)  BY <1>1, <1>2, <2>1, <2>2
    <3> QED  BY <1>2, <1>3, <1>4, <2>1, <3>1 DEF j
  <2>3. CASE i > Len(s)
    <3>1. /\ i \in (Len(s) + 1)..(Len(s) + Len(piece)) /\ j \in (Len(t) + 1)..(Len(t) + Len(piece))
          /\ i - Len(s) = j - Len(t)
      BY <1>1, <1>2, <2>1, <2>3
    <3>2. u[i] = piece[i - Len(s)] /\ v[j] = piece[j - Len(t)]  BY <1>3, <1>4, <3>1
    <3> QED  BY <3>1, <3>2 DEF j
  <2> QED  BY <1>1, <2>2, <2>3
<1> QED  BY <1>1, <1>2, <1>5 DEF EndsWith, u, v

LEMMA EndsWithEnd ==
  ASSUME NEW s \in Seq(Letters), NEW t \in Seq(Letters), NEW u \in Seq(Letters),
         EndsWith(s, t), EndsWith(t, u)
  PROVE EndsWith(s, u)
<1>1. /\ Len(s) \in Nat /\ Len(t) \in Nat /\ Len(u) \in Nat
      /\ Len(s) <= Len(t) /\ Len(t) <= Len(u)
  BY DEF EndsWith
<1>2. ASSUME NEW i \in 1..Len(s) PROVE s[i] = u[Len(u) - Len(s) + i]
  <2> DEFINE j == Len(t) - Len(s) + i
  <2>1. j \in 1..Len(t) /\ Len(u) - Len(t) + j = Len(u) - Len(s) + i  BY <1>1
  <2>2. s[i] = t[j]  BY DEF EndsWith
  <2> HIDE DEF j
  <2>3. t[j] = u[Len(u) - Len(t) + j]  BY <2>1 DEF EndsWith
  <2> QED  BY <2>1, <2>2, <2>3
<1> QED  BY <1>1, <1>2 DEF EndsWith

LEMMA RestEnds ==
  ASSUME NEW r, Reader(r)
  PROVE EndsWith(Rest(r), r.buffer)
<1>1. /\ Len(Rest(r)) = Len(r.buffer) - r.offset
      /\ \A i \in 1..Len(Rest(r)) : Rest(r)[i] = r.buffer[r.offset + i]
  BY RestIs
<1>2. r.offset \in Nat /\ Len(r.buffer) \in Nat /\ r.offset <= Len(r.buffer)  BY DEF Reader
<1>3. Len(r.buffer) - Len(Rest(r)) = r.offset /\ Len(Rest(r)) <= Len(r.buffer)  BY <1>1, <1>2
<1> QED  BY <1>1, <1>3 DEF EndsWith

-----------------------------------------------------------------------------
(* The reader of the data and, inside a value, that value's.  What both     *)
(* keep is the end of the text that came.                                   *)
KeptData(r, text) ==
  /\ Kept(r, Root) /\ EndsWith(r.buffer, text)
  /\ r.state = TREE => Kept(r.cur_tree, Tree) /\ EndsWith(r.cur_tree.buffer, text)

(* While the data's reader is inside a value the rest of its buffer has not *)
(* gone to the value's.                                                     *)
InData(t, buffer, size, text) ==
  /\ InLoop(t, Root, buffer, size)
  /\ t.reader.state = TREE =>
       /\ Kept(t.reader.cur_tree, Tree)
       /\ EndsWith(t.reader.cur_tree.buffer \o Rest(t.reader), text)

LEMMA SubReaderKept == Kept(SubReader, Tree) /\ SubReader.buffer = <<>>
<1>1. SubReader = [root |-> Tree, state |-> LOOKING, ign_deep |-> 0, offset |-> 0,
                   buffer |-> <<>>, cur_value |-> <<>>, cur_tree |-> <<>>,
                   values |-> <<>>, count |-> 0, given |-> <<>>]
  BY DEF SubReader, NewReader
<1>2. <<>> \in Seq(Letters) /\ Len(<<>>) = 0 /\ LOOKING = 2  BY DEF LOOKING
<1>3. Reader(SubReader) /\ SubReader.buffer = <<>>  BY <1>1, <1>2 DEF Reader
<1>4. SubReader.root = Tree /\ SubReader.state = 2  BY <1>1, <1>2
<1>5. Longest \in Nat  BY LabelsAre
<1> QED  BY <1>2, <1>3, <1>4, <1>5 DEF Kept, Partial, TREE, VALUE

LEMMA InTreeTurns ==
  ASSUME NEW buffer \in Seq(Letters), NEW size \in Int, NEW text \in Seq(Letters),
         NEW t, InData(t, buffer, size, text), t.reader.state = TREE
  PROVE LET u == InTree(t.reader, t.shrink, t.used)
        IN  /\ InData(u, buffer, size, text)
            /\ u.ends \/ (u.reader.state # TREE /\ u.reader.offset >= t.reader.offset)
<1> DEFINE r == t.reader
           c == r.cur_tree
           sub == ReadValue(c, Rest(r))
           g == r.given \o (IF c.state = DONE THEN <<>> ELSE sub.reader.given)
           s == [r EXCEPT !.given = g]
           u == InTree(r, t.shrink, t.used)
<1>1. /\ Reader(r) /\ r.buffer = buffer /\ r.root = Root /\ t.used \in Int /\ t.used <= size
      /\ t.shrink = -1 /\ Kept(c, Tree) /\ EndsWith(c.buffer \o Rest(r), text)
  BY DEF InData, InLoop, TREE, VALUE
<1>2. Rest(r) \in Seq(Letters) /\ Len(Rest(r)) = Len(buffer) - r.offset  BY <1>1, RestIs
<1>3. /\ Kept(sub.reader, Tree) /\ EndsWith(sub.reader.buffer, c.buffer \o Rest(r))
      /\ sub.used \in Int /\ sub.used <= Len(Rest(r))
  BY <1>1, <1>2, ValueRead
<1>4. u = IF sub.used = Len(Rest(r))
            THEN End([s EXCEPT !.cur_tree = sub.reader, !.offset = Len(s.buffer)],
                     t.shrink, t.used)
            ELSE Turn([s EXCEPT !.state = LOOKING, !.cur_tree = <<>>,
                                !.offset = IF sub.used > 0 THEN @ + sub.used ELSE @],
                      t.shrink, t.used)
  BY <1>1 DEF InTree, Reader
<1>5. r.offset \in Nat /\ Len(buffer) \in Nat /\ r.offset <= Len(buffer)  BY <1>1 DEF Reader
<1>6. c.buffer \in Seq(Letters) /\ c.buffer \o Rest(r) \in Seq(Letters)
      /\ sub.reader.buffer \in Seq(Letters)
  BY <1>1, <1>2, <1>3 DEF Kept, Reader
<1> HIDE DEF g, sub, u, c
<1>7. Reader(s)  BY <1>1, ReaderExcept, Zenon
<1>8. /\ s.buffer = buffer /\ s.root = Root /\ s.state = TREE /\ s.offset = r.offset
  BY <1>1 DEF Reader
<1> HIDE DEF s, r
<1>9. CASE sub.used = Len(Rest(r))
  <2> DEFINE v == [s EXCEPT !.cur_tree = sub.reader]
             w == [v EXCEPT !.offset = Len(buffer)]
  <2>1. Reader(v)  BY <1>7, ReaderExcept, Zenon
  <2>2. v.buffer = buffer /\ v.root = Root /\ v.state = TREE /\ v.cur_tree = sub.reader
    BY <1>7, <1>8 DEF Reader
  <2>3. Len(buffer) \in 0..Len(v.buffer)  BY <1>5, <2>2
  <2>4. Reader(w)  BY <2>1, <2>3, ReaderExcept, Zenon
  <2>5. u = End(w, t.shrink, t.used)  BY <1>4, <1>8, <1>9
  <2>6. /\ w.buffer = buffer /\ w.root = Root /\ w.state = TREE /\ w.cur_tree = sub.reader
        /\ w.offset = Len(buffer)
    BY <2>1, <2>2 DEF Reader
  <2> HIDE DEF w
  <2>7. Len(buffer) - w.offset <= Longest + 2
    <3>1. Longest \in Nat  BY LabelsAre
    <3> QED  BY <3>1, <1>5, <2>6
  <2>8. t.shrink \in -1..w.offset /\ w.state # VALUE /\ ~Partial(w.state)
    BY <1>1, <1>5, <2>6 DEF TREE, VALUE, Partial
  <2>9. InLoop(End(w, t.shrink, t.used), Root, buffer, size)
    BY <1>1, <2>4, <2>6, <2>7, <2>8, EndFits
  <2>10. InLoop(u, Root, buffer, size) /\ u.reader = w /\ u.ends = TRUE
    BY <2>5, <2>9 DEF End
  <2>11. Rest(w) = <<>>
    <3>1. Rest(w) \in Seq(Letters) /\ Len(Rest(w)) = 0  BY <1>5, <2>4, <2>6, RestIs
    <3> QED  BY <3>1
  <2>12. EndsWith(w.cur_tree.buffer \o Rest(w), text)
    <3>1. EndsWith(sub.reader.buffer, text)  BY <1>1, <1>3, <1>6, EndsWithEnd DEF c, r
    <3>2. sub.reader.buffer \o <<>> = sub.reader.buffer  BY <1>6, EndsWithItself
    <3> QED  BY <2>6, <2>11, <3>1, <3>2
  <2>13. InData(u, buffer, size, text)  BY <1>3, <2>6, <2>10, <2>12 DEF InData
  <2>14. InData(u, buffer, size, text) /\ u.ends  BY <2>10, <2>13
  <2> QED  BY <2>14 DEF u, r
<1>10. CASE sub.used # Len(Rest(r))
  <2> DEFINE here == IF sub.used > 0 THEN r.offset + sub.used ELSE r.offset
             v == [s EXCEPT !.state = LOOKING]
             w == [v EXCEPT !.cur_tree = <<>>]
             x == [w EXCEPT !.offset = here]
  <2>1. LOOKING \in 0..6  BY DEF LOOKING
  <2>2. Reader(v)  BY <1>7, <2>1, ReaderExcept, Zenon
  <2>3. Reader(w)  BY <2>2, ReaderExcept, Zenon
  <2>4. w.buffer = buffer /\ w.root = Root /\ w.state = LOOKING /\ w.offset = r.offset
    BY <1>7, <1>8 DEF Reader
  <2>5. here \in 0..Len(buffer) /\ here >= r.offset  BY <1>2, <1>3, <1>5
  <2>6. here \in 0..Len(w.buffer)  BY <2>4, <2>5
  <2>7. u = Turn(x, t.shrink, t.used)
    <3>1. x = [s EXCEPT !.state = LOOKING, !.cur_tree = <<>>, !.offset = here]  OBVIOUS
    <3> QED  BY <1>4, <1>7, <1>8, <1>10, <3>1 DEF Reader
  <2> HIDE DEF here
  <2>8. Reader(x)  BY <2>3, <2>6, ReaderExcept, Zenon
  <2>9. x.buffer = buffer /\ x.root = Root /\ x.state = LOOKING /\ x.offset = here
    BY <2>3, <2>4 DEF Reader
  <2> HIDE DEF x
  <2>10. Goes(x, x)
    <3>1. x.offset >= x.offset  BY <2>5, <2>9
    <3> QED  BY <2>8, <2>9, <3>1 DEF Goes, Partial, LOOKING, TREE
  <2>11. t.shrink \in -1..x.offset /\ x.state # VALUE
    BY <1>1, <2>5, <2>9 DEF LOOKING, VALUE
  <2>12. InLoop(Turn(x, t.shrink, t.used), Root, buffer, size)
    BY <1>1, <2>9, <2>10, <2>11, TurnGoes
  <2>13. InLoop(u, Root, buffer, size) /\ u.reader = x  BY <2>7, <2>12 DEF Turn
  <2>14. u.reader.state # TREE /\ u.reader.offset >= r.offset
    BY <2>5, <2>9, <2>13 DEF LOOKING, TREE
  <2>15. InData(u, buffer, size, text)  BY <2>13, <2>14 DEF InData
  <2> QED  BY <2>14, <2>15 DEF u, r
<1> QED  BY <1>9, <1>10

LEMMA BodyTurns ==
  ASSUME NEW buffer \in Seq(Letters), NEW old \in Nat, NEW size \in Int, size = Len(buffer) - old,
         NEW text \in Seq(Letters), EndsWith(buffer, text),
         NEW t, InData(t, buffer, size, text), ~Over(t)
  PROVE LET u == Body(t, old)
        IN  /\ InData(u, buffer, size, text)
            /\ \/ u.ends \/ u.reader.offset > t.reader.offset
               \/ t.reader.state = TREE /\ u.reader.state # TREE
                  /\ u.reader.offset >= t.reader.offset
<1> DEFINE u == Body(t, old)
<1>1. CASE t.reader.state = TREE
  <2>1. u = InTree(t.reader, t.shrink, t.used)  BY <1>1 DEF Body
  <2> QED  BY <1>1, <2>1, InTreeTurns
<1>2. CASE t.reader.state # TREE
  <2>1. u = ValueBody(t, old)  BY <1>2 DEF Body
  <2>2. Turned(t, ValueBody(t, old), Root, buffer, size)
    BY <1>2, ValueBodyTurns DEF InData
  <2> HIDE DEF u
  <2>3. /\ InLoop(u, Root, buffer, size)
        /\ u.ends \/ u.reader.offset > t.reader.offset
        /\ u.reader.state = TREE => u.reader.cur_tree = SubReader
    BY <2>1, <2>2 DEF Turned
  <2>4. EndsWith(SubReader.buffer \o Rest(u.reader), text)
    <3>1. Reader(u.reader) /\ u.reader.buffer = buffer  BY <2>3 DEF InLoop
    <3>2. Rest(u.reader) \in Seq(Letters) /\ EndsWith(Rest(u.reader), buffer)
      BY <3>1, RestIs, RestEnds
    <3>3. EndsWith(Rest(u.reader), text)  BY <3>2, EndsWithEnd
    <3> QED  BY <3>2, <3>3, SubReaderKept, EndsWithItself
  <2>5. InData(u, buffer, size, text)  BY <2>3, <2>4, SubReaderKept DEF InData
  <2> QED  BY <2>3, <2>5 DEF u
<1> QED  BY <1>1, <1>2

DataTurns(f, r, piece, n) ==
  f = [i \in 0..n |-> IF i = 0 THEN First(r, piece)
                      ELSE CHOOSE next \in {DataTurn(t, Len(r.buffer)) : t \in {f[i - 1]}} : TRUE]

LEMMA DataTurnsExist ==
  ASSUME NEW r, NEW piece, NEW n \in Nat
  PROVE \E f : DataTurns(f, r, piece, n)
<1> DEFINE Then(x) == CHOOSE next \in {DataTurn(t, Len(r.buffer)) : t \in {x}} : TRUE
           Is(f, m) == f = [i \in 0..m |-> IF i = 0 THEN First(r, piece) ELSE Then(f[i - 1])]
           P == {m \in 0..n : \E f : Is(f, m)}
<1> HIDE DEF Then
<1>1. 0 \in P
  <2> DEFINE f == [i \in 0..0 |-> First(r, piece)]
  <2>1. Is(f, 0)  OBVIOUS
  <2>2. 0 \in 0..n  OBVIOUS
  <2> HIDE DEF f
  <2> QED  BY <2>1, <2>2
<1>2. ASSUME NEW m \in 0..(n - 1), m \in P PROVE m + 1 \in P
  <2>1. PICK f : Is(f, m)  BY <1>2
  <2> DEFINE g == [i \in 0..(m + 1) |-> IF i = m + 1 THEN Then(f[m]) ELSE f[i]]
  <2>2. \A i \in 0..m : g[i] = f[i] /\ f[i] = IF i = 0 THEN First(r, piece) ELSE Then(f[i - 1])
    BY <2>1
  <2>3. ASSUME NEW i \in 0..(m + 1)
        PROVE g[i] = IF i = 0 THEN First(r, piece) ELSE Then(g[i - 1])
    <3>1. CASE i = m + 1
      <4>1. g[i] = Then(f[m]) /\ g[m] = f[m] /\ i # 0 /\ i - 1 = m  BY <2>2, <3>1
      <4> HIDE DEF g
      <4> QED  BY <4>1
    <3>2. CASE i \in 0..m
      <4>1. i # 0 => i - 1 \in 0..m  BY <3>2
      <4> HIDE DEF g
      <4> QED  BY <2>2, <3>2, <4>1
    <3> QED  BY <3>1, <3>2
  <2>4. g = [i \in 0..(m + 1) |-> g[i]]  OBVIOUS
  <2> HIDE DEF g
  <2>5. Is(g, m + 1)  BY <2>3, <2>4
  <2> QED  BY <2>5
<1> HIDE DEF P
<1>3. 0..n \subseteq P  BY <1>1, <1>2, UpTo
<1>4. PICK f : Is(f, n)  BY <1>3 DEF P
<1> QED  BY <1>4 DEF DataTurns, Then

(* A turn uses letters, or ends a tree, which the turn before it or the     *)
(* piece before began.  So the loop is over after twice as many turns as    *)
(* there are letters.                                                       *)
LEMMA DataLoopEnds ==
  ASSUME NEW text \in Seq(Letters), NEW r, KeptData(r, text), NEW piece \in Seq(Letters)
  PROVE \E t : /\ InData(t, r.buffer \o piece, Len(piece), text \o piece) /\ Over(t)
               /\ Leads(First(r, piece), Len(r.buffer), t)
               /\ Read(r, piece) = Shrink(t)
<1> DEFINE old == Len(r.buffer)
           size == Len(piece)
           most == 2 * (old + size)
           b == r.buffer \o piece
           all == text \o piece
           f == CHOOSE f : DataTurns(f, r, piece, most)
           InTreeNow(t) == t.reader.state = TREE
           Used(t, i) == IF InTreeNow(t) THEN 2 * t.reader.offset >= i
                                         ELSE 2 * t.reader.offset + 1 >= i
<1>1. /\ old \in Nat /\ size \in Nat /\ most \in Nat /\ b \in Seq(Letters)
      /\ Len(b) = old + size /\ r.offset \in Nat /\ r.buffer \in Seq(Letters)
      /\ all \in Seq(Letters)
  BY DEF KeptData, Kept, Reader
<1>2. DataTurns(f, r, piece, most)  BY <1>1, DataTurnsExist
<1>3. Read(r, piece) = Result(f, most)  BY DEF Read, DataTurns
<1>4. Result(f, most) = Shrink(f[most])  BY DEF Result
<1> HIDE DEF f
<1>5. f[0] = First(r, piece)  BY <1>1, <1>2 DEF DataTurns
<1>6. ASSUME NEW i \in 0..(most - 1) PROVE f[i + 1] = DataTurn(f[i], old)
  <2>1. i + 1 \in 0..most /\ i + 1 # 0 /\ (i + 1) - 1 = i  BY <1>1
  <2>2. f[i + 1] = CHOOSE next \in {DataTurn(t, old) : t \in {f[i]}} : TRUE
    BY <1>2, <2>1 DEF DataTurns
  <2> QED  BY <2>2
<1>7. EndsWith(b, all)  BY <1>1, EndsWithMore DEF KeptData
<1> DEFINE P == {i \in 0..most : InData(f[i], b, size, all) /\ (Over(f[i]) \/ Used(f[i], i))}
<1> HIDE DEF b, most, old, size, all
<1>8. 0 \in P
  <2>1. /\ InLoop(f[0], Root, b, size) /\ f[0].reader.offset = r.offset
        /\ f[0].reader.state = r.state /\ f[0].reader.cur_tree = r.cur_tree
    BY <1>5, FirstIs DEF b, size, KeptData
  <2>2. ASSUME r.state = TREE
        PROVE Kept(r.cur_tree, Tree) /\ EndsWith(r.cur_tree.buffer \o Rest(f[0].reader), all)
    <3>1. /\ r.buffer = <<>> /\ Kept(r.cur_tree, Tree) /\ EndsWith(r.cur_tree.buffer, text)
      BY <2>2 DEF KeptData, Kept
    <3>2. r.offset = 0  BY <3>1 DEF KeptData, Kept, Reader
    <3>3. b = piece  BY <3>1, EndsWithItself DEF b
    <3>4. Rest(f[0].reader) = piece
      <4>1. Reader(f[0].reader) /\ f[0].reader.buffer = piece  BY <2>1, <3>3 DEF InLoop
      <4>2. /\ Rest(f[0].reader) \in Seq(Letters)
            /\ Len(Rest(f[0].reader)) = Len(piece) - 0
            /\ \A i \in 1..Len(Rest(f[0].reader)) : Rest(f[0].reader)[i] = piece[0 + i]
        BY <4>1, <2>1, <3>2, RestIs
      <4> DEFINE x == Rest(f[0].reader)
      <4> HIDE DEF x
      <4>3. x \in Seq(Letters) /\ Len(x) = Len(piece) /\ \A i \in 1..Len(x) : x[i] = piece[i]
        <5>1. Len(piece) - 0 = Len(piece) /\ \A i \in 1..Len(piece) : 0 + i = i  OBVIOUS
        <5> QED  BY <4>2, <5>1 DEF x
      <4>4. x = piece  BY <4>3
      <4> QED  BY <4>4 DEF x
    <3>5. r.cur_tree.buffer \in Seq(Letters)  BY <3>1 DEF Kept, Reader
    <3>6. EndsWith(r.cur_tree.buffer \o piece, all)  BY <3>1, <3>5, EndsWithMore DEF all
    <3> QED  BY <3>1, <3>4, <3>6
  <2>3. InData(f[0], b, size, all)  BY <2>1, <2>2 DEF InData
  <2>4. Used(f[0], 0) /\ 0 \in 0..most  BY <1>1, <2>1
  <2> HIDE DEF Used
  <2> QED  BY <2>3, <2>4
<1>9. ASSUME NEW i \in 0..(most - 1), i \in P PROVE i + 1 \in P
  <2>0. i + 1 \in 0..most /\ InData(f[i], b, size, all)  BY <1>1, <1>9
  <2>1. CASE Over(f[i])
    <3>1. f[i + 1] = f[i]  BY <1>6, <2>1 DEF DataTurn
    <3> HIDE DEF Used
    <3> QED  BY <2>0, <2>1, <3>1
  <2>2. CASE ~Over(f[i])
    <3>1. f[i + 1] = Body(f[i], old)  BY <1>6, <2>2 DEF DataTurn
    <3>2. Used(f[i], i)
      <4> HIDE DEF Used
      <4> QED  BY <1>9, <2>2
    <3>3. size \in Int /\ size = Len(b) - old  BY <1>1
    <3> DEFINE u == f[i + 1]
               v == f[i]
    <3> HIDE DEF u, v
    <3>4. /\ InData(u, b, size, all)
          /\ \/ u.ends \/ u.reader.offset > v.reader.offset
             \/ InTreeNow(v) /\ ~InTreeNow(u) /\ u.reader.offset >= v.reader.offset
      BY <1>1, <1>7, <2>0, <2>2, <3>1, <3>3, BodyTurns DEF u, v
    <3>5. u.reader.offset \in Nat /\ v.reader.offset \in Nat
      BY <2>0, <3>4 DEF InData, InLoop, Reader, v
    <3>6. Used(v, i)  BY <3>2 DEF v
    <3>7. u.ends \/ Used(u, i + 1)
      <4>1. CASE u.ends  BY <4>1
      <4>2. CASE u.reader.offset > v.reader.offset
        <5>1. 2 * u.reader.offset >= i + 1  BY <3>5, <3>6, <4>2
        <5> QED  BY <5>1, <3>5
      <4>3. CASE InTreeNow(v) /\ ~InTreeNow(u) /\ u.reader.offset >= v.reader.offset
        <5>1. 2 * v.reader.offset >= i  BY <3>6, <4>3
        <5> HIDE DEF InTreeNow
        <5> QED  BY <3>5, <4>3, <5>1
      <4> QED  BY <3>4, <4>1, <4>2, <4>3
    <3> HIDE DEF Used
    <3>8. Over(u) \/ Used(u, i + 1)  BY <3>7 DEF Over
    <3> QED  BY <2>0, <3>4, <3>8 DEF u
  <2> QED  BY <2>1, <2>2
<1>10. 0..most \subseteq P
  <2> HIDE DEF P
  <2> QED  BY <1>1, <1>8, <1>9, UpTo
<1>11. InData(f[most], b, size, all) /\ (Over(f[most]) \/ Used(f[most], most))
  <2> HIDE DEF Used
  <2>1. most \in 0..most  BY <1>1
  <2> QED  BY <1>10, <2>1
<1>12. Over(f[most])
  <2> DEFINE o == f[most].reader.offset
  <2>1. Over(f[most]) \/ 2 * o + 1 >= most
    <3>1. o \in Nat  BY <1>11 DEF InData, InLoop, Reader
    <3>2. Used(f[most], most) => 2 * o + 1 >= most
      <4> HIDE DEF InTreeNow
      <4>1. CASE InTreeNow(f[most])  BY <1>1, <3>1, <4>1
      <4>2. CASE ~InTreeNow(f[most])  BY <1>1, <3>1, <4>2
      <4> QED  BY <4>1, <4>2
    <3> HIDE DEF o, Used
    <3> QED  BY <1>11, <3>2
  <2>2. o \in Nat /\ f[most].reader.buffer = b  BY <1>11 DEF InData, InLoop, Reader
  <2> HIDE DEF o
  <2>3. 2 * o + 1 >= most => o >= Len(b)  BY <1>1, <2>2 DEF most
  <2> QED  BY <2>1, <2>2, <2>3 DEF Over, o
<1>13. LeadsIn(most, First(r, piece), old, f[most])  BY <1>5, <1>6 DEF LeadsIn
<1>14. Leads(First(r, piece), old, f[most])  BY <1>1, <1>12, <1>13 DEF Leads
<1> QED  BY <1>3, <1>4, <1>11, <1>12, <1>14 DEF b, size, all, old

(* What the reader of the data and that of a value keep of a piece.         *)
LEMMA DataRead ==
  ASSUME NEW text \in Seq(Letters), NEW r, KeptData(r, text), NEW piece \in Seq(Letters)
  PROVE KeptData(Read(r, piece).reader, text \o piece)
<1> DEFINE b == r.buffer \o piece
           all == text \o piece
<1>1. PICK t : /\ InData(t, b, Len(piece), all) /\ Over(t) /\ Read(r, piece) = Shrink(t)
  BY DataLoopEnds
<1>2. b \in Seq(Letters) /\ all \in Seq(Letters) /\ Len(piece) \in Int /\ EndsWith(b, all)
  <2>1. r.buffer \in Seq(Letters)  BY DEF KeptData, Kept, Reader
  <2> QED  BY <2>1, EndsWithMore DEF KeptData
<1> HIDE DEF b, all
<1> DEFINE s == Shrink(t).reader
<1>3. InLoop(t, Root, b, Len(piece))  BY <1>1 DEF InData
<1>4. /\ Kept(s, Root) /\ EndsWith(s.buffer, b)
      /\ s.state = t.reader.state /\ s.cur_tree = t.reader.cur_tree
  BY <1>1, <1>2, <1>3, ShrinkKeeps
<1> HIDE DEF s
<1>5. EndsWith(s.buffer, all)
  <2>1. s.buffer \in Seq(Letters)  BY <1>4 DEF Kept, Reader
  <2> QED  BY <1>2, <1>4, <2>1, EndsWithEnd
<1>6. ASSUME s.state = TREE PROVE Kept(s.cur_tree, Tree) /\ EndsWith(s.cur_tree.buffer, all)
  <2>1. /\ Kept(t.reader.cur_tree, Tree)
        /\ EndsWith(t.reader.cur_tree.buffer \o Rest(t.reader), all)
    BY <1>1, <1>4, <1>6 DEF InData
  <2>2. Rest(t.reader) = <<>>
    <3>1. /\ Reader(t.reader) /\ t.reader.buffer = b
          /\ t.ends => t.reader.offset = Len(b)
      BY <1>3, <1>4, <1>6 DEF InLoop
    <3>2. t.reader.offset = Len(b) /\ Len(b) \in Nat  BY <1>1, <3>1 DEF Over, Reader
    <3>3. Rest(t.reader) \in Seq(Letters) /\ Len(Rest(t.reader)) = 0
      BY <3>1, <3>2, RestIs
    <3> QED  BY <3>3
  <2>3. t.reader.cur_tree.buffer \in Seq(Letters)  BY <2>1 DEF Kept, Reader
  <2>4. t.reader.cur_tree.buffer \o <<>> = t.reader.cur_tree.buffer  BY <2>3, EndsWithItself
  <2> QED  BY <1>4, <2>1, <2>2, <2>4
<1> QED  BY <1>1, <1>4, <1>5, <1>6 DEF KeptData, all, s

-----------------------------------------------------------------------------
(* The texts of documents are letters.                                      *)

Flat(ss, f, i) == IF i = 1 THEN ss[i] ELSE f[i - 1] \o ss[i]
Flats(f, ss, n) == f = [i \in 1..n |-> Flat(ss, f, i)]

LEMMA FlatsExist ==
  ASSUME NEW ss, NEW n \in Nat
  PROVE \E f : Flats(f, ss, n + 1)
<1> DEFINE P == {m \in 0..n : \E f : Flats(f, ss, m + 1)}
<1>1. 0 \in P
  <2> DEFINE f == [i \in 1..1 |-> ss[i]]
  <2>1. Flats(f, ss, 0 + 1)  BY DEF Flats, Flat
  <2>2. 0 \in 0..n  OBVIOUS
  <2> HIDE DEF f
  <2> QED  BY <2>1, <2>2
<1>2. ASSUME NEW m \in 0..(n - 1), m \in P PROVE m + 1 \in P
  <2>1. PICK f : Flats(f, ss, m + 1)  BY <1>2
  <2> DEFINE g == [i \in 1..(m + 2) |-> IF i = m + 2 THEN f[m + 1] \o ss[i] ELSE f[i]]
  <2>2. \A i \in 1..(m + 1) : g[i] = f[i] /\ f[i] = Flat(ss, f, i)
    <3>1. \A i \in 1..(m + 1) : f[i] = Flat(ss, f, i)  BY <2>1 DEF Flats
    <3>2. \A i \in 1..(m + 1) : g[i] = f[i]  OBVIOUS
    <3> QED  BY <3>1, <3>2
  <2>3. ASSUME NEW i \in 1..(m + 2) PROVE g[i] = Flat(ss, g, i)
    <3>1. CASE i = m + 2
      <4>1. m + 1 \in 1..(m + 1) /\ i # 1 /\ i - 1 = m + 1  BY <3>1
      <4>2. g[i] = f[m + 1] \o ss[i] /\ g[m + 1] = f[m + 1]  BY <2>2, <3>1, <4>1
      <4> HIDE DEF g
      <4> QED  BY <4>1, <4>2 DEF Flat
    <3>2. CASE i \in 1..(m + 1)
      <4>1. i # 1 => i - 1 \in 1..(m + 1)  BY <3>2
      <4>2. g[i] = Flat(ss, f, i) /\ (i # 1 => g[i - 1] = f[i - 1])  BY <2>2, <3>2, <4>1
      <4> HIDE DEF g
      <4> QED  BY <4>2 DEF Flat
    <3>3. i = m + 2 \/ i \in 1..(m + 1)  OBVIOUS
    <3> HIDE DEF g
    <3> QED  BY <3>1, <3>2, <3>3
  <2>4. g = [i \in 1..(m + 2) |-> g[i]]  OBVIOUS
  <2>5. m + 1 \in 0..n /\ (m + 1) + 1 = m + 2  OBVIOUS
  <2> HIDE DEF g
  <2>6. Flats(g, ss, (m + 1) + 1)  BY <2>3, <2>4, <2>5 DEF Flats
  <2> QED  BY <2>5, <2>6
<1> HIDE DEF P
<1>3. 0..n \subseteq P  BY <1>1, <1>2, UpTo
<1>4. n \in P  BY <1>3
<1> QED  BY <1>4 DEF P

LEMMA FlattenSeqIs ==
  ASSUME NEW ss \in Seq(Seq(Letters))
  PROVE FlattenSeq(ss) \in Seq(Letters)
<1>1. CASE Len(ss) = 0
  <2>1. ss = <<>> /\ FlattenSeq(ss) = ss  BY <1>1 DEF FlattenSeq
  <2>2. <<>> \in Seq(Letters)  OBVIOUS
  <2> QED  BY <2>1, <2>2
<1>2. CASE Len(ss) # 0
  <2> DEFINE n == Len(ss) - 1
             f == CHOOSE f : Flats(f, ss, Len(ss))
             P == {i \in 0..n : f[i + 1] \in Seq(Letters)}
  <2>1. n \in Nat /\ Len(ss) = n + 1  BY <1>2
  <2>2. Flats(f, ss, Len(ss))  BY <2>1, FlatsExist
  <2>3. FlattenSeq(ss) = f[Len(ss)]  BY <1>2 DEF FlattenSeq, Flats, Flat
  <2> HIDE DEF f, n
  <2>4. \A i \in 1..Len(ss) : /\ ss[i] \in Seq(Letters)
                              /\ f[i] = Flat(ss, f, i)
    <3>1. \A i \in 1..Len(ss) : f[i] = Flat(ss, f, i)  BY <2>2 DEF Flats
    <3> QED  BY <3>1
  <2>5. 0 \in P
    <3>1. 0 \in 0..n /\ 1 \in 1..Len(ss)  BY <2>1
    <3>2. f[1] = ss[1] /\ ss[1] \in Seq(Letters) /\ 0 + 1 = 1  BY <2>4, <3>1 DEF Flat
    <3> QED  BY <3>1, <3>2
  <2>6. ASSUME NEW i \in 0..(n - 1), i \in P PROVE i + 1 \in P
    <3>1. /\ i + 1 \in 0..n /\ (i + 1) + 1 \in 1..Len(ss) /\ (i + 1) + 1 # 1
          /\ ((i + 1) + 1) - 1 = i + 1
      BY <2>1
    <3>2. f[(i + 1) + 1] = f[i + 1] \o ss[(i + 1) + 1] /\ ss[(i + 1) + 1] \in Seq(Letters)
      BY <2>4, <3>1 DEF Flat
    <3>3. f[i + 1] \in Seq(Letters)  BY <2>6
    <3>4. f[i + 1] \o ss[(i + 1) + 1] \in Seq(Letters)  BY <3>2, <3>3
    <3> QED  BY <3>1, <3>2, <3>4
  <2> HIDE DEF P
  <2>7. 0..n \subseteq P  BY <2>1, <2>5, <2>6, UpTo
  <2>8. n \in P  BY <2>1, <2>7
  <2> QED  BY <2>1, <2>3, <2>8 DEF P
<1> QED  BY <1>1, <1>2

LEMMA ElementIs ==
  ASSUME NEW label \in Seq(Letters), NEW body \in Seq(Letters)
  PROVE Element(label, body) \in Seq(Letters)
<1>1. <<"<">> \in Seq(Letters) /\ <<"<", "/">> \in Seq(Letters) /\ <<">">> \in Seq(Letters)
  BY ReaderAssumption
<1>2. Tag(label) \in Seq(Letters)  BY <1>1 DEF Tag
<1> HIDE DEF Tag
<1> QED  BY <1>1, <1>2 DEF Element

LEMMA ValuesAre ==
  ASSUME NEW d \in Seq(Seq(Seq(Letters) \X Seq(Letters)))
  PROVE Values(d) \in Seq(Letters)
<1>1. ASSUME NEW value \in Seq(Seq(Letters) \X Seq(Letters))
      PROVE ValueText(value) \in Seq(Letters)
  <2> DEFINE es == [i \in DOMAIN value |-> Element(value[i][1], value[i][2])]
  <2>1. \A i \in 1..Len(value) : Element(value[i][1], value[i][2]) \in Seq(Letters)
    BY ElementIs
  <2>2. es \in Seq(Seq(Letters))
    <3>1. DOMAIN value = 1..Len(value) /\ Len(value) \in Nat  OBVIOUS
    <3> QED  BY <2>1, <3>1
  <2> HIDE DEF es
  <2>3. FlattenSeq(es) \in Seq(Letters)  BY <2>2, FlattenSeqIs
  <2>4. Tree \in Seq(Letters)  BY LabelsAre DEF Labels
  <2>5. Element(Tree, FlattenSeq(es)) \in Seq(Letters)  BY <2>3, <2>4, ElementIs
  <2>6. <<Space>> \in Seq(Letters)
    <3>1. Space \in Letters  BY FeedAssumption
    <3> QED  BY <3>1
  <2>7. ValueText(value) = <<Space>> \o Element(Tree, FlattenSeq(es))  BY DEF ValueText, es
  <2> QED  BY <2>5, <2>6, <2>7
<1> DEFINE vs == [i \in DOMAIN d |-> ValueText(d[i])]
<1>2. vs \in Seq(Seq(Letters))
  <2>1. DOMAIN d = 1..Len(d) /\ Len(d) \in Nat  OBVIOUS
  <2>2. \A i \in 1..Len(d) : ValueText(d[i]) \in Seq(Letters)  BY <1>1
  <2> QED  BY <2>1, <2>2
<1> HIDE DEF vs
<1>3. FlattenSeq(vs) \in Seq(Letters)  BY <1>2, FlattenSeqIs
<1> QED  BY <1>3 DEF Values, vs

LEMMA TextIs == \A d \in Documents : TextOf[d] \in Seq(Letters) /\ TextSize(d) = Len(TextOf[d])
<1> SUFFICES ASSUME NEW d \in Documents PROVE TextOf[d] \in Seq(Letters)  BY DEF TextSize
<1>1. Values(d) \in Seq(Letters)  BY FeedAssumption, ValuesAre
<1>2. Root \in Seq(Letters)  BY LabelsAre DEF Labels
<1>3. TextOf[d] = Element(Root, Values(d))  BY DEF TextOf
<1> QED  BY <1>1, <1>2, <1>3, ElementIs

-----------------------------------------------------------------------------
(* A feed.                                                                  *)

StreamInv ==
  /\ doc = Closed <=> main # "reading"
  /\ doc = Closed => consumed = 0 /\ written = 0 /\ reader = NoReader
  /\ doc # Closed =>
       /\ doc \in Documents /\ written \in Nat /\ consumed \in 0..written
       /\ written <= TextSize(doc)
       /\ KeptData(reader, SubSeq(TextOf[doc], 1, consumed))

LEMMA NoReaderKept == KeptData(NoReader, <<>>)
<1>1. NoReader = [root |-> Root, state |-> 0, ign_deep |-> 0, offset |-> 0,
                  buffer |-> <<>>, cur_value |-> <<>>, cur_tree |-> <<>>,
                  values |-> <<>>, count |-> 0, given |-> <<>>]
  BY DEF NoReader, NewReader, NULL
<1>2. <<>> \in Seq(Letters) /\ Len(<<>>) = 0  OBVIOUS
<1>3. Reader(NoReader) /\ NoReader.buffer = <<>>  BY <1>1, <1>2 DEF Reader
<1>4. NoReader.root = Root /\ NoReader.state = 0  BY <1>1
<1>5. Longest \in Nat  BY LabelsAre
<1>6. EndsWith(NoReader.buffer, <<>>)  BY <1>2, <1>3, EndsWithItself
<1> QED  BY <1>2, <1>3, <1>4, <1>5, <1>6 DEF KeptData, Kept, Partial, TREE, VALUE

LEMMA StreamInitHolds == FeedInit => StreamInv
BY FeedAssumption DEF FeedInit, ChildrenInit, StreamInv

LEMMA StreamStepHolds == StreamInv /\ [FeedNext]_feedVars => StreamInv'
<1> SUFFICES ASSUME StreamInv, [FeedNext]_feedVars PROVE StreamInv'  OBVIOUS
<1> DEFINE Text == SubSeq(TextOf[doc], 1, consumed)
<1>1. CASE Open
  <2>1. /\ main' = "reading" /\ doc' \in Documents /\ written' = TextSize(doc')
        /\ consumed' = 0 /\ reader' = NoReader
    BY <1>1 DEF Open, ForkParser
  <2>2. doc' # Closed  BY <2>1, FeedAssumption
  <2>3. TextOf[doc'] \in Seq(Letters) /\ TextSize(doc') = Len(TextOf[doc'])  BY <2>1, TextIs
  <2>4. SubSeq(TextOf[doc'], 1, 0) = <<>>  BY <2>3
  <2>5. KeptData(reader', SubSeq(TextOf[doc'], 1, consumed'))  BY <2>1, <2>4, NoReaderKept
  <2> QED  BY <2>1, <2>2, <2>3, <2>5 DEF StreamInv
<1>2. CASE ParserEnds
  <2>1. /\ written' \in {consumed, written}
        /\ UNCHANGED <<main, doc, consumed, reader>>
    BY <1>2 DEF ParserEnds, ParserExits, Exit
  <2>2. CASE doc = Closed
    <3>1. doc' = Closed /\ main' # "reading" /\ written' = 0 /\ consumed' = 0 /\ reader' = NoReader
      BY <2>1, <2>2 DEF StreamInv
    <3>2. doc' = Closed <=> main' # "reading"  BY <3>1
    <3> QED  BY <3>1, <3>2 DEF StreamInv
  <2>3. CASE doc # Closed
    <3>1. /\ doc' # Closed /\ main' = "reading" /\ doc' \in Documents
          /\ KeptData(reader', SubSeq(TextOf[doc'], 1, consumed'))
      BY <2>1, <2>3 DEF StreamInv
    <3>2. TextSize(doc') \in Nat /\ written \in Nat /\ consumed \in 0..written
          /\ written <= TextSize(doc')
      BY <2>1, <2>3, TextIs DEF StreamInv
    <3>3. written' \in Nat /\ consumed' \in 0..written' /\ written' <= TextSize(doc')
      BY <2>1, <3>2
    <3>4. doc' = Closed <=> main' # "reading"  BY <3>1
    <3> QED  BY <3>1, <3>3, <3>4 DEF StreamInv
  <2> QED  BY <2>2, <2>3
<1>3. CASE EndOfFile \/ ReadError
  <2>1. main' = "idle" /\ doc' = Closed /\ written' = 0 /\ consumed' = 0 /\ reader' = NoReader
    BY <1>3 DEF EndOfFile, ReadError, ReadEnds, ReadFails, MainGoes, Close
  <2>2. main' # "reading"  BY <2>1
  <2>3. doc' = Closed <=> main' # "reading"  BY <2>1, <2>2
  <2> QED  BY <2>1, <2>3 DEF StreamInv
<1>4. ASSUME NEW n \in Pieces, ReadPiece(n) PROVE StreamInv'
  <2> DEFINE piece == SubSeq(TextOf[doc], consumed + 1, consumed')
  <2>1. /\ main = "reading" /\ consumed + n <= written /\ consumed' = consumed + n
        /\ reader' = Read(reader, piece).reader
        /\ UNCHANGED <<main, doc, written>> /\ n \in Nat
    BY <1>4, FeedAssumption DEF ReadPiece, childrenVars
  <2>2. /\ doc # Closed /\ doc \in Documents /\ written \in Nat /\ consumed \in 0..written
        /\ written <= TextSize(doc) /\ KeptData(reader, Text)
    BY <2>1 DEF StreamInv
  <2>3. TextOf[doc] \in Seq(Letters) /\ TextSize(doc) = Len(TextOf[doc])  BY <2>2, TextIs
  <2> DEFINE all == TextOf[doc]
             c == consumed
             e == consumed'
  <2>4. /\ c \in Nat /\ e \in Nat /\ c <= e /\ e <= Len(all) /\ Len(all) \in Nat
        /\ all \in Seq(Letters) /\ consumed' \in 0..written
    BY <2>1, <2>2, <2>3
  <2>5. /\ SubSeq(all, 1, c) \in Seq(Letters) /\ SubSeq(all, c + 1, e) \in Seq(Letters)
        /\ SubSeq(all, 1, c) \o SubSeq(all, c + 1, e) = SubSeq(all, 1, e)
    <3> HIDE DEF all, c, e
    <3> QED  BY <2>4
  <2>6. KeptData(Read(reader, piece).reader, Text \o piece)  BY <2>2, <2>5, DataRead
  <2>7. KeptData(reader', SubSeq(TextOf[doc], 1, consumed'))  BY <2>1, <2>5, <2>6
  <2> QED  BY <2>1, <2>2, <2>4, <2>7 DEF StreamInv
<1>5. CASE \/ Elsewhere(Exec) \/ Elsewhere(ForkWget) \/ Elsewhere(PipeFails)
           \/ Elsewhere(ForkParserFails) \/ Elsewhere(MainReaps) \/ Elsewhere(MainHasNone)
           \/ Elsewhere(Handler) \/ Elsewhere(ChildExits) \/ UNCHANGED feedVars
  <2>1. UNCHANGED <<doc, written, consumed, reader>>
    BY <1>5 DEF Elsewhere, stream, feedVars
  <2>2. main' = "reading" <=> main = "reading"
    BY <1>5 DEF Elsewhere, Exec, ForkWget, PipeFails, ForkParserFails, MainReaps, MainHasNone,
                Handler, HandlerStarts, HandlerReaps, HandlerHasNone, ChildExits, Exit, MainGoes,
                feedVars, childrenVars
  <2> QED  BY <2>1, <2>2 DEF StreamInv
<1> QED  BY <1>1, <1>2, <1>3, <1>4, <1>5 DEF FeedNext

(* What is kept, as FeedTypeOK says it.                                     *)
LEMMA SuffixIs ==
  ASSUME NEW s \in Seq(Letters), NEW t \in Seq(Letters), EndsWith(s, t)
  PROVE IsSuffix(s, t)
<1> DEFINE u == Reverse(s)
           v == Reverse(t)
<1>1. Len(s) \in Nat /\ Len(t) \in Nat /\ Len(s) <= Len(t)  BY DEF EndsWith
<1>2. /\ u \in Seq(Letters) /\ Len(u) = Len(s)
      /\ \A i \in 1..Len(s) : u[i] = s[(Len(s) - i) + 1]
  BY <1>1 DEF Reverse
<1>3. /\ v \in Seq(Letters) /\ Len(v) = Len(t)
      /\ \A i \in 1..Len(t) : v[i] = t[(Len(t) - i) + 1]
  BY <1>1 DEF Reverse
<1> HIDE DEF u, v
<1>4. ASSUME NEW i \in 1..Len(s) PROVE u[i] = v[i]
  <2>1. /\ (Len(s) - i) + 1 \in 1..Len(s) /\ i \in 1..Len(t)
        /\ Len(t) - Len(s) + ((Len(s) - i) + 1) = (Len(t) - i) + 1
    BY <1>1
  <2>2. s[(Len(s) - i) + 1] = t[(Len(t) - i) + 1]  BY <2>1 DEF EndsWith
  <2> QED  BY <1>2, <1>3, <2>1, <2>2
<1>5. SubSeq(u, 1, Len(u)) = SubSeq(v, 1, Len(u))
  <2> DEFINE a == SubSeq(u, 1, Len(u))
             b == SubSeq(v, 1, Len(u))
  <2>1. /\ a \in Seq(Letters) /\ b \in Seq(Letters) /\ Len(a) = Len(s) /\ Len(b) = Len(s)
        /\ \A i \in 1..Len(s) : a[i] = u[i] /\ b[i] = v[i]
    BY <1>1, <1>2, <1>3
  <2> HIDE DEF a, b
  <2>2. a = b  BY <1>4, <2>1
  <2> QED  BY <2>2 DEF a, b
<1> QED  BY <1>1, <1>2, <1>3, <1>5 DEF IsSuffix, IsPrefix, u, v

LEMMA KeptKeeps ==
  ASSUME NEW r, NEW root, Kept(r, root), doc \in Documents, consumed \in 0..TextSize(doc),
         EndsWith(r.buffer, SubSeq(TextOf[doc], 1, consumed))
  PROVE Keeps(r)
<1>1. /\ Reader(r) /\ ~Partial(r.state) /\ (r.state # VALUE => Len(r.buffer) <= Longest + 2)
  BY DEF Kept
<1>2. r.state \in {NULL, LOOKING, VALUE, TREE, DONE}
  BY <1>1 DEF Reader, Partial, NULL, LOOKING, VALUE, TREE, DONE
<1>3. TagLength = Longest + 3  BY DEF TagLength, Longest, Labels
<1>4. Len(r.buffer) < TagLength \/ r.state = VALUE
  <2>1. Longest \in Nat /\ Len(r.buffer) \in Nat  BY <1>1, LabelsAre DEF Reader
  <2> QED  BY <1>1, <1>3, <2>1
<1>5. IsSuffix(r.buffer, SubSeq(TextOf[doc], 1, consumed))
  <2>1. TextOf[doc] \in Seq(Letters) /\ consumed \in 0..Len(TextOf[doc])  BY TextIs
  <2>2. SubSeq(TextOf[doc], 1, consumed) \in Seq(Letters)  BY <2>1
  <2> QED  BY <1>1, <2>2, SuffixIs DEF Reader
<1> QED  BY <1>1, <1>2, <1>4, <1>5 DEF Keeps, Reader

-----------------------------------------------------------------------------
(* That the pieces make no difference.  What a label has to do with the     *)
(* letters in the buffer.                                                   *)

LEMMA MatchesAt ==
  ASSUME NEW r, Reader(r), NEW l \in Labels
  PROVE Matches(r, l) <=> /\ r.offset + Len(Tag(l)) <= Len(r.buffer)
                          /\ \A i \in 1..Len(Tag(l)) : r.buffer[r.offset + i] = Tag(l)[i]
<1> DEFINE s == Rest(r)
           u == Tag(l)
<1>1. /\ u \in Seq(Letters) /\ Len(u) \in Nat  BY TagsAre
<1>2. /\ s \in Seq(Letters) /\ Len(s) = Len(r.buffer) - r.offset
      /\ \A i \in 1..Len(s) : s[i] = r.buffer[r.offset + i]
      /\ r.offset \in Nat /\ Len(r.buffer) \in Nat /\ r.offset <= Len(r.buffer)
  BY RestIs DEF Reader
<1>3. Matches(r, l) <=> Len(u) <= Len(s) /\ SubSeq(u, 1, Len(u)) = SubSeq(s, 1, Len(u))
  BY DEF Matches, IsPrefix
<1> HIDE DEF s, u
<1>4. Len(u) <= Len(s) =>
        (SubSeq(u, 1, Len(u)) = SubSeq(s, 1, Len(u)) <=> \A i \in 1..Len(u) : s[i] = u[i])
  <2> SUFFICES ASSUME Len(u) <= Len(s)
               PROVE SubSeq(u, 1, Len(u)) = SubSeq(s, 1, Len(u)) <=> \A i \in 1..Len(u) : s[i] = u[i]
    OBVIOUS
  <2> DEFINE a == SubSeq(u, 1, Len(u))
             c == SubSeq(s, 1, Len(u))
  <2>1. /\ a \in Seq(Letters) /\ c \in Seq(Letters) /\ Len(a) = Len(u) /\ Len(c) = Len(u)
        /\ \A i \in 1..Len(u) : a[i] = u[i] /\ c[i] = s[i]
    BY <1>1, <1>2
  <2> HIDE DEF a, c
  <2>2. (\A i \in 1..Len(u) : s[i] = u[i]) => a = c  BY <2>1
  <2>3. a = c => \A i \in 1..Len(u) : s[i] = u[i]  BY <2>1
  <2> QED  BY <2>2, <2>3 DEF a, c
<1>5. Len(u) <= Len(s) <=> r.offset + Len(u) <= Len(r.buffer)  BY <1>1, <1>2
<1>6. Len(u) <= Len(s) => \A i \in 1..Len(u) : s[i] = r.buffer[r.offset + i]  BY <1>1, <1>2
<1>7. Matches(r, l) <=> Len(u) <= Len(s) /\ \A i \in 1..Len(u) : s[i] = u[i]  BY <1>3, <1>4
<1>8. Matches(r, l) <=> Len(u) <= Len(s) /\ \A i \in 1..Len(u) : r.buffer[r.offset + i] = u[i]
  BY <1>6, <1>7
<1> QED  BY <1>5, <1>8 DEF u

LEMMA CutOffAt ==
  ASSUME NEW r, Reader(r), NEW l \in Labels
  PROVE CutOff(r, {l}) <=>
          /\ Len(r.buffer) - r.offset < Len(Tag(l))
          /\ \A i \in 1..(Len(r.buffer) - r.offset) : r.buffer[r.offset + i] = Tag(l)[i]
<1> DEFINE s == Rest(r)
           u == Tag(l)
<1>1. /\ u \in Seq(Letters) /\ Len(u) \in Nat  BY TagsAre
<1>2. /\ s \in Seq(Letters) /\ Len(s) = Len(r.buffer) - r.offset /\ Len(s) \in Nat
      /\ \A i \in 1..Len(s) : s[i] = r.buffer[r.offset + i]
  BY RestIs DEF Reader
<1>3. CutOff(r, {l}) <=> Len(s) <= Len(u) /\ SubSeq(s, 1, Len(s)) = SubSeq(u, 1, Len(s)) /\ s # u
  BY DEF CutOff, IsStrictPrefix, IsPrefix
<1> HIDE DEF s, u
<1>4. Len(s) <= Len(u) =>
        (SubSeq(s, 1, Len(s)) = SubSeq(u, 1, Len(s)) <=> \A i \in 1..Len(s) : s[i] = u[i])
  <2> SUFFICES ASSUME Len(s) <= Len(u)
               PROVE SubSeq(s, 1, Len(s)) = SubSeq(u, 1, Len(s)) <=> \A i \in 1..Len(s) : s[i] = u[i]
    OBVIOUS
  <2> DEFINE a == SubSeq(s, 1, Len(s))
             c == SubSeq(u, 1, Len(s))
  <2>1. /\ a \in Seq(Letters) /\ c \in Seq(Letters) /\ Len(a) = Len(s) /\ Len(c) = Len(s)
        /\ \A i \in 1..Len(s) : a[i] = s[i] /\ c[i] = u[i]
    BY <1>1, <1>2
  <2> HIDE DEF a, c
  <2>2. (\A i \in 1..Len(s) : s[i] = u[i]) => a = c  BY <2>1
  <2>3. a = c => \A i \in 1..Len(s) : s[i] = u[i]  BY <2>1
  <2> QED  BY <2>2, <2>3 DEF a, c
<1>5. Len(s) = Len(u) /\ (\A i \in 1..Len(s) : s[i] = u[i]) => s = u  BY <1>1, <1>2
<1>6. CutOff(r, {l}) <=> Len(s) < Len(u) /\ \A i \in 1..Len(s) : s[i] = u[i]
  <2>1. s = u => Len(s) = Len(u)  OBVIOUS
  <2> QED  BY <1>1, <1>2, <1>3, <1>4, <1>5, <2>1
<1> QED  BY <1>2, <1>6 DEF u

LEMMA CutOffOf ==
  ASSUME NEW r, NEW labels
  PROVE CutOff(r, labels) <=> \E l \in labels : CutOff(r, {l})
BY DEF CutOff

(* No label that matches is the beginning of another, which might come.     *)
LEMMA MatchIsAll ==
  ASSUME NEW r, Reader(r), NEW l \in Labels, NEW m \in Labels, Matches(r, l)
  PROVE ~CutOff(r, {m})
<1> SUFFICES ASSUME CutOff(r, {m}) PROVE FALSE  OBVIOUS
<1>1. /\ r.offset + Len(Tag(l)) <= Len(r.buffer)
      /\ \A i \in 1..Len(Tag(l)) : r.buffer[r.offset + i] = Tag(l)[i]
  BY MatchesAt
<1>2. /\ Len(r.buffer) - r.offset < Len(Tag(m))
      /\ \A i \in 1..(Len(r.buffer) - r.offset) : r.buffer[r.offset + i] = Tag(m)[i]
  BY CutOffAt
<1>3. /\ Len(Tag(l)) = Len(l) + 1 /\ Len(l) \in Nat /\ Tag(l)[Len(l) + 1] = ">"
      /\ Len(Tag(m)) = Len(m) + 1 /\ Len(m) \in Nat /\ \A i \in 1..Len(m) : Tag(m)[i] # ">"
  BY TagsAre, LabelsAre
<1>4. r.offset \in Nat /\ Len(r.buffer) \in Nat  BY DEF Reader
<1>5. /\ Len(l) + 1 \in 1..Len(Tag(l)) /\ Len(l) + 1 \in 1..(Len(r.buffer) - r.offset)
      /\ Len(l) + 1 \in 1..Len(m)
  BY <1>1, <1>2, <1>3, <1>4
<1>6. Tag(l)[Len(l) + 1] = Tag(m)[Len(l) + 1]  BY <1>1, <1>2, <1>5
<1> QED  BY <1>3, <1>5, <1>6

-----------------------------------------------------------------------------
(* s has what r has, its buffer begins k letters later, and n more have     *)
(* come to it.                                                              *)
SameFields(r, s) ==
  /\ s.root = r.root /\ s.state = r.state /\ s.ign_deep = r.ign_deep /\ s.cur_value = r.cur_value
  /\ s.cur_tree = r.cur_tree /\ s.values = r.values /\ s.count = r.count /\ s.given = r.given

Moved(r, s, k, n) ==
  /\ SameFields(r, s)
  /\ k <= r.offset /\ s.offset = r.offset - k
  /\ Len(s.buffer) = Len(r.buffer) - k + n
  /\ \A i \in (k + 1)..Len(r.buffer) : s.buffer[i - k] = r.buffer[i]

(* The letters from the offset on.                                          *)
LEMMA MovedRest ==
  ASSUME NEW k \in Nat, NEW n \in Nat, NEW r, Reader(r), NEW s, Reader(s), Moved(r, s, k, n)
  PROVE /\ Len(s.buffer) - s.offset = Len(r.buffer) - r.offset + n
        /\ \A i \in 1..(Len(r.buffer) - r.offset) :
             s.buffer[s.offset + i] = r.buffer[r.offset + i]
<1>1. /\ r.offset \in Nat /\ s.offset \in Nat /\ Len(r.buffer) \in Nat /\ Len(s.buffer) \in Nat
      /\ k <= r.offset /\ s.offset = r.offset - k /\ Len(s.buffer) = Len(r.buffer) - k + n
  BY DEF Moved, Reader
<1>2. ASSUME NEW i \in 1..(Len(r.buffer) - r.offset)
      PROVE s.buffer[s.offset + i] = r.buffer[r.offset + i]
  <2>1. r.offset + i \in (k + 1)..Len(r.buffer) /\ (r.offset + i) - k = s.offset + i  BY <1>1
  <2>2. s.buffer[(r.offset + i) - k] = r.buffer[r.offset + i]  BY <2>1 DEF Moved
  <2> QED  BY <2>1, <2>2
<1> QED  BY <1>1, <1>2

LEMMA MovedMatch ==
  ASSUME NEW k \in Nat, NEW n \in Nat, NEW r, Reader(r), NEW s, Reader(s), Moved(r, s, k, n),
         NEW l \in Labels
  PROVE /\ Matches(r, l) => Matches(s, l)
        /\ Matches(s, l) => Matches(r, l) \/ (n > 0 /\ CutOff(r, {l}))
        /\ CutOff(s, {l}) => CutOff(r, {l})
        /\ CutOff(r, {l}) /\ n = 0 => CutOff(s, {l})
<1> DEFINE x == Len(r.buffer) - r.offset
           y == Len(s.buffer) - s.offset
           z == Len(Tag(l))
<1>1. /\ r.offset \in Nat /\ s.offset \in Nat /\ Len(r.buffer) \in Nat /\ Len(s.buffer) \in Nat
      /\ z \in Nat /\ x \in Nat /\ y \in Nat
  BY TagsAre, LabelsAre DEF Reader
<1>2. y = x + n /\ \A i \in 1..x : s.buffer[s.offset + i] = r.buffer[r.offset + i]
  BY MovedRest
<1>3. Matches(r, l) <=> z <= x /\ \A i \in 1..z : r.buffer[r.offset + i] = Tag(l)[i]
  <2>1. r.offset + z <= Len(r.buffer) <=> z <= x  BY <1>1
  <2> QED  BY <2>1, MatchesAt
<1>4. Matches(s, l) <=> z <= y /\ \A i \in 1..z : s.buffer[s.offset + i] = Tag(l)[i]
  <2>1. s.offset + z <= Len(s.buffer) <=> z <= y  BY <1>1
  <2> QED  BY <2>1, MatchesAt
<1>5. CutOff(r, {l}) <=> x < z /\ \A i \in 1..x : r.buffer[r.offset + i] = Tag(l)[i]
  BY CutOffAt
<1>6. CutOff(s, {l}) <=> y < z /\ \A i \in 1..y : s.buffer[s.offset + i] = Tag(l)[i]
  BY CutOffAt
<1> HIDE DEF x, y, z
<1>7. Matches(r, l) => Matches(s, l)
  <2> SUFFICES ASSUME Matches(r, l) PROVE Matches(s, l)  OBVIOUS
  <2>1. z <= y /\ \A i \in 1..z : i \in 1..x  BY <1>1, <1>2, <1>3
  <2> QED  BY <1>2, <1>3, <1>4, <2>1
<1>8. Matches(s, l) => Matches(r, l) \/ (n > 0 /\ CutOff(r, {l}))
  <2> SUFFICES ASSUME Matches(s, l) PROVE Matches(r, l) \/ (n > 0 /\ CutOff(r, {l}))  OBVIOUS
  <2>1. CASE z <= x
    <3>1. \A i \in 1..z : i \in 1..x  BY <1>1, <2>1
    <3> QED  BY <1>2, <1>3, <1>4, <2>1, <3>1
  <2>2. CASE x < z
    <3>1. n > 0 /\ \A i \in 1..x : i \in 1..z  BY <1>1, <1>2, <1>4, <2>2
    <3> QED  BY <1>2, <1>4, <1>5, <2>2, <3>1
  <2> QED  BY <1>1, <2>1, <2>2
<1>9. CutOff(s, {l}) => CutOff(r, {l})
  <2> SUFFICES ASSUME CutOff(s, {l}) PROVE CutOff(r, {l})  OBVIOUS
  <2>1. x < z /\ \A i \in 1..x : i \in 1..y  BY <1>1, <1>2, <1>6
  <2> QED  BY <1>2, <1>5, <1>6, <2>1
<1>10. CutOff(r, {l}) /\ n = 0 => CutOff(s, {l})
  <2> SUFFICES ASSUME CutOff(r, {l}), n = 0 PROVE CutOff(s, {l})  OBVIOUS
  <2>1. y = x  BY <1>1, <1>2
  <2> QED  BY <1>2, <1>5, <1>6, <2>1
<1> QED  BY <1>7, <1>8, <1>9, <1>10

(* The same change to both.                                                 *)
LEMMA MovedExcept ==
  ASSUME NEW k \in Nat, NEW n \in Nat, NEW r, Reader(r), NEW s, Reader(s), Moved(r, s, k, n), NEW x
  PROVE /\ Moved([r EXCEPT !.cur_value = x], [s EXCEPT !.cur_value = x], k, n)
        /\ Moved([r EXCEPT !.cur_tree = x], [s EXCEPT !.cur_tree = x], k, n)
        /\ Moved([r EXCEPT !.values = x], [s EXCEPT !.values = x], k, n)
        /\ Moved([r EXCEPT !.count = x], [s EXCEPT !.count = x], k, n)
        /\ Moved([r EXCEPT !.given = x], [s EXCEPT !.given = x], k, n)
        /\ Moved([r EXCEPT !.state = x], [s EXCEPT !.state = x], k, n)
        /\ Moved([r EXCEPT !.ign_deep = x], [s EXCEPT !.ign_deep = x], k, n)
        /\ \A y : k <= x /\ y = x - k => Moved([r EXCEPT !.offset = x], [s EXCEPT !.offset = y], k, n)
<1>1. Moved([r EXCEPT !.cur_value = x], [s EXCEPT !.cur_value = x], k, n)
  BY DEF Reader, Moved, SameFields
<1>2. Moved([r EXCEPT !.cur_tree = x], [s EXCEPT !.cur_tree = x], k, n)
  BY DEF Reader, Moved, SameFields
<1>3. Moved([r EXCEPT !.values = x], [s EXCEPT !.values = x], k, n)
  BY DEF Reader, Moved, SameFields
<1>4. Moved([r EXCEPT !.count = x], [s EXCEPT !.count = x], k, n)
  BY DEF Reader, Moved, SameFields
<1>5. Moved([r EXCEPT !.given = x], [s EXCEPT !.given = x], k, n)
  BY DEF Reader, Moved, SameFields
<1>6. Moved([r EXCEPT !.state = x], [s EXCEPT !.state = x], k, n)
  BY DEF Reader, Moved, SameFields
<1>7. Moved([r EXCEPT !.ign_deep = x], [s EXCEPT !.ign_deep = x], k, n)
  BY DEF Reader, Moved, SameFields
<1>8. \A y : k <= x /\ y = x - k => Moved([r EXCEPT !.offset = x], [s EXCEPT !.offset = y], k, n)
  BY DEF Reader, Moved, SameFields
<1> QED  BY <1>1, <1>2, <1>3, <1>4, <1>5, <1>6, <1>7, <1>8

LEMMA AfterMoved ==
  ASSUME NEW k \in Nat, NEW n \in Nat, NEW r, Reader(r), NEW s, Reader(s), Moved(r, s, k, n),
         NEW l \in Labels, Matches(r, l)
  PROVE /\ Moved(After(r, l), After(s, l), k, n) /\ Matches(s, l)
        /\ Reader(After(r, l)) /\ Reader(After(s, l))
<1> DEFINE x == r.offset + Len(Tag(l))
           y == s.offset + Len(Tag(l))
<1>1. Matches(s, l)  BY MovedMatch
<1>2. After(r, l) = [r EXCEPT !.offset = x] /\ After(s, l) = [s EXCEPT !.offset = y]
  BY DEF After
<1>3. Len(Tag(l)) \in Nat  BY TagsAre, LabelsAre
<1>4. k <= r.offset /\ s.offset = r.offset - k /\ r.offset \in Nat  BY DEF Moved, Reader
<1>5. y = x - k /\ k <= x  BY <1>3, <1>4
<1> HIDE DEF x, y
<1>6. Moved([r EXCEPT !.offset = x], [s EXCEPT !.offset = y], k, n)  BY <1>5, MovedExcept
<1>9. Moved(After(r, l), After(s, l), k, n)  BY <1>2, <1>6
<1>7. Reader(After(r, l))  BY AfterIs
<1>8. Reader(After(s, l))  BY <1>1, AfterIs
<1> QED  BY <1>1, <1>7, <1>8, <1>9

(* A label that may still come is cut off, and what else a reader does with *)
(* a letter it does with it in a longer buffer, too.                        *)
Cuts(r, s, n) ==
  n > 0 /\ s = Cut(r) /\ \E labels \in SUBSET Labels : CutOff(r, labels)

LEMMA CutMoved ==
  ASSUME NEW k \in Nat, NEW n \in Nat, NEW r, Reader(r), NEW s, Reader(s), Moved(r, s, k, n)
  PROVE Moved(Cut(r), Cut(s), k, n)
<1> DEFINE x == IF Partial(r.state) THEN r.state ELSE r.state + 1
<1>1. s.state = r.state  BY DEF Moved, SameFields
<1>2. Cut(r) = [r EXCEPT !.state = x]  BY DEF Cut
<1>3. Cut(s) = [s EXCEPT !.state = x]  BY <1>1 DEF Cut
<1> HIDE DEF x
<1>4. Moved([r EXCEPT !.state = x], [s EXCEPT !.state = x], k, n)  BY MovedExcept
<1> QED  BY <1>2, <1>3, <1>4

LEMMA InNullMoved ==
  ASSUME NEW k \in Nat, NEW n \in Nat, NEW r, Reader(r), NEW s, Reader(s), Moved(r, s, k, n),
         ~Partial(r.state)
  PROVE \/ Moved(InNull(r), InNull(s), k, n) /\ (n > 0 => ~Partial(InNull(r).state))
        \/ Cuts(r, InNull(r), n)
<1> DEFINE l == r.root
<1>1. l \in Labels /\ s.root = l  BY DEF Reader, Labels, Moved, SameFields
<1> HIDE DEF l
<1>2. CASE Matches(r, l)
  <2> DEFINE a == After(r, l)
             c == After(s, l)
  <2>1. Moved(a, c, k, n) /\ Matches(s, l) /\ Reader(a) /\ Reader(c)  BY <1>1, <1>2, AfterMoved
  <2>2. InNull(r) = [a EXCEPT !.state = LOOKING] /\ InNull(s) = [c EXCEPT !.state = LOOKING]
    BY <1>1, <1>2, <2>1 DEF InNull, l
  <2> HIDE DEF a, c
  <2>3. Moved([a EXCEPT !.state = LOOKING], [c EXCEPT !.state = LOOKING], k, n)  BY <2>1, MovedExcept
  <2>4. InNull(r).state = LOOKING /\ ~Partial(LOOKING)
    BY <2>1, <2>2 DEF Reader, Partial, LOOKING
  <2> QED  BY <2>2, <2>3, <2>4
<1>3. CASE ~Matches(r, l) /\ CutOff(r, {l}) /\ n > 0
  <2>1. InNull(r) = Cut(r)  BY <1>3 DEF InNull, l
  <2>2. {l} \in SUBSET Labels  BY <1>1
  <2> QED  BY <1>3, <2>1, <2>2 DEF Cuts
<1>4. CASE ~Matches(r, l) /\ CutOff(r, {l}) /\ n = 0
  <2>1. ~Matches(s, l) /\ CutOff(s, {l})  BY <1>1, <1>4, MovedMatch
  <2>2. InNull(r) = Cut(r) /\ InNull(s) = Cut(s)  BY <1>1, <1>4, <2>1 DEF InNull, l
  <2> QED  BY <1>4, <2>2, CutMoved
<1>5. CASE ~Matches(r, l) /\ ~CutOff(r, {l})
  <2>1. ~Matches(s, l) /\ ~CutOff(s, {l})  BY <1>1, <1>5, MovedMatch
  <2>2. InNull(r) = r /\ InNull(s) = s  BY <1>1, <1>5, <2>1 DEF InNull, l
  <2> QED  BY <2>2
<1> QED  BY <1>2, <1>3, <1>4, <1>5

LEMMA InEndMoved ==
  ASSUME NEW k \in Nat, NEW n \in Nat, NEW r, Reader(r), NEW s, Reader(s), Moved(r, s, k, n),
         ~Partial(r.state)
  PROVE \/ Moved(InEnd(r), InEnd(s), k, n) /\ (n > 0 => ~Partial(InEnd(r).state))
        \/ Cuts(r, InEnd(r), n)
<1> DEFINE l == r.root
<1>1. l \in Labels /\ s.root = l  BY DEF Reader, Labels, Moved, SameFields
<1> HIDE DEF l
<1>2. CASE Matches(r, l)
  <2> DEFINE a == After(r, l)
             c == After(s, l)
             x == a.given \o Given(r.values)
             d == [a EXCEPT !.state = DONE]
             e == [c EXCEPT !.state = DONE]
  <2>1. Moved(a, c, k, n) /\ Matches(s, l) /\ Reader(a) /\ Reader(c)  BY <1>1, <1>2, AfterMoved
  <2>2. s.values = r.values /\ c.given = a.given  BY <2>1 DEF Moved, SameFields
  <2>3. InEnd(r) = [a EXCEPT !.state = DONE, !.given = x]
    BY <1>2 DEF InEnd, l
  <2>4. InEnd(s) = [c EXCEPT !.state = DONE, !.given = x]
    BY <1>1, <2>1, <2>2 DEF InEnd, l
  <2> HIDE DEF a, c, x
  <2>5. InEnd(r) = [d EXCEPT !.given = x] /\ InEnd(s) = [e EXCEPT !.given = x]  BY <2>3, <2>4
  <2>6. Reader(d) /\ Reader(e)
    <3>1. DONE \in 0..6  BY DEF DONE
    <3> QED  BY <2>1, <3>1, ReaderExcept, Zenon
  <2>7. Moved(d, e, k, n)  BY <2>1, MovedExcept
  <2> HIDE DEF d, e
  <2>8. Moved([d EXCEPT !.given = x], [e EXCEPT !.given = x], k, n)  BY <2>6, <2>7, MovedExcept
  <2>9. InEnd(r).state = DONE /\ ~Partial(DONE)
    <3>1. d.state = DONE  BY <2>1 DEF Reader, d
    <3>2. [d EXCEPT !.given = x].state = d.state  BY <2>6 DEF Reader
    <3> QED  BY <2>5, <3>1, <3>2 DEF Partial, DONE
  <2> QED  BY <2>5, <2>8, <2>9
<1>3. CASE ~Matches(r, l) /\ CutOff(r, {l}) /\ n > 0
  <2>1. InEnd(r) = Cut(r)  BY <1>3 DEF InEnd, l
  <2>2. {l} \in SUBSET Labels  BY <1>1
  <2> QED  BY <1>3, <2>1, <2>2 DEF Cuts
<1>4. CASE ~Matches(r, l) /\ CutOff(r, {l}) /\ n = 0
  <2>1. ~Matches(s, l) /\ CutOff(s, {l})  BY <1>1, <1>4, MovedMatch
  <2>2. InEnd(r) = Cut(r) /\ InEnd(s) = Cut(s)  BY <1>1, <1>4, <2>1 DEF InEnd, l
  <2> QED  BY <1>4, <2>2, CutMoved
<1>5. CASE ~Matches(r, l) /\ ~CutOff(r, {l})
  <2>1. ~Matches(s, l) /\ ~CutOff(s, {l})  BY <1>1, <1>5, MovedMatch
  <2>2. InEnd(r) = r /\ InEnd(s) = s  BY <1>1, <1>5, <2>1 DEF InEnd, l
  <2> QED  BY <2>2
<1> QED  BY <1>2, <1>3, <1>4, <1>5

LEMMA InStartMoved ==
  ASSUME NEW k \in Nat, NEW n \in Nat, NEW r, Reader(r), NEW s, Reader(s), Moved(r, s, k, n),
         ~Partial(r.state)
  PROVE \/ Moved(InStart(r), InStart(s), k, n) /\ (n > 0 => ~Partial(InStart(r).state))
        \/ Cuts(r, InStart(r), n)
<1> DEFINE vs == ValueLabels(r)
           ts == TreeLabels(r)
           value == {l \in vs : Matches(r, l)}
           tree == {l \in ts : Matches(r, l)}
<1>1. /\ vs \subseteq Labels /\ ts \subseteq Labels /\ Tree \in Labels
      /\ ValueLabels(s) = vs /\ TreeLabels(s) = ts /\ tree \subseteq {Tree}
  BY DEF ValueLabels, TreeLabels, Labels, Moved, SameFields
<1> HIDE DEF vs, ts
<1>2. ASSUME NEW l \in Labels, NEW m \in Labels, Matches(r, l)
      PROVE Matches(s, m) <=> Matches(r, m)
  BY <1>2, MovedMatch, MatchIsAll
<1>3. CASE value # {}
  <2> DEFINE l == CHOOSE x \in value : TRUE
             a == After(r, l)
             c == After(s, l)
             d == [a EXCEPT !.state = VALUE]
             e == [c EXCEPT !.state = VALUE]
  <2>1. l \in vs /\ l \in Labels /\ Matches(r, l)  BY <1>1, <1>3
  <2>2. {m \in vs : Matches(s, m)} = value  BY <1>1, <1>2, <2>1
  <2>3. InStart(r) = [a EXCEPT !.state = VALUE, !.cur_value = l]
    BY <1>3 DEF InStart, vs
  <2>4. InStart(s) = [c EXCEPT !.state = VALUE, !.cur_value = l]
    <3>1. {m \in ValueLabels(s) : Matches(s, m)} = value  BY <1>1, <2>2
    <3> HIDE DEF value
    <3> QED  BY <1>3, <3>1 DEF InStart
  <2> HIDE DEF l
  <2>5. Moved(a, c, k, n) /\ Reader(a) /\ Reader(c)  BY <2>1, AfterMoved
  <2> HIDE DEF a, c
  <2>6. InStart(r) = [d EXCEPT !.cur_value = l] /\ InStart(s) = [e EXCEPT !.cur_value = l]
    BY <2>3, <2>4
  <2>7. Reader(d) /\ Reader(e)
    <3>1. VALUE \in 0..6  BY DEF VALUE
    <3> QED  BY <2>5, <3>1, ReaderExcept, Zenon
  <2>8. Moved(d, e, k, n)  BY <2>5, MovedExcept
  <2> HIDE DEF d, e
  <2>9. Moved([d EXCEPT !.cur_value = l], [e EXCEPT !.cur_value = l], k, n)  BY <2>7, <2>8, MovedExcept
  <2>10. InStart(r).state = VALUE /\ ~Partial(VALUE)
    <3>1. d.state = VALUE  BY <2>5 DEF Reader, d
    <3>2. [d EXCEPT !.cur_value = l].state = d.state  BY <2>7 DEF Reader
    <3> QED  BY <2>6, <3>1, <3>2 DEF Partial, VALUE
  <2> QED  BY <2>6, <2>9, <2>10
<1>4. CASE value = {} /\ tree # {}
  <2> DEFINE a == After(r, Tree)
             c == After(s, Tree)
             d == [a EXCEPT !.state = TREE]
             e == [c EXCEPT !.state = TREE]
             g == [d EXCEPT !.cur_tree = SubReader]
             h == [e EXCEPT !.cur_tree = SubReader]
  <2>1. Matches(r, Tree) /\ Tree \in ts  BY <1>1, <1>4
  <2>2. {m \in ValueLabels(s) : Matches(s, m)} = {}  BY <1>1, <1>2, <1>4, <2>1
  <2>3. {m \in TreeLabels(s) : Matches(s, m)} # {}  BY <1>1, <1>2, <2>1
  <2>4. InStart(r) = [a EXCEPT !.state = TREE, !.cur_tree = SubReader, !.count = @ + 1]
    BY <1>4 DEF InStart, vs, ts
  <2>5. InStart(s) = [c EXCEPT !.state = TREE, !.cur_tree = SubReader, !.count = @ + 1]
    BY <2>2, <2>3 DEF InStart
  <2>6. Moved(a, c, k, n) /\ Reader(a) /\ Reader(c)  BY <1>1, <2>1, AfterMoved
  <2>7. c.count = a.count  BY <2>6 DEF Moved, SameFields
  <2> HIDE DEF a, c
  <2>8. /\ InStart(r) = [g EXCEPT !.count = a.count + 1]
        /\ InStart(s) = [h EXCEPT !.count = a.count + 1]
    BY <2>4, <2>5, <2>6, <2>7 DEF Reader
  <2>9. Reader(d) /\ Reader(e)
    <3>1. TREE \in 0..6  BY DEF TREE
    <3> QED  BY <2>6, <3>1, ReaderExcept, Zenon
  <2>10. Moved(d, e, k, n)  BY <2>6, MovedExcept
  <2> HIDE DEF d, e
  <2>11. Reader(g) /\ Reader(h)  BY <2>9, ReaderExcept, Zenon
  <2>12. Moved(g, h, k, n)  BY <2>9, <2>10, MovedExcept
  <2> DEFINE x == a.count + 1
  <2> HIDE DEF g, h, x
  <2>13. Moved([g EXCEPT !.count = x], [h EXCEPT !.count = x], k, n)  BY <2>11, <2>12, MovedExcept
  <2>14. InStart(r).state = TREE /\ ~Partial(TREE)
    <3>1. d.state = TREE  BY <2>6 DEF Reader, d
    <3>2. g.state = d.state  BY <2>9 DEF Reader, g
    <3>3. [g EXCEPT !.count = x].state = g.state  BY <2>11 DEF Reader
    <3> QED  BY <2>8, <3>1, <3>2, <3>3 DEF Partial, TREE, x
  <2> QED  BY <2>8, <2>13, <2>14 DEF x
<1>5. CASE value = {} /\ tree = {} /\ CutOff(r, vs \cup ts) /\ n > 0
  <2>1. InStart(r) = Cut(r)  BY <1>5 DEF InStart, vs, ts
  <2>2. vs \cup ts \in SUBSET Labels  BY <1>1
  <2> HIDE DEF value, tree
  <2> QED  BY <1>5, <2>1, <2>2 DEF Cuts
<1>6. CASE value = {} /\ tree = {} /\ (CutOff(r, vs \cup ts) => n = 0)
  <2>1. ASSUME NEW m \in vs \cup ts PROVE ~Matches(s, m)
    <3>1. m \in Labels /\ ~Matches(r, m)  BY <1>1, <1>6
    <3>2. n > 0 => ~CutOff(r, {m})
      <4>1. n > 0 => ~CutOff(r, vs \cup ts)  BY <1>6
      <4>2. CutOff(r, {m}) => CutOff(r, vs \cup ts)  BY <2>1, CutOffOf
      <4> QED  BY <4>1, <4>2
    <3> QED  BY <3>1, <3>2, MovedMatch
  <2>2. CutOff(s, vs \cup ts) <=> CutOff(r, vs \cup ts)
    <3>1. \A m \in vs \cup ts : m \in Labels  BY <1>1
    <3>2. \A m \in vs \cup ts : CutOff(s, {m}) => CutOff(r, {m})  BY <3>1, MovedMatch
    <3>3. \A m \in vs \cup ts : CutOff(r, {m}) /\ n = 0 => CutOff(s, {m})  BY <3>1, MovedMatch
    <3> QED  BY <1>6, <3>2, <3>3, CutOffOf
  <2>3. /\ {m \in ValueLabels(s) : Matches(s, m)} = {} /\ {m \in TreeLabels(s) : Matches(s, m)} = {}
        /\ CutOff(s, ValueLabels(s) \cup TreeLabels(s)) <=> CutOff(r, vs \cup ts)
    BY <1>1, <2>1, <2>2
  <2>4. InStart(r) = IF CutOff(r, vs \cup ts) THEN Cut(r) ELSE [r EXCEPT !.ign_deep = 1]
    BY <1>6 DEF InStart, vs, ts
  <2>5. InStart(s) = IF CutOff(r, vs \cup ts) THEN Cut(s) ELSE [s EXCEPT !.ign_deep = 1]
    BY <2>3 DEF InStart
  <2>6. Moved(Cut(r), Cut(s), k, n)  BY CutMoved
  <2>7. Moved([r EXCEPT !.ign_deep = 1], [s EXCEPT !.ign_deep = 1], k, n)  BY MovedExcept
  <2>8. CASE CutOff(r, vs \cup ts)  BY <1>6, <2>4, <2>5, <2>6, <2>8
  <2>9. CASE ~CutOff(r, vs \cup ts)
    <3>1. [r EXCEPT !.ign_deep = 1].state = r.state  BY DEF Reader
    <3> QED  BY <2>4, <2>5, <2>7, <2>9, <3>1
  <2> QED  BY <2>8, <2>9
<1> QED  BY <1>3, <1>4, <1>5, <1>6

-----------------------------------------------------------------------------
(* The next tag is the first there is.                                      *)
LEMMA NextTagFirst ==
  ASSUME NEW r, Reader(r)
  PROVE \A i \in (r.offset + 1)..NextTag(r) : r.buffer[i] # "<"
<1> DEFINE tags == {p \in r.offset..(Len(r.buffer) - 1) : r.buffer[p + 1] = "<"}
<1>1. r.offset \in Nat /\ Len(r.buffer) \in Nat /\ r.offset <= Len(r.buffer)  BY DEF Reader
<1>2. NextTag(r) \in r.offset..Len(r.buffer)  BY NextTagIs
<1> SUFFICES ASSUME NEW i \in (r.offset + 1)..NextTag(r), r.buffer[i] = "<" PROVE FALSE  OBVIOUS
<1>3. (i - 1) + 1 = i /\ i - 1 \in r.offset..(Len(r.buffer) - 1)  BY <1>1, <1>2
<1>4. i - 1 \in tags  BY <1>3
<1>5. tags \subseteq Nat  BY <1>1
<1>6. NextTag(r) = Min(tags)  BY <1>4 DEF NextTag
<1> HIDE DEF tags
<1>7. PICK m \in tags : \A p \in tags : m <= p  BY <1>4, <1>5, Smallest
<1>8. Min(tags) \in tags /\ \A p \in tags : Min(tags) <= p  BY <1>7 DEF Min
<1>9. NextTag(r) <= i - 1  BY <1>4, <1>6, <1>8
<1> QED  BY <1>1, <1>2, <1>9

LEMMA NextTagOnly ==
  ASSUME NEW r, Reader(r), NEW p \in r.offset..Len(r.buffer),
         \A i \in (r.offset + 1)..p : r.buffer[i] # "<",
         p < Len(r.buffer) => r.buffer[p + 1] = "<"
  PROVE NextTag(r) = p
<1> DEFINE q == NextTag(r)
<1>1. r.offset \in Nat /\ Len(r.buffer) \in Nat  BY DEF Reader
<1>2. q \in r.offset..Len(r.buffer) /\ (q < Len(r.buffer) => r.buffer[q + 1] = "<")  BY NextTagIs
<1>3. \A i \in (r.offset + 1)..q : r.buffer[i] # "<"  BY NextTagFirst
<1> HIDE DEF q
<1>4. ~(q < p)
  <2> SUFFICES ASSUME q < p PROVE FALSE  OBVIOUS
  <2>1. q + 1 \in (r.offset + 1)..p /\ q < Len(r.buffer)  BY <1>1, <1>2
  <2> QED  BY <2>1, <1>2
<1>5. ~(p < q)
  <2> SUFFICES ASSUME p < q PROVE FALSE  OBVIOUS
  <2>1. p + 1 \in (r.offset + 1)..q /\ p < Len(r.buffer)  BY <1>1, <1>2
  <2> QED  BY <2>1, <1>3
<1>6. q \in Int /\ p \in Int  BY <1>1, <1>2
<1>7. q = p  BY <1>4, <1>5, <1>6
<1> QED  BY <1>7 DEF q

(* It is looked for from any place before it.                               *)
LEMMA NextTagFrom ==
  ASSUME NEW r, Reader(r), NEW x \in r.offset..NextTag(r)
  PROVE /\ Reader([r EXCEPT !.offset = x])
        /\ NextTag([r EXCEPT !.offset = x]) = NextTag(r)
<1> DEFINE s == [r EXCEPT !.offset = x]
           p == NextTag(r)
<1>1. /\ r.offset \in Nat /\ Len(r.buffer) \in Nat /\ p \in r.offset..Len(r.buffer)
      /\ (p < Len(r.buffer) => r.buffer[p + 1] = "<")
  BY NextTagIs DEF Reader
<1>2. \A i \in (r.offset + 1)..p : r.buffer[i] # "<"  BY NextTagFirst
<1>3. x \in 0..Len(r.buffer)  BY <1>1
<1>4. Reader(s)  BY <1>3, ReaderExcept
<1>5. s.offset = x /\ s.buffer = r.buffer  BY DEF Reader
<1> HIDE DEF s, p
<1>6. p \in s.offset..Len(s.buffer)  BY <1>1, <1>5 DEF p
<1>7. \A i \in (s.offset + 1)..p : i \in (r.offset + 1)..p  BY <1>1, <1>5
<1>8. NextTag(s) = p
  <2>1. \A i \in (s.offset + 1)..p : s.buffer[i] # "<"  BY <1>2, <1>5, <1>7
  <2>2. p < Len(s.buffer) => s.buffer[p + 1] = "<"  BY <1>1, <1>5
  <2> QED  BY <1>4, <1>6, <2>1, <2>2, NextTagOnly
<1> QED  BY <1>4, <1>8 DEF s, p

LEMMA NextTagMoved ==
  ASSUME NEW k \in Nat, NEW n \in Nat, NEW r, Reader(r), NEW s, Reader(s), Moved(r, s, k, n)
  PROVE /\ NextTag(r) < Len(r.buffer) \/ n = 0 => NextTag(s) = NextTag(r) - k
        /\ NextTag(s) >= NextTag(r) - k
<1> DEFINE p == NextTag(r)
           q == NextTag(s)
<1>1. /\ r.offset \in Nat /\ s.offset \in Nat /\ Len(r.buffer) \in Nat /\ Len(s.buffer) \in Nat
      /\ k <= r.offset /\ s.offset = r.offset - k /\ Len(s.buffer) = Len(r.buffer) - k + n
  BY DEF Moved, Reader
<1>2. /\ p \in r.offset..Len(r.buffer) /\ (p < Len(r.buffer) => r.buffer[p + 1] = "<")
      /\ \A i \in (r.offset + 1)..p : r.buffer[i] # "<"
  BY NextTagIs, NextTagFirst
<1>3. \A i \in (k + 1)..Len(r.buffer) : s.buffer[i - k] = r.buffer[i]  BY DEF Moved
<1>4. /\ q \in s.offset..Len(s.buffer) /\ (q < Len(s.buffer) => s.buffer[q + 1] = "<")
  BY NextTagIs
<1> HIDE DEF p, q
<1>5. ASSUME NEW i \in (s.offset + 1)..(p - k) PROVE s.buffer[i] # "<"
  <2>1. i + k \in (r.offset + 1)..p /\ i + k \in (k + 1)..Len(r.buffer) /\ (i + k) - k = i
    BY <1>1, <1>2
  <2> QED  BY <1>2, <1>3, <2>1
<1>6. p < Len(r.buffer) \/ n = 0 => q = p - k
  <2> SUFFICES ASSUME p < Len(r.buffer) \/ n = 0 PROVE q = p - k  OBVIOUS
  <2> DEFINE x == p - k
  <2>1. x \in s.offset..Len(s.buffer)  BY <1>1, <1>2
  <2>2. x < Len(s.buffer) => s.buffer[x + 1] = "<"
    <3> SUFFICES ASSUME x < Len(s.buffer) PROVE s.buffer[x + 1] = "<"  OBVIOUS
    <3>1. p < Len(r.buffer)  BY <1>1, <1>2
    <3>2. p + 1 \in (k + 1)..Len(r.buffer) /\ (p + 1) - k = x + 1  BY <1>1, <1>2, <3>1
    <3>3. s.buffer[(p + 1) - k] = r.buffer[p + 1]  BY <1>3, <3>2
    <3> QED  BY <1>2, <3>1, <3>2, <3>3
  <2>3. \A i \in (s.offset + 1)..x : s.buffer[i] # "<"  BY <1>5
  <2> HIDE DEF x
  <2>4. NextTag(s) = x  BY <2>1, <2>2, <2>3, NextTagOnly
  <2> QED  BY <2>4 DEF q, x
<1>7. q >= p - k
  <2> SUFFICES ASSUME q < p - k PROVE FALSE  BY <1>1, <1>2, <1>4
  <2>1. q + 1 \in (s.offset + 1)..(p - k) /\ q < Len(s.buffer)  BY <1>1, <1>2, <1>4
  <2> QED  BY <2>1, <1>4, <1>5
<1> QED  BY <1>6, <1>7 DEF p, q

(* What is looked at does not depend on where the search begins.            *)
LEMMA LookFrom ==
  ASSUME NEW r, Reader(r), NEW x \in r.offset..NextTag(r), NEW shrink, NEW used
  PROVE Look([r EXCEPT !.offset = x], shrink, used) = Look(r, shrink, used)
<1> DEFINE s == [r EXCEPT !.offset = x]
           p == NextTag(r)
           v == [r EXCEPT !.offset = p + 1]
<1>1. NextTag(s) = p  BY NextTagFrom
<1>2. /\ s.buffer = r.buffer /\ s.ign_deep = r.ign_deep /\ s.state = r.state
      /\ [s EXCEPT !.offset = p + 1] = v /\ [s EXCEPT !.offset = p] = [r EXCEPT !.offset = p]
  BY DEF Reader
<1>3. Look(r, shrink, used) =
        IF p + 1 >= Len(r.buffer) THEN End([r EXCEPT !.offset = p], shrink, used)
        ELSE IF r.ign_deep > 0 THEN Turn(Ignore(v), shrink, used)
        ELSE CASE r.state = NULL -> Turn(InNull(v), shrink, used)
               [] r.state = LOOKING -> InLooking(v, shrink, used)
               [] r.state = VALUE -> InValue(v, shrink, used)
  BY DEF Look
<1>4. Look(s, shrink, used) =
        IF NextTag(s) + 1 >= Len(s.buffer) THEN End([s EXCEPT !.offset = NextTag(s)], shrink, used)
        ELSE IF s.ign_deep > 0 THEN Turn(Ignore([s EXCEPT !.offset = NextTag(s) + 1]), shrink, used)
        ELSE CASE s.state = NULL -> Turn(InNull([s EXCEPT !.offset = NextTag(s) + 1]), shrink, used)
               [] s.state = LOOKING -> InLooking([s EXCEPT !.offset = NextTag(s) + 1], shrink, used)
               [] s.state = VALUE -> InValue([s EXCEPT !.offset = NextTag(s) + 1], shrink, used)
  BY DEF Look
<1> HIDE DEF s, p, v
<1>5. Look(s, shrink, used) =
        IF p + 1 >= Len(r.buffer) THEN End([r EXCEPT !.offset = p], shrink, used)
        ELSE IF r.ign_deep > 0 THEN Turn(Ignore(v), shrink, used)
        ELSE CASE r.state = NULL -> Turn(InNull(v), shrink, used)
               [] r.state = LOOKING -> InLooking(v, shrink, used)
               [] r.state = VALUE -> InValue(v, shrink, used)
  BY <1>1, <1>2, <1>4
<1>6. Look(s, shrink, used) = Look(r, shrink, used)  BY <1>3, <1>5
<1> QED  BY <1>6 DEF s

-----------------------------------------------------------------------------
(* Turns of which the readers are moved, and with them what is kept; d more *)
(* letters are used.                                                        *)
MovedTurn(t, u, k, n, d) ==
  /\ Moved(t.reader, u.reader, k, n)
  /\ u.ends = t.ends /\ u.used = t.used + d
  /\ \/ t.shrink = -1 /\ u.shrink = -1
     \/ t.shrink # -1 /\ k <= t.shrink /\ u.shrink = t.shrink - k

LEMMA MovedTurnOf ==
  ASSUME NEW k \in Nat, NEW n \in Nat, NEW d \in Int, NEW r, NEW s, Moved(r, s, k, n),
         NEW x, NEW y, NEW v, NEW w, w = v + d,
         (x = -1 /\ y = -1) \/ (x # -1 /\ k <= x /\ y = x - k)
  PROVE /\ MovedTurn(Turn(r, x, v), Turn(s, y, w), k, n, d)
        /\ MovedTurn(End(r, x, v), End(s, y, w), k, n, d)
BY DEF MovedTurn, Turn, End

(* A label that is cut off goes back to its tag.                            *)
LEMMA CutBack ==
  ASSUME NEW r, Reader(r), r.state \in {NULL, LOOKING}, NEW lt \in Nat, r.buffer[lt + 1] = "<",
         NEW x \in {lt + 1, lt + 2}, x < Len(r.buffer), x = lt + 2 => r.buffer[lt + 2] = "/",
         NEW labels \in SUBSET Labels, CutOff([r EXCEPT !.offset = x], labels)
  PROVE LET c == Cut([r EXCEPT !.offset = x])
        IN  /\ Partial(c.state) /\ c.offset < Len(c.buffer)
            /\ BackToTag(c) = [r EXCEPT !.offset = lt]
<1> DEFINE b == [r EXCEPT !.offset = x]
           y == r.state + 1
           c == [b EXCEPT !.state = y]
           S == {p \in 0..x : r.buffer[p + 1] = "<"}
<1>1. Len(r.buffer) \in Nat /\ x \in 0..Len(r.buffer) /\ x \in Nat  BY DEF Reader
<1>2. Reader(b)  BY <1>1, ReaderExcept
<1>3. b.offset = x /\ b.buffer = r.buffer /\ b.state = r.state  BY DEF Reader
<1>4. \A i \in (x + 1)..Len(r.buffer) : r.buffer[i] # "<"  BY <1>2, <1>3, CutOffIsShort
<1>5. ~Partial(r.state) /\ Partial(y) /\ y - 1 = r.state  BY DEF Partial, NULL, LOOKING, y
<1>6. Cut(b) = c  BY <1>3, <1>5 DEF Cut
<1>7. c.state = y /\ c.offset = x /\ c.buffer = r.buffer  BY <1>2, <1>3 DEF Reader
<1>8. lt \in S /\ \A p \in S : lt >= p
  <2>1. lt \in S  BY <1>1
  <2>2. ASSUME NEW p \in S, p > lt PROVE FALSE
    <3>1. p \in Nat /\ p <= x  BY <1>1
    <3>2. CASE p = x
      <4>1. p + 1 \in (x + 1)..Len(r.buffer)  BY <1>1, <3>2
      <4> QED  BY <1>4, <4>1
    <3>3. CASE p # x
      <4>1. p + 1 = lt + 2 /\ x = lt + 2  BY <2>2, <3>1, <3>3
      <4>2. "/" # "<"  OBVIOUS
      <4> QED  BY <4>1, <4>2
    <3> QED  BY <3>2, <3>3
  <2>3. \A p \in S : p \in Int  BY <1>1
  <2> QED  BY <2>1, <2>2, <2>3
<1>9. Max(S) = lt
  <2>1. \A p \in S : p \in Int  BY <1>1
  <2> HIDE DEF S
  <2>2. Max(S) \in S /\ \A p \in S : Max(S) >= p  BY <1>8 DEF Max
  <2> QED  BY <1>8, <2>1, <2>2
<1>10. BackToTag(c) = [c EXCEPT !.offset = lt, !.state = r.state]
  <2>1. {p \in 0..c.offset : c.buffer[p + 1] = "<"} = S  BY <1>7
  <2>2. BackToTag(c) = [c EXCEPT !.offset = Max(S), !.state = @ - 1]  BY <2>1 DEF BackToTag
  <2> QED  BY <1>5, <1>7, <1>9, <2>2
<1>11. [c EXCEPT !.offset = lt, !.state = r.state] = [r EXCEPT !.offset = lt]
  BY <1>2 DEF Reader
<1> QED  BY <1>5, <1>6, <1>7, <1>1, <1>10, <1>11

(* A part of a sequence.                                                    *)
LEMMA PartIs ==
  ASSUME NEW u \in Seq(Letters), NEW m \in Nat, m >= 1, NEW y \in Nat, m <= y + 1, y <= Len(u)
  PROVE /\ SubSeq(u, m, y) \in Seq(Letters) /\ Len(SubSeq(u, m, y)) = y - m + 1
        /\ \A i \in 1..(y - m + 1) : SubSeq(u, m, y)[i] = u[m + i - 1]
<1>1. Len(u) \in Nat  OBVIOUS
<1>2. /\ SubSeq(u, m, y) \in Seq(Letters)
      /\ Len(SubSeq(u, m, y)) = IF m <= y THEN y - m + 1 ELSE 0
  BY <1>1
<1>3. \A i \in 1..(y - m + 1) : SubSeq(u, m, y)[i] = u[m + i - 1]  BY <1>1
<1>4. (IF m <= y THEN y - m + 1 ELSE 0) = y - m + 1  OBVIOUS
<1> QED  BY <1>2, <1>3, <1>4

(* The next letter.                                                         *)
LEMMA LetterMoved ==
  ASSUME NEW k \in Nat, NEW n \in Nat, NEW r, Reader(r), NEW s, Reader(s), Moved(r, s, k, n),
         r.offset < Len(r.buffer)
  PROVE Letter(s) = Letter(r) /\ s.offset < Len(s.buffer)
<1>1. /\ r.offset \in Nat /\ Len(r.buffer) \in Nat /\ k <= r.offset /\ s.offset = r.offset - k
      /\ Len(s.buffer) = Len(r.buffer) - k + n
  BY DEF Moved, Reader
<1>2. 1 \in 1..(Len(r.buffer) - r.offset)  BY <1>1
<1>3. s.buffer[s.offset + 1] = r.buffer[r.offset + 1]  BY <1>2, MovedRest
<1> QED  BY <1>1, <1>3 DEF Letter

(* How a turn a ends the loop for want of letters: at once, at its tag, or  *)
(* after a label that is cut off.                                           *)
Stops(a, z) ==
  \/ a = z
  \/ Partial(a.reader.state) /\ ~Over(a) /\ End(BackToTag(a.reader), a.shrink, a.used) = z

LEMMA CutStops ==
  ASSUME NEW r, Reader(r), r.state \in {NULL, LOOKING}, NEW lt \in Nat, r.buffer[lt + 1] = "<",
         NEW x \in {lt + 1, lt + 2}, x < Len(r.buffer), x = lt + 2 => r.buffer[lt + 2] = "/",
         NEW n, NEW s, Cuts([r EXCEPT !.offset = x], s, n), NEW shrink, NEW used
  PROVE n > 0 /\ Stops(Turn(s, shrink, used), End([r EXCEPT !.offset = lt], shrink, used))
<1> DEFINE b == [r EXCEPT !.offset = x]
           a == Turn(s, shrink, used)
<1>1. PICK labels \in SUBSET Labels : CutOff(b, labels)  BY DEF Cuts
<1>2. n > 0 /\ s = Cut(b)  BY DEF Cuts
<1>3. /\ Partial(s.state) /\ s.offset < Len(s.buffer) /\ BackToTag(s) = [r EXCEPT !.offset = lt]
  <2>1. LET c == Cut(b)
        IN  /\ Partial(c.state) /\ c.offset < Len(c.buffer)
            /\ BackToTag(c) = [r EXCEPT !.offset = lt]
    BY <1>1, CutBack
  <2> QED  BY <1>2, <2>1
<1>4. a.reader = s /\ a.shrink = shrink /\ a.used = used /\ a.ends = FALSE  BY DEF Turn
<1>5. s.offset < Len(s.buffer) => ~(s.offset >= Len(s.buffer))
  <2>1. Len(r.buffer) \in Nat /\ x \in 0..Len(r.buffer)  BY DEF Reader
  <2>2. Reader(b)  BY <2>1, ReaderExcept
  <2>3. s.offset = x /\ s.buffer = r.buffer  BY <1>2, <2>2 DEF Cut, Reader
  <2> QED  BY <2>1, <2>3
<1>6. ~Over(a)  BY <1>3, <1>4, <1>5 DEF Over
<1> QED  BY <1>2, <1>3, <1>4, <1>6 DEF Stops

(* A turn of the short buffer and the one of the longer.                    *)
Alike(a, c, k, n, d) == MovedTurn(a, c, k, n, d) /\ (n > 0 => ~Partial(a.reader.state))

LEMMA InLookingMoved ==
  ASSUME NEW k \in Nat, NEW n \in Nat, NEW d \in Int, NEW r, Reader(r), NEW s, Reader(s),
         Moved(r, s, k, n), r.state = LOOKING, NEW lt \in Nat, k <= lt, r.offset = lt + 1,
         r.offset < Len(r.buffer), r.buffer[lt + 1] = "<", NEW v \in Int
  PROVE LET a == InLooking(r, -1, v)
            c == InLooking(s, -1, v + d)
        IN  \/ Alike(a, c, k, n, d)
            \/ n > 0 /\ Stops(a, End([r EXCEPT !.offset = lt], -1, v))
<1> DEFINE a == InLooking(r, -1, v)
           c == InLooking(s, -1, v + d)
           z == End([r EXCEPT !.offset = lt], -1, v)
<1>1. /\ r.offset \in Nat /\ Len(r.buffer) \in Nat /\ s.offset = r.offset - k
      /\ Len(s.buffer) = Len(r.buffer) - k + n /\ s.offset \in Nat
  BY DEF Moved, Reader
<1>2. Letter(s) = Letter(r) /\ Letter(r) = r.buffer[lt + 2]
  <2>1. r.offset + 1 = lt + 2  BY <1>1
  <2> QED  BY <2>1, LetterMoved DEF Letter
<1>3. ~Partial(r.state) /\ s.state = LOOKING  BY DEF Partial, LOOKING, Moved, SameFields
<1>4. CASE Letter(r) = "/"
  <2> DEFINE x == lt + 2
             y == s.offset + 1
             e == [r EXCEPT !.offset = x]
             f == [s EXCEPT !.offset = y]
  <2>1. y = x - k /\ k <= x /\ x \in 0..Len(r.buffer) /\ y \in 0..Len(s.buffer)  BY <1>1
  <2>2. Moved(e, f, k, n)  BY <2>1, MovedExcept
  <2>3. Reader(e) /\ Reader(f)  BY <2>1, ReaderExcept
  <2>4. e.offset = x /\ e.buffer = r.buffer /\ f.offset = y /\ f.buffer = s.buffer
        /\ e.state = r.state /\ f.state = s.state
    BY DEF Reader
  <2>5. /\ [r EXCEPT !.offset = @ + 1] = e /\ [s EXCEPT !.offset = @ + 1] = f
    <3>1. r.offset + 1 = x  BY <1>1
    <3>2. [r EXCEPT !.offset = @ + 1] = [r EXCEPT !.offset = r.offset + 1]  OBVIOUS
    <3>3. [s EXCEPT !.offset = @ + 1] = [s EXCEPT !.offset = s.offset + 1]  OBVIOUS
    <3> QED  BY <3>1, <3>2, <3>3
  <2> HIDE DEF x, y, e, f
  <2>6. a = IF x >= Len(r.buffer) THEN End([e EXCEPT !.offset = @ - 2], -1, v)
            ELSE Turn(InEnd(e), -1, v)
    <3>1. a = LET g == [r EXCEPT !.offset = @ + 1]
              IN  IF g.offset >= Len(g.buffer) THEN End([g EXCEPT !.offset = @ - 2], -1, v)
                  ELSE Turn(InEnd(g), -1, v)
      BY <1>4 DEF InLooking
    <3> DEFINE g == [r EXCEPT !.offset = @ + 1]
    <3>2. a = IF g.offset >= Len(g.buffer) THEN End([g EXCEPT !.offset = @ - 2], -1, v)
              ELSE Turn(InEnd(g), -1, v)
      BY <3>1
    <3>3. g = e  BY <2>5
    <3> HIDE DEF a, g
    <3> QED  BY <2>4, <3>2, <3>3
  <2>7. c = IF y >= Len(s.buffer) THEN End([f EXCEPT !.offset = @ - 2], -1, v + d)
            ELSE Turn(InEnd(f), -1, v + d)
    <3>1. c = LET g == [s EXCEPT !.offset = @ + 1]
              IN  IF g.offset >= Len(g.buffer) THEN End([g EXCEPT !.offset = @ - 2], -1, v + d)
                  ELSE Turn(InEnd(g), -1, v + d)
      BY <1>2, <1>4 DEF InLooking
    <3> DEFINE g == [s EXCEPT !.offset = @ + 1]
    <3>2. c = IF g.offset >= Len(g.buffer) THEN End([g EXCEPT !.offset = @ - 2], -1, v + d)
              ELSE Turn(InEnd(g), -1, v + d)
      BY <3>1
    <3>3. g = f  BY <2>5
    <3> HIDE DEF c, g
    <3> QED  BY <2>4, <3>2, <3>3
  <2>8. /\ [e EXCEPT !.offset = @ - 2] = [r EXCEPT !.offset = lt]
        /\ [f EXCEPT !.offset = @ - 2] = [s EXCEPT !.offset = lt - k]
    <3>1. x - 2 = lt /\ y - 2 = lt - k  BY <1>1 DEF x, y
    <3>2. [e EXCEPT !.offset = @ - 2] = [r EXCEPT !.offset = x - 2]  BY <2>4 DEF Reader, e
    <3>3. [f EXCEPT !.offset = @ - 2] = [s EXCEPT !.offset = y - 2]  BY <2>4 DEF Reader, f
    <3> QED  BY <3>1, <3>2, <3>3
  <2> HIDE DEF a, c
  <2>9. CASE x >= Len(r.buffer) /\ n > 0
    <3>1. a = z  BY <2>6, <2>8, <2>9
    <3> QED  BY <2>9, <3>1 DEF Stops, a
  <2>10. CASE x >= Len(r.buffer) /\ n = 0
    <3>1. y >= Len(s.buffer)  BY <1>1, <2>1, <2>10
    <3>2. a = End([r EXCEPT !.offset = lt], -1, v) /\ c = End([s EXCEPT !.offset = lt - k], -1, v + d)
      BY <2>6, <2>7, <2>8, <2>10, <3>1
    <3>3. Moved([r EXCEPT !.offset = lt], [s EXCEPT !.offset = lt - k], k, n)  BY MovedExcept
    <3>4. MovedTurn(a, c, k, n, d)  BY <3>2, <3>3, MovedTurnOf
    <3> QED  BY <2>10, <3>4 DEF Alike, a, c
  <2>11. CASE x < Len(r.buffer)
    <3>1. ~(x >= Len(r.buffer)) /\ ~(y >= Len(s.buffer))  BY <1>1, <2>1, <2>11
    <3>2. a = Turn(InEnd(e), -1, v) /\ c = Turn(InEnd(f), -1, v + d)
      BY <2>6, <2>7, <3>1
    <3>3. CASE Moved(InEnd(e), InEnd(f), k, n) /\ (n > 0 => ~Partial(InEnd(e).state))
      <4>1. MovedTurn(a, c, k, n, d)  BY <3>2, <3>3, MovedTurnOf
      <4>2. a.reader = InEnd(e)  BY <3>2 DEF Turn
      <4> QED  BY <3>3, <4>1, <4>2 DEF Alike, a, c
    <3>4. CASE Cuts(e, InEnd(e), n)
      <4>1. x \in {lt + 1, lt + 2} /\ r.buffer[lt + 2] = "/"  BY <1>2, <1>4 DEF x
      <4>2. n > 0 /\ Stops(Turn(InEnd(e), -1, v), z)  BY <2>11, <3>4, <4>1, CutStops DEF e
      <4> QED  BY <3>2, <4>2 DEF a
    <3> QED  BY <1>3, <2>2, <2>3, <2>4, <3>3, <3>4, InEndMoved
  <2>12. (x >= Len(r.buffer) /\ n > 0) \/ (x >= Len(r.buffer) /\ n = 0) \/ x < Len(r.buffer)
    BY <1>1, <2>1
  <2> QED  BY <2>9, <2>10, <2>11, <2>12
<1>5. CASE Letter(r) # "/"
  <2> DEFINE e == InStart(r)
             f == InStart(s)
             x == IF e.state = VALUE THEN e.offset ELSE -1
             y == IF f.state = VALUE THEN f.offset ELSE -1
  <2>1. a = Turn(e, x, v) /\ c = Turn(f, y, v + d)  BY <1>2, <1>5 DEF InLooking
  <2>2. CASE Moved(e, f, k, n) /\ (n > 0 => ~Partial(e.state))
    <3> HIDE DEF e, f
    <3>1. f.state = e.state /\ f.offset = e.offset - k /\ k <= e.offset  BY <2>2 DEF Moved, SameFields
    <3>2. e.offset # -1 \/ e.state # VALUE
      <4>1. k <= -1 => FALSE  OBVIOUS
      <4> QED  BY <3>1, <4>1
    <3>3. (x = -1 /\ y = -1) \/ (x # -1 /\ k <= x /\ y = x - k)  BY <3>1, <3>2
    <3> HIDE DEF x, y, a, c
    <3>4. MovedTurn(a, c, k, n, d)  BY <2>1, <2>2, <3>3, MovedTurnOf
    <3>5. a.reader = e  BY <2>1 DEF Turn
    <3> QED  BY <2>2, <3>4, <3>5 DEF Alike, a, c
  <2>3. CASE Cuts(r, e, n)
    <3>1. [r EXCEPT !.offset = lt + 1] = r  BY DEF Reader
    <3>2. e = Cut(r)  BY <2>3 DEF Cuts
    <3>3. e.state # VALUE  BY <3>2 DEF Cut, Reader, Partial, LOOKING, VALUE
    <3>4. x = -1  BY <3>3
    <3> HIDE DEF e, x, a, c
    <3>5. n > 0 /\ Stops(Turn(e, -1, v), z)
      <4>1. lt + 1 \in {lt + 1, lt + 2} /\ lt + 1 < Len(r.buffer) /\ lt + 1 # lt + 2  BY <1>1
      <4>2. Cuts([r EXCEPT !.offset = lt + 1], e, n)  BY <2>3, <3>1
      <4> QED  BY <4>1, <4>2, CutStops
    <3> QED  BY <2>1, <3>4, <3>5 DEF a
  <2> QED  BY <1>3, <2>2, <2>3, InStartMoved
<1> QED  BY <1>4, <1>5

LEMMA InValueMoved ==
  ASSUME NEW k \in Nat, NEW n \in Nat, NEW d \in Int, NEW r, Reader(r), NEW s, Reader(s),
         Moved(r, s, k, n), r.state = VALUE, r.offset < Len(r.buffer),
         NEW x \in Nat, k <= x, x < r.offset, NEW v \in Int
  PROVE Alike(InValue(r, x, v), InValue(s, x - k, v + d), k, n, d)
<1> DEFINE a == InValue(r, x, v)
           c == InValue(s, x - k, v + d)
           w == SubSeq(r.buffer, x + 1, r.offset - 1)
           y == Append(r.values, <<r.cur_value, w>>)
           e == [r EXCEPT !.values = y]
           f == [s EXCEPT !.values = y]
           g == [e EXCEPT !.state = LOOKING]
           h == [f EXCEPT !.state = LOOKING]
           i == [r EXCEPT !.ign_deep = 1]
           j == [s EXCEPT !.ign_deep = 1]
<1>1. Letter(s) = Letter(r)  BY LetterMoved
<1>2. /\ r.offset \in Nat /\ Len(r.buffer) \in Nat /\ s.offset = r.offset - k
      /\ s.values = r.values /\ s.cur_value = r.cur_value
  BY DEF Moved, Reader, SameFields
<1>3. CASE Letter(r) = "/"
  <2>1. SubSeq(s.buffer, (x - k) + 1, s.offset - 1) = w
    <3> DEFINE b == r.buffer
               c1 == s.buffer
               y1 == r.offset - 1
               m == x + 1
               o == (x - k) + 1
               z == s.offset - 1
               l == y1 - m + 1
               a1 == SubSeq(b, m, y1)
               e1 == SubSeq(c1, o, z)
    <3>1. /\ y1 \in Nat /\ m <= y1 + 1 /\ y1 <= Len(b) /\ z = y1 - k /\ z \in Nat
          /\ m \in Nat /\ k < m /\ m >= 1 /\ o = m - k /\ o \in Nat /\ o >= 1 /\ l \in Nat
      <4>1. r.offset \in Int /\ x < r.offset /\ r.offset < Len(r.buffer)  BY <1>2
      <4>2. s.offset = r.offset - k /\ Len(r.buffer) \in Nat  BY <1>2
      <4>3. y1 \in Nat /\ m <= y1 + 1 /\ y1 <= Len(b) /\ l \in Nat  BY <4>1, <4>2
      <4>4. z = y1 - k /\ z \in Nat  BY <4>1, <4>2
      <4>5. m \in Nat /\ k < m /\ m >= 1 /\ o = m - k /\ o \in Nat /\ o >= 1  OBVIOUS
      <4> QED  BY <4>3, <4>4, <4>5
    <3>2. /\ b \in Seq(Letters) /\ c1 \in Seq(Letters) /\ Len(c1) = Len(b) - k + n
          /\ Len(b) \in Nat
      BY DEF Moved, Reader
    <3>10. \A i1 \in (k + 1)..Len(b) : c1[i1 - k] = b[i1]  BY DEF Moved
    <3>3. l = y1 - m + 1  OBVIOUS
    <3> HIDE DEF b, c1, y1, m, o, z, l
    <3>4. a1 \in Seq(Letters) /\ Len(a1) = l /\ \A i1 \in 1..l : a1[i1] = b[m + i1 - 1]
      <4>1. /\ a1 \in Seq(Letters) /\ Len(a1) = y1 - m + 1
            /\ \A i1 \in 1..(y1 - m + 1) : a1[i1] = b[m + i1 - 1]
        BY <3>1, <3>2, PartIs
      <4> HIDE DEF a1
      <4> QED  BY <3>3, <4>1
    <3>5. z - o + 1 = l /\ z <= Len(c1) /\ o <= z + 1
      BY <3>1, <3>2, <3>3
    <3>6. e1 \in Seq(Letters) /\ Len(e1) = l /\ \A i1 \in 1..l : e1[i1] = c1[o + i1 - 1]
      <4>1. /\ e1 \in Seq(Letters) /\ Len(e1) = z - o + 1
            /\ \A i1 \in 1..(z - o + 1) : e1[i1] = c1[o + i1 - 1]
        BY <3>1, <3>2, <3>5, PartIs
      <4> HIDE DEF e1
      <4> QED  BY <3>5, <4>1
    <3>7. ASSUME NEW i1 \in 1..l PROVE c1[o + i1 - 1] = b[m + i1 - 1]
      <4> DEFINE j1 == m + i1 - 1
      <4>1. i1 \in Int /\ i1 >= 1 /\ i1 <= y1 - m + 1  BY <3>1, <3>3
      <4>2. j1 \in Int /\ j1 >= m /\ j1 <= y1  BY <3>1, <4>1
      <4>3. j1 - k = o + i1 - 1  BY <3>1, <4>1
      <4> HIDE DEF j1
      <4>4. j1 \in (k + 1)..Len(b)  BY <3>1, <3>2, <4>2
      <4>5. c1[j1 - k] = b[j1]  BY <3>10, <4>4
      <4> QED  BY <4>3, <4>5 DEF j1
    <3> HIDE DEF a1, e1
    <3>8. \A i1 \in 1..l : a1[i1] = e1[i1]  BY <3>4, <3>6, <3>7
    <3>9. a1 = e1  BY <3>4, <3>6, <3>8
    <3> QED  BY <3>9 DEF a1, e1, b, c1, y1, m, o, z
  <2> HIDE DEF w
  <2>2. a = Turn([r EXCEPT !.values = y, !.state = LOOKING], -1, v)  BY <1>3 DEF InValue, w
  <2>3. c = Turn([s EXCEPT !.values = y, !.state = LOOKING], -1, v + d)
    <3>1. c = Turn([s EXCEPT !.values = Append(s.values, <<s.cur_value, SubSeq(s.buffer, (x - k) + 1, s.offset - 1)>>),
                             !.state = LOOKING], -1, v + d)
      BY <1>1, <1>3 DEF InValue
    <3> QED  BY <1>2, <2>1, <3>1
  <2> HIDE DEF a, c, y
  <2>4. a = Turn(g, -1, v) /\ c = Turn(h, -1, v + d)  BY <2>2, <2>3
  <2>5. Reader(e) /\ Reader(f)  BY ReaderExcept, Zenon
  <2>6. Moved(e, f, k, n)  BY MovedExcept
  <2> HIDE DEF e, f
  <2>7. Moved(g, h, k, n)  BY <2>5, <2>6, MovedExcept
  <2>8. g.state = LOOKING /\ ~Partial(LOOKING)  BY <2>5 DEF Reader, Partial, LOOKING
  <2> HIDE DEF g, h
  <2>9. MovedTurn(a, c, k, n, d)  BY <2>4, <2>7, MovedTurnOf
  <2>10. a.reader = g  BY <2>4 DEF Turn
  <2> QED  BY <2>8, <2>9, <2>10 DEF Alike, a, c
<1>4. CASE Letter(r) # "/"
  <2>1. a = Turn(i, x, v) /\ c = Turn(j, x - k, v + d)  BY <1>1, <1>4 DEF InValue
  <2> HIDE DEF a, c
  <2>2. Moved(i, j, k, n)  BY MovedExcept
  <2>3. i.state = VALUE /\ ~Partial(VALUE)  BY DEF Reader, Partial, VALUE
  <2> HIDE DEF i, j
  <2>4. x # -1  OBVIOUS
  <2>5. MovedTurn(a, c, k, n, d)  BY <2>1, <2>2, <2>4, MovedTurnOf
  <2>6. a.reader = i  BY <2>1 DEF Turn
  <2> QED  BY <2>3, <2>5, <2>6 DEF Alike, a, c
<1> QED  BY <1>3, <1>4

LEMMA IgnoreMoved ==
  ASSUME NEW k \in Nat, NEW n \in Nat, NEW r, Reader(r), NEW s, Reader(s), Moved(r, s, k, n),
         r.offset < Len(r.buffer)
  PROVE Moved(Ignore(r), Ignore(s), k, n) /\ Ignore(r).state = r.state
<1> DEFINE x == IF Letter(r) = "/" THEN r.ign_deep - 1 ELSE r.ign_deep + 1
<1>1. Letter(s) = Letter(r) /\ s.ign_deep = r.ign_deep  BY LetterMoved DEF Moved, SameFields
<1>2. Ignore(r) = [r EXCEPT !.ign_deep = x] /\ Ignore(s) = [s EXCEPT !.ign_deep = x]
  BY <1>1 DEF Ignore
<1> HIDE DEF x
<1>3. Moved([r EXCEPT !.ign_deep = x], [s EXCEPT !.ign_deep = x], k, n)  BY MovedExcept
<1>4. [r EXCEPT !.ign_deep = x].state = r.state  BY DEF Reader
<1> QED  BY <1>2, <1>3, <1>4

(* Looking in a longer buffer, or in one that begins later.                 *)
LEMMA LookMoved ==
  ASSUME NEW k \in Nat, NEW n \in Nat, NEW d \in Int,
         NEW root, NEW b1, NEW size1, NEW t, InLoop(t, root, b1, size1),
         NEW b2, NEW size2, NEW u, InLoop(u, root, b2, size2),
         MovedTurn(t, u, k, n, d), t.reader.state \in {NULL, LOOKING, VALUE}
  PROVE LET a == Look(t.reader, t.shrink, t.used)
            c == Look(u.reader, u.shrink, u.used)
            z == End([t.reader EXCEPT !.offset = NextTag(t.reader)], t.shrink, t.used)
        IN  Alike(a, c, k, n, d) \/ (n > 0 /\ Stops(a, z))
<1> DEFINE r == t.reader
           s == u.reader
           lt == NextTag(r)
           ct == NextTag(s)
           v == t.used
           x == t.shrink
           y == u.shrink
           e == [r EXCEPT !.offset = lt + 1]
           f == [s EXCEPT !.offset = ct + 1]
           a == Look(r, x, v)
           c == Look(s, y, v + d)
           z == End([r EXCEPT !.offset = lt], x, v)
<1>1. /\ Reader(r) /\ Reader(s) /\ v \in Int /\ u.used = v + d /\ Moved(r, s, k, n)
      /\ x \in -1..r.offset /\ (x = -1 <=> r.state # VALUE)
      /\ (x = -1 /\ y = -1) \/ (x # -1 /\ k <= x /\ y = x - k)
      /\ r.state \in {NULL, LOOKING, VALUE} /\ ~Partial(r.state)
  BY DEF InLoop, MovedTurn, Partial, NULL, LOOKING, VALUE
<1> SUFFICES Alike(a, c, k, n, d) \/ (n > 0 /\ Stops(a, z))  BY <1>1
<1> HIDE DEF r, s, v, x, y
<1>2. /\ r.offset \in Nat /\ Len(r.buffer) \in Nat /\ s.offset \in Nat /\ Len(s.buffer) \in Nat
      /\ k <= r.offset /\ s.offset = r.offset - k /\ Len(s.buffer) = Len(r.buffer) - k + n
      /\ s.state = r.state /\ s.ign_deep = r.ign_deep
  BY <1>1 DEF Moved, SameFields, Reader
<1>3. lt \in r.offset..Len(r.buffer) /\ (lt < Len(r.buffer) => r.buffer[lt + 1] = "<")
  BY <1>1, NextTagIs
<1>4. ct \in s.offset..Len(s.buffer)  BY <1>1, NextTagIs
<1>5. lt < Len(r.buffer) \/ n = 0 => ct = lt - k  BY <1>1, NextTagMoved
<1>6. a = IF lt + 1 >= Len(r.buffer) THEN z
          ELSE IF r.ign_deep > 0 THEN Turn(Ignore(e), x, v)
          ELSE CASE r.state = NULL -> Turn(InNull(e), x, v)
                 [] r.state = LOOKING -> InLooking(e, x, v)
                 [] r.state = VALUE -> InValue(e, x, v)
  BY DEF Look
<1>7. c = IF ct + 1 >= Len(s.buffer) THEN End([s EXCEPT !.offset = ct], y, v + d)
          ELSE IF s.ign_deep > 0 THEN Turn(Ignore(f), y, v + d)
          ELSE CASE s.state = NULL -> Turn(InNull(f), y, v + d)
                 [] s.state = LOOKING -> InLooking(f, y, v + d)
                 [] s.state = VALUE -> InValue(f, y, v + d)
  BY DEF Look
<1> HIDE DEF lt, ct, a, c, z, e, f
<1>8. CASE lt + 1 >= Len(r.buffer) /\ n > 0
  <2>1. a = z  BY <1>6, <1>8
  <2> QED  BY <1>8, <2>1 DEF Stops
<1>9. CASE lt + 1 >= Len(r.buffer) /\ n = 0
  <2>1. ct = lt - k /\ k <= lt /\ ct + 1 >= Len(s.buffer)  BY <1>2, <1>3, <1>5, <1>9
  <2>2. a = End([r EXCEPT !.offset = lt], x, v) /\ c = End([s EXCEPT !.offset = ct], y, v + d)
    BY <1>6, <1>7, <1>9, <2>1 DEF z
  <2>3. Moved([r EXCEPT !.offset = lt], [s EXCEPT !.offset = ct], k, n)
    BY <1>1, <2>1, MovedExcept
  <2>4. MovedTurn(a, c, k, n, d)  BY <1>1, <2>2, <2>3, MovedTurnOf
  <2> QED  BY <1>9, <2>4 DEF Alike
<1>10. CASE lt + 1 < Len(r.buffer)
  <2>1. /\ ct = lt - k /\ k <= lt /\ lt \in Nat /\ ~(lt + 1 >= Len(r.buffer))
        /\ ~(ct + 1 >= Len(s.buffer)) /\ r.buffer[lt + 1] = "<"
    BY <1>2, <1>3, <1>5, <1>10
  <2>2. Reader(e) /\ Reader(f) /\ Moved(e, f, k, n)
    <3>1. lt + 1 \in 0..Len(r.buffer) /\ ct + 1 \in 0..Len(s.buffer)  BY <1>2, <2>1
    <3>2. ct + 1 = (lt + 1) - k /\ k <= lt + 1  BY <1>2, <2>1
    <3>3. Reader(e) /\ Reader(f)  BY <1>1, <3>1, ReaderExcept DEF e, f
    <3>4. Moved(e, f, k, n)  BY <1>1, <3>2, MovedExcept DEF e, f
    <3> QED  BY <3>3, <3>4
  <2>3. /\ e.offset = lt + 1 /\ e.buffer = r.buffer /\ e.state = r.state
        /\ e.offset < Len(e.buffer) /\ [e EXCEPT !.offset = lt] = [r EXCEPT !.offset = lt]
    BY <1>1, <1>10 DEF e, Reader
  <2>4. CASE r.ign_deep > 0
    <3>1. a = Turn(Ignore(e), x, v) /\ c = Turn(Ignore(f), y, v + d)
      BY <1>2, <1>6, <1>7, <2>1, <2>4
    <3>2. Moved(Ignore(e), Ignore(f), k, n) /\ Ignore(e).state = r.state
      BY <2>2, <2>3, IgnoreMoved
    <3>3. MovedTurn(a, c, k, n, d)  BY <1>1, <3>1, <3>2, MovedTurnOf
    <3>4. a.reader = Ignore(e)  BY <3>1 DEF Turn
    <3> QED  BY <1>1, <3>2, <3>3, <3>4 DEF Alike
  <2>5. CASE ~(r.ign_deep > 0) /\ r.state = NULL
    <3>1. a = Turn(InNull(e), x, v) /\ c = Turn(InNull(f), y, v + d)
      BY <1>2, <1>6, <1>7, <2>1, <2>5 DEF NULL, LOOKING, VALUE
    <3>2. CASE Moved(InNull(e), InNull(f), k, n) /\ (n > 0 => ~Partial(InNull(e).state))
      <4>1. MovedTurn(a, c, k, n, d)  BY <1>1, <3>1, <3>2, MovedTurnOf
      <4>2. a.reader = InNull(e)  BY <3>1 DEF Turn
      <4> QED  BY <3>2, <4>1, <4>2 DEF Alike
    <3>3. CASE Cuts(e, InNull(e), n)
      <4>1. lt + 1 \in {lt + 1, lt + 2} /\ lt + 1 < Len(r.buffer) /\ lt + 1 # lt + 2
        BY <1>10, <2>1
      <4>2. Cuts([r EXCEPT !.offset = lt + 1], InNull(e), n)  BY <3>3 DEF e
      <4>3. n > 0 /\ Stops(Turn(InNull(e), x, v), End([r EXCEPT !.offset = lt], x, v))
        BY <1>1, <2>1, <2>5, <4>1, <4>2, CutStops
      <4> QED  BY <3>1, <4>3 DEF z
    <3> QED  BY <1>1, <2>2, <2>3, <3>2, <3>3, InNullMoved
  <2>6. CASE ~(r.ign_deep > 0) /\ r.state = LOOKING
    <3>1. a = InLooking(e, x, v) /\ c = InLooking(f, y, v + d)
      BY <1>2, <1>6, <1>7, <2>1, <2>6 DEF NULL, LOOKING, VALUE
    <3>2. x = -1 /\ y = -1  BY <1>1, <2>6 DEF LOOKING, VALUE
    <3>3. a = InLooking(e, -1, v) /\ c = InLooking(f, -1, v + d)  BY <3>1, <3>2
    <3>4. LET g == InLooking(e, -1, v)
              h == InLooking(f, -1, v + d)
          IN  \/ Alike(g, h, k, n, d)
              \/ n > 0 /\ Stops(g, End([e EXCEPT !.offset = lt], -1, v))
      BY <1>1, <2>1, <2>2, <2>3, <2>6, InLookingMoved
    <3>5. End([e EXCEPT !.offset = lt], -1, v) = z  BY <2>3, <3>2 DEF z
    <3> QED  BY <3>3, <3>4, <3>5
  <2>7. CASE ~(r.ign_deep > 0) /\ r.state = VALUE
    <3>1. a = InValue(e, x, v) /\ c = InValue(f, y, v + d)
      BY <1>2, <1>6, <1>7, <2>1, <2>7 DEF NULL, LOOKING, VALUE
    <3>2. x # -1 /\ x \in Nat /\ k <= x /\ y = x - k /\ x < e.offset
      <4>1. x # -1  BY <1>1, <2>7
      <4>2. k <= x /\ y = x - k /\ x \in -1..r.offset  BY <1>1, <4>1
      <4>3. x \in Nat  BY <1>2, <4>2
      <4> QED  BY <1>2, <1>3, <2>3, <4>1, <4>2, <4>3
    <3>3. Alike(InValue(e, x, v), InValue(f, x - k, v + d), k, n, d)
      BY <1>1, <2>2, <2>3, <2>7, <3>2, InValueMoved
    <3> QED  BY <3>1, <3>2, <3>3
  <2> QED  BY <1>1, <2>4, <2>5, <2>6, <2>7
<1>11. (lt + 1 >= Len(r.buffer) /\ n > 0) \/ (lt + 1 >= Len(r.buffer) /\ n = 0) \/ lt + 1 < Len(r.buffer)
  BY <1>2, <1>3
<1> QED  BY <1>8, <1>9, <1>10, <1>11

-----------------------------------------------------------------------------
(* What is given to the database is a sequence.                             *)
IsSeq(g) == \E S : g \in Seq(S)

LEMMA SeqsAre ==
  /\ IsSeq(<<>>)
  /\ \A x : IsSeq(<<x>>)
  /\ \A g : IsSeq(g) => g \o <<>> = g /\ <<>> \o g = g
  /\ \A g, h : IsSeq(g) /\ IsSeq(h) => IsSeq(g \o h)
<1>1. IsSeq(<<>>)
  <2>1. <<>> \in Seq({})  OBVIOUS
  <2> QED  BY <2>1 DEF IsSeq
<1>2. ASSUME NEW x PROVE IsSeq(<<x>>)
  <2>1. <<x>> \in Seq({x})  OBVIOUS
  <2> QED  BY <2>1 DEF IsSeq
<1>3. ASSUME NEW g, IsSeq(g) PROVE g \o <<>> = g /\ <<>> \o g = g
  <2>1. PICK S : g \in Seq(S)  BY <1>3 DEF IsSeq
  <2>2. <<>> \in Seq(S)  OBVIOUS
  <2>3. /\ g \o <<>> \in Seq(S) /\ Len(g \o <<>>) = Len(g)
        /\ \A i \in 1..Len(g) : (g \o <<>>)[i] = g[i]
    BY <2>1, <2>2
  <2>4. /\ <<>> \o g \in Seq(S) /\ Len(<<>> \o g) = Len(g)
        /\ \A i \in 1..Len(g) : (<<>> \o g)[i] = g[i]
    BY <2>1, <2>2
  <2> DEFINE x == g \o <<>>
             y == <<>> \o g
  <2> HIDE DEF x, y
  <2>5. x = g  BY <2>1, <2>3 DEF x
  <2>6. y = g  BY <2>1, <2>4 DEF y
  <2> QED  BY <2>5, <2>6 DEF x, y
<1>4. ASSUME NEW g, NEW h, IsSeq(g), IsSeq(h) PROVE IsSeq(g \o h)
  <2>1. PICK S : g \in Seq(S)  BY <1>4 DEF IsSeq
  <2>2. PICK T : h \in Seq(T)  BY <1>4 DEF IsSeq
  <2> DEFINE U == S \cup T
  <2>3. S \subseteq U /\ T \subseteq U  OBVIOUS
  <2> HIDE DEF U
  <2>4. g \in Seq(U)
    <3>1. Len(g) \in Nat /\ \A i \in 1..Len(g) : g[i] \in U  BY <2>1, <2>3
    <3> QED  BY <2>1, <3>1
  <2>5. h \in Seq(U)
    <3>1. Len(h) \in Nat /\ \A i \in 1..Len(h) : h[i] \in U  BY <2>2, <2>3
    <3> QED  BY <2>2, <3>1
  <2>6. g \o h \in Seq(U)  BY <2>4, <2>5
  <2> QED  BY <2>6 DEF IsSeq
<1> QED  BY <1>1, <1>2, <1>3, <1>4

LEMMA GivenIs ==
  ASSUME NEW values
  PROVE IsSeq(Given(values))
BY SeqsAre, Zenon DEF Given

-----------------------------------------------------------------------------
(* What the cases of a reader at a letter do: nothing is given and the root *)
(* does not end; or it ends, with the letter before the reader; or a label  *)
(* is cut off.                                                              *)
Does(r, s) ==
  \/ s.state # DONE /\ ~Partial(s.state) /\ s.given = r.given
  \/ s.state = DONE /\ IsSeq(s.given) /\ s.offset \in Nat \ {0} /\ s.buffer[s.offset] = ">"
  \/ s = Cut(r) /\ \E labels \in SUBSET Labels : CutOff(r, labels)

LEMMA InNullDoes ==
  ASSUME NEW r, Reader(r), r.state = NULL
  PROVE Does(r, InNull(r))
<1> DEFINE l == r.root
           a == After(r, l)
<1>1. l \in Labels /\ {l} \in SUBSET Labels  BY DEF Reader, Labels
<1>2. CASE Matches(r, l)
  <2>1. InNull(r) = [a EXCEPT !.state = LOOKING]  BY <1>2 DEF InNull
  <2>2. Reader(a)  BY <1>1, <1>2, AfterIs
  <2>3. a.given = r.given  BY DEF After, Reader
  <2> HIDE DEF a
  <2>4. InNull(r).state = LOOKING /\ InNull(r).given = r.given  BY <2>1, <2>2, <2>3 DEF Reader
  <2> QED  BY <2>4 DEF Does, LOOKING, DONE, Partial
<1>3. CASE ~Matches(r, l) /\ CutOff(r, {l})
  <2>1. InNull(r) = Cut(r)  BY <1>3 DEF InNull
  <2> QED  BY <1>1, <1>3, <2>1 DEF Does
<1>4. CASE ~Matches(r, l) /\ ~CutOff(r, {l})
  <2>1. InNull(r) = r  BY <1>4 DEF InNull
  <2> QED  BY <2>1 DEF Does, NULL, DONE, Partial
<1> QED  BY <1>2, <1>3, <1>4

LEMMA InEndDoes ==
  ASSUME NEW r, Reader(r), r.state = LOOKING, IsSeq(r.given)
  PROVE Does(r, InEnd(r))
<1> DEFINE l == r.root
           a == After(r, l)
           g == r.given \o Given(r.values)
           b == [a EXCEPT !.state = DONE]
           x == r.offset + Len(Tag(l))
<1>1. l \in Labels /\ {l} \in SUBSET Labels  BY DEF Reader, Labels
<1>2. CASE Matches(r, l)
  <2>1. a.given = r.given /\ a.values = r.values /\ a.offset = x /\ a.buffer = r.buffer
    BY DEF After, Reader
  <2>2. InEnd(r) = [a EXCEPT !.state = DONE, !.given = g]
    <3>1. InEnd(r) = [a EXCEPT !.state = DONE, !.given = @ \o Given(r.values)]
      BY <1>2 DEF InEnd
    <3> HIDE DEF a
    <3> QED  BY <2>1, <3>1
  <2>3. Reader(a)  BY <1>1, <1>2, AfterIs
  <2>4. IsSeq(g)  BY SeqsAre, GivenIs
  <2>5. x \in Nat \ {0} /\ r.buffer[x] = ">"
    <3>1. /\ x <= Len(r.buffer) /\ \A i \in 1..Len(Tag(l)) : r.buffer[r.offset + i] = Tag(l)[i]
      BY <1>1, <1>2, MatchesAt
    <3>2. Len(Tag(l)) = Len(l) + 1 /\ Len(l) \in Nat /\ Tag(l)[Len(l) + 1] = ">"
      BY <1>1, TagsAre, LabelsAre
    <3>3. r.offset \in Nat  BY DEF Reader
    <3>4. Len(Tag(l)) \in 1..Len(Tag(l)) /\ x \in Nat \ {0}  BY <3>2, <3>3
    <3> QED  BY <3>1, <3>2, <3>4
  <2> HIDE DEF a, g, x
  <2>6. Reader(b)
    <3>1. DONE \in 0..6  BY DEF DONE
    <3> QED  BY <2>3, <3>1, ReaderExcept, Zenon
  <2>7. b.state = DONE /\ b.offset = x /\ b.buffer = r.buffer  BY <2>1, <2>3 DEF Reader
  <2>8. InEnd(r) = [b EXCEPT !.given = g]  BY <2>2
  <2> HIDE DEF b
  <2>9. /\ InEnd(r).state = DONE /\ InEnd(r).given = g /\ InEnd(r).offset = x
        /\ InEnd(r).buffer = r.buffer
    BY <2>6, <2>7, <2>8 DEF Reader
  <2> QED  BY <2>4, <2>5, <2>9 DEF Does
<1>3. CASE ~Matches(r, l) /\ CutOff(r, {l})
  <2>1. InEnd(r) = Cut(r)  BY <1>3 DEF InEnd
  <2> QED  BY <1>1, <1>3, <2>1 DEF Does
<1>4. CASE ~Matches(r, l) /\ ~CutOff(r, {l})
  <2>1. InEnd(r) = r  BY <1>4 DEF InEnd
  <2> QED  BY <2>1 DEF Does, LOOKING, DONE, Partial
<1> QED  BY <1>2, <1>3, <1>4

LEMMA InStartDoes ==
  ASSUME NEW r, Reader(r), r.state = LOOKING
  PROVE Does(r, InStart(r))
<1> DEFINE value == {l \in ValueLabels(r) : Matches(r, l)}
           tree == {l \in TreeLabels(r) : Matches(r, l)}
           labels == ValueLabels(r) \cup TreeLabels(r)
<1>1. ValueLabels(r) \subseteq Labels /\ TreeLabels(r) \subseteq {Tree} /\ Tree \in Labels
  BY DEF ValueLabels, TreeLabels, Labels
<1>2. CASE value # {}
  <2> DEFINE l == CHOOSE x \in value : TRUE
             a == After(r, l)
             b == [a EXCEPT !.state = VALUE]
  <2>1. l \in Labels /\ Matches(r, l)  BY <1>1, <1>2
  <2>2. InStart(r) = [a EXCEPT !.state = VALUE, !.cur_value = l]  BY <1>2 DEF InStart
  <2> HIDE DEF l
  <2>3. Reader(a) /\ a.given = r.given
    <3>1. Reader(a)  BY <2>1, AfterIs
    <3> QED  BY <3>1 DEF After, Reader
  <2> HIDE DEF a
  <2>4. InStart(r).state = VALUE /\ InStart(r).given = r.given  BY <2>2, <2>3 DEF Reader
  <2> QED  BY <2>4 DEF Does, VALUE, DONE, Partial
<1>3. CASE value = {} /\ tree # {}
  <2> DEFINE a == After(r, Tree)
  <2>1. Matches(r, Tree)  BY <1>1, <1>3
  <2>2. InStart(r) = [a EXCEPT !.state = TREE, !.cur_tree = SubReader, !.count = @ + 1]
    BY <1>3 DEF InStart
  <2>3. Reader(a) /\ a.given = r.given
    <3>1. Reader(a)  BY <1>1, <2>1, AfterIs
    <3> QED  BY <3>1 DEF After, Reader
  <2> HIDE DEF a
  <2>4. InStart(r).state = TREE /\ InStart(r).given = r.given  BY <2>2, <2>3 DEF Reader
  <2> QED  BY <2>4 DEF Does, TREE, DONE, Partial
<1>4. CASE value = {} /\ tree = {} /\ CutOff(r, labels)
  <2>1. InStart(r) = Cut(r)  BY <1>4 DEF InStart
  <2>2. labels \in SUBSET Labels  BY <1>1
  <2> HIDE DEF labels
  <2> QED  BY <1>4, <2>1, <2>2 DEF Does
<1>5. CASE value = {} /\ tree = {} /\ ~CutOff(r, labels)
  <2>1. InStart(r) = [r EXCEPT !.ign_deep = 1]  BY <1>5 DEF InStart
  <2>2. InStart(r).state = LOOKING /\ InStart(r).given = r.given  BY <2>1 DEF Reader
  <2> QED  BY <2>2 DEF Does, LOOKING, DONE, Partial
<1> QED  BY <1>2, <1>3, <1>4, <1>5

-----------------------------------------------------------------------------
(* No tag ends in what is left.                                             *)
Clean(r) == \A i \in (r.offset + 1)..Len(r.buffer) : r.buffer[i] # ">"

LEMMA CutOffIsClean ==
  ASSUME NEW r, Reader(r), NEW labels \in SUBSET Labels, CutOff(r, labels)
  PROVE Clean(r)
<1>1. PICK l \in Labels : CutOff(r, {l})  BY CutOffOf
<1>2. /\ Len(r.buffer) - r.offset < Len(Tag(l))
      /\ \A i \in 1..(Len(r.buffer) - r.offset) : r.buffer[r.offset + i] = Tag(l)[i]
  BY <1>1, CutOffAt
<1>3. Len(Tag(l)) = Len(l) + 1 /\ Len(l) \in Nat /\ \A i \in 1..Len(l) : Tag(l)[i] # ">"
  BY TagsAre, LabelsAre
<1>4. r.offset \in Nat /\ Len(r.buffer) \in Nat  BY DEF Reader
<1> SUFFICES ASSUME NEW i \in (r.offset + 1)..Len(r.buffer) PROVE r.buffer[i] # ">"
  BY DEF Clean
<1> DEFINE j == i - r.offset
<1>5. j \in 1..(Len(r.buffer) - r.offset) /\ r.offset + j = i /\ j \in 1..Len(l)
  BY <1>2, <1>3, <1>4
<1> HIDE DEF j
<1>6. r.buffer[r.offset + j] = Tag(l)[j]  BY <1>2, <1>5
<1> QED  BY <1>3, <1>5, <1>6

LEMMA CleanBack ==
  ASSUME NEW r, Reader(r), NEW lt \in Nat, NEW x \in {lt, lt + 1, lt + 2}, x <= Len(r.buffer),
         Clean([r EXCEPT !.offset = x]), x # lt => r.buffer[lt + 1] = "<",
         x = lt + 2 => r.buffer[lt + 2] = "/"
  PROVE Clean([r EXCEPT !.offset = lt])
<1>1. /\ [r EXCEPT !.offset = x].offset = x /\ [r EXCEPT !.offset = x].buffer = r.buffer
      /\ [r EXCEPT !.offset = lt].offset = lt /\ [r EXCEPT !.offset = lt].buffer = r.buffer
  BY DEF Reader
<1>2. \A i \in (x + 1)..Len(r.buffer) : r.buffer[i] # ">"  BY <1>1 DEF Clean
<1>3. ASSUME NEW i \in (lt + 1)..Len(r.buffer) PROVE r.buffer[i] # ">"
  <2>1. Len(r.buffer) \in Nat  BY DEF Reader
  <2>2. CASE i \in (x + 1)..Len(r.buffer)  BY <1>2, <2>2
  <2>3. CASE i \notin (x + 1)..Len(r.buffer)
    <3>1. (i = lt + 1 /\ x # lt) \/ (i = lt + 2 /\ x = lt + 2)  BY <2>1, <2>3
    <3>2. "<" # ">" /\ "/" # ">"  OBVIOUS
    <3> QED  BY <3>1, <3>2
  <2> QED  BY <2>2, <2>3
<1> QED  BY <1>1, <1>3 DEF Clean

(* What a turn a that looks for a tag does, z being the end at the tag.     *)
Looked(r, a, z) ==
  \/ ~a.ends /\ a.reader.state # DONE /\ ~Partial(a.reader.state) /\ a.reader.given = r.given
  \/ /\ ~a.ends /\ a.reader.state = DONE /\ IsSeq(a.reader.given)
     /\ a.reader.offset \in Nat \ {0} /\ a.reader.buffer[a.reader.offset] = ">"
  \/ /\ ~a.ends /\ Partial(a.reader.state) /\ a.reader.given = r.given
     /\ BackToTag(a.reader) = z.reader /\ Clean(z.reader)
  \/ a = z /\ Clean(z.reader)

(* A case of a reader at the letter after x.                                *)
LEMMA DoesLooked ==
  ASSUME NEW r, Reader(r), r.state \in {NULL, LOOKING}, NEW lt \in Nat, r.buffer[lt + 1] = "<",
         NEW x \in {lt + 1, lt + 2}, x < Len(r.buffer), x = lt + 2 => r.buffer[lt + 2] = "/",
         NEW s, Does([r EXCEPT !.offset = x], s), NEW shrink, NEW used
  PROVE Looked(r, Turn(s, shrink, used), End([r EXCEPT !.offset = lt], shrink, used))
<1> DEFINE b == [r EXCEPT !.offset = x]
           a == Turn(s, shrink, used)
           z == End([r EXCEPT !.offset = lt], shrink, used)
<1>1. /\ a.reader = s /\ a.ends = FALSE /\ z.reader = [r EXCEPT !.offset = lt]
  BY DEF Turn, End
<1>2. x \in Nat /\ x \in 0..Len(r.buffer) /\ x <= Len(r.buffer)
  <2>1. Len(r.buffer) \in Nat  BY DEF Reader
  <2> QED  BY <2>1
<1>3. Reader(b)  BY <1>2, ReaderExcept
<1>4. b.given = r.given /\ b.state = r.state  BY DEF Reader
<1>5. CASE s.state # DONE /\ ~Partial(s.state) /\ s.given = b.given
  BY <1>1, <1>4, <1>5 DEF Looked
<1>6. CASE s.state = DONE /\ IsSeq(s.given) /\ s.offset \in Nat \ {0} /\ s.buffer[s.offset] = ">"
  BY <1>1, <1>6 DEF Looked
<1>7. CASE s = Cut(b) /\ \E labels \in SUBSET Labels : CutOff(b, labels)
  <2>1. PICK labels \in SUBSET Labels : CutOff(b, labels)  BY <1>7
  <2>2. LET c == Cut(b)
        IN  /\ Partial(c.state) /\ c.offset < Len(c.buffer)
            /\ BackToTag(c) = [r EXCEPT !.offset = lt]
    BY <2>1, CutBack
  <2>3. Partial(s.state) /\ BackToTag(s) = [r EXCEPT !.offset = lt]  BY <1>7, <2>2
  <2>4. s.given = r.given
    <3> HIDE DEF b
    <3> QED  BY <1>3, <1>4, <1>7 DEF Cut, Reader
  <2>5. Clean(b)  BY <1>3, <2>1, CutOffIsClean
  <2>6. x \in {lt, lt + 1, lt + 2}  OBVIOUS
  <2>7. Clean([r EXCEPT !.offset = lt])  BY <1>2, <2>5, <2>6, CleanBack
  <2> QED  BY <1>1, <2>3, <2>4, <2>7 DEF Looked
<1>8. Does(b, s)  OBVIOUS
<1> HIDE DEF b
<1> QED  BY <1>5, <1>6, <1>7, <1>8 DEF Does

LEMMA InLookingLooked ==
  ASSUME NEW r, Reader(r), r.state = LOOKING, IsSeq(r.given), NEW lt \in Nat,
         lt + 1 < Len(r.buffer), r.buffer[lt + 1] = "<", NEW shrink, NEW used
  PROVE LET a == InLooking([r EXCEPT !.offset = lt + 1], shrink, used)
        IN  a.used = used /\ Looked(r, a, End([r EXCEPT !.offset = lt], shrink, used))
<1> DEFINE e == [r EXCEPT !.offset = lt + 1]
           a == InLooking(e, shrink, used)
           z == End([r EXCEPT !.offset = lt], shrink, used)
<1>1. Len(r.buffer) \in Nat /\ lt + 1 \in 0..Len(r.buffer)  BY DEF Reader
<1>2. /\ e.offset = lt + 1 /\ e.buffer = r.buffer /\ e.state = r.state /\ e.given = r.given
      /\ Letter(e) = r.buffer[lt + 2]
  <2>1. e.offset = lt + 1 /\ e.buffer = r.buffer /\ e.state = r.state /\ e.given = r.given
    BY DEF Reader
  <2>2. (lt + 1) + 1 = lt + 2  OBVIOUS
  <2> HIDE DEF e
  <2> QED  BY <2>1, <2>2 DEF Letter
<1>3. Reader(e)  BY <1>1, ReaderExcept
<1>4. r.state \in {NULL, LOOKING}  OBVIOUS
<1>5. CASE Letter(e) = "/"
  <2> DEFINE f == [e EXCEPT !.offset = @ + 1]
             g == [r EXCEPT !.offset = lt + 2]
  <2>1. f = g
    <3>1. e.offset + 1 = lt + 2  BY <1>2
    <3>2. f = [e EXCEPT !.offset = e.offset + 1]  OBVIOUS
    <3>3. [e EXCEPT !.offset = lt + 2] = g  BY DEF Reader
    <3> QED  BY <3>1, <3>2, <3>3
  <2>2. g.offset = lt + 2 /\ g.buffer = r.buffer /\ g.state = r.state /\ g.given = r.given
    BY DEF Reader
  <2>3. [g EXCEPT !.offset = @ - 2] = [r EXCEPT !.offset = lt]
    <3>1. (lt + 2) - 2 = lt  OBVIOUS
    <3>2. [g EXCEPT !.offset = @ - 2] = [r EXCEPT !.offset = (lt + 2) - 2]  BY <2>2 DEF Reader
    <3> QED  BY <3>1, <3>2
  <2>4. a = IF f.offset >= Len(f.buffer) THEN End([f EXCEPT !.offset = @ - 2], shrink, used)
            ELSE Turn(InEnd(f), shrink, used)
    BY <1>5 DEF InLooking
  <2> HIDE DEF a, f, g, e
  <2>5. CASE lt + 2 >= Len(r.buffer)
    <3>1. a = z  BY <2>1, <2>2, <2>3, <2>4, <2>5
    <3>2. Clean([r EXCEPT !.offset = lt])
      <4>1. Clean(g)
        <5>1. \A i \in (lt + 2 + 1)..Len(r.buffer) : FALSE  BY <1>1, <2>5
        <5> QED  BY <2>2, <5>1 DEF Clean
      <4>2. lt + 2 \in {lt, lt + 1, lt + 2} /\ lt + 2 <= Len(r.buffer)  BY <1>1
      <4>3. r.buffer[lt + 2] = "/"  BY <1>2, <1>5
      <4> QED  BY <4>1, <4>2, <4>3, CleanBack DEF g
    <3>3. z.reader = [r EXCEPT !.offset = lt] /\ z.used = used  BY DEF End
    <3> HIDE DEF z
    <3> QED  BY <3>1, <3>2, <3>3 DEF Looked, a, e, z
  <2>6. CASE ~(lt + 2 >= Len(r.buffer))
    <3>1. a = Turn(InEnd(g), shrink, used)  BY <2>1, <2>2, <2>4, <2>6
    <3>2. Reader(g)
      <4>1. lt + 2 \in 0..Len(r.buffer)  BY <1>1, <2>6
      <4> QED  BY <4>1, ReaderExcept DEF g
    <3>3. Does(g, InEnd(g))  BY <2>2, <3>2, InEndDoes
    <3>4. lt + 2 \in {lt + 1, lt + 2} /\ lt + 2 < Len(r.buffer)  BY <1>1, <2>6
    <3>5. r.buffer[lt + 2] = "/"  BY <1>2, <1>5
    <3>6. Looked(r, Turn(InEnd(g), shrink, used), z)
      BY <1>4, <3>3, <3>4, <3>5, DoesLooked DEF g
    <3>7. a.used = used  BY <3>1 DEF Turn
    <3> QED  BY <3>1, <3>6, <3>7 DEF a, e
  <2> QED  BY <2>5, <2>6
<1>6. CASE Letter(e) # "/"
  <2> DEFINE s == InStart(e)
             y == IF s.state = VALUE THEN s.offset ELSE shrink
  <2>1. a = Turn(s, y, used)  BY <1>6 DEF InLooking
  <2>2. Does(e, s)  BY <1>2, <1>3, InStartDoes
  <2>3. lt + 1 \in {lt + 1, lt + 2} /\ lt + 1 # lt + 2  OBVIOUS
  <2> HIDE DEF s, y, a
  <2>4. Looked(r, Turn(s, y, used), End([r EXCEPT !.offset = lt], y, used))
    BY <1>4, <2>2, <2>3, DoesLooked
  <2>5. /\ Turn(s, y, used).reader = s /\ Turn(s, y, used).ends = FALSE
        /\ Turn(s, y, used).used = used
    BY DEF Turn
  <2>6. /\ End([r EXCEPT !.offset = lt], y, used).reader = [r EXCEPT !.offset = lt]
        /\ z.reader = [r EXCEPT !.offset = lt]
        /\ End([r EXCEPT !.offset = lt], y, used).ends = TRUE
    BY DEF End
  <2>7. Looked(r, Turn(s, y, used), z)
    <3> DEFINE w == End([r EXCEPT !.offset = lt], y, used)
               q == Turn(s, y, used)
    <3> HIDE DEF w, q, z
    <3>1. q # w  BY <2>5, <2>6 DEF q, w
    <3>2. Looked(r, q, w)  BY <2>4 DEF q, w
    <3>3. z.reader = w.reader  BY <2>6 DEF w
    <3>4. Looked(r, q, z)  BY <3>1, <3>2, <3>3 DEF Looked
    <3> QED  BY <3>4 DEF q
  <2> QED  BY <2>1, <2>5, <2>7 DEF a
<1> QED  BY <1>5, <1>6

LEMMA LookLooked ==
  ASSUME NEW root, NEW buffer, NEW size, NEW t, InLoop(t, root, buffer, size),
         t.reader.state \in {NULL, LOOKING, VALUE}, IsSeq(t.reader.given)
  PROVE LET a == Look(t.reader, t.shrink, t.used)
            z == End([t.reader EXCEPT !.offset = NextTag(t.reader)], t.shrink, t.used)
        IN  a.used = t.used /\ Looked(t.reader, a, z)
<1> DEFINE r == t.reader
           lt == NextTag(r)
           e == [r EXCEPT !.offset = lt + 1]
           a == Look(r, t.shrink, t.used)
           z == End([r EXCEPT !.offset = lt], t.shrink, t.used)
<1>1. Reader(r) /\ r.state \in {NULL, LOOKING, VALUE} /\ IsSeq(r.given)  BY DEF InLoop
<1> HIDE DEF r
<1>2. /\ lt \in r.offset..Len(r.buffer) /\ (lt < Len(r.buffer) => r.buffer[lt + 1] = "<")
      /\ lt \in Nat /\ Len(r.buffer) \in Nat
  BY <1>1, NextTagIs DEF Reader
<1>3. a = IF lt + 1 >= Len(r.buffer) THEN z
          ELSE IF r.ign_deep > 0 THEN Turn(Ignore(e), t.shrink, t.used)
          ELSE CASE r.state = NULL -> Turn(InNull(e), t.shrink, t.used)
                 [] r.state = LOOKING -> InLooking(e, t.shrink, t.used)
                 [] r.state = VALUE -> InValue(e, t.shrink, t.used)
  BY DEF Look
<1>4. z.reader = [r EXCEPT !.offset = lt] /\ z.used = t.used  BY DEF End
<1> HIDE DEF lt, a
<1>5. CASE lt + 1 >= Len(r.buffer)
  <2>1. a = z  BY <1>3, <1>5
  <2>2. Clean([r EXCEPT !.offset = lt])
    <3>1. [r EXCEPT !.offset = lt].offset = lt /\ [r EXCEPT !.offset = lt].buffer = r.buffer
      BY <1>1 DEF Reader
    <3>2. ASSUME NEW i \in (lt + 1)..Len(r.buffer) PROVE r.buffer[i] # ">"
      <4>1. i = lt + 1 /\ lt < Len(r.buffer)  BY <1>2, <1>5
      <4>2. "<" # ">"  OBVIOUS
      <4> QED  BY <1>2, <4>1, <4>2
    <3> QED  BY <3>1, <3>2 DEF Clean
  <2> HIDE DEF z
  <2> QED  BY <1>4, <2>1, <2>2 DEF Looked, a, z, lt, r
<1>6. CASE ~(lt + 1 >= Len(r.buffer))
  <2>1. lt + 1 < Len(r.buffer) /\ r.buffer[lt + 1] = "<" /\ lt + 1 \in 0..Len(r.buffer)
    BY <1>2, <1>6
  <2>2. Reader(e)  BY <1>1, <2>1, ReaderExcept
  <2>3. e.state = r.state /\ e.given = r.given  BY <1>1 DEF Reader
  <2> HIDE DEF e
  <2>4. CASE r.ign_deep > 0
    <3>1. a = Turn(Ignore(e), t.shrink, t.used)  BY <1>3, <1>6, <2>4
    <3>2. Ignore(e).state = r.state /\ Ignore(e).given = r.given
      BY <2>2, <2>3 DEF Ignore, Reader
    <3>3. a.reader = Ignore(e) /\ a.ends = FALSE /\ a.used = t.used  BY <3>1 DEF Turn
    <3>4. ~Partial(r.state) /\ r.state # DONE  BY <1>1 DEF Partial, NULL, LOOKING, VALUE, DONE
    <3> HIDE DEF z
    <3>5. Looked(r, a, z)  BY <3>2, <3>3, <3>4 DEF Looked
    <3> QED  BY <3>3, <3>5 DEF a, r, z, lt
  <2>5. CASE ~(r.ign_deep > 0) /\ r.state = NULL
    <3>1. a = Turn(InNull(e), t.shrink, t.used)  BY <1>3, <1>6, <2>5 DEF NULL, LOOKING, VALUE
    <3>2. Does(e, InNull(e))  BY <2>2, <2>3, <2>5, InNullDoes
    <3>3. lt + 1 \in {lt + 1, lt + 2} /\ lt + 1 # lt + 2  BY <1>2
    <3>4. Looked(r, a, z)
      BY <1>1, <1>2, <2>1, <2>5, <3>1, <3>2, <3>3, DoesLooked DEF e
    <3>5. a.used = t.used  BY <3>1 DEF Turn
    <3> QED  BY <3>4, <3>5 DEF a, r, lt
  <2>6. CASE ~(r.ign_deep > 0) /\ r.state = LOOKING
    <3>1. a = InLooking(e, t.shrink, t.used)  BY <1>3, <1>6, <2>6 DEF NULL, LOOKING, VALUE
    <3>2. LET g == InLooking([r EXCEPT !.offset = lt + 1], t.shrink, t.used)
          IN  g.used = t.used /\ Looked(r, g, End([r EXCEPT !.offset = lt], t.shrink, t.used))
      BY <1>1, <1>2, <2>1, <2>6, InLookingLooked
    <3>3. a.used = t.used /\ Looked(r, a, z)  BY <3>1, <3>2 DEF e
    <3> QED  BY <3>3 DEF a, r, lt
  <2>7. CASE ~(r.ign_deep > 0) /\ r.state = VALUE
    <3>1. a = InValue(e, t.shrink, t.used)  BY <1>3, <1>6, <2>7 DEF NULL, LOOKING, VALUE
    <3>2. /\ a.ends = FALSE /\ a.used = t.used /\ a.reader.given = r.given
          /\ a.reader.state \in {LOOKING, VALUE}
      BY <2>2, <2>3, <2>7, <3>1 DEF InValue, Turn, Reader
    <3>3. ~Partial(a.reader.state) /\ a.reader.state # DONE
      BY <3>2 DEF Partial, LOOKING, VALUE, DONE
    <3> HIDE DEF z
    <3>4. Looked(r, a, z)  BY <3>2, <3>3 DEF Looked
    <3> QED  BY <3>2, <3>4 DEF a, r, z, lt
  <2> QED  BY <1>1, <2>4, <2>5, <2>6, <2>7
<1> QED  BY <1>5, <1>6

-----------------------------------------------------------------------------
(* A reader of a value between two pieces: no tag ends in what it keeps, it *)
(* keeps nothing once it is done, and gives a value only then.              *)
Rests(r) ==
  /\ Kept(r, Tree) /\ Clean(r) /\ IsSeq(r.given)
  /\ r.state = DONE => r.buffer = <<>>
  /\ r.state # DONE => r.given = <<>>

(* Its turns: it is done with a tag that ends in the piece, and says only   *)
(* then that it did not use all.                                            *)
Reads(t, buffer, size, old) ==
  /\ InLoop(t, Tree, buffer, size) /\ IsSeq(t.reader.given)
  /\ t.reader.state # DONE => t.reader.given = <<>>
  /\ t.reader.state = DONE => t.reader.offset >= old /\ (t.ends => t.reader.offset = Len(buffer))
  /\ t.ends => Clean(t.reader)
  /\ ~t.ends => \A i \in (t.reader.offset + 1)..old : buffer[i] # ">"
  /\ Partial(t.reader.state) => Clean(BackToTag(t.reader))
  /\ ~t.ends \/ t.reader.state # DONE => t.used = size
  /\ t.ends /\ t.reader.state = DONE => t.used \in 0..(size - 1)

LEMMA FirstReads ==
  ASSUME NEW r, Rests(r), NEW piece \in Seq(Letters)
  PROVE Reads(First(r, piece), r.buffer \o piece, Len(piece), Len(r.buffer))
<1> DEFINE t == First(r, piece)
           b == r.buffer \o piece
           old == Len(r.buffer)
<1>1. /\ Kept(r, Tree) /\ Reader(r) /\ r.buffer \in Seq(Letters) /\ ~Partial(r.state)
  BY DEF Rests, Kept, Reader
<1>2. /\ InLoop(t, Tree, b, Len(piece)) /\ t.reader.state = r.state
      /\ t.reader.offset = r.offset /\ t.used = Len(piece)
  BY <1>1, FirstIs
<1>3. t.ends = FALSE /\ t.reader.given = r.given  BY <1>1 DEF First, Turn, Reader
<1>4. /\ old \in Nat /\ Len(piece) \in Nat /\ Len(b) = old + Len(piece) /\ r.offset \in 0..old
      /\ \A i \in 1..old : b[i] = r.buffer[i]
  BY <1>1 DEF Reader
<1>5. \A i \in (r.offset + 1)..old : r.buffer[i] # ">"  BY DEF Rests, Clean
<1>6. r.state = DONE => old = 0
  <2>1. Len(<<>>) = 0  OBVIOUS
  <2> QED  BY <2>1 DEF Rests
<1> HIDE DEF t, b, old
<1>7. \A i \in (t.reader.offset + 1)..old : b[i] # ">"  BY <1>2, <1>4, <1>5
<1>8. IsSeq(r.given) /\ (r.state # DONE => r.given = <<>>)  BY DEF Rests
<1>9. r.state = DONE => t.reader.offset >= old  BY <1>2, <1>4, <1>6
<1>10. Reads(t, b, Len(piece), old)  BY <1>1, <1>2, <1>3, <1>7, <1>8, <1>9 DEF Reads
<1> QED  BY <1>10 DEF t, b, old

LEMMA BodyReads ==
  ASSUME NEW buffer \in Seq(Letters), NEW old \in Nat, NEW size \in Int, size = Len(buffer) - old,
         NEW t, Reads(t, buffer, size, old), ~Over(t)
  PROVE Reads(Body(t, old), buffer, size, old)
<1> DEFINE r == t.reader
           a == Body(t, old)
<1>1. /\ InLoop(t, Tree, buffer, size) /\ Reader(r) /\ r.buffer = buffer
      /\ t.ends = FALSE /\ t.used = size /\ IsSeq(r.given)
      /\ (r.state # DONE => r.given = <<>>) /\ (r.state = DONE => r.offset >= old)
      /\ \A i \in (r.offset + 1)..old : buffer[i] # ">"
      /\ Partial(r.state) => Clean(BackToTag(r))
  BY DEF Reads, InLoop, Over
<1>2. Len(buffer) \in Nat /\ r.offset \in 0..Len(buffer) /\ r.offset < Len(buffer)
  BY <1>1 DEF Reader, Over
<1>3. r.state # TREE  BY <1>1, ReaderAssumption DEF InLoop
<1>4. a = ValueBody(t, old)  BY <1>3 DEF Body
<1>5. Turned(t, a, Tree, buffer, size)  BY <1>1, <1>3, <1>4, ValueBodyTurns
<1>6. /\ InLoop(a, Tree, buffer, size) /\ Reader(a.reader) /\ a.reader.buffer = buffer
      /\ a.ends \/ a.reader.offset > r.offset
      /\ a.ends \in BOOLEAN
      /\ Partial(a.reader.state) => ~a.ends
  BY <1>5 DEF Turned, InLoop
<1>7. CASE r.state = DONE
  <2> DEFINE s == [r EXCEPT !.offset = Len(r.buffer)]
  <2>1. a = End(s, t.shrink, r.offset - old)  BY <1>4, <1>7 DEF ValueBody, Partial, DONE
  <2>2. a.reader = s /\ a.ends = TRUE /\ a.used = r.offset - old  BY <2>1 DEF End
  <2>3. s.state = DONE /\ s.given = r.given /\ s.offset = Len(buffer) /\ s.buffer = buffer
    BY <1>1, <1>7 DEF Reader
  <2> HIDE DEF s, a, r
  <2>4. Clean(s)
    <3>1. \A i \in (Len(buffer) + 1)..Len(buffer) : FALSE  BY <1>2
    <3> QED  BY <2>3, <3>1 DEF Clean
  <2>5. r.offset - old \in 0..(size - 1) /\ Len(buffer) >= old  BY <1>1, <1>2, <1>7
  <2>6. ~Partial(DONE)  BY DEF Partial, DONE
  <2> QED  BY <1>1, <1>6, <2>2, <2>3, <2>4, <2>5, <2>6 DEF Reads, a
<1>8. CASE Partial(r.state)
  <2>1. a = End(BackToTag(r), t.shrink, t.used)  BY <1>4, <1>8 DEF ValueBody, Partial, DONE
  <2>2. a.reader = BackToTag(r) /\ a.ends = TRUE /\ a.used = t.used  BY <2>1 DEF End
  <2>3. BackToTag(r).given = r.given  BY <1>1 DEF BackToTag, Reader
  <2>4. BackToTag(r).state = r.state - 1  BY <1>1 DEF BackToTag, Reader
  <2> HIDE DEF a, r
  <2>5. BackToTag(r).state # DONE /\ r.state # DONE  BY <1>8, <2>4 DEF Partial, DONE
  <2> QED  BY <1>1, <1>6, <1>8, <2>2, <2>3, <2>5 DEF Reads, a
<1>9. CASE r.state # DONE /\ ~Partial(r.state)
  <2> DEFINE z == End([r EXCEPT !.offset = NextTag(r)], t.shrink, t.used)
  <2>1. a = Look(r, t.shrink, t.used)  BY <1>4, <1>9 DEF ValueBody
  <2>2. r.state \in {NULL, LOOKING, VALUE}
    BY <1>1, <1>3, <1>9 DEF Reader, Partial, DONE, TREE, NULL, LOOKING, VALUE
  <2>3. a.used = t.used /\ Looked(r, a, z)  BY <1>1, <2>1, <2>2, LookLooked
  <2>4. z.reader.given = r.given /\ z.reader.state = r.state /\ z.ends = TRUE
    BY <1>1 DEF End, Reader
  <2> HIDE DEF z, a, r
  <2>5. r.given = <<>>  BY <1>1, <1>9
  <2>6. ASSUME ~a.ends PROVE \A i \in (a.reader.offset + 1)..old : buffer[i] # ">"
    <3>1. a.reader.offset \in Nat /\ a.reader.offset > r.offset  BY <1>6, <2>6 DEF Reader
    <3>2. \A i \in (a.reader.offset + 1)..old : i \in (r.offset + 1)..old  BY <1>2, <3>1
    <3> QED  BY <1>1, <3>2
  <2>7. CASE a.ends = FALSE /\ a.reader.state # DONE /\ ~Partial(a.reader.state)
             /\ a.reader.given = r.given
    BY <1>1, <1>6, <2>3, <2>5, <2>6, <2>7 DEF Reads, a
  <2>8. CASE /\ a.ends = FALSE /\ a.reader.state = DONE /\ IsSeq(a.reader.given)
             /\ a.reader.offset \in Nat \ {0} /\ a.reader.buffer[a.reader.offset] = ">"
    <3>1. a.reader.offset >= old
      <4>1. a.reader.offset \in Nat /\ a.reader.offset > r.offset  BY <1>6, <2>8
      <4>2. a.reader.offset <= old => a.reader.offset \in (r.offset + 1)..old
        BY <1>2, <4>1
      <4>3. ~(a.reader.offset <= old)  BY <1>1, <1>6, <2>8, <4>2
      <4> QED  BY <4>1, <4>3
    <3>2. ~Partial(a.reader.state)  BY <2>8 DEF Partial, DONE
    <3> QED  BY <1>1, <1>6, <2>3, <2>6, <2>8, <3>1, <3>2 DEF Reads, a
  <2>9. CASE /\ a.ends = FALSE /\ Partial(a.reader.state) /\ a.reader.given = r.given
             /\ BackToTag(a.reader) = z.reader /\ Clean(z.reader)
    <3>1. a.reader.state # DONE  BY <2>9 DEF Partial, DONE
    <3> QED  BY <1>1, <1>6, <2>3, <2>5, <2>6, <2>9, <3>1 DEF Reads, a
  <2>10. CASE a = z /\ Clean(z.reader)
    <3>1. a.ends = TRUE /\ a.reader.given = r.given /\ a.reader.state = r.state /\ Clean(a.reader)
      BY <2>4, <2>10
    <3> QED  BY <1>1, <1>6, <1>9, <2>3, <2>5, <3>1 DEF Reads, a
  <2>11. \/ ~a.ends /\ a.reader.state # DONE /\ ~Partial(a.reader.state) /\ a.reader.given = r.given
         \/ /\ ~a.ends /\ a.reader.state = DONE /\ IsSeq(a.reader.given)
            /\ a.reader.offset \in Nat \ {0} /\ a.reader.buffer[a.reader.offset] = ">"
         \/ /\ ~a.ends /\ Partial(a.reader.state) /\ a.reader.given = r.given
            /\ BackToTag(a.reader) = z.reader /\ Clean(z.reader)
         \/ a = z /\ Clean(z.reader)
    BY <2>3 DEF Looked
  <2>12. ~a.ends <=> a.ends = FALSE  BY <1>6
  <2> QED  BY <2>7, <2>8, <2>9, <2>10, <2>11, <2>12
<1> QED  BY <1>7, <1>8, <1>9

LEMMA ShrinkRests ==
  ASSUME NEW buffer \in Seq(Letters), NEW old \in Nat, NEW size \in Nat,
         NEW t, Reads(t, buffer, size, old), Over(t)
  PROVE /\ Rests(Shrink(t).reader)
        /\ Shrink(t).used \in 0..size
        /\ Shrink(t).used # size => Shrink(t).reader.state = DONE
<1> DEFINE r == t.reader
           here == IF t.shrink < 0 THEN r.offset ELSE t.shrink
           rest == SubSeq(buffer, here + 1, Len(buffer))
           s == Shrink(t).reader
<1>1. /\ InLoop(t, Tree, buffer, size) /\ Reader(r) /\ r.buffer = buffer
      /\ t.shrink \in -1..r.offset /\ (t.shrink = -1 <=> r.state # VALUE)
      /\ IsSeq(r.given) /\ (r.state # DONE => r.given = <<>>)
      /\ t.ends => Clean(r)
  BY DEF Reads, InLoop
<1>2. size \in Int  OBVIOUS
<1>3. Kept(s, Tree) /\ s.state = r.state /\ Shrink(t).used = t.used
  BY <1>1, <1>2, ShrinkKeeps
<1>4. /\ Len(buffer) \in Nat /\ r.offset \in 0..Len(buffer) /\ here \in 0..r.offset
      /\ t.ends \/ r.offset = Len(buffer)
  BY <1>1 DEF Reader, Over
<1>5. s.buffer = rest /\ s.offset = r.offset - here /\ s.given = r.given
  BY <1>1 DEF Shrink, Reader
<1> HIDE DEF s, r
<1>6. /\ rest \in Seq(Letters) /\ Len(rest) = Len(buffer) - here
      /\ \A i \in 1..Len(rest) : rest[i] = buffer[here + i]
  <2>1. here \in 0..Len(buffer)  BY <1>4
  <2> HIDE DEF here
  <2> QED  BY <2>1, EndIs
<1> HIDE DEF here, rest
<1>7. Clean(r)
  <2>1. CASE t.ends  BY <1>1, <2>1
  <2>2. CASE r.offset = Len(buffer)
    <3>1. \A i \in (Len(buffer) + 1)..Len(buffer) : FALSE  BY <1>4
    <3> QED  BY <1>1, <2>2, <3>1 DEF Clean
  <2> QED  BY <1>4, <2>1, <2>2
<1>8. Clean(s)
  <2>1. ASSUME NEW i \in (s.offset + 1)..Len(s.buffer) PROVE s.buffer[i] # ">"
    <3>1. i \in 1..Len(rest) /\ here + i \in (r.offset + 1)..Len(buffer)
      BY <1>4, <1>5, <1>6
    <3>2. buffer[here + i] # ">"  BY <1>1, <1>7, <3>1 DEF Clean
    <3> QED  BY <1>5, <1>6, <3>1, <3>2
  <2> QED  BY <2>1 DEF Clean
<1>9. s.state = DONE => s.buffer = <<>>
  <2>1. ASSUME s.state = DONE PROVE Len(rest) = 0
    <3>1. r.state = DONE /\ t.shrink = -1  BY <1>1, <1>3, <2>1 DEF DONE, VALUE
    <3>2. here = r.offset  BY <3>1 DEF here, r
    <3>3. t.ends => r.offset = Len(buffer)  BY <3>1 DEF Reads, r
    <3> QED  BY <1>4, <1>6, <3>2, <3>3
  <2>2. Len(rest) = 0 => rest = <<>>  BY <1>6
  <2> QED  BY <1>5, <2>1, <2>2
<1>10. Rests(s)  BY <1>1, <1>3, <1>5, <1>8, <1>9 DEF Rests
<1>11. t.used \in 0..size /\ (t.used # size => r.state = DONE)
  <2>1. CASE ~t.ends \/ r.state # DONE
    <3>1. t.used = size  BY <2>1 DEF Reads, r
    <3> QED  BY <3>1
  <2>2. CASE t.ends /\ r.state = DONE
    <3>1. t.used \in 0..(size - 1)  BY <2>2 DEF Reads, r
    <3> QED  BY <2>2, <3>1
  <2> QED  BY <2>1, <2>2
<1> QED  BY <1>3, <1>10, <1>11 DEF s

LEMMA ReadValueRests ==
  ASSUME NEW r, Rests(r), NEW piece \in Seq(Letters)
  PROVE /\ Rests(ReadValue(r, piece).reader)
        /\ ReadValue(r, piece).used \in 0..Len(piece)
        /\ ReadValue(r, piece).used # Len(piece) => ReadValue(r, piece).reader.state = DONE
<1> DEFINE old == Len(r.buffer)
           size == Len(piece)
           b == r.buffer \o piece
           t == First(r, piece)
<1>1. Kept(r, Tree) /\ r.buffer \in Seq(Letters)  BY DEF Rests, Kept, Reader
<1>2. PICK v : Over(v) /\ Leads(t, old, v) /\ ReadValue(r, piece) = Shrink(v)
  BY <1>1, ValueLoopEnds
<1>3. Reads(t, b, size, old)  BY FirstReads
<1>4. /\ b \in Seq(Letters) /\ old \in Nat /\ size \in Nat /\ size \in Int /\ size = Len(b) - old
  BY <1>1
<1> HIDE DEF old, size, b, t
<1>5. PICK n \in Nat : LeadsIn(n, t, old, v)  BY <1>2 DEF Leads
<1>6. PICK f : f[0] = t /\ f[n] = v /\ \A i \in 0..(n - 1) : f[i + 1] = DataTurn(f[i], old)
  BY <1>5 DEF LeadsIn
<1> DEFINE P == {i \in 0..n : Reads(f[i], b, size, old)}
<1>7. 0 \in P  BY <1>3, <1>6
<1>8. ASSUME NEW i \in 0..(n - 1), i \in P PROVE i + 1 \in P
  <2>1. Reads(f[i], b, size, old) /\ i + 1 \in 0..n /\ f[i + 1] = DataTurn(f[i], old)
    BY <1>6, <1>8
  <2>2. CASE Over(f[i])  BY <2>1, <2>2 DEF DataTurn
  <2>3. CASE ~Over(f[i])
    <3>1. Reads(Body(f[i], old), b, size, old)  BY <1>4, <2>1, <2>3, BodyReads
    <3> QED  BY <2>1, <2>3, <3>1 DEF DataTurn
  <2> QED  BY <2>2, <2>3
<1> HIDE DEF P
<1>9. 0..n \subseteq P  BY <1>7, <1>8, UpTo
<1>10. Reads(v, b, size, old)
  <2>1. n \in P  BY <1>9
  <2> QED  BY <1>6, <2>1 DEF P
<1> QED  BY <1>2, <1>4, <1>10, ShrinkRests DEF size

(* A reader that is done stays as it is, and uses nothing.                  *)
LEMMA DoneStays ==
  ASSUME NEW r, Rests(r), r.state = DONE, NEW piece \in Seq(Letters), piece # <<>>
  PROVE ReadValue(r, piece).reader = r /\ ReadValue(r, piece).used = 0
<1> DEFINE t == First(r, piece)
           s == t.reader
           a == Body(t, 0)
<1>1. /\ Kept(r, Tree) /\ Reader(r) /\ r.buffer = <<>> /\ r.offset = 0 /\ Len(r.buffer) = 0
  <2>1. Kept(r, Tree) /\ Reader(r) /\ r.buffer = <<>>  BY DEF Rests, Kept
  <2>2. Len(<<>>) = 0  OBVIOUS
  <2> QED  BY <2>1, <2>2 DEF Reader
<1>2. Len(piece) \in Nat \ {0} /\ <<>> \o piece = piece
  OBVIOUS
<1>3. PICK v : Leads(t, 0, v) /\ ReadValue(r, piece) = Shrink(v)
  BY <1>1, ValueLoopEnds
<1>4. t = [reader |-> [r EXCEPT !.buffer = piece], shrink |-> -1, used |-> Len(piece), ends |-> FALSE]
  BY <1>1, <1>2 DEF First, Turn, DONE, VALUE, Reader
<1>5. /\ s = [r EXCEPT !.buffer = piece] /\ t.shrink = -1 /\ t.ends = FALSE
      /\ s.buffer = piece /\ s.offset = 0 /\ s.state = DONE
  BY <1>1, <1>4 DEF Reader
<1>6. ~Over(t)  BY <1>2, <1>5 DEF Over
<1>7. a = End([s EXCEPT !.offset = Len(piece)], -1, 0)
  <2>1. s.state # TREE /\ ~Partial(s.state)  BY <1>5 DEF DONE, TREE, Partial
  <2> HIDE DEF s, t
  <2>2. a = ValueBody(t, 0)  BY <2>1 DEF Body, s
  <2>3. 0 - 0 = 0  OBVIOUS
  <2> HIDE DEF a
  <2> QED  BY <1>5, <2>2, <2>3 DEF ValueBody, Partial, DONE, s
<1>8. Over(a)  BY <1>7 DEF Over, End
<1> HIDE DEF t, a
<1>9. v = a
  <2>1. Leads(a, 0, a)  BY <1>8, LeadsFrom
  <2>2. Leads(t, 0, a)  BY <1>6, <2>1, LeadsFrom DEF a
  <2> QED  BY <1>3, <2>2, LeadsOnce
<1>10. Shrink(a) = [reader |-> r, used |-> 0]
  <2> DEFINE x == [s EXCEPT !.offset = Len(piece)]
  <2>1. a.reader = x /\ a.shrink = -1 /\ a.used = 0  BY <1>7 DEF End
  <2>2. x.offset = Len(piece) /\ x.buffer = piece  BY <1>1, <1>5 DEF Reader
  <2>3. SubSeq(piece, Len(piece) + 1, Len(piece)) = <<>>  OBVIOUS
  <2>4. Len(piece) - Len(piece) = 0  BY <1>2
  <2>5. Shrink(a) = [reader |-> [x EXCEPT !.buffer = <<>>, !.offset = 0], used |-> 0]
    <3> HIDE DEF x
    <3>1. (IF a.shrink < 0 THEN a.reader.offset ELSE a.shrink) = Len(piece)
      BY <2>1, <2>2
    <3>2. [x EXCEPT !.buffer = SubSeq(@, Len(piece) + 1, Len(@)), !.offset = @ - Len(piece)]
            = [x EXCEPT !.buffer = <<>>, !.offset = 0]
      BY <2>2, <2>3, <2>4
    <3> QED  BY <2>1, <3>1, <3>2 DEF Shrink
  <2>6. [x EXCEPT !.buffer = <<>>, !.offset = 0] = r
    BY <1>1, <1>5 DEF Reader
  <2> QED  BY <2>5, <2>6
<1>11. ReadValue(r, piece) = [reader |-> r, used |-> 0]  BY <1>3, <1>9, <1>10
<1> QED  BY <1>11

-----------------------------------------------------------------------------
(* A reader between two pieces, and its turns.                              *)
Waits(r, root) ==
  /\ Kept(r, root) /\ IsSeq(r.given)
  /\ r.state = TREE => Rests(r.cur_tree)

Runs(t, root, buffer, size) ==
  /\ InLoop(t, root, buffer, size) /\ IsSeq(t.reader.given)
  /\ t.reader.state = TREE => Rests(t.reader.cur_tree)
  /\ ~t.ends => t.used = size

LEMMA SubReaderRests == Rests(SubReader) /\ SubReader.state # DONE
<1>1. SubReader = [root |-> Tree, state |-> LOOKING, ign_deep |-> 0, offset |-> 0,
                   buffer |-> <<>>, cur_value |-> <<>>, cur_tree |-> <<>>,
                   values |-> <<>>, count |-> 0, given |-> <<>>]
  BY DEF SubReader, NewReader
<1>2. /\ SubReader.buffer = <<>> /\ SubReader.offset = 0 /\ SubReader.state = LOOKING
      /\ SubReader.given = <<>>
  BY <1>1
<1>3. Clean(SubReader)
  <2>1. Len(<<>>) = 0 /\ \A i \in (0 + 1)..0 : FALSE  OBVIOUS
  <2> QED  BY <1>2, <2>1 DEF Clean
<1>4. LOOKING # DONE  BY DEF LOOKING, DONE
<1> QED  BY <1>2, <1>3, <1>4, SubReaderKept, SeqsAre DEF Rests

LEMMA FirstRuns ==
  ASSUME NEW root, NEW r, Waits(r, root), NEW piece \in Seq(Letters)
  PROVE Runs(First(r, piece), root, r.buffer \o piece, Len(piece))
<1>1. Kept(r, root) /\ Reader(r)  BY DEF Waits, Kept
<1>2. First(r, piece).reader.given = r.given  BY <1>1 DEF First, Turn, Reader
<1> QED  BY <1>1, <1>2, FirstIs DEF Waits, Runs

LEMMA BodyRuns ==
  ASSUME NEW root \in {Root, Tree}, NEW buffer \in Seq(Letters), NEW old \in Nat, NEW size \in Int,
         size = Len(buffer) - old, NEW t, Runs(t, root, buffer, size), ~Over(t)
  PROVE Runs(Body(t, old), root, buffer, size)
<1> DEFINE r == t.reader
           a == Body(t, old)
<1>1. /\ InLoop(t, root, buffer, size) /\ Reader(r) /\ r.buffer = buffer /\ r.root = root
      /\ t.ends = FALSE /\ t.used = size /\ IsSeq(r.given) /\ (r.state = TREE => root = Root)
  BY DEF Runs, InLoop, Over
<1>2. CASE r.state = TREE
  <2> DEFINE c == r.cur_tree
             sub == ReadValue(c, Rest(r))
             text == c.buffer \o Rest(r)
  <2>1. Rests(c) /\ Kept(c, Tree) /\ c.buffer \in Seq(Letters)
    BY <1>2 DEF Runs, Rests, Kept, Reader
  <2>2. Rest(r) \in Seq(Letters)  BY <1>1, RestIs
  <2>3. text \in Seq(Letters) /\ EndsWith(text, text)
    <3>1. text \in Seq(Letters)  BY <2>1, <2>2
    <3> QED  BY <3>1, EndsWithItself
  <2>4. InData(t, buffer, size, text)  BY <1>1, <1>2, <2>1, <2>3 DEF InData
  <2>5. a = InTree(r, t.shrink, t.used)  BY <1>2 DEF Body
  <2>6. /\ InLoop(a, Root, buffer, size)
        /\ a.ends \/ a.reader.state # TREE
    <3> HIDE DEF text, a
    <3> QED  BY <1>2, <2>3, <2>4, <2>5, InTreeTurns DEF InData
  <2>7. Rests(sub.reader) /\ IsSeq(sub.reader.given) /\ IsSeq(c.given)
    <3>1. Rests(sub.reader)  BY <2>1, <2>2, ReadValueRests
    <3> QED  BY <2>1, <3>1 DEF Rests
  <2>8. IsSeq(r.given \o (IF c.state = DONE THEN <<>> ELSE sub.reader.given))
    BY <1>1, <2>7, SeqsAre
  <2>9. /\ a.used = t.used
        /\ a.reader.given = r.given \o (IF c.state = DONE THEN <<>> ELSE sub.reader.given)
        /\ a.ends => a.reader.cur_tree = sub.reader
    <3> HIDE DEF sub
    <3>1. a = LET s == [r EXCEPT !.given = @ \o (IF c.state = DONE THEN <<>> ELSE sub.reader.given)]
              IN  IF sub.used = Len(Rest(r))
                    THEN End([s EXCEPT !.cur_tree = sub.reader, !.offset = Len(s.buffer)],
                             t.shrink, t.used)
                    ELSE Turn([s EXCEPT !.state = LOOKING, !.cur_tree = <<>>,
                                        !.offset = IF sub.used > 0 THEN @ + sub.used ELSE @],
                              t.shrink, t.used)
      BY <2>5 DEF InTree, sub
    <3> HIDE DEF a, r
    <3>2. CASE sub.used = Len(Rest(r))  BY <1>1, <3>1, <3>2 DEF End, Reader
    <3>3. CASE sub.used # Len(Rest(r))  BY <1>1, <3>1, <3>3 DEF Turn, Reader
    <3> QED  BY <3>2, <3>3
  <2> HIDE DEF a, sub
  <2> QED  BY <1>1, <1>2, <2>6, <2>7, <2>8, <2>9 DEF Runs, a
<1>3. CASE r.state # TREE
  <2>1. a = ValueBody(t, old)  BY <1>3 DEF Body
  <2>2. Turned(t, a, root, buffer, size)  BY <1>1, <1>3, <2>1, ValueBodyTurns
  <2>3. /\ InLoop(a, root, buffer, size) /\ (a.reader.state = TREE => a.reader.cur_tree = SubReader)
    BY <2>2 DEF Turned
  <2>4. IsSeq(a.reader.given) /\ (~a.ends => a.used = t.used)
    <3>1. CASE r.state = DONE
      <4>1. a = End([r EXCEPT !.offset = Len(r.buffer)], t.shrink, r.offset - old)
        BY <2>1, <3>1 DEF ValueBody, Partial, DONE
      <4>2. a.reader.given = r.given /\ a.ends = TRUE  BY <1>1, <4>1 DEF End, Reader
      <4> QED  BY <1>1, <4>2
    <3>2. CASE Partial(r.state)
      <4>1. a = End(BackToTag(r), t.shrink, t.used)  BY <2>1, <3>2 DEF ValueBody, Partial, DONE
      <4>2. BackToTag(r).given = r.given  BY <1>1 DEF BackToTag, Reader
      <4>3. a.reader = BackToTag(r) /\ a.ends = TRUE  BY <4>1 DEF End
      <4> HIDE DEF a, r
      <4> QED  BY <1>1, <4>2, <4>3
    <3>3. CASE r.state # DONE /\ ~Partial(r.state)
      <4> DEFINE z == End([r EXCEPT !.offset = NextTag(r)], t.shrink, t.used)
      <4>1. a = Look(r, t.shrink, t.used)  BY <2>1, <3>3 DEF ValueBody
      <4>2. r.state \in {NULL, LOOKING, VALUE}
        BY <1>1, <1>3, <3>3 DEF Reader, Partial, DONE, TREE, NULL, LOOKING, VALUE
      <4>3. a.used = t.used /\ Looked(r, a, z)  BY <1>1, <4>1, <4>2, LookLooked
      <4>4. z.reader.given = r.given  BY <1>1 DEF End, Reader
      <4> HIDE DEF z, a, r
      <4>5. IsSeq(a.reader.given)  BY <1>1, <4>3, <4>4 DEF Looked
      <4> QED  BY <4>3, <4>5
    <3> QED  BY <3>1, <3>2, <3>3
  <2> HIDE DEF a
  <2> QED  BY <1>1, <2>3, <2>4, SubReaderRests DEF Runs, a
<1> QED  BY <1>2, <1>3

LEMMA ShrinkWaits ==
  ASSUME NEW root, NEW buffer \in Seq(Letters), NEW size \in Int,
         NEW t, Runs(t, root, buffer, size), Over(t)
  PROVE Waits(Shrink(t).reader, root) /\ Shrink(t).reader.given = t.reader.given
<1>1. InLoop(t, root, buffer, size) /\ Reader(t.reader)  BY DEF Runs, InLoop
<1>2. /\ Kept(Shrink(t).reader, root) /\ Shrink(t).reader.state = t.reader.state
      /\ Shrink(t).reader.cur_tree = t.reader.cur_tree
  BY <1>1, ShrinkKeeps
<1>3. Shrink(t).reader.given = t.reader.given  BY <1>1 DEF Shrink, Reader
<1> QED  BY <1>2, <1>3 DEF Waits, Runs

(* What a loop leads to.                                                    *)
LEMMA LeadsRuns ==
  ASSUME NEW root \in {Root, Tree}, NEW buffer \in Seq(Letters), NEW old \in Nat, NEW size \in Int,
         size = Len(buffer) - old, NEW t, Runs(t, root, buffer, size), NEW v, Leads(t, old, v)
  PROVE Runs(v, root, buffer, size) /\ Over(v)
<1>1. PICK n \in Nat : LeadsIn(n, t, old, v)  BY DEF Leads
<1>2. PICK f : f[0] = t /\ f[n] = v /\ \A i \in 0..(n - 1) : f[i + 1] = DataTurn(f[i], old)
  BY <1>1 DEF LeadsIn
<1> DEFINE P == {i \in 0..n : Runs(f[i], root, buffer, size)}
<1>3. 0 \in P  BY <1>2
<1>4. ASSUME NEW i \in 0..(n - 1), i \in P PROVE i + 1 \in P
  <2>1. Runs(f[i], root, buffer, size) /\ i + 1 \in 0..n /\ f[i + 1] = DataTurn(f[i], old)
    BY <1>2, <1>4
  <2>2. CASE Over(f[i])  BY <2>1, <2>2 DEF DataTurn
  <2>3. CASE ~Over(f[i])
    <3>1. Runs(Body(f[i], old), root, buffer, size)  BY <2>1, <2>3, BodyRuns
    <3> QED  BY <2>1, <2>3, <3>1 DEF DataTurn
  <2> QED  BY <2>2, <2>3
<1> HIDE DEF P
<1>5. 0..n \subseteq P  BY <1>3, <1>4, UpTo
<1>6. n \in P  BY <1>5
<1> QED  BY <1>2, <1>6 DEF P, Leads

-----------------------------------------------------------------------------
(* The same letters, in a buffer that begins later, lead to the same.       *)

(* What the turn that has a tree read leaves, when sub came of it: all was  *)
(* used, or the tree is over.                                               *)
TreeGives(r, sub) ==
  [r EXCEPT !.given = r.given \o (IF r.cur_tree.state = DONE THEN <<>> ELSE sub.reader.given)]

TreeStays(r, sub) ==
  [[TreeGives(r, sub) EXCEPT !.cur_tree = sub.reader] EXCEPT !.offset = Len(r.buffer)]

TreeOver(r, sub) ==
  [[[TreeGives(r, sub) EXCEPT !.state = LOOKING] EXCEPT !.cur_tree = <<>>]
     EXCEPT !.offset = IF sub.used > 0 THEN r.offset + sub.used ELSE r.offset]

LEMMA InTreeIs ==
  ASSUME NEW r, Reader(r), NEW sub, sub = ReadValue(r.cur_tree, Rest(r)), NEW shrink, NEW used
  PROVE /\ sub.used = Len(Rest(r)) =>
             InTree(r, shrink, used) = End(TreeStays(r, sub), shrink, used)
        /\ sub.used # Len(Rest(r)) =>
             InTree(r, shrink, used) = Turn(TreeOver(r, sub), shrink, used)
<1> DEFINE v == TreeGives(r, sub)
<1>1. v = [r EXCEPT !.given = @ \o (IF r.cur_tree.state = DONE THEN <<>> ELSE sub.reader.given)]
  BY DEF TreeGives
<1>2. v.buffer = r.buffer /\ v.offset = r.offset  BY <1>1 DEF Reader
<1>3. InTree(r, shrink, used) =
        IF sub.used = Len(Rest(r))
          THEN End([v EXCEPT !.cur_tree = sub.reader, !.offset = Len(v.buffer)], shrink, used)
          ELSE Turn([v EXCEPT !.state = LOOKING, !.cur_tree = <<>>,
                              !.offset = IF sub.used > 0 THEN @ + sub.used ELSE @], shrink, used)
  BY <1>1 DEF InTree
<1>4. Reader(v)  BY ReaderExcept DEF TreeGives
<1>5. [v EXCEPT !.cur_tree = sub.reader, !.offset = Len(v.buffer)] = TreeStays(r, sub)
  BY <1>2 DEF TreeStays
<1>6. [v EXCEPT !.state = LOOKING, !.cur_tree = <<>>,
                !.offset = IF sub.used > 0 THEN @ + sub.used ELSE @] = TreeOver(r, sub)
  BY <1>2, <1>4 DEF TreeOver, Reader
<1> QED  BY <1>3, <1>5, <1>6

(* The readers of the tree use as much and come to the same.                *)
LEMMA InTreeMoved ==
  ASSUME NEW k \in Nat, NEW n \in Nat, NEW d \in Int, NEW r, Reader(r), NEW s, Reader(s),
         Moved(r, s, k, n), NEW sub, sub = ReadValue(r.cur_tree, Rest(r)),
         NEW tub, tub = ReadValue(s.cur_tree, Rest(s)),
         sub.used \in Int, sub.used <= Len(Rest(r)), tub.reader = sub.reader, tub.used = sub.used,
         n = 0 \/ sub.used < Len(Rest(r)), NEW v \in Int
  PROVE MovedTurn(InTree(r, -1, v), InTree(s, -1, v + d), k, n, d)
<1> DEFINE x == IF sub.used > 0 THEN r.offset + sub.used ELSE r.offset
           y == IF sub.used > 0 THEN s.offset + sub.used ELSE s.offset
           a == TreeGives(r, sub)
           b == TreeGives(s, sub)
<1>1. /\ k <= r.offset /\ s.offset = r.offset - k /\ Len(s.buffer) = Len(r.buffer) - k + n
      /\ s.given = r.given /\ s.cur_tree = r.cur_tree
  BY DEF Moved, SameFields
<1>2. /\ r.offset \in Nat /\ Len(r.buffer) \in Nat /\ r.offset <= Len(r.buffer)
      /\ s.offset \in Nat /\ Len(s.buffer) \in Nat
  BY DEF Reader
<1>3. Len(Rest(r)) = Len(r.buffer) - r.offset /\ Len(Rest(s)) = Len(s.buffer) - s.offset
  BY RestIs
<1>4. k <= x /\ y = x - k /\ x \in 0..Len(r.buffer) /\ y \in 0..Len(s.buffer)
  <2>1. PICK o \in Int, l \in Int, p \in Int, w \in Int :
          o = r.offset /\ l = Len(r.buffer) /\ p = Len(s.buffer) /\ w = sub.used
    BY <1>2
  <2>2. k <= o /\ s.offset = o - k /\ p = l - k + n /\ 0 <= o /\ o <= l /\ w <= l - o
    BY <1>1, <1>2, <1>3, <2>1
  <2>3. /\ x = (IF w > 0 THEN o + w ELSE o) /\ y = (IF w > 0 THEN (o - k) + w ELSE o - k)
    BY <2>1, <2>2
  <2> HIDE DEF x, y
  <2>4. k <= x /\ y = x - k /\ x \in 0..l /\ y \in 0..p
    <3>1. CASE w > 0
      <4>1. x = o + w /\ y = (o - k) + w  BY <2>3, <3>1
      <4> QED  BY <2>2, <3>1, <4>1
    <3>2. CASE ~(w > 0)
      <4>1. x = o /\ y = o - k  BY <2>3, <3>2
      <4> QED  BY <2>2, <4>1
    <3> QED  BY <3>1, <3>2
  <2> QED  BY <2>1, <2>4
<1>5. Moved(a, b, k, n) /\ Reader(a) /\ Reader(b)
  <2> DEFINE g == r.given \o (IF r.cur_tree.state = DONE THEN <<>> ELSE sub.reader.given)
  <2>1. a = [r EXCEPT !.given = g] /\ b = [s EXCEPT !.given = g]  BY <1>1 DEF TreeGives
  <2> HIDE DEF g, a, b
  <2>2. Moved([r EXCEPT !.given = g], [s EXCEPT !.given = g], k, n)  BY MovedExcept
  <2>3. Reader([r EXCEPT !.given = g]) /\ Reader([s EXCEPT !.given = g])  BY ReaderExcept, Zenon
  <2> QED  BY <2>1, <2>2, <2>3
<1>6. TreeStays(s, tub) = TreeStays(s, sub) /\ TreeOver(s, tub) = TreeOver(s, sub)
  BY DEF TreeStays, TreeOver, TreeGives
<1> DEFINE e == TreeStays(r, sub)
           f == TreeStays(s, sub)
           h == TreeOver(r, sub)
           i == TreeOver(s, sub)
<1>7. /\ e = [[a EXCEPT !.cur_tree = sub.reader] EXCEPT !.offset = Len(r.buffer)]
      /\ f = [[b EXCEPT !.cur_tree = sub.reader] EXCEPT !.offset = Len(s.buffer)]
      /\ h = [[[a EXCEPT !.state = LOOKING] EXCEPT !.cur_tree = <<>>] EXCEPT !.offset = x]
      /\ i = [[[b EXCEPT !.state = LOOKING] EXCEPT !.cur_tree = <<>>] EXCEPT !.offset = y]
  BY DEF TreeStays, TreeOver
<1>8. /\ sub.used = Len(Rest(r)) => InTree(r, -1, v) = End(e, -1, v)
      /\ sub.used # Len(Rest(r)) => InTree(r, -1, v) = Turn(h, -1, v)
  BY InTreeIs
<1>9. /\ tub.used = Len(Rest(s)) => InTree(s, -1, v + d) = End(f, -1, v + d)
      /\ tub.used # Len(Rest(s)) => InTree(s, -1, v + d) = Turn(i, -1, v + d)
  BY <1>6, InTreeIs
<1> HIDE DEF a, b, e, f, h, i, x, y
<1>10. CASE sub.used = Len(Rest(r))
  <2>1. n = 0 /\ tub.used = Len(Rest(s)) /\ k <= Len(r.buffer) /\ Len(s.buffer) = Len(r.buffer) - k
    BY <1>1, <1>2, <1>3, <1>10
  <2> DEFINE a2 == [a EXCEPT !.cur_tree = sub.reader]
             b2 == [b EXCEPT !.cur_tree = sub.reader]
  <2>2. Moved(a2, b2, k, n) /\ Reader(a2) /\ Reader(b2)  BY <1>5, MovedExcept, ReaderExcept, Zenon
  <2>3. e = [a2 EXCEPT !.offset = Len(r.buffer)] /\ f = [b2 EXCEPT !.offset = Len(s.buffer)]
    BY <1>7
  <2> HIDE DEF a2, b2
  <2>4. Moved(e, f, k, n)  BY <2>1, <2>2, <2>3, MovedExcept
  <2>5. InTree(r, -1, v) = End(e, -1, v) /\ InTree(s, -1, v + d) = End(f, -1, v + d)
    BY <1>10, <1>8, <1>9, <2>1
  <2>6. MovedTurn(End(e, -1, v), End(f, -1, v + d), k, n, d)  BY <2>4, MovedTurnOf
  <2> QED  BY <2>5, <2>6
<1>11. CASE sub.used # Len(Rest(r))
  <2>1. tub.used # Len(Rest(s))
    <3>1. \A m, o, p, l \in Int : m = l - o /\ p = (l - k + n) - (o - k) => p = m + n
      OBVIOUS
    <3>2. Len(Rest(s)) = Len(Rest(r)) + n /\ Len(Rest(r)) \in Int
      <4>1. Len(Rest(s)) = (Len(r.buffer) - k + n) - (r.offset - k)  BY <1>1, <1>3
      <4>2. Len(Rest(r)) \in Int /\ Len(Rest(s)) \in Int  BY <1>2, <1>3
      <4> QED  BY <1>2, <1>3, <3>1, <4>1, <4>2
    <3>3. sub.used < Len(Rest(r))  BY <1>11, <3>2
    <3> QED  BY <3>2, <3>3
  <2> DEFINE a2 == [a EXCEPT !.state = LOOKING]
             b2 == [b EXCEPT !.state = LOOKING]
             a3 == [a2 EXCEPT !.cur_tree = <<>>]
             b3 == [b2 EXCEPT !.cur_tree = <<>>]
  <2>2. LOOKING \in 0..6  BY DEF LOOKING
  <2>3. h = [a3 EXCEPT !.offset = x] /\ i = [b3 EXCEPT !.offset = y]  BY <1>7
  <2>4. Moved(a2, b2, k, n) /\ Reader(a2) /\ Reader(b2)
    BY <1>5, <2>2, MovedExcept, ReaderExcept, Zenon
  <2> HIDE DEF a2, b2
  <2>5. Moved(a3, b3, k, n) /\ Reader(a3) /\ Reader(b3)
    BY <2>4, MovedExcept, ReaderExcept, Zenon
  <2> HIDE DEF a3, b3
  <2>6. Moved(h, i, k, n)  BY <1>4, <2>3, <2>5, MovedExcept
  <2>7. InTree(r, -1, v) = Turn(h, -1, v) /\ InTree(s, -1, v + d) = Turn(i, -1, v + d)
    BY <1>11, <1>8, <1>9, <2>1
  <2>8. MovedTurn(Turn(h, -1, v), Turn(i, -1, v + d), k, n, d)  BY <2>6, MovedTurnOf
  <2> QED  BY <2>7, <2>8
<1> QED  BY <1>10, <1>11

LEMMA BackMoved ==
  ASSUME NEW k \in Nat, NEW r, Reader(r), NEW s, Reader(s), Moved(r, s, k, 0),
         AtTag(r), AtTag(s)
  PROVE Moved(BackToTag(r), BackToTag(s), k, 0)
<1>1. PICK back \in {1, 2} : /\ s.offset - back >= 0 /\ s.buffer[s.offset - back + 1] = "<"
                             /\ \A i \in (s.offset - back + 2)..Len(s.buffer) : s.buffer[i] # "<"
  BY DEF AtTag
<1>2. /\ k <= r.offset /\ s.offset = r.offset - k /\ Len(s.buffer) = Len(r.buffer) - k
      /\ \A i \in (k + 1)..Len(r.buffer) : s.buffer[i - k] = r.buffer[i]
      /\ s.state = r.state
  <2>1. Len(r.buffer) - k + 0 = Len(r.buffer) - k  BY DEF Reader
  <2> QED  BY <2>1 DEF Moved, SameFields
<1>3. /\ r.offset \in Nat /\ Len(r.buffer) \in Nat /\ r.offset < Len(r.buffer)
      /\ s.offset \in Nat /\ Len(s.buffer) \in Nat /\ s.offset < Len(s.buffer)
  BY DEF Reader, AtTag
<1> DEFINE x == r.offset - back
           y == s.offset - back
<1>4. /\ x \in Nat /\ y \in Nat /\ k <= x /\ y = x - k /\ x + 1 <= Len(r.buffer)
      /\ x <= r.offset /\ y + 1 <= Len(s.buffer)
  <2>1. PICK b \in Int, o \in Int, l \in Int, p \in Int, q \in Int :
          /\ b = back /\ o = r.offset /\ l = Len(r.buffer) /\ p = s.offset /\ q = Len(s.buffer)
          /\ b \in 1..2
    BY <1>3
  <2>2. /\ p - b >= 0 /\ k <= o /\ p = o - k /\ q = l - k /\ o < l /\ p < q /\ 0 <= p
    <3>1. s.offset - back >= 0  BY <1>1
    <3>2. k <= r.offset /\ s.offset = r.offset - k /\ Len(s.buffer) = Len(r.buffer) - k  BY <1>2
    <3>3. r.offset < Len(r.buffer) /\ s.offset < Len(s.buffer) /\ 0 <= s.offset  BY <1>3
    <3>4. p - b >= 0  BY <2>1, <3>1
    <3>5. k <= o /\ p = o - k /\ q = l - k  BY <2>1, <3>2
    <3>6. o < l /\ p < q /\ 0 <= p  BY <2>1, <3>3
    <3> QED  BY <3>4, <3>5, <3>6
  <2>3. /\ o - b \in Nat /\ p - b \in Nat /\ k <= o - b /\ p - b = (o - b) - k
        /\ (o - b) + 1 <= l /\ o - b <= o /\ (p - b) + 1 <= q
    <3>1. b \in 1..2  BY <2>1
    <3> QED  BY <2>2, <3>1
  <2> QED  BY <2>1, <2>3
<1>5. /\ s.buffer[y + 1] = "<" /\ \A i \in (y + 2)..Len(s.buffer) : s.buffer[i] # "<"
  BY <1>1
<1>6. /\ BackToTag(s) = [s EXCEPT !.offset = y, !.state = r.state - 1]
      /\ r.buffer[x + 1] = "<" /\ (\A i \in (x + 2)..Len(r.buffer) : r.buffer[i] # "<") =>
           BackToTag(r) = [r EXCEPT !.offset = x, !.state = r.state - 1]
  <2>1. s.offset - back >= 0 /\ r.offset - back >= 0  BY <1>4
  <2>2. BackToTag(s) = [s EXCEPT !.offset = s.offset - back, !.state = s.state - 1]
    BY <1>1, <1>3, <2>1, BackIs
  <2>3. ASSUME r.buffer[x + 1] = "<", \A i \in (x + 2)..Len(r.buffer) : r.buffer[i] # "<"
        PROVE BackToTag(r) = [r EXCEPT !.offset = r.offset - back, !.state = r.state - 1]
    BY <1>3, <2>1, <2>3, BackIs
  <2> QED  BY <1>2, <2>2, <2>3
<1> HIDE DEF x, y
<1>7. r.buffer[x + 1] = "<"
  <2>1. x + 1 \in (k + 1)..Len(r.buffer) /\ (x + 1) - k = y + 1  BY <1>3, <1>4
  <2>2. s.buffer[y + 1] = r.buffer[x + 1]  BY <1>2, <2>1
  <2> QED  BY <1>5, <2>2
<1>8. ASSUME NEW i \in (x + 2)..Len(r.buffer) PROVE r.buffer[i] # "<"
  <2>1. i \in (k + 1)..Len(r.buffer) /\ i - k \in (y + 2)..Len(s.buffer)
    BY <1>2, <1>3, <1>4
  <2>2. s.buffer[i - k] = r.buffer[i]  BY <1>2, <2>1
  <2> QED  BY <1>5, <2>1, <2>2
<1>9. x \in 0..Len(r.buffer) /\ y \in 0..Len(s.buffer)  BY <1>3, <1>4
<1> DEFINE a == [r EXCEPT !.offset = x]
           b == [s EXCEPT !.offset = y]
<1>10. Moved(a, b, k, 0)  BY <1>4, MovedExcept
<1>11. Reader(a) /\ Reader(b)  BY <1>9, ReaderExcept
<1>12. BackToTag(r) = [a EXCEPT !.state = r.state - 1] /\ BackToTag(s) = [b EXCEPT !.state = r.state - 1]
  BY <1>6, <1>7, <1>8
<1> HIDE DEF a, b
<1>13. Moved([a EXCEPT !.state = r.state - 1], [b EXCEPT !.state = r.state - 1], k, 0)
  BY <1>10, <1>11, MovedExcept
<1> QED  BY <1>12, <1>13

(* Two buffers, the second of which begins k letters later: what was there  *)
(* before the piece ends at the same letter but for d, by which the pieces  *)
(* differ.                                                                  *)
Frames(root, k, d, b1, size1, old1, b2, size2, old2) ==
  /\ root \in {Root, Tree} /\ k \in Nat /\ d \in Int
  /\ b1 \in Seq(Letters) /\ size1 \in Int /\ old1 \in Nat /\ size1 = Len(b1) - old1
  /\ b2 \in Seq(Letters) /\ size2 \in Int /\ old2 \in Nat /\ size2 = Len(b2) - old2
  /\ old2 = old1 - k - d

LEMMA SameLetters ==
  ASSUME NEW x \in Seq(Letters), NEW y \in Seq(Letters), Len(y) = Len(x),
         \A i \in 1..Len(x) : y[i] = x[i]
  PROVE x = y
OBVIOUS

LEMMA BodyMoved ==
  ASSUME NEW root, NEW k, NEW d, NEW b1, NEW size1, NEW old1, NEW b2, NEW size2, NEW old2,
         Frames(root, k, d, b1, size1, old1, b2, size2, old2),
         NEW t, Runs(t, root, b1, size1), NEW u, Runs(u, root, b2, size2),
         MovedTurn(t, u, k, 0, d)
  PROVE /\ Over(u) <=> Over(t)
        /\ ~Over(t) => MovedTurn(Body(t, old1), Body(u, old2), k, 0, d)
<1>0. /\ root \in {Root, Tree} /\ k \in Nat /\ d \in Int
      /\ b1 \in Seq(Letters) /\ size1 \in Int /\ old1 \in Nat
      /\ b2 \in Seq(Letters) /\ size2 \in Int /\ old2 \in Nat
  BY DEF Frames
<1> USE <1>0
<1> DEFINE r == t.reader
           s == u.reader
<1>1. /\ InLoop(t, root, b1, size1) /\ Reader(r) /\ r.buffer = b1
      /\ t.shrink \in -1..r.offset /\ (t.shrink = -1 <=> r.state # VALUE)
      /\ Partial(r.state) => AtTag(r)
      /\ t.used \in Int
  BY DEF Runs, InLoop
<1>2. /\ InLoop(u, root, b2, size2) /\ Reader(s) /\ s.buffer = b2
      /\ Partial(s.state) => AtTag(s)
  BY DEF Runs, InLoop
<1>3. /\ Moved(r, s, k, 0) /\ u.ends = t.ends /\ u.used = t.used + d
      /\ t.shrink = -1 => u.shrink = -1
  BY DEF MovedTurn
<1>4. /\ k <= r.offset /\ s.offset = r.offset - k /\ Len(b2) = Len(b1) - k
      /\ s.state = r.state /\ s.cur_tree = r.cur_tree
  <2>1. Len(b1) - k + 0 = Len(b1) - k  OBVIOUS
  <2> QED  BY <1>1, <1>2, <1>3, <2>1 DEF Moved, SameFields
<1>5. r.offset \in Nat /\ Len(b1) \in Nat /\ r.offset <= Len(b1) /\ Len(b2) \in Nat
  BY <1>1 DEF Reader
<1>6. Over(u) <=> Over(t)
  <2>1. s.offset >= Len(b2) <=> r.offset >= Len(b1)  BY <1>4, <1>5
  <2> QED  BY <1>1, <1>2, <1>3, <2>1 DEF Over
<1> SUFFICES ASSUME ~Over(t) PROVE MovedTurn(Body(t, old1), Body(u, old2), k, 0, d)
  BY <1>6
<1> HIDE DEF r, s
<1>7. CASE r.state = DONE
  <2> DEFINE a == [r EXCEPT !.offset = Len(b1)]
             b == [s EXCEPT !.offset = Len(b2)]
  <2>1. Body(t, old1) = End(a, t.shrink, r.offset - old1)
    BY <1>1, <1>7 DEF Body, ValueBody, Partial, DONE, TREE, r
  <2>2. Body(u, old2) = End(b, u.shrink, s.offset - old2)
    BY <1>2, <1>4, <1>7 DEF Body, ValueBody, Partial, DONE, TREE, s
  <2>3. t.shrink = -1  BY <1>1, <1>7 DEF DONE, VALUE
  <2>4. Moved(a, b, k, 0)
    <3>1. k <= Len(b1)  BY <1>4, <1>5
    <3> QED  BY <1>1, <1>2, <1>3, <1>4, <3>1, MovedExcept
  <2>5. s.offset - old2 = (r.offset - old1) + d  BY <1>4, <1>5 DEF Frames
  <2> HIDE DEF a, b
  <2>6. MovedTurn(End(a, -1, r.offset - old1), End(b, -1, s.offset - old2), k, 0, d)
    BY <2>4, <2>5, MovedTurnOf
  <2> QED  BY <1>3, <2>1, <2>2, <2>3, <2>6
<1>8. CASE Partial(r.state)
  <2>1. Body(t, old1) = End(BackToTag(r), t.shrink, t.used)
    BY <1>8 DEF Body, ValueBody, Partial, DONE, TREE, r
  <2>2. Body(u, old2) = End(BackToTag(s), u.shrink, u.used)
    BY <1>4, <1>8 DEF Body, ValueBody, Partial, DONE, TREE, s
  <2>3. t.shrink = -1  BY <1>1, <1>8 DEF Partial, VALUE
  <2>4. Moved(BackToTag(r), BackToTag(s), k, 0)  BY <1>1, <1>2, <1>3, <1>4, <1>8, BackMoved
  <2>5. MovedTurn(End(BackToTag(r), -1, t.used), End(BackToTag(s), -1, u.used), k, 0, d)
    BY <1>3, <2>4, MovedTurnOf
  <2> QED  BY <1>3, <2>1, <2>2, <2>3, <2>5
<1>9. CASE r.state = TREE
  <2> DEFINE sub == ReadValue(r.cur_tree, Rest(r))
             tub == ReadValue(s.cur_tree, Rest(s))
  <2>1. Body(t, old1) = InTree(r, t.shrink, t.used) /\ Body(u, old2) = InTree(s, u.shrink, u.used)
    BY <1>4, <1>9 DEF Body, r, s
  <2>2. t.shrink = -1  BY <1>1, <1>9 DEF TREE, VALUE
  <2>3. Rests(r.cur_tree)  BY <1>9 DEF Runs, r
  <2>4. Rest(r) \in Seq(Letters) /\ Rest(s) = Rest(r)
    <3>1. /\ Rest(r) \in Seq(Letters) /\ Len(Rest(r)) = Len(b1) - r.offset
          /\ \A i \in 1..Len(Rest(r)) : Rest(r)[i] = b1[r.offset + i]
      BY <1>1, RestIs
    <3>2. /\ Rest(s) \in Seq(Letters) /\ Len(Rest(s)) = Len(b2) - s.offset
          /\ \A i \in 1..Len(Rest(s)) : Rest(s)[i] = b2[s.offset + i]
      BY <1>2, RestIs
    <3>3. \A i \in 1..(Len(b1) - r.offset) : b2[s.offset + i] = b1[r.offset + i]
      <4>1. 0 \in Nat  OBVIOUS
      <4> QED  BY <1>1, <1>2, <1>3, <4>1, MovedRest
    <3> DEFINE x == Rest(r)
               y == Rest(s)
    <3>4. Len(y) = Len(x)  BY <1>4, <1>5, <3>1, <3>2
    <3>5. \A i \in 1..Len(x) : y[i] = x[i]  BY <3>1, <3>2, <3>3, <3>4
    <3>6. x \in Seq(Letters) /\ y \in Seq(Letters)  BY <3>1, <3>2
    <3> HIDE DEF x, y
    <3>7. x = y  BY <3>4, <3>5, <3>6, SameLetters
    <3> QED  BY <3>6, <3>7 DEF x, y
  <2>5. tub = sub  BY <1>4, <2>4
  <2>6. sub.used \in 0..Len(Rest(r))  BY <2>3, <2>4, ReadValueRests
  <2>7. Len(Rest(r)) \in Nat  BY <2>4
  <2> HIDE DEF sub, tub
  <2>8. sub.used \in Int /\ sub.used <= Len(Rest(r))  BY <2>6, <2>7
  <2>9. 0 \in Nat /\ tub.reader = sub.reader /\ tub.used = sub.used  BY <2>5
  <2>10. MovedTurn(InTree(r, -1, t.used), InTree(s, -1, t.used + d), k, 0, d)
    BY <1>1, <1>2, <1>3, <2>8, <2>9, InTreeMoved DEF sub, tub
  <2> QED  BY <1>3, <2>1, <2>2, <2>10
<1>10. CASE r.state # DONE /\ ~Partial(r.state) /\ r.state # TREE
  <2>1. /\ Body(t, old1) = Look(r, t.shrink, t.used)
        /\ Body(u, old2) = Look(s, u.shrink, u.used)
    BY <1>4, <1>10 DEF Body, ValueBody, r, s
  <2>2. r.state \in {NULL, LOOKING, VALUE}
    BY <1>1, <1>10 DEF Reader, Partial, DONE, TREE, NULL, LOOKING, VALUE
  <2>3. 0 \in Nat /\ ~(0 > 0)  OBVIOUS
  <2>4. MovedTurn(Look(r, t.shrink, t.used), Look(s, u.shrink, u.used), k, 0, d)
    BY <1>1, <1>2, <2>2, <2>3, LookMoved DEF r, s, Alike
  <2> QED  BY <2>1, <2>4
<1> QED  BY <1>7, <1>8, <1>9, <1>10

LEMMA ShrinkMoved ==
  ASSUME NEW root, NEW k \in Nat, NEW d \in Int, NEW b1, NEW size1, NEW b2, NEW size2,
         NEW t, InLoop(t, root, b1, size1), NEW u, InLoop(u, root, b2, size2),
         MovedTurn(t, u, k, 0, d)
  PROVE Shrink(u).reader = Shrink(t).reader /\ Shrink(u).used = Shrink(t).used + d
<1> DEFINE r == t.reader
           s == u.reader
           x == IF t.shrink < 0 THEN r.offset ELSE t.shrink
           y == IF u.shrink < 0 THEN s.offset ELSE u.shrink
           e == SubSeq(b1, x + 1, Len(b1))
           f == SubSeq(b2, y + 1, Len(b2))
<1>1. /\ Reader(r) /\ r.buffer = b1 /\ Reader(s) /\ s.buffer = b2
      /\ t.shrink \in -1..r.offset /\ u.shrink \in -1..s.offset
  BY DEF InLoop
<1>2. Moved(r, s, k, 0) /\ u.used = t.used + d
      /\ \/ t.shrink = -1 /\ u.shrink = -1
         \/ t.shrink # -1 /\ k <= t.shrink /\ u.shrink = t.shrink - k
  BY DEF MovedTurn
<1>3. /\ b1 \in Seq(Letters) /\ b2 \in Seq(Letters) /\ Len(b1) \in Nat /\ Len(b2) \in Nat
      /\ r.offset \in Nat /\ s.offset \in Nat /\ r.offset <= Len(b1) /\ s.offset <= Len(b2)
  BY <1>1 DEF Reader
<1>4. k <= r.offset /\ s.offset = r.offset - k /\ Len(b2) = Len(b1) - k
  <2>1. Len(b1) - k + 0 = Len(b1) - k  OBVIOUS
  <2> QED  BY <1>1, <1>2, <2>1 DEF Moved
<1>5. \A i \in (k + 1)..Len(b1) : b2[i - k] = b1[i]  BY <1>1, <1>2 DEF Moved
<1>6. t.used + d = u.used /\ Shrink(t).used = t.used /\ Shrink(u).used = u.used
  BY <1>2 DEF Shrink
<1>7. /\ Shrink(t).reader = [r EXCEPT !.buffer = e, !.offset = r.offset - x]
      /\ Shrink(u).reader = [s EXCEPT !.buffer = f, !.offset = s.offset - y]
  <2>1. Shrink(t).reader = [r EXCEPT !.buffer = SubSeq(@, x + 1, Len(@)), !.offset = @ - x]
    BY DEF Shrink
  <2>2. Shrink(u).reader = [s EXCEPT !.buffer = SubSeq(@, y + 1, Len(@)), !.offset = @ - y]
    BY DEF Shrink
  <2> HIDE DEF x, y, r, s
  <2> QED  BY <1>1, <2>1, <2>2
<1>8. x \in 0..Len(b1) /\ y \in 0..Len(b2) /\ k <= x /\ y = x - k /\ r.offset - x = s.offset - y
  <2>1. CASE t.shrink = -1
    <3>1. x = r.offset /\ y = s.offset  BY <1>2, <2>1
    <3> HIDE DEF x, y, r, s
    <3> QED  BY <1>3, <1>4, <3>1
  <2>2. CASE t.shrink # -1
    <3>1. /\ x = t.shrink /\ y = t.shrink - k /\ k <= t.shrink
          /\ t.shrink \in Nat /\ t.shrink <= r.offset
      <4>1. t.shrink \in Nat /\ t.shrink <= r.offset /\ u.shrink \in Int /\ u.shrink >= -1
        BY <1>1, <1>3, <2>2
      <4>2. u.shrink = t.shrink - k /\ k <= t.shrink  BY <1>2, <2>2
      <4>3. ~(u.shrink < 0) /\ ~(t.shrink < 0)  BY <4>1, <4>2
      <4> QED  BY <4>1, <4>2, <4>3
    <3> HIDE DEF x, y, r, s
    <3>2. PICK h \in Nat : h = t.shrink  BY <3>1
    <3>3. x = h /\ y = h - k /\ k <= h /\ h <= r.offset  BY <3>1, <3>2
    <3> QED  BY <1>3, <1>4, <3>3
  <2> QED  BY <2>1, <2>2
<1> HIDE DEF x, y
<1>9. e = f
  <2>1. /\ e \in Seq(Letters) /\ Len(e) = Len(b1) - x
        /\ \A i \in 1..(Len(b1) - x) : e[i] = b1[x + i]
    BY <1>3, <1>8, EndIs
  <2>2. /\ f \in Seq(Letters) /\ Len(f) = Len(b2) - y
        /\ \A i \in 1..(Len(b2) - y) : f[i] = b2[y + i]
    BY <1>3, <1>8, EndIs
  <2> HIDE DEF e, f
  <2>3. Len(f) = Len(e)  BY <1>3, <1>4, <1>8, <2>1, <2>2
  <2>4. ASSUME NEW i \in 1..Len(e) PROVE e[i] = f[i]
    <3>1. x + i \in (k + 1)..Len(b1) /\ (x + i) - k = y + i  BY <1>3, <1>8, <2>1
    <3>2. b2[y + i] = b1[x + i]  BY <1>5, <3>1
    <3>3. i \in 1..(Len(b2) - y) /\ i \in 1..(Len(b1) - x)  BY <2>1, <2>2, <2>3
    <3> QED  BY <2>1, <2>2, <3>2, <3>3
  <2> QED  BY <2>1, <2>2, <2>3, <2>4
<1> HIDE DEF e, f
<1>10. [s EXCEPT !.buffer = f, !.offset = s.offset - y] = [r EXCEPT !.buffer = e, !.offset = r.offset - x]
  <2>1. SameFields(r, s)  BY <1>2 DEF Moved
  <2> HIDE DEF r, s
  <2> QED  BY <1>1, <1>8, <1>9, <2>1 DEF SameFields, Reader
<1> QED  BY <1>6, <1>7, <1>10

(* So the loop over a buffer that begins later leads to the same.           *)
LEMMA Shifts ==
  ASSUME NEW root, NEW k, NEW d, NEW b1, NEW size1, NEW old1, NEW b2, NEW size2, NEW old2,
         Frames(root, k, d, b1, size1, old1, b2, size2, old2),
         NEW t, Runs(t, root, b1, size1), NEW u, Runs(u, root, b2, size2),
         MovedTurn(t, u, k, 0, d), NEW x, Leads(u, old2, x)
  PROVE \E y : /\ Leads(t, old1, y) /\ Shrink(y).reader = Shrink(x).reader
               /\ Shrink(x).used = Shrink(y).used + d
<1>0. /\ root \in {Root, Tree} /\ k \in Nat /\ d \in Int
      /\ b1 \in Seq(Letters) /\ size1 \in Int /\ old1 \in Nat /\ size1 = Len(b1) - old1
      /\ b2 \in Seq(Letters) /\ size2 \in Int /\ old2 \in Nat /\ size2 = Len(b2) - old2
      /\ old2 = old1 - k - d
  BY DEF Frames
<1> USE <1>0
<1>1. PICK n \in Nat : LeadsIn(n, u, old2, x)  BY DEF Leads
<1>2. Over(x)  BY DEF Leads
<1> DEFINE Alike2(v, w) == Runs(v, root, b1, size1) /\ Runs(w, root, b2, size2) /\ MovedTurn(v, w, k, 0, d)
           Ends(v) == \E y : /\ Leads(v, old1, y) /\ Shrink(y).reader = Shrink(x).reader
                             /\ Shrink(x).used = Shrink(y).used + d
           P == {i \in 0..n : \A v, w : Alike2(v, w) /\ LeadsIn(i, w, old2, x) => Ends(v)}
<1>3. ASSUME NEW v, NEW w, Alike2(v, w), Over(w), w = x PROVE Ends(v)
  <2>1. Over(v)  BY <1>3, BodyMoved
  <2>2. Leads(v, old1, v)  BY <2>1, LeadsFrom
  <2>3. InLoop(v, root, b1, size1) /\ InLoop(w, root, b2, size2)  BY <1>3 DEF Runs
  <2>4. Shrink(w).reader = Shrink(v).reader /\ Shrink(w).used = Shrink(v).used + d
    BY <1>3, <2>3, ShrinkMoved
  <2> QED  BY <1>3, <2>2, <2>4
<1>4. 0 \in P
  <2>1. ASSUME NEW v, NEW w, Alike2(v, w), LeadsIn(0, w, old2, x) PROVE Ends(v)
    <3>1. w = x  BY <2>1, LeadsNow
    <3> HIDE DEF Alike2, Ends
    <3> QED  BY <1>2, <1>3, <2>1, <3>1
  <2> HIDE DEF Alike2, Ends
  <2> QED  BY <2>1
<1>5. ASSUME NEW i \in 0..(n - 1), i \in P PROVE i + 1 \in P
  <2>1. ASSUME NEW v, NEW w, Alike2(v, w), LeadsIn(i + 1, w, old2, x) PROVE Ends(v)
    <3>1. i \in Nat  OBVIOUS
    <3>2. LeadsIn(i, DataTurn(w, old2), old2, x)  BY <2>1, <3>1, LeadsNext
    <3>3. CASE Over(w)
      <4>1. Leads(w, old2, w)  BY <3>3, LeadsFrom
      <4>2. i + 1 \in Nat  BY <3>1
      <4>3. Leads(w, old2, x)  BY <1>2, <2>1, <4>2 DEF Leads
      <4>4. w = x  BY <4>1, <4>3, LeadsOnce
      <4> HIDE DEF Alike2, Ends
      <4> QED  BY <1>3, <2>1, <3>3, <4>4
    <3>4. CASE ~Over(w)
      <4>1. ~Over(v) /\ MovedTurn(Body(v, old1), Body(w, old2), k, 0, d)
        BY <2>1, <3>4, BodyMoved
      <4>2. Runs(Body(v, old1), root, b1, size1) /\ Runs(Body(w, old2), root, b2, size2)
        BY <1>0, <2>1, <3>4, <4>1, BodyRuns
      <4>3. Alike2(Body(v, old1), Body(w, old2))  BY <4>1, <4>2
      <4>4. LeadsIn(i, Body(w, old2), old2, x)  BY <3>2, <3>4 DEF DataTurn
      <4>5. Ends(Body(v, old1))
        <5> HIDE DEF Alike2, Ends
        <5> QED  BY <1>5, <4>3, <4>4
      <4>6. PICK y : /\ Leads(Body(v, old1), old1, y) /\ Shrink(y).reader = Shrink(x).reader
                     /\ Shrink(x).used = Shrink(y).used + d
        BY <4>5
      <4>7. Leads(v, old1, y)  BY <4>1, <4>6, LeadsFrom
      <4> QED  BY <4>6, <4>7
    <3> QED  BY <3>3, <3>4
  <2>2. i + 1 \in 0..n  OBVIOUS
  <2> HIDE DEF Alike2, Ends
  <2> QED  BY <2>1, <2>2
<1> HIDE DEF P
<1>6. 0..n \subseteq P  BY <1>4, <1>5, UpTo
<1>7. n \in P  BY <1>6
<1>8. Alike2(t, u) /\ LeadsIn(n, u, old2, x)  BY <1>1
<1>9. Ends(t)
  <2> HIDE DEF Alike2, Ends
  <2> QED  BY <1>7, <1>8 DEF P
<1> QED  BY <1>9

(* What a pass leaves and the next takes up: here is where the buffer then  *)
(* begins.                                                                  *)
Here(z) == IF z.shrink < 0 THEN z.reader.offset ELSE z.shrink

Left(r, b, h) == [[r EXCEPT !.buffer = SubSeq(b, h + 1, Len(b))] EXCEPT !.offset = r.offset - h]

LEMMA ShrinkIs ==
  ASSUME NEW root, NEW b1, NEW size, NEW z, InLoop(z, root, b1, size)
  PROVE /\ Here(z) \in 0..z.reader.offset /\ Here(z) \in 0..Len(b1)
        /\ Shrink(z).reader = Left(z.reader, b1, Here(z))
        /\ Shrink(z).used = z.used
<1> DEFINE r == z.reader
           h == Here(z)
<1>1. Reader(r) /\ r.buffer = b1 /\ z.shrink \in -1..r.offset  BY DEF InLoop
<1>2. b1 \in Seq(Letters) /\ Len(b1) \in Nat /\ r.offset \in Nat /\ r.offset <= Len(b1)
  BY <1>1 DEF Reader
<1>3. h \in 0..r.offset /\ h \in 0..Len(b1)
  <2> HIDE DEF r
  <2>1. CASE z.shrink < 0  BY <1>2, <2>1 DEF Here, r
  <2>2. CASE ~(z.shrink < 0)
    <3>1. h = z.shrink  BY <2>2 DEF Here
    <3>2. z.shrink \in Nat /\ z.shrink <= r.offset  BY <1>1, <1>2, <2>2
    <3> HIDE DEF h
    <3> QED  BY <1>2, <3>1, <3>2
  <2> QED  BY <2>1, <2>2
<1>4. Shrink(z).reader = [r EXCEPT !.buffer = SubSeq(@, h + 1, Len(@)), !.offset = @ - h]
  BY DEF Shrink, Here
<1>5. Shrink(z).used = z.used  BY DEF Shrink
<1>6. [r EXCEPT !.buffer = SubSeq(@, h + 1, Len(@)), !.offset = @ - h]
        = Left(r, b1, h)
  <2> HIDE DEF r, h
  <2> QED  BY <1>1 DEF Reader, Left
<1> QED  BY <1>3, <1>4, <1>5, <1>6

Sizes(size, q, size2, d) == size2 = size + Len(q) /\ d = -size

LEMMA RestartMoved ==
  ASSUME NEW root, NEW b1 \in Seq(Letters), NEW size \in Int, NEW z, InLoop(z, root, b1, size),
         NEW q \in Seq(Letters), NEW b2, b2 = b1 \o q, NEW size2, NEW d, Sizes(size, q, size2, d),
         NEW u, InLoop(u, root, b2, size2),
         ~u.ends, u.used = size2, u.shrink = z.shrink, Moved(z.reader, u.reader, 0, Len(q))
  PROVE /\ Len(Shrink(z).reader.buffer) = Len(b1) - Here(z)
        /\ MovedTurn(u, First(Shrink(z).reader, q), Here(z), 0, d)
<1> DEFINE r == z.reader
           s == u.reader
           h == Here(z)
           e == SubSeq(b1, h + 1, Len(b1))
           w == Shrink(z).reader
           f == First(w, q)
<1>1. /\ Reader(r) /\ r.buffer = b1 /\ z.shrink \in -1..r.offset
      /\ z.shrink = -1 <=> r.state # VALUE
  BY DEF InLoop
<1>2. Reader(s) /\ s.buffer = b2 /\ s.offset \in Nat /\ u.used \in Int /\ u.ends = FALSE
  BY DEF InLoop, Reader
<1>3. r.offset \in Nat /\ r.offset <= Len(b1) /\ Len(b1) \in Nat /\ Len(q) \in Nat
      /\ b2 \in Seq(Letters) /\ Len(b2) = Len(b1) + Len(q)
  BY <1>1 DEF Reader
<1>4. h \in 0..r.offset /\ h \in 0..Len(b1) /\ h \in Nat /\ h <= r.offset
  <2>1. h \in 0..r.offset  BY ShrinkIs
  <2>2. h \in 0..Len(b1)  BY ShrinkIs
  <2> HIDE DEF h, r
  <2> QED  BY <1>3, <2>1, <2>2
<1>5. w = [[r EXCEPT !.buffer = e] EXCEPT !.offset = r.offset - h]
  <2>1. w = Left(r, b1, h)  BY ShrinkIs
  <2> QED  BY <2>1 DEF Left
<1>6. /\ e \in Seq(Letters) /\ Len(e) = Len(b1) - h
      /\ \A i \in 1..(Len(b1) - h) : e[i] = b1[h + i]
  BY <1>4, EndIs
<1>7. s.offset = r.offset
  <2>1. s.offset = r.offset - 0  BY DEF Moved
  <2> QED  BY <1>3, <2>1
<1>8. SameFields(r, s)  BY DEF Moved
<1> HIDE DEF r, s, e, w
<1>9. /\ w.root = r.root /\ w.state = r.state /\ w.ign_deep = r.ign_deep
      /\ w.cur_value = r.cur_value /\ w.cur_tree = r.cur_tree /\ w.values = r.values
      /\ w.count = r.count /\ w.given = r.given /\ w.buffer = e /\ w.offset = r.offset - h
  <2> HIDE DEF h
  <2> QED  BY <1>1, <1>5 DEF Reader
<1>10. w = [w EXCEPT !.buffer = e]
  <2> HIDE DEF h
  <2> QED  BY <1>1, <1>5 DEF Reader
<1>11. /\ f.reader = [w EXCEPT !.buffer = e \o q] /\ f.ends = FALSE /\ f.used = Len(q)
       /\ f.shrink = (IF r.state = VALUE THEN 0 ELSE -1)
  <2> HIDE DEF h
  <2> QED  BY <1>9 DEF First, Turn
<1>12. /\ f.reader.root = r.root /\ f.reader.state = r.state /\ f.reader.ign_deep = r.ign_deep
       /\ f.reader.cur_value = r.cur_value /\ f.reader.cur_tree = r.cur_tree
       /\ f.reader.values = r.values /\ f.reader.count = r.count /\ f.reader.given = r.given
       /\ f.reader.buffer = e \o q /\ f.reader.offset = r.offset - h
  <2> HIDE DEF h, f
  <2> QED  BY <1>9, <1>10, <1>11
<1> HIDE DEF f, h
<1>13. Moved(s, f.reader, h, 0)
  <2>1. SameFields(s, f.reader)  BY <1>8, <1>12 DEF SameFields
  <2>2. h <= s.offset /\ f.reader.offset = s.offset - h  BY <1>4, <1>7, <1>12
  <2>3. Len(e \o q) = Len(e) + Len(q) /\ Len(e \o q) \in Nat
    <3>1. e \in Seq(Letters)  BY <1>6
    <3> QED  BY <3>1
  <2>4. Len(f.reader.buffer) = Len(s.buffer) - h + 0
    BY <1>2, <1>3, <1>4, <1>6, <1>12, <2>3
  <2>5. ASSUME NEW i \in (h + 1)..Len(s.buffer) PROVE f.reader.buffer[i - h] = s.buffer[i]
    <3>1. i \in (h + 1)..(Len(b1) + Len(q))  BY <1>2, <1>3, <2>5
    <3>2. CASE i <= Len(b1)
      <4>1. i - h \in 1..Len(e) /\ i \in 1..Len(b1) /\ h + (i - h) = i
            /\ i - h \in 1..(Len(b1) - h)
        BY <1>3, <1>4, <1>6, <3>1, <3>2
      <4>2. (e \o q)[i - h] = e[i - h]  BY <1>6, <4>1
      <4>3. b2[i] = b1[i]  BY <4>1
      <4>4. e[i - h] = b1[i]  BY <1>6, <4>1
      <4> QED  BY <1>2, <1>12, <4>2, <4>3, <4>4
    <3>3. CASE i > Len(b1)
      <4>1. PICK j \in 1..Len(q) : i = Len(b1) + j
        <5>1. i - Len(b1) \in 1..Len(q) /\ i = Len(b1) + (i - Len(b1))  BY <1>3, <3>1, <3>3, <1>4
        <5> QED  BY <5>1
      <4>2. i - h = Len(e) + j  BY <1>3, <1>4, <1>6, <4>1
      <4>3. (e \o q)[Len(e) + j] = q[j]
        <5>1. e \in Seq(Letters) /\ q \in Seq(Letters) /\ j \in 1..Len(q)  BY <1>6, <4>1
        <5> HIDE DEF e
        <5> QED  BY <5>1
      <4>4. (b1 \o q)[Len(b1) + j] = q[j]  OBVIOUS
      <4> QED  BY <1>2, <1>12, <4>1, <4>2, <4>3, <4>4
    <3> QED  BY <1>3, <1>4, <3>1, <3>2, <3>3
  <2> QED  BY <2>1, <2>2, <2>4, <2>5 DEF Moved
<1>14. f.used = u.used + d
  BY <1>3, <1>11 DEF Sizes
<1>15. \/ u.shrink = -1 /\ f.shrink = -1
       \/ u.shrink # -1 /\ h <= u.shrink /\ f.shrink = u.shrink - h
  <2>1. CASE r.state # VALUE  BY <1>1, <1>11, <2>1 DEF r
  <2>2. CASE r.state = VALUE
    <3>1. z.shrink \in Nat  BY <1>1, <1>3, <2>2
    <3>2. h = z.shrink  BY <3>1 DEF h, Here
    <3>3. h \in Nat /\ h - h = 0  BY <3>1, <3>2
    <3> QED  BY <1>11, <2>2, <3>1, <3>2, <3>3
  <2> QED  BY <2>1, <2>2
<1>16. MovedTurn(u, f, h, 0, d)
  BY <1>2, <1>11, <1>13, <1>14, <1>15 DEF MovedTurn, s
<1> QED  BY <1>6, <1>9, <1>16 DEF f, h, w

-----------------------------------------------------------------------------
(* A pass over a piece, and one over the piece with another: the loop over  *)
(* the first is followed in the longer buffer until it ends; from there a   *)
(* second pass and the rest of the one give the same reader.                *)
ValueJoins(c, p, q) ==
  LET a == ReadValue(c, p)
      b == ReadValue(a.reader, q)
      z == ReadValue(c, p \o q)
  IN  z.reader = b.reader /\ z.used = IF a.used = Len(p) THEN Len(p) + b.used ELSE a.used

Joint(root, b1, size, old, q, b2, size2) ==
  /\ root \in {Root, Tree} /\ b1 \in Seq(Letters) /\ size \in Nat /\ old \in Nat
  /\ size = Len(b1) - old
  /\ q \in Seq(Letters) /\ q # <<>> /\ b2 = b1 \o q /\ size2 = size + Len(q)
  /\ root = Root => \A c, p : Rests(c) /\ p \in Seq(Letters) => ValueJoins(c, p, q)

LEMMA JointIs ==
  ASSUME NEW root, NEW b1, NEW size, NEW old, NEW q, NEW b2, NEW size2,
         Joint(root, b1, size, old, q, b2, size2)
  PROVE /\ root \in {Root, Tree} /\ b1 \in Seq(Letters) /\ b2 \in Seq(Letters) /\ q \in Seq(Letters)
        /\ Len(b1) \in Nat /\ Len(q) \in Nat /\ Len(b2) = Len(b1) + Len(q) /\ Len(q) > 0
        /\ old \in Nat /\ size \in Nat /\ size = Len(b1) - old
        /\ size2 \in Nat /\ size2 = size + Len(q) /\ size2 = Len(b2) - old
        /\ \A i \in 1..Len(b1) : b2[i] = b1[i]
        /\ \A i \in 1..Len(q) : b2[Len(b1) + i] = q[i]
<1>1. /\ root \in {Root, Tree} /\ b1 \in Seq(Letters) /\ size \in Nat /\ old \in Nat
      /\ size = Len(b1) - old /\ q \in Seq(Letters) /\ q # <<>> /\ b2 = b1 \o q
      /\ size2 = size + Len(q)
  BY DEF Joint
<1>2. Len(b1) \in Nat /\ Len(q) \in Nat /\ Len(q) > 0  BY <1>1
<1>3. /\ b2 \in Seq(Letters) /\ Len(b2) = Len(b1) + Len(q)
      /\ \A i \in 1..Len(b1) : b2[i] = b1[i]
      /\ \A i \in 1..Len(q) : b2[Len(b1) + i] = q[i]
  BY <1>1
<1>4. size2 \in Nat /\ size2 = Len(b2) - old  BY <1>1, <1>2, <1>3
<1> QED  BY <1>1, <1>2, <1>3, <1>4

LEMMA Restarts ==
  ASSUME NEW root, NEW b1, NEW size, NEW old, NEW q, NEW b2, NEW size2,
         Joint(root, b1, size, old, q, b2, size2),
         NEW z, Runs(z, root, b1, size), Over(z), z.used = size, NEW u, Runs(u, root, b2, size2),
         ~u.ends, u.shrink = z.shrink, Moved(z.reader, u.reader, 0, Len(q)),
         NEW x, Leads(First(Shrink(z).reader, q), Len(Shrink(z).reader.buffer), x)
  PROVE \E y : /\ Leads(u, old, y) /\ Shrink(y).reader = Shrink(x).reader
               /\ Shrink(y).used = size + Shrink(x).used
<1> DEFINE w == Shrink(z).reader
           h == Here(z)
           f == First(w, q)
           c == w.buffer \o q
           old2 == Len(w.buffer)
<1>00. /\ root \in {Root, Tree} /\ b1 \in Seq(Letters) /\ size \in Nat /\ old \in Nat
       /\ size = Len(b1) - old /\ q \in Seq(Letters) /\ b2 = b1 \o q /\ size2 = size + Len(q)
  BY DEF Joint
<1> USE <1>00
<1>1. InLoop(z, root, b1, size) /\ InLoop(u, root, b2, size2)  BY DEF Runs
<1>2. u.used = size2  BY DEF Runs
<1>3. Len(q) \in Nat /\ Len(b1) \in Nat /\ size2 \in Int /\ b2 \in Seq(Letters)
      /\ Len(b2) = Len(b1) + Len(q)
  OBVIOUS
<1> DEFINE d == -size
<1>0. Sizes(size, q, size2, d) /\ d \in Int /\ size \in Int  BY DEF Sizes
<1> HIDE DEF d
<1>4. Len(w.buffer) = Len(b1) - h /\ MovedTurn(u, f, h, 0, d)
  <2> HIDE DEF w, h, f
  <2> QED  BY <1>0, <1>1, <1>2, RestartMoved DEF w, h, f
<1>5. h \in Nat /\ h <= Len(b1)
  <2>1. h \in 0..Len(b1)  BY <1>1, ShrinkIs
  <2> HIDE DEF h
  <2> QED  BY <1>3, <2>1
<1>6. Waits(w, root)  BY ShrinkWaits
<1>7. w.buffer \in Seq(Letters)  BY <1>6 DEF Waits, Kept, Reader
<1>8. Runs(f, root, c, Len(q))  BY <1>6, FirstRuns
<1>9. old2 = old - h - d
  <2> HIDE DEF w, h
  <2> QED  BY <1>3, <1>4, <1>5 DEF d
<1>10. c \in Seq(Letters) /\ Len(c) = old2 + Len(q) /\ old2 \in Nat
  <2> HIDE DEF w
  <2> QED  BY <1>7
<1>11. Len(q) = Len(c) - old2 /\ size2 = Len(b2) - old
  <2> HIDE DEF c
  <2> QED  BY <1>3, <1>10
<1>12. Len(q) \in Int  BY <1>3
<1>13. Leads(f, old2, x)  OBVIOUS
<1> HIDE DEF w, h, f, c, old2
<1>14. PICK y : /\ Leads(u, old, y) /\ Shrink(y).reader = Shrink(x).reader
                /\ Shrink(x).used = Shrink(y).used + d
  <2> DEFINE sz == Len(q)
  <2>1. Runs(f, root, c, sz) /\ sz \in Int /\ sz = Len(c) - old2
    BY <1>8, <1>11, <1>12
  <2> HIDE DEF sz
  <2>2. Frames(root, h, d, b2, size2, old, c, sz, old2)
    BY <1>0, <1>3, <1>5, <1>9, <1>10, <1>11, <2>1 DEF Frames
  <2> QED  BY <1>4, <1>13, <2>1, <2>2, Shifts
<1>15. Runs(y, root, b2, size2)  BY <1>3, <1>11, <1>14, LeadsRuns
<1>16. Shrink(y).used = y.used /\ y.used \in Int  BY <1>15 DEF Shrink, Runs, InLoop
<1>17. Shrink(y).used = size + Shrink(x).used
  <2>1. PICK i \in Int : i = Shrink(y).used  BY <1>16
  <2>2. Shrink(x).used = i + (-size)  BY <1>14, <2>1 DEF d
  <2> QED  BY <2>1, <2>2
<1> QED  BY <1>14, <1>17

Pair(root, b1, size, q, b2, size2, t, u) ==
  /\ Runs(t, root, b1, size) /\ Runs(u, root, b2, size2)
  /\ MovedTurn(t, u, 0, Len(q), Len(q))
  /\ ~t.ends /\ ~Partial(t.reader.state)

(* What the longer loop comes to when the first ends at v.                  *)
JoinedAt(u, old, v, size, x) ==
  \E y : /\ Leads(u, old, y) /\ Shrink(y).reader = Shrink(x).reader
         /\ Shrink(y).used = IF Shrink(v).used = size THEN size + Shrink(x).used ELSE Shrink(v).used

Joined(u, old, v, size, q) ==
  \A x : Leads(First(Shrink(v).reader, q), Len(Shrink(v).reader.buffer), x) =>
    JoinedAt(u, old, v, size, x)

Together(root, b1, size, q, b2, size2, t, u) ==
  /\ InLoop(t, root, b1, size) /\ InLoop(u, root, b2, size2)
  /\ Reader(t.reader) /\ t.reader.buffer = b1 /\ t.reader.offset \in 0..Len(b1)
  /\ Reader(u.reader) /\ u.reader.buffer = b2 /\ u.reader.offset = t.reader.offset
  /\ Moved(t.reader, u.reader, 0, Len(q)) /\ SameFields(t.reader, u.reader)
  /\ t.ends = FALSE /\ u.ends = FALSE /\ t.used = size /\ u.used = size2
  /\ u.shrink = t.shrink /\ t.shrink \in -1..t.reader.offset
  /\ t.shrink = -1 <=> t.reader.state # VALUE
  /\ ~Over(u)

LEMMA PairIs ==
  ASSUME NEW root, NEW b1, NEW size, NEW old, NEW q, NEW b2, NEW size2,
         Joint(root, b1, size, old, q, b2, size2),
         NEW t, NEW u, Pair(root, b1, size, q, b2, size2, t, u)
  PROVE Together(root, b1, size, q, b2, size2, t, u)
<1> DEFINE r == t.reader
           s == u.reader
<1>1. Runs(t, root, b1, size) /\ Runs(u, root, b2, size2) /\ MovedTurn(t, u, 0, Len(q), Len(q))
      /\ ~t.ends
  BY DEF Pair
<1>2. /\ InLoop(t, root, b1, size) /\ InLoop(u, root, b2, size2) /\ t.ends = FALSE
      /\ t.used = size /\ Reader(r) /\ r.buffer = b1 /\ Reader(s) /\ s.buffer = b2
      /\ t.shrink \in -1..r.offset /\ (t.shrink = -1 <=> r.state # VALUE)
  BY <1>1 DEF Runs, InLoop
<1>3. u.ends = FALSE /\ Moved(r, s, 0, Len(q))  BY <1>1, <1>2 DEF MovedTurn
<1>4. u.used = size2  BY <1>1, <1>3 DEF Runs
<1>5. SameFields(r, s) /\ s.offset = r.offset - 0  BY <1>3 DEF Moved
<1>6. Len(b1) \in Nat /\ Len(q) \in Nat /\ Len(b2) = Len(b1) + Len(q) /\ Len(q) > 0  BY JointIs
<1>7. r.offset \in Nat /\ r.offset <= Len(b1) /\ s.offset \in Nat  BY <1>2 DEF Reader
<1>8. u.shrink = t.shrink
  <2>1. \/ t.shrink = -1 /\ u.shrink = -1
        \/ t.shrink # -1 /\ 0 <= t.shrink /\ u.shrink = t.shrink - 0
    BY <1>1 DEF MovedTurn
  <2>2. t.shrink \in Int  BY <1>2, <1>7
  <2> QED  BY <2>1, <2>2
<1> HIDE DEF r, s
<1>9. s.offset = r.offset /\ r.offset \in 0..Len(b1)  BY <1>5, <1>6, <1>7
<1>10. ~(s.offset >= Len(b2))  BY <1>6, <1>7, <1>9
<1>11. ~Over(u)  BY <1>2, <1>3, <1>10 DEF Over, s
<1> QED  BY <1>2, <1>3, <1>4, <1>5, <1>8, <1>9, <1>11 DEF Together, r, s

(* The first loop ends at z, and the longer goes on from where z is.        *)
LEMMA JoinedBy ==
  ASSUME NEW root, NEW b1, NEW size, NEW old, NEW q, NEW b2, NEW size2,
         Joint(root, b1, size, old, q, b2, size2),
         NEW z, Runs(z, root, b1, size), Over(z), z.used = size,
         NEW w, Runs(w, root, b2, size2), ~w.ends, w.shrink = z.shrink,
         Moved(z.reader, w.reader, 0, Len(q)),
         NEW u, \A y : Leads(w, old, y) => Leads(u, old, y)
  PROVE Joined(u, old, z, size, q)
<1> SUFFICES ASSUME NEW x, Leads(First(Shrink(z).reader, q), Len(Shrink(z).reader.buffer), x)
             PROVE JoinedAt(u, old, z, size, x)
  BY DEF Joined
<1>1. /\ root \in {Root, Tree} /\ b1 \in Seq(Letters) /\ size \in Nat /\ old \in Nat
      /\ size = Len(b1) - old /\ q \in Seq(Letters) /\ b2 = b1 \o q /\ size2 = size + Len(q)
  BY DEF Joint
<1>2. PICK y : /\ Leads(w, old, y) /\ Shrink(y).reader = Shrink(x).reader
               /\ Shrink(y).used = size + Shrink(x).used
  BY <1>1, Restarts
<1>3. Shrink(z).used = size  BY DEF Shrink
<1> QED  BY <1>2, <1>3 DEF JoinedAt

(* A value that is done, or the root of the data: what is left of the piece *)
(* is thrown away, and the next piece with it.                              *)
DoneEnd(r, shrink, used) == End([r EXCEPT !.offset = Len(r.buffer)], shrink, used)

Emptied(r) == [[r EXCEPT !.buffer = <<>>] EXCEPT !.offset = 0]

LEMMA BufferExcept ==
  ASSUME NEW r, Reader(r), NEW b \in Seq(Letters), r.offset \in 0..Len(b)
  PROVE Reader([r EXCEPT !.buffer = b])
<1> DEFINE s == [r EXCEPT !.buffer = b]
<1>1. s = [r EXCEPT !.buffer = b]  OBVIOUS
<1> HIDE DEF s
<1>2. Reader(s)  BY <1>1 DEF Reader
<1> QED  BY <1>2 DEF s

LEMMA EmptiedIs ==
  ASSUME NEW r, Reader(r), NEW q \in Seq(Letters)
  PROVE LET e == [Emptied(r) EXCEPT !.buffer = q]
        IN  /\ Emptied(r).buffer = <<>> /\ Emptied(r).state = r.state
            /\ e = [Emptied(r) EXCEPT !.buffer = Emptied(r).buffer \o q]
            /\ Reader(e) /\ e.buffer = q /\ e.offset = 0 /\ e.state = r.state
            /\ Emptied(e) = Emptied(r)
            /\ \A s : Reader(s) /\ SameFields(r, s) => Emptied(s) = Emptied(r)
<1> DEFINE e == [Emptied(r) EXCEPT !.buffer = q]
<1>1. Reader([r EXCEPT !.offset = 0])
  <2>1. 0 \in 0..Len(r.buffer)  BY DEF Reader
  <2> QED  BY <2>1, ReaderExcept
<1>2. e = [[r EXCEPT !.offset = 0] EXCEPT !.buffer = q] /\ Emptied(e) = Emptied(r)
  BY DEF Reader, Emptied
<1>3. e.buffer = q /\ e.offset = 0 /\ e.state = r.state  BY DEF Reader, Emptied
<1>4. Reader(e)
  <2> DEFINE v == [r EXCEPT !.offset = 0]
  <2>1. v.offset = 0 /\ Reader(v)  BY <1>1 DEF Reader
  <2> HIDE DEF v
  <2>2. 0 \in 0..Len(q)  OBVIOUS
  <2>3. v.offset \in 0..Len(q)  BY <2>1, <2>2
  <2>4. Reader([v EXCEPT !.buffer = q])  BY <2>1, <2>3, BufferExcept
  <2> QED  BY <1>2, <2>4 DEF v
<1>5. Emptied(r).buffer = <<>> /\ Emptied(r).state = r.state  BY DEF Reader, Emptied
<1>6. e = [Emptied(r) EXCEPT !.buffer = Emptied(r).buffer \o q]  BY <1>5
<1>7. ASSUME NEW s, Reader(s), SameFields(r, s) PROVE Emptied(s) = Emptied(r)
  BY <1>7 DEF Reader, SameFields, Emptied
<1> QED  BY <1>2, <1>3, <1>4, <1>5, <1>6, <1>7

LEMMA DoneShrinks ==
  ASSUME NEW r, Reader(r), NEW used
  PROVE Shrink(DoneEnd(r, -1, used)) = [reader |-> Emptied(r), used |-> used]
<1> DEFINE a == [r EXCEPT !.offset = Len(r.buffer)]
           n == Len(r.buffer)
<1>1. r.buffer \in Seq(Letters) /\ n \in Nat  BY DEF Reader
<1>2. SubSeq(r.buffer, n + 1, n) = <<>> /\ n - n = 0  BY <1>1
<1>3. a.offset = n /\ a.buffer = r.buffer  BY DEF Reader
<1>4. DoneEnd(r, -1, used) = End(a, -1, used)  BY DEF DoneEnd
<1>5. [a EXCEPT !.buffer = SubSeq(@, a.offset + 1, Len(@)), !.offset = @ - a.offset] = Emptied(r)
  <2> HIDE DEF n
  <2>1. [a EXCEPT !.buffer = SubSeq(@, a.offset + 1, Len(@)), !.offset = @ - a.offset]
          = [a EXCEPT !.buffer = <<>>, !.offset = 0]
    <3> HIDE DEF a
    <3>1. SubSeq(a.buffer, a.offset + 1, Len(a.buffer)) = <<>> /\ a.offset - a.offset = 0
      BY <1>2, <1>3 DEF n
    <3> QED  BY <3>1
  <2> QED  BY <2>1 DEF Reader, Emptied
<1>6. Shrink(End(a, -1, used))
        = [reader |-> [a EXCEPT !.buffer = SubSeq(@, a.offset + 1, Len(@)), !.offset = @ - a.offset],
           used |-> used]
  <2> HIDE DEF a
  <2> QED  BY DEF Shrink, End
<1> QED  BY <1>4, <1>5, <1>6

LEMMA DoneJoins ==
  ASSUME NEW root, NEW b1, NEW size, NEW old, NEW q, NEW b2, NEW size2,
         Joint(root, b1, size, old, q, b2, size2),
         NEW t, NEW u, Pair(root, b1, size, q, b2, size2, t, u), ~Over(t), t.reader.state = DONE,
         NEW v, Leads(t, old, v)
  PROVE Joined(u, old, v, size, q)
<1> DEFINE r == t.reader
           s == u.reader
           i == r.offset - old
           w == Shrink(v).reader
<1>1. /\ Reader(r) /\ Reader(s) /\ r.buffer = b1 /\ s.buffer = b2 /\ s.offset = r.offset
      /\ SameFields(r, s) /\ t.shrink = -1 /\ u.shrink = -1 /\ ~Over(u) /\ t.ends = FALSE
  <2>1. DONE # VALUE  BY DEF DONE, VALUE
  <2>2. /\ Reader(r) /\ Reader(s) /\ r.buffer = b1 /\ s.buffer = b2 /\ s.offset = r.offset
        /\ SameFields(r, s) /\ u.shrink = t.shrink /\ (t.shrink = -1 <=> r.state # VALUE)
        /\ ~Over(u) /\ t.ends = FALSE
    <3>1. Together(root, b1, size, q, b2, size2, t, u)  BY PairIs
    <3> QED  BY <3>1 DEF Together
  <2> QED  BY <2>1, <2>2
<1>2. /\ Len(b1) \in Nat /\ Len(b2) \in Nat /\ Len(q) \in Nat /\ Len(q) > 0 /\ q \in Seq(Letters)
      /\ old \in Nat /\ size = Len(b1) - old
  BY JointIs
<1>3. r.offset \in Nat /\ r.offset < Len(b1)
  <2>1. r.offset \in Nat /\ r.offset <= Len(b1)  BY <1>1 DEF Reader
  <2>2. ~(r.offset >= Len(b1))  BY <1>1 DEF Over
  <2> QED  BY <1>2, <2>1, <2>2
<1>4. Body(t, old) = DoneEnd(r, -1, i) /\ Body(u, old) = DoneEnd(s, -1, i)
  BY <1>1 DEF Body, ValueBody, DoneEnd, Partial, DONE, TREE, SameFields
<1>5. Over(Body(t, old)) /\ Over(Body(u, old))  BY <1>4 DEF DoneEnd, End, Over
<1>6. v = Body(t, old)
  <2>1. Leads(Body(t, old), old, v)  BY LeadsFrom
  <2>2. Leads(Body(t, old), old, Body(t, old))  BY <1>5, LeadsFrom
  <2> QED  BY <2>1, <2>2, LeadsOnce
<1>7. w = Emptied(r) /\ Shrink(v).used = i
  <2> HIDE DEF i, r
  <2>1. Shrink(DoneEnd(r, -1, i)) = [reader |-> Emptied(r), used |-> i]  BY <1>1, DoneShrinks
  <2> QED  BY <1>4, <1>6, <2>1
<1>8. Shrink(Body(u, old)).reader = Emptied(r) /\ Shrink(Body(u, old)).used = i
  <2> HIDE DEF i, r, s
  <2>1. Shrink(DoneEnd(s, -1, i)) = [reader |-> Emptied(s), used |-> i]  BY <1>1, DoneShrinks
  <2>2. Emptied(s) = Emptied(r)  BY <1>1, <1>2, EmptiedIs
  <2> QED  BY <1>4, <2>1, <2>2
<1>9. Leads(u, old, Body(u, old))  BY <1>1, <1>5, LeadsFrom
<1>10. i # size  BY <1>2, <1>3
<1> HIDE DEF i
<1> DEFINE f == First(w, q)
<1> DEFINE e == [Emptied(r) EXCEPT !.buffer = q]
<1>11. /\ Emptied(r).buffer = <<>> /\ Emptied(r).state = DONE
       /\ e = [Emptied(r) EXCEPT !.buffer = Emptied(r).buffer \o q]
       /\ Reader(e) /\ e.buffer = q /\ e.offset = 0 /\ e.state = DONE /\ Emptied(e) = Emptied(r)
  BY <1>1, <1>2, EmptiedIs
<1>12. f = Turn([w EXCEPT !.buffer = w.buffer \o q], IF w.state = VALUE THEN 0 ELSE -1, Len(q))
  BY DEF First
<1>13. /\ f.reader = e /\ f.shrink = -1 /\ f.ends = FALSE /\ f.used = Len(q) /\ w.buffer = <<>>
  <2>1. DONE # VALUE  BY DEF DONE, VALUE
  <2> HIDE DEF e, f, w
  <2> QED  BY <1>7, <1>11, <1>12, <2>1 DEF Turn
<1>14. ~Over(f)
  <2>1. ~(0 >= Len(q))  BY <1>2
  <2> QED  BY <1>11, <1>13, <2>1 DEF Over
<1> HIDE DEF e, f, w
<1>16. Len(w.buffer) = 0 /\ 0 - 0 = 0  BY <1>13
<1>17. Body(f, 0) = DoneEnd(e, -1, 0)
  BY <1>11, <1>13, <1>16 DEF Body, ValueBody, DoneEnd, Partial, DONE, TREE
<1>18. Shrink(Body(f, 0)).reader = Emptied(r) /\ Shrink(Body(f, 0)).used = 0
  <2>1. Shrink(DoneEnd(e, -1, 0)) = [reader |-> Emptied(e), used |-> 0]  BY <1>11, DoneShrinks
  <2> QED  BY <1>11, <1>17, <2>1
<1>19. ASSUME NEW x, Leads(f, 0, x) PROVE x = Body(f, 0)
  <2>1. Over(Body(f, 0))  BY <1>17 DEF DoneEnd, End, Over
  <2>2. Leads(Body(f, 0), 0, x)  BY <1>14, <1>19, LeadsFrom
  <2>3. Leads(Body(f, 0), 0, Body(f, 0))  BY <2>1, LeadsFrom
  <2> QED  BY <2>2, <2>3, LeadsOnce
<1>20. ASSUME NEW x, Leads(f, 0, x) PROVE JoinedAt(u, old, v, size, x)
  BY <1>7, <1>8, <1>9, <1>10, <1>18, <1>19, <1>20 DEF JoinedAt
<1> QED  BY <1>16, <1>20 DEF Joined, f, w

(* The tree's value goes on into the next piece: a reader that stands at    *)
(* its start and has the value's reader of the end of the first does as the *)
(* one of both.                                                             *)
Again(r, s, sub) ==
  [[TreeGives(s, sub) EXCEPT !.cur_tree = sub.reader] EXCEPT !.offset = Len(r.buffer)]

Trees(r, s, q, sub) ==
  /\ Reader(r) /\ Reader(s) /\ Moved(r, s, 0, Len(q)) /\ q \in Seq(Letters) /\ q # <<>>
  /\ s.buffer = r.buffer \o q /\ r.offset < Len(r.buffer)
  /\ IsSeq(r.given) /\ Rests(r.cur_tree) /\ ValueJoins(r.cur_tree, Rest(r), q)
  /\ sub = ReadValue(r.cur_tree, Rest(r))

LEMMA TreesAre ==
  ASSUME NEW r, NEW s, NEW q, NEW sub, Trees(r, s, q, sub)
  PROVE /\ Rest(r) \in Seq(Letters) /\ Rest(r) # <<>> /\ Rest(s) = Rest(r) \o q
        /\ Len(Rest(r)) \in Nat /\ Len(Rest(r)) > 0 /\ Len(q) \in Nat /\ Len(q) > 0
        /\ Len(Rest(r)) = Len(r.buffer) - r.offset /\ Len(Rest(s)) = Len(Rest(r)) + Len(q)
        /\ s.offset = r.offset /\ r.offset \in Nat /\ Len(r.buffer) \in Nat
        /\ Len(s.buffer) = Len(r.buffer) + Len(q)
        /\ SameFields(r, s)
<1>1. /\ Reader(r) /\ Reader(s) /\ Moved(r, s, 0, Len(q)) /\ q \in Seq(Letters) /\ q # <<>>
      /\ s.buffer = r.buffer \o q /\ r.offset < Len(r.buffer)
  BY DEF Trees
<1>2. /\ r.offset \in Nat /\ r.buffer \in Seq(Letters) /\ Len(r.buffer) \in Nat
      /\ Len(q) \in Nat /\ Len(q) > 0 /\ Len(r.buffer \o q) = Len(r.buffer) + Len(q)
  BY <1>1 DEF Reader
<1>3. SameFields(r, s) /\ s.offset = r.offset  BY <1>1, <1>2 DEF Moved
<1> DEFINE x == Rest(r)
           y == Rest(s)
<1>4. /\ x \in Seq(Letters) /\ Len(x) = Len(r.buffer) - r.offset
      /\ \A i \in 1..Len(x) : x[i] = r.buffer[r.offset + i]
  BY <1>1, RestIs
<1>5. /\ y \in Seq(Letters) /\ Len(y) = Len(s.buffer) - s.offset
      /\ \A i \in 1..Len(y) : y[i] = s.buffer[s.offset + i]
  BY <1>1, RestIs
<1> HIDE DEF x, y
<1>6. Len(x) \in Nat /\ Len(x) > 0 /\ x # <<>> /\ Len(y) = Len(x) + Len(q)
  <2>1. Len(x) \in Nat /\ Len(x) > 0  BY <1>1, <1>2, <1>4
  <2>2. Len(y) = Len(x) + Len(q)  BY <1>1, <1>2, <1>3, <1>4, <1>5
  <2> QED  BY <1>4, <2>1, <2>2
<1>7. /\ x \o q \in Seq(Letters) /\ Len(x \o q) = Len(x) + Len(q)
  <2>1. x \in Seq(Letters) /\ q \in Seq(Letters)  BY <1>1, <1>4
  <2> QED  BY <2>1
<1>8. ASSUME NEW i \in 1..Len(x \o q) PROVE y[i] = (x \o q)[i]
  <2>1. i \in 1..(Len(x) + Len(q)) /\ i \in 1..Len(y)  BY <1>6, <1>7
  <2>2. y[i] = (r.buffer \o q)[r.offset + i]  BY <1>1, <1>3, <1>5, <2>1
  <2>3. CASE i <= Len(x)
    <3>1. i \in 1..Len(x) /\ r.offset + i \in 1..Len(r.buffer)  BY <1>2, <1>4, <1>6, <2>1, <2>3
    <3>2. (r.buffer \o q)[r.offset + i] = r.buffer[r.offset + i]  BY <1>1, <1>2, <3>1
    <3>3. (x \o q)[i] = x[i]  BY <1>1, <1>4, <3>1
    <3> QED  BY <1>4, <2>2, <3>1, <3>2, <3>3
  <2>4. CASE i > Len(x)
    <3>1. PICK j \in 1..Len(q) : i = Len(x) + j
      <4>1. i - Len(x) \in 1..Len(q) /\ i = Len(x) + (i - Len(x))  BY <1>2, <1>6, <2>1, <2>4
      <4> QED  BY <4>1
    <3>2. r.offset + i = Len(r.buffer) + j  BY <1>2, <1>4, <3>1
    <3>3. (r.buffer \o q)[Len(r.buffer) + j] = q[j]  BY <1>1, <1>2
    <3>4. (x \o q)[Len(x) + j] = q[j]  BY <1>1, <1>4
    <3> QED  BY <2>2, <3>1, <3>2, <3>3, <3>4
  <2> QED  BY <1>6, <2>1, <2>3, <2>4
<1>9. y = x \o q  BY <1>5, <1>6, <1>7, <1>8, SameLetters
<1> QED  BY <1>1, <1>2, <1>3, <1>4, <1>6, <1>9 DEF x, y

IsAgain(r, s, q, sub, m) ==
  /\ Reader(m) /\ Moved(TreeStays(r, sub), m, 0, Len(q)) /\ Rest(m) = q
  /\ m.buffer = s.buffer /\ m.offset = Len(r.buffer) /\ m.cur_tree = sub.reader
  /\ m.state = r.state /\ m.root = s.root
  /\ m.given = r.given \o (IF r.cur_tree.state = DONE THEN <<>> ELSE sub.reader.given)

LEMMA AgainIs ==
  ASSUME NEW r, NEW s, NEW q, NEW sub, Trees(r, s, q, sub)
  PROVE IsAgain(r, s, q, sub, Again(r, s, sub))
<1> DEFINE m == Again(r, s, sub)
           g == r.given \o (IF r.cur_tree.state = DONE THEN <<>> ELSE sub.reader.given)
           l == Len(r.buffer)
           a == [r EXCEPT !.given = g]
           b == [s EXCEPT !.given = g]
           a2 == [a EXCEPT !.cur_tree = sub.reader]
           b2 == [b EXCEPT !.cur_tree = sub.reader]
<1>1. /\ Reader(r) /\ Reader(s) /\ Moved(r, s, 0, Len(q)) /\ q \in Seq(Letters)
      /\ s.buffer = r.buffer \o q /\ r.buffer \in Seq(Letters)
  BY DEF Trees, Reader
<1>2. /\ l \in Nat /\ Len(q) \in Nat /\ Len(s.buffer) = l + Len(q) /\ SameFields(r, s)
  BY TreesAre
<1>3. TreeGives(r, sub) = a /\ TreeGives(s, sub) = b  BY <1>2 DEF TreeGives, SameFields
<1>4. TreeStays(r, sub) = [a2 EXCEPT !.offset = l] /\ m = [b2 EXCEPT !.offset = l]
  BY <1>3 DEF TreeStays, Again
<1>5. /\ m.buffer = s.buffer /\ m.offset = l /\ m.cur_tree = sub.reader /\ m.state = s.state
      /\ m.given = g /\ m.root = s.root
  <2> HIDE DEF g, l, m
  <2> QED  BY <1>1, <1>4 DEF Reader
<1> HIDE DEF m, g
<1>6. Reader(a) /\ Reader(b) /\ Moved(a, b, 0, Len(q))
  <2>1. Moved(a, b, 0, Len(q))  BY <1>1, <1>2, MovedExcept
  <2>2. Reader(a) /\ Reader(b)  BY <1>1, ReaderExcept, Zenon
  <2> QED  BY <2>1, <2>2
<1> HIDE DEF a, b
<1>7. Reader(a2) /\ Reader(b2) /\ Moved(a2, b2, 0, Len(q)) /\ b2.buffer = s.buffer
  <2>1. Moved(a2, b2, 0, Len(q))  BY <1>2, <1>6, MovedExcept
  <2>2. Reader(a2) /\ Reader(b2)  BY <1>6, ReaderExcept, Zenon
  <2>3. b2.buffer = b.buffer  BY <1>6 DEF Reader
  <2>4. b.buffer = s.buffer  BY <1>1 DEF Reader, b
  <2> QED  BY <2>1, <2>2, <2>3, <2>4
<1> HIDE DEF a2, b2, l
<1>8. Moved(TreeStays(r, sub), m, 0, Len(q))
  <2>1. 0 <= l /\ l = l - 0  BY <1>2
  <2> DEFINE n == Len(q)
  <2>2. n \in Nat /\ Moved(a2, b2, 0, n) /\ Reader(a2) /\ Reader(b2) /\ 0 \in Nat
    BY <1>2, <1>7
  <2> HIDE DEF n
  <2>3. Moved([a2 EXCEPT !.offset = l], [b2 EXCEPT !.offset = l], 0, n)
    BY <2>1, <2>2, MovedExcept
  <2> QED  BY <1>4, <2>3 DEF n
<1>9. Reader(m)
  <2>1. l \in 0..Len(b2.buffer)  BY <1>2, <1>7
  <2> QED  BY <1>4, <1>7, <2>1, ReaderExcept, Zenon
<1>10. Rest(m) = q
  <2> DEFINE y == Rest(m)
  <2>1. /\ y \in Seq(Letters) /\ Len(y) = Len(s.buffer) - l
        /\ \A i \in 1..Len(y) : y[i] = s.buffer[l + i]
    BY <1>5, <1>9, RestIs
  <2> HIDE DEF y
  <2>2. Len(y) = Len(q)  BY <1>2, <2>1
  <2>3. \A i \in 1..Len(q) : (r.buffer \o q)[l + i] = q[i]  BY <1>1 DEF l
  <2>4. \A i \in 1..Len(q) : y[i] = q[i]  BY <1>1, <2>1, <2>2, <2>3
  <2>5. y = q  BY <1>1, <2>1, <2>2, <2>4, SameLetters
  <2> QED  BY <2>5 DEF y
<1>11. m.state = r.state  BY <1>2, <1>5 DEF SameFields
<1> QED  BY <1>5, <1>8, <1>9, <1>10, <1>11 DEF IsAgain, m, g, l

(* What the value gave in the first piece it does not give again.           *)
GivesOnce(r, s, q, m, x, y) ==
  /\ y.reader = x.reader /\ y.used = Len(Rest(r)) + x.used /\ x.used \in 0..Len(q)
  /\ m.given \o (IF m.cur_tree.state = DONE THEN <<>> ELSE x.reader.given)
       = s.given \o (IF s.cur_tree.state = DONE THEN <<>> ELSE y.reader.given)

LEMMA TreeGivesOnce ==
  ASSUME NEW r, NEW s, NEW q, NEW sub, Trees(r, s, q, sub), sub.used = Len(Rest(r))
  PROVE GivesOnce(r, s, q, Again(r, s, sub), ReadValue(sub.reader, q), ReadValue(s.cur_tree, Rest(s)))
<1> DEFINE m == Again(r, s, sub)
           c == r.cur_tree
           p == Rest(r)
           x == ReadValue(sub.reader, q)
           y == ReadValue(s.cur_tree, Rest(s))
<1>1. /\ Rests(c) /\ ValueJoins(c, p, q) /\ sub = ReadValue(c, p) /\ q \in Seq(Letters)
      /\ q # <<>> /\ IsSeq(r.given) /\ sub.used = Len(p)
  BY DEF Trees
<1>2. /\ p \in Seq(Letters) /\ p # <<>> /\ Rest(s) = p \o q /\ Len(p) \in Nat /\ Len(p) > 0
      /\ SameFields(r, s)
  BY TreesAre
<1>3. s.cur_tree = c /\ s.given = r.given  BY <1>2 DEF SameFields
<1>4. y.reader = x.reader /\ y.used = Len(p) + x.used
  <2>1. y = ReadValue(c, p \o q)  BY <1>2, <1>3
  <2> HIDE DEF y, p, c
  <2>2. y.reader = x.reader /\ y.used = IF sub.used = Len(p) THEN Len(p) + x.used ELSE sub.used
    BY <1>1, <2>1 DEF ValueJoins
  <2> HIDE DEF x
  <2> QED  BY <1>1, <2>2
<1>5. Rests(sub.reader)  BY <1>1, <1>2, ReadValueRests
<1>6. x.used \in 0..Len(q)  BY <1>1, <1>5, ReadValueRests
<1>7. m.cur_tree = sub.reader /\ m.given = r.given \o (IF c.state = DONE THEN <<>> ELSE sub.reader.given)
  <2>1. IsAgain(r, s, q, sub, m)  BY AgainIs
  <2> HIDE DEF m
  <2> QED  BY <2>1 DEF IsAgain
<1>8. c.state # DONE
  <2> SUFFICES ASSUME c.state = DONE PROVE FALSE  OBVIOUS
  <2>1. ReadValue(c, p).used = 0  BY <1>1, <1>2, DoneStays
  <2> QED  BY <1>1, <1>2, <2>1
<1> HIDE DEF GivesOnce, m, c, p, x, y
<1>9. m.given = r.given \o sub.reader.given  BY <1>7, <1>8
<1>10. IsSeq(sub.reader.given)  BY <1>5 DEF Rests
<1>11. CASE sub.reader.state = DONE
  <2>1. x.reader = sub.reader  BY <1>1, <1>5, <1>11, DoneStays DEF x
  <2>2. IsSeq(m.given)  BY <1>1, <1>9, <1>10, SeqsAre
  <2>3. m.given \o <<>> = m.given  BY <2>2, SeqsAre
  <2> QED  BY <1>3, <1>4, <1>6, <1>7, <1>8, <1>9, <1>11, <2>1, <2>3 DEF GivesOnce, m, c, p, x, y
<1>12. CASE sub.reader.state # DONE
  <2>1. sub.reader.given = <<>>  BY <1>5, <1>12 DEF Rests
  <2>2. m.given = r.given  BY <1>1, <1>9, <2>1, SeqsAre
  <2> QED  BY <1>3, <1>4, <1>6, <1>7, <1>8, <1>12, <2>2 DEF GivesOnce, m, c, p, x, y
<1> QED  BY <1>11, <1>12

LEMMA TreeAgain ==
  ASSUME NEW r, NEW s, NEW q, NEW sub, Trees(r, s, q, sub), sub.used = Len(Rest(r)),
         NEW shrink, NEW used
  PROVE InTree(Again(r, s, sub), shrink, used) = InTree(s, shrink, used)
<1> DEFINE m == Again(r, s, sub)
           x == ReadValue(m.cur_tree, Rest(m))
           y == ReadValue(s.cur_tree, Rest(s))
           l == Len(r.buffer)
           b == Len(s.buffer)
           g == s.given \o (IF s.cur_tree.state = DONE THEN <<>> ELSE y.reader.given)
<1>1. /\ Reader(m) /\ Rest(m) = q /\ m.buffer = s.buffer /\ m.offset = l
      /\ m.cur_tree = sub.reader
  <2>1. IsAgain(r, s, q, sub, m)  BY AgainIs
  <2> HIDE DEF m
  <2> QED  BY <2>1 DEF IsAgain
<1>2. Reader(s)  BY DEF Trees
<1>3. /\ y.reader = x.reader /\ y.used = Len(Rest(r)) + x.used /\ x.used \in 0..Len(q)
      /\ m.given \o (IF m.cur_tree.state = DONE THEN <<>> ELSE x.reader.given) = g
  <2>1. x = ReadValue(sub.reader, q)  BY <1>1
  <2>2. GivesOnce(r, s, q, m, ReadValue(sub.reader, q), y)  BY TreeGivesOnce
  <2> HIDE DEF m, x, y, l
  <2> QED  BY <2>1, <2>2 DEF GivesOnce
<1>4. /\ Len(Rest(r)) \in Nat /\ Len(Rest(r)) > 0 /\ Len(q) \in Nat /\ r.offset \in Nat
      /\ Len(Rest(s)) = Len(Rest(r)) + Len(q) /\ Len(Rest(r)) = l - r.offset /\ l \in Nat
      /\ s.offset = r.offset
  BY TreesAre
<1>5. m = [[[s EXCEPT !.given = m.given] EXCEPT !.cur_tree = m.cur_tree] EXCEPT !.offset = l]
  <2> DEFINE h == s.given \o (IF s.cur_tree.state = DONE THEN <<>> ELSE sub.reader.given)
  <2>1. m = [[[s EXCEPT !.given = h] EXCEPT !.cur_tree = sub.reader] EXCEPT !.offset = l]
    BY DEF Again, TreeGives
  <2>2. m.given = h
    <3> HIDE DEF h, l, m
    <3> QED  BY <1>2, <2>1 DEF Reader
  <2> HIDE DEF h, m
  <2> QED  BY <1>1, <2>1, <2>2
<1>6. x.used = Len(Rest(m)) <=> y.used = Len(Rest(s))
  <2>1. x.used = Len(q) <=> y.used = Len(Rest(s))  BY <1>3, <1>4
  <2> QED  BY <1>1, <2>1
<1> DEFINE o == IF y.used > 0 THEN s.offset + y.used ELSE s.offset
<1>7. o = IF x.used > 0 THEN m.offset + x.used ELSE m.offset
  <2> HIDE DEF x, y, m, l
  <2>1. PICK i \in Int, j \in Int, n \in Int, w \in Int :
          i = x.used /\ j = Len(Rest(r)) /\ n = r.offset /\ w = l
    BY <1>3, <1>4
  <2>2. j > 0 /\ n >= 0 /\ i >= 0 /\ j = w - n  BY <1>3, <1>4, <2>1
  <2>3. s.offset = n /\ m.offset = w /\ y.used = j + i  BY <1>1, <1>3, <1>4, <2>1
  <2>4. o = n + (j + i)
    <3>1. j + i > 0  BY <2>2
    <3> QED  BY <2>3, <3>1
  <2>5. (IF x.used > 0 THEN m.offset + x.used ELSE m.offset) = w + i
    <3>1. CASE i > 0  BY <2>1, <2>3, <3>1
    <3>2. CASE i = 0
      <4>1. w + i = w  BY <3>2
      <4> QED  BY <2>1, <2>3, <3>2, <4>1
    <3> QED  BY <2>2, <3>1, <3>2
  <2>6. n + (j + i) = w + i  BY <2>2
  <2> QED  BY <2>4, <2>5, <2>6
<1>8. /\ TreeGives(m, x) = [m EXCEPT !.given = g] /\ TreeGives(s, y) = [s EXCEPT !.given = g]
  BY <1>3 DEF TreeGives
<1> HIDE DEF x, y, m, g, l, o
<1>9. TreeStays(m, x) = TreeStays(s, y)
  <2>1. TreeStays(m, x) = [[[m EXCEPT !.given = g] EXCEPT !.cur_tree = x.reader] EXCEPT !.offset = b]
    BY <1>1, <1>8 DEF TreeStays
  <2>2. TreeStays(s, y) = [[[s EXCEPT !.given = g] EXCEPT !.cur_tree = x.reader] EXCEPT !.offset = b]
    BY <1>3, <1>8 DEF TreeStays
  <2> HIDE DEF b
  <2> QED  BY <1>2, <1>5, <2>1, <2>2 DEF Reader
<1>10. TreeOver(m, x) = TreeOver(s, y)
  <2>1. TreeOver(m, x) = [[[[m EXCEPT !.given = g] EXCEPT !.state = LOOKING] EXCEPT !.cur_tree = <<>>]
                            EXCEPT !.offset = o]
    BY <1>7, <1>8 DEF TreeOver
  <2>2. TreeOver(s, y) = [[[[s EXCEPT !.given = g] EXCEPT !.state = LOOKING] EXCEPT !.cur_tree = <<>>]
                            EXCEPT !.offset = o]
    BY <1>8 DEF TreeOver, o
  <2> QED  BY <1>2, <1>5, <2>1, <2>2 DEF Reader
<1>11. /\ x.used = Len(Rest(m)) => InTree(m, shrink, used) = End(TreeStays(m, x), shrink, used)
       /\ x.used # Len(Rest(m)) => InTree(m, shrink, used) = Turn(TreeOver(m, x), shrink, used)
  <2>1. x = ReadValue(m.cur_tree, Rest(m))  BY DEF x
  <2> QED  BY <1>1, <2>1, InTreeIs
<1>12. /\ y.used = Len(Rest(s)) => InTree(s, shrink, used) = End(TreeStays(s, y), shrink, used)
       /\ y.used # Len(Rest(s)) => InTree(s, shrink, used) = Turn(TreeOver(s, y), shrink, used)
  <2>1. y = ReadValue(s.cur_tree, Rest(s))  BY DEF y
  <2> QED  BY <1>2, <2>1, InTreeIs
<1> QED  BY <1>6, <1>9, <1>10, <1>11, <1>12 DEF m

(* One turn where there is a tree: the longer loop does as the short one,   *)
(* or the short one ends, and the other goes on from there.                 *)
LEMMA TreeJoins ==
  ASSUME NEW root, NEW b1, NEW size, NEW old, NEW q, NEW b2, NEW size2,
         Joint(root, b1, size, old, q, b2, size2),
         NEW t, NEW u, Pair(root, b1, size, q, b2, size2, t, u), ~Over(t), t.reader.state = TREE
  PROVE \/ Pair(root, b1, size, q, b2, size2, Body(t, old), Body(u, old))
        \/ \A v : Leads(t, old, v) => Joined(u, old, v, size, q)
<1> DEFINE r == t.reader
           s == u.reader
           c == r.cur_tree
           p == Rest(r)
           sub == ReadValue(c, p)
           tub == ReadValue(s.cur_tree, Rest(s))
           n == Len(q)
<1>1. Together(root, b1, size, q, b2, size2, t, u)  BY PairIs
<1>2. /\ InLoop(t, root, b1, size) /\ InLoop(u, root, b2, size2)
      /\ Reader(r) /\ r.buffer = b1 /\ Reader(s) /\ s.buffer = b2 /\ s.offset = r.offset
      /\ Moved(r, s, 0, n) /\ SameFields(r, s) /\ t.ends = FALSE /\ u.ends = FALSE
      /\ t.used = size /\ u.used = size2 /\ t.shrink = -1 /\ u.shrink = -1 /\ ~Over(u)
      /\ r.offset \in 0..Len(b1)
  <2>1. TREE # VALUE  BY DEF TREE, VALUE
  <2> HIDE DEF r, s, n
  <2> QED  BY <1>1, <2>1 DEF Together, r, s, n
<1>3. /\ root \in {Root, Tree} /\ b1 \in Seq(Letters) /\ b2 \in Seq(Letters) /\ q \in Seq(Letters)
      /\ Len(b1) \in Nat /\ n \in Nat /\ Len(b2) = Len(b1) + n /\ n > 0
      /\ old \in Nat /\ size \in Int /\ size2 \in Int /\ size2 = size + n
      /\ size = Len(b1) - old /\ size2 = Len(b2) - old
  BY JointIs
<1>4. Runs(t, root, b1, size) /\ Runs(u, root, b2, size2)  BY DEF Pair
<1>5. IsSeq(r.given) /\ Rests(c) /\ root = Root  BY <1>2, <1>4 DEF Runs, InLoop
<1>6. q # <<>> /\ b2 = b1 \o q /\ (\A c1, p1 : Rests(c1) /\ p1 \in Seq(Letters) => ValueJoins(c1, p1, q))
  BY <1>5 DEF Joint
<1>7. r.offset \in Nat /\ r.offset < Len(b1)
  <2>1. ~(r.offset >= Len(b1))  BY <1>2 DEF Over
  <2> QED  BY <1>2, <1>3, <2>1
<1>8. p \in Seq(Letters)  BY <1>2, RestIs
<1>9. Trees(r, s, q, sub)
  <2>1. ValueJoins(c, p, q)  BY <1>5, <1>6, <1>8
  <2> QED  BY <1>2, <1>3, <1>5, <1>6, <1>7, <2>1 DEF Trees
<1>10. /\ p # <<>> /\ Len(p) \in Nat /\ Len(p) > 0 /\ Rest(s) = p \o q
       /\ Len(p) = Len(b1) - r.offset /\ s.cur_tree = c
  BY <1>2, <1>9, TreesAre DEF SameFields
<1>11. sub.used \in 0..Len(p) /\ (sub.used # Len(p) => sub.reader.state = DONE) /\ Rests(sub.reader)
  BY <1>5, <1>8, ReadValueRests
<1>12. Body(t, old) = InTree(r, -1, size) /\ Body(u, old) = InTree(s, -1, size2)
  <2>1. s.state = TREE  BY <1>2 DEF SameFields
  <2> QED  BY <1>2, <2>1 DEF Body
<1>13. CASE sub.used # Len(p)
  <2> DEFINE x == ReadValue(sub.reader, q)
  <2>1. x.reader = sub.reader  BY <1>3, <1>6, <1>11, <1>13, DoneStays
  <2>2. tub.reader = sub.reader /\ tub.used = sub.used
    <3>1. tub = ReadValue(c, p \o q)  BY <1>10
    <3>2. ValueJoins(c, p, q)  BY <1>5, <1>6, <1>8
    <3>3. tub.reader = x.reader /\ tub.used = IF sub.used = Len(p) THEN Len(p) + x.used ELSE sub.used
      BY <3>1, <3>2 DEF ValueJoins
    <3> HIDE DEF tub, x, sub
    <3> QED  BY <1>13, <2>1, <3>3
  <2>3. sub.used \in Int /\ sub.used <= Len(p) /\ sub.used < Len(p)  BY <1>10, <1>11, <1>13
  <2> HIDE DEF sub, tub, n
  <2>4. MovedTurn(InTree(r, -1, size), InTree(s, -1, size + n), 0, n, n)
    <3>1. /\ sub = ReadValue(r.cur_tree, Rest(r)) /\ tub = ReadValue(s.cur_tree, Rest(s))
          /\ sub.used < Len(Rest(r)) /\ sub.used <= Len(Rest(r)) /\ sub.used \in Int
      BY <2>3 DEF sub, tub
    <3>2. /\ 0 \in Nat /\ n \in Nat /\ n \in Int /\ Reader(r) /\ Reader(s) /\ Moved(r, s, 0, n)
          /\ size \in Int
      BY <1>2, <1>3
    <3> HIDE DEF r, s
    <3> QED  BY <2>2, <3>1, <3>2, InTreeMoved
  <2>5. InTree(r, -1, size) = Turn(TreeOver(r, sub), -1, size)
    BY <1>2, <1>13, InTreeIs DEF sub
  <2>6. Body(t, old).ends = FALSE /\ Body(t, old).reader = TreeOver(r, sub)
    BY <1>12, <2>5 DEF Turn
  <2>7. TreeOver(r, sub).state = LOOKING
    BY <1>2 DEF TreeOver, TreeGives, Reader
  <2>8. ~Partial(LOOKING)  BY DEF Partial, LOOKING
  <2>9. Runs(Body(t, old), root, b1, size) /\ Runs(Body(u, old), root, b2, size2)
    BY <1>2, <1>3, <1>4, BodyRuns
  <2>10. Pair(root, b1, size, q, b2, size2, Body(t, old), Body(u, old))
    BY <1>3, <1>12, <2>4, <2>6, <2>7, <2>8, <2>9 DEF Pair, n
  <2> QED  BY <2>10
<1>14. CASE sub.used = Len(p)
  <2> DEFINE m == Again(r, s, sub)
             z == End(TreeStays(r, sub), -1, size)
             w == Turn(m, -1, size2)
  <2>1. Body(t, old) = z
    <3> HIDE DEF z, sub
    <3> QED  BY <1>2, <1>12, <1>14, InTreeIs DEF z, sub
  <2>2. IsAgain(r, s, q, sub, m)  BY <1>9, AgainIs
  <2>3. InTree(m, -1, size2) = InTree(s, -1, size2)
    <3> HIDE DEF sub
    <3> QED  BY <1>9, <1>14, TreeAgain
  <2> HIDE DEF m, sub
  <2>4. /\ Reader(m) /\ Moved(TreeStays(r, sub), m, 0, n) /\ m.buffer = b2
        /\ m.offset = Len(b1) /\ m.cur_tree = sub.reader /\ m.state = TREE /\ m.root = s.root
        /\ m.given = r.given \o (IF c.state = DONE THEN <<>> ELSE sub.reader.given)
    BY <1>2, <2>2 DEF IsAgain
  <2>5. /\ z.reader = TreeStays(r, sub) /\ z.shrink = -1 /\ z.used = size /\ z.ends = TRUE
        /\ w.reader = m /\ w.shrink = -1 /\ w.used = size2 /\ w.ends = FALSE
        /\ w = [reader |-> m, shrink |-> -1, used |-> size2, ends |-> FALSE]
    BY DEF End, Turn
  <2> HIDE DEF z, w
  <2>6. Runs(z, root, b1, size)
    <3>1. ~Over(t)  OBVIOUS
    <3> QED  BY <1>3, <1>4, <2>1, <3>1, BodyRuns
  <2>7. Runs(w, root, b2, size2)
    <3>1. IsSeq(sub.reader.given)  BY <1>11 DEF Rests, sub
    <3>2. IsSeq(m.given)
      <4>1. IsSeq(r.given \o <<>>) /\ IsSeq(r.given \o sub.reader.given)
        BY <1>5, <3>1, SeqsAre
      <4> QED  BY <2>4, <4>1
    <3>3. m.root = root /\ TREE # VALUE /\ ~Partial(TREE)
      BY <1>2, <2>4 DEF InLoop, TREE, VALUE, Partial
    <3>4. -1 \in -1..m.offset /\ size2 <= size2  BY <1>3, <2>4
    <3>5. InLoop(w, root, b2, size2)
      BY <1>3, <1>5, <2>4, <2>5, <3>3, <3>4 DEF InLoop
    <3>6. Rests(m.cur_tree)  BY <1>11, <2>4 DEF sub
    <3> QED  BY <2>5, <3>2, <3>5, <3>6 DEF Runs
  <2>8. Over(z)  BY <2>5 DEF Over
  <2>9. Body(w, old) = Body(u, old)
    <3>1. Body(w, old) = InTree(m, -1, size2)  BY <2>4, <2>5 DEF Body
    <3> QED  BY <1>12, <2>3, <3>1
  <2>10. ~Over(w)
    <3>1. ~(Len(b1) >= Len(b2))  BY <1>3
    <3> QED  BY <2>4, <2>5, <3>1 DEF Over
  <2>11. ASSUME NEW y, Leads(w, old, y) PROVE Leads(u, old, y)
    BY <1>2, <2>9, <2>10, <2>11, LeadsFrom
  <2>12. Joined(u, old, z, size, q)
    <3>1. w.shrink = z.shrink /\ Moved(z.reader, w.reader, 0, Len(q)) /\ ~w.ends /\ z.used = size
      BY <2>4, <2>5
    <3> QED  BY <2>6, <2>7, <2>8, <2>11, <3>1, JoinedBy
  <2>13. ASSUME NEW v, Leads(t, old, v) PROVE v = z
    <3>1. Leads(z, old, v)  BY <2>1, <2>13, LeadsFrom
    <3>2. Leads(z, old, z)  BY <2>8, LeadsFrom
    <3> QED  BY <3>1, <3>2, LeadsOnce
  <2> QED  BY <2>12, <2>13
<1> QED  BY <1>13, <1>14

(* One turn that looks for a tag.                                           *)
LEMMA StopsThere ==
  ASSUME NEW t, NEW old, ~Over(t), NEW z, z.ends = TRUE, Stops(Body(t, old), z),
         NEW v, Leads(t, old, v)
  PROVE v = z
<1> DEFINE a == Body(t, old)
<1>1. Leads(a, old, v)  BY LeadsFrom
<1>2. Over(z) /\ Leads(z, old, z)
  <2>1. Over(z)  BY DEF Over
  <2> QED  BY <2>1, LeadsFrom
<1> HIDE DEF a
<1>3. CASE a = z  BY <1>1, <1>2, <1>3, LeadsOnce
<1>4. CASE Partial(a.reader.state) /\ ~Over(a) /\ End(BackToTag(a.reader), a.shrink, a.used) = z
  <2>1. Body(a, old) = z  BY <1>4 DEF Body, ValueBody, Partial, DONE, TREE
  <2>2. Leads(z, old, v)  BY <1>1, <1>4, <2>1, LeadsFrom
  <2> QED  BY <1>2, <2>2, LeadsOnce
<1> QED  BY <1>3, <1>4 DEF Stops, a

LEMMA LookJoins ==
  ASSUME NEW root, NEW b1, NEW size, NEW old, NEW q, NEW b2, NEW size2,
         Joint(root, b1, size, old, q, b2, size2),
         NEW t, NEW u, Pair(root, b1, size, q, b2, size2, t, u), ~Over(t),
         t.reader.state \in {NULL, LOOKING, VALUE}
  PROVE \/ Pair(root, b1, size, q, b2, size2, Body(t, old), Body(u, old))
        \/ \A v : Leads(t, old, v) => Joined(u, old, v, size, q)
<1> DEFINE r == t.reader
           s == u.reader
           n == Len(q)
           e == NextTag(r)
           a == Look(r, t.shrink, t.used)
           c == Look(s, u.shrink, u.used)
           z == End([r EXCEPT !.offset = e], t.shrink, t.used)
           m == [s EXCEPT !.offset = e]
           w == Turn(m, u.shrink, u.used)
<1>1. Together(root, b1, size, q, b2, size2, t, u)  BY PairIs
<1>2. /\ InLoop(t, root, b1, size) /\ InLoop(u, root, b2, size2)
      /\ Reader(r) /\ r.buffer = b1 /\ Reader(s) /\ s.buffer = b2 /\ s.offset = r.offset
      /\ Moved(r, s, 0, n) /\ SameFields(r, s) /\ t.ends = FALSE /\ u.ends = FALSE
      /\ t.used = size /\ u.used = size2 /\ u.shrink = t.shrink /\ ~Over(u)
      /\ r.offset \in 0..Len(b1)
  <2> HIDE DEF r, s, n
  <2> QED  BY <1>1 DEF Together, r, s, n
<1>3. /\ root \in {Root, Tree} /\ b1 \in Seq(Letters) /\ b2 \in Seq(Letters) /\ q \in Seq(Letters)
      /\ Len(b1) \in Nat /\ n \in Nat /\ Len(b2) = Len(b1) + n /\ n > 0
      /\ old \in Nat /\ size \in Int /\ size2 \in Int
      /\ size = Len(b1) - old /\ size2 = Len(b2) - old
  BY JointIs
<1>4. Runs(t, root, b1, size) /\ Runs(u, root, b2, size2) /\ MovedTurn(t, u, 0, n, n)
  BY DEF Pair
<1>5. Body(t, old) = a /\ Body(u, old) = c
  BY <1>2 DEF Body, ValueBody, Partial, DONE, TREE, NULL, LOOKING, VALUE, SameFields
<1>6. Alike(a, c, 0, n, n) \/ (n > 0 /\ Stops(a, z))
  <2>1. 0 \in Nat /\ n \in Int  BY <1>3
  <2> HIDE DEF n
  <2> QED  BY <1>2, <1>3, <1>4, <2>1, LookMoved
<1>7. Looked(r, a, z)
  <2>1. IsSeq(r.given)  BY <1>4 DEF Runs
  <2> QED  BY <1>2, <2>1, LookLooked
<1>8. Runs(a, root, b1, size) /\ Runs(c, root, b2, size2)
  <2>1. Runs(Body(t, old), root, b1, size) /\ Runs(Body(u, old), root, b2, size2)
    BY <1>2, <1>3, <1>4, BodyRuns
  <2> QED  BY <1>5, <2>1
<1> HIDE DEF a, c, z
<1>9. Alike(a, c, 0, n, n) /\ ~a.ends => Pair(root, b1, size, q, b2, size2, a, c)
  BY <1>3, <1>8 DEF Alike, Pair, n
<1>10. a.ends => Stops(a, z)  BY <1>7 DEF Looked, Stops
<1>11. CASE Stops(a, z)
  <2> SUFFICES ASSUME NEW v, Leads(t, old, v) PROVE Joined(u, old, v, size, q)  OBVIOUS
  <2>1. /\ z.reader = [r EXCEPT !.offset = e] /\ z.shrink = t.shrink /\ z.used = size
        /\ z.ends = TRUE
    BY <1>2 DEF z, End
  <2>2. v = z  BY <1>5, <1>11, <2>1, StopsThere
  <2>3. Runs(z, root, b1, size) /\ Over(z)  BY <1>3, <1>4, <2>2, LeadsRuns
  <2>4. e \in r.offset..Len(b1) /\ e \in Nat
    <3>1. e \in r.offset..Len(b1)  BY <1>2, NextTagIs
    <3> HIDE DEF e, r
    <3> QED  BY <1>2, <1>3, <3>1
  <2>5. e \in s.offset..NextTag(s)
    <3> DEFINE f == NextTag(s)
    <3>1. f >= e - 0
      <4>1. 0 \in Nat /\ n \in Nat /\ Reader(r) /\ Reader(s) /\ Moved(r, s, 0, n)
        BY <1>2, <1>3
      <4> HIDE DEF n, r, s
      <4>2. NextTag(s) >= NextTag(r) - 0  BY <4>1, NextTagMoved
      <4> QED  BY <4>2
    <3>2. f \in s.offset..Len(b2)  BY <1>2, NextTagIs
    <3> HIDE DEF e, f, r, s
    <3>3. e \in s.offset..f  BY <1>2, <1>3, <2>4, <3>1, <3>2
    <3> QED  BY <3>3 DEF f
  <2>6. Reader(m) /\ m.buffer = b2 /\ m.offset = e /\ m.state = r.state /\ m.root = s.root
        /\ m.given = r.given /\ m.cur_tree = r.cur_tree
    <3>1. e \in 0..Len(b2)  BY <1>2, <1>3, <2>4
    <3> HIDE DEF e
    <3>2. Reader(m)  BY <1>2, <3>1, ReaderExcept, Zenon
    <3>3. m.buffer = s.buffer /\ m.offset = e /\ m.state = s.state /\ m.root = s.root
          /\ m.given = s.given /\ m.cur_tree = s.cur_tree
      BY <1>2 DEF Reader
    <3> QED  BY <1>2, <3>2, <3>3 DEF SameFields
  <2>7. Moved(z.reader, m, 0, n)
    <3>1. 0 <= e /\ e = e - 0 /\ 0 \in Nat  BY <2>4
    <3> HIDE DEF e, n
    <3>2. Moved([r EXCEPT !.offset = e], m, 0, n)  BY <1>2, <1>3, <3>1, MovedExcept
    <3> QED  BY <2>1, <3>2
  <2>8. /\ w.reader = m /\ w.shrink = t.shrink /\ w.used = size2 /\ w.ends = FALSE
        /\ w = [reader |-> m, shrink |-> t.shrink, used |-> size2, ends |-> FALSE]
    BY <1>2 DEF Turn
  <2>9. Look(m, u.shrink, u.used) = c  BY <1>2, <2>5, LookFrom DEF c
  <2> HIDE DEF w, m, e
  <2>10. Body(w, old) = Body(u, old)
    <3>1. ~Partial(m.state) /\ m.state # DONE /\ m.state # TREE
      BY <2>6 DEF Partial, DONE, TREE, NULL, LOOKING, VALUE
    <3>2. Body(w, old) = Look(m, t.shrink, size2)  BY <2>8, <3>1 DEF Body, ValueBody
    <3> QED  BY <1>2, <1>5, <2>9, <3>2
  <2>11. ~Over(w)
    <3>1. ~(e >= Len(b2))  BY <1>3, <2>4, <1>2
    <3> QED  BY <2>6, <2>8, <3>1 DEF Over
  <2>12. Runs(w, root, b2, size2)
    <3>1. t.shrink \in -1..r.offset /\ (t.shrink = -1 <=> r.state # VALUE)
      BY <1>2 DEF InLoop
    <3>2. t.shrink \in -1..m.offset
      <4> HIDE DEF r
      <4> QED  BY <1>2, <1>3, <2>4, <2>6, <3>1
    <3>3. ~Partial(m.state) /\ m.state # TREE
      BY <2>6 DEF Partial, TREE, NULL, LOOKING, VALUE
    <3>4. size2 <= size2 /\ s.root = root  BY <1>2, <1>3 DEF InLoop
    <3>5. InLoop(w, root, b2, size2)
      BY <1>3, <2>6, <2>8, <3>1, <3>2, <3>3, <3>4 DEF InLoop
    <3>6. IsSeq(m.given)  BY <1>4, <2>6 DEF Runs
    <3> QED  BY <2>8, <3>3, <3>5, <3>6 DEF Runs
  <2>13. ASSUME NEW y, Leads(w, old, y) PROVE Leads(u, old, y)
    BY <1>2, <2>10, <2>11, <2>13, LeadsFrom
  <2>14. w.shrink = z.shrink /\ Moved(z.reader, w.reader, 0, Len(q)) /\ ~w.ends /\ z.used = size
    BY <2>1, <2>7, <2>8
  <2>15. Joined(u, old, z, size, q)
    BY <2>3, <2>12, <2>13, <2>14, JoinedBy
  <2> QED  BY <2>2, <2>15
<1> QED  BY <1>3, <1>5, <1>6, <1>9, <1>10, <1>11

LEMMA BodyJoins ==
  ASSUME NEW root, NEW b1, NEW size, NEW old, NEW q, NEW b2, NEW size2,
         Joint(root, b1, size, old, q, b2, size2),
         NEW t, NEW u, Pair(root, b1, size, q, b2, size2, t, u), ~Over(t)
  PROVE \/ Pair(root, b1, size, q, b2, size2, Body(t, old), Body(u, old))
        \/ \A v : Leads(t, old, v) => Joined(u, old, v, size, q)
<1>1. ~Partial(t.reader.state)  BY DEF Pair
<1>2. t.reader.state \in 0..6
  <2>1. Together(root, b1, size, q, b2, size2, t, u)  BY PairIs
  <2> QED  BY <2>1 DEF Together, Reader
<1>3. t.reader.state \in {NULL, LOOKING, VALUE} \/ t.reader.state = TREE \/ t.reader.state = DONE
  BY <1>1, <1>2 DEF Partial, NULL, LOOKING, VALUE, TREE, DONE
<1>4. CASE t.reader.state \in {NULL, LOOKING, VALUE}  BY <1>4, LookJoins
<1>5. CASE t.reader.state = TREE  BY <1>5, TreeJoins
<1>6. CASE t.reader.state = DONE
  <2>1. ASSUME NEW v, Leads(t, old, v) PROVE Joined(u, old, v, size, q)
    BY <1>6, <2>1, DoneJoins
  <2> QED  BY <2>1
<1> QED  BY <1>3, <1>4, <1>5, <1>6

LEMMA OverJoins ==
  ASSUME NEW root, NEW b1, NEW size, NEW old, NEW q, NEW b2, NEW size2,
         Joint(root, b1, size, old, q, b2, size2),
         NEW t, NEW u, Pair(root, b1, size, q, b2, size2, t, u), Over(t)
  PROVE Joined(u, old, t, size, q)
<1>1. Together(root, b1, size, q, b2, size2, t, u)  BY PairIs
<1>2. /\ t.used = size /\ ~u.ends /\ u.shrink = t.shrink /\ Moved(t.reader, u.reader, 0, Len(q))
  BY <1>1 DEF Together
<1>3. Runs(t, root, b1, size) /\ Runs(u, root, b2, size2)  BY DEF Pair
<1>4. \A y : Leads(u, old, y) => Leads(u, old, y)  OBVIOUS
<1> QED  BY <1>2, <1>3, <1>4, JoinedBy

LEMMA Resumes ==
  ASSUME NEW root, NEW b1, NEW size, NEW old, NEW q, NEW b2, NEW size2,
         Joint(root, b1, size, old, q, b2, size2),
         NEW t, NEW u, Pair(root, b1, size, q, b2, size2, t, u), NEW v, Leads(t, old, v)
  PROVE Joined(u, old, v, size, q)
<1>1. PICK n \in Nat : LeadsIn(n, t, old, v)  BY DEF Leads
<1>2. Over(v)  BY DEF Leads
<1> DEFINE Both(x, y) == Pair(root, b1, size, q, b2, size2, x, y)
           Follows(x, y) == Joined(y, old, v, size, q)
           P == {i \in 0..n : \A x, y : Both(x, y) /\ LeadsIn(i, x, old, v) => Follows(x, y)}
<1>3. ASSUME NEW x, NEW y, Both(x, y), x = v PROVE Follows(x, y)
  BY <1>2, <1>3, OverJoins
<1>4. 0 \in P
  <2>1. ASSUME NEW x, NEW y, Both(x, y), LeadsIn(0, x, old, v) PROVE Follows(x, y)
    <3>1. x = v  BY <2>1, LeadsNow
    <3> HIDE DEF Both, Follows
    <3> QED  BY <1>3, <2>1, <3>1
  <2> HIDE DEF Both, Follows
  <2> QED  BY <2>1
<1>5. ASSUME NEW i \in 0..(n - 1), i \in P PROVE i + 1 \in P
  <2>1. ASSUME NEW x, NEW y, Both(x, y), LeadsIn(i + 1, x, old, v) PROVE Follows(x, y)
    <3>1. i \in Nat  OBVIOUS
    <3>2. LeadsIn(i, DataTurn(x, old), old, v)  BY <2>1, <3>1, LeadsNext
    <3>3. i + 1 \in Nat  BY <3>1
    <3>4. Leads(x, old, v)  BY <1>2, <2>1, <3>3 DEF Leads
    <3>5. CASE Over(x)
      <4>1. Leads(x, old, x)  BY <3>5, LeadsFrom
      <4>2. x = v  BY <3>4, <4>1, LeadsOnce
      <4> HIDE DEF Both, Follows
      <4> QED  BY <1>3, <2>1, <4>2
    <3>6. CASE ~Over(x)
      <4>1. CASE Both(Body(x, old), Body(y, old))
        <5>1. LeadsIn(i, Body(x, old), old, v)  BY <3>2, <3>6 DEF DataTurn
        <5>2. Follows(Body(x, old), Body(y, old))
          <6> HIDE DEF Both, Follows
          <6> QED  BY <1>5, <4>1, <5>1
        <5>3. ~Over(y)
          <6>1. Together(root, b1, size, q, b2, size2, x, y)  BY <2>1, PairIs
          <6> QED  BY <6>1 DEF Together
        <5>4. ASSUME NEW w, JoinedAt(Body(y, old), old, v, size, w) PROVE JoinedAt(y, old, v, size, w)
          BY <5>3, <5>4, LeadsFrom DEF JoinedAt
        <5> QED  BY <5>2, <5>4 DEF Joined
      <4>2. CASE \A w : Leads(x, old, w) => Joined(y, old, w, size, q)
        BY <3>4, <4>2
      <4> QED  BY <2>1, <3>6, <4>1, <4>2, BodyJoins
    <3> QED  BY <3>5, <3>6
  <2>2. i + 1 \in 0..n  OBVIOUS
  <2> HIDE DEF Both, Follows
  <2> QED  BY <2>1, <2>2
<1> HIDE DEF P
<1>6. 0..n \subseteq P  BY <1>4, <1>5, UpTo
<1>7. n \in P  BY <1>6
<1>8. Both(t, u) /\ LeadsIn(n, t, old, v)  BY <1>1
<1>9. Follows(t, u)
  <2> HIDE DEF Both, Follows
  <2> QED  BY <1>7, <1>8 DEF P
<1> QED  BY <1>9

(* The first turns of the two.                                              *)
LEMMA FirstPair ==
  ASSUME NEW root \in {Root, Tree}, NEW r, Waits(r, root), NEW p \in Seq(Letters),
         NEW q \in Seq(Letters), q # <<>>,
         root = Root => \A c, a : Rests(c) /\ a \in Seq(Letters) => ValueJoins(c, a, q)
  PROVE LET b1 == r.buffer \o p
            b2 == b1 \o q
        IN  /\ Joint(root, b1, Len(p), Len(r.buffer), q, b2, Len(p) + Len(q))
            /\ Pair(root, b1, Len(p), q, b2, Len(p) + Len(q), First(r, p), First(r, p \o q))
<1> DEFINE b1 == r.buffer \o p
           b2 == b1 \o q
           t == First(r, p)
           u == First(r, p \o q)
           n == Len(q)
<1>1. Kept(r, root) /\ Reader(r) /\ ~Partial(r.state)  BY DEF Waits, Kept
<1>2. r.buffer \in Seq(Letters) /\ r.offset \in Nat /\ r.offset <= Len(r.buffer)
  BY <1>1 DEF Reader
<1>3. /\ p \o q \in Seq(Letters) /\ Len(p \o q) = Len(p) + n /\ r.buffer \o (p \o q) = b2
      /\ b1 \in Seq(Letters) /\ Len(b1) = Len(r.buffer) + Len(p)
      /\ Len(r.buffer) \in Nat /\ Len(p) \in Nat /\ n \in Nat
  <2>1. \A a, b, c \in Seq(Letters) : /\ b \o c \in Seq(Letters) /\ Len(b \o c) = Len(b) + Len(c)
                                     /\ Len(a) \in Nat
                                     /\ a \o (b \o c) = (a \o b) \o c
    OBVIOUS
  <2> QED  BY <1>2, <2>1
<1>4. /\ b2 \in Seq(Letters) /\ Len(b2) = Len(b1) + n /\ \A i \in 1..Len(b1) : b2[i] = b1[i]
  <2>1. b1 \in Seq(Letters)  BY <1>3
  <2> HIDE DEF b1
  <2> QED  BY <2>1
<1>5. Runs(t, root, b1, Len(p))  BY FirstRuns
<1>6. Runs(u, root, b2, Len(p) + n)
  <2>1. Runs(u, root, r.buffer \o (p \o q), Len(p \o q))  BY <1>3, FirstRuns
  <2> QED  BY <1>3, <2>1
<1>7. /\ t.reader = [r EXCEPT !.buffer = b1] /\ u.reader = [r EXCEPT !.buffer = b2]
      /\ t.shrink = u.shrink /\ t.shrink \in {0, -1} /\ t.used = Len(p) /\ u.used = Len(p) + n
      /\ t.ends = FALSE /\ u.ends = FALSE
  <2>1. /\ [r EXCEPT !.buffer = @ \o p] = [r EXCEPT !.buffer = b1]
        /\ [r EXCEPT !.buffer = @ \o (p \o q)] = [r EXCEPT !.buffer = r.buffer \o (p \o q)]
    OBVIOUS
  <2> HIDE DEF b1, b2, n
  <2>2. [r EXCEPT !.buffer = @ \o (p \o q)] = [r EXCEPT !.buffer = b2]  BY <1>3, <2>1
  <2>3. u = Turn([r EXCEPT !.buffer = @ \o (p \o q)], IF r.state = VALUE THEN 0 ELSE -1, Len(p \o q))
    BY DEF First
  <2>4. t = Turn([r EXCEPT !.buffer = @ \o p], IF r.state = VALUE THEN 0 ELSE -1, Len(p))
    BY DEF First
  <2> HIDE DEF t, u
  <2> QED  BY <1>3, <2>1, <2>2, <2>3, <2>4 DEF Turn
<1> HIDE DEF b1, b2, t, u, n
<1>8. Moved(t.reader, u.reader, 0, n)
  <2>1. /\ SameFields(t.reader, u.reader) /\ t.reader.offset = r.offset /\ u.reader.offset = r.offset
        /\ t.reader.buffer = b1 /\ u.reader.buffer = b2
    BY <1>1, <1>7 DEF Reader, SameFields
  <2>2. 0 <= r.offset /\ r.offset = r.offset - 0 /\ Len(b2) = Len(b1) - 0 + n
    BY <1>2, <1>3, <1>4
  <2>3. \A i \in (0 + 1)..Len(b1) : b2[i - 0] = b1[i]
    <3>1. ASSUME NEW i \in (0 + 1)..Len(b1) PROVE b2[i - 0] = b1[i]
      <4>1. i \in 1..Len(b1) /\ i - 0 = i  BY <1>3, <3>1
      <4> QED  BY <1>4, <4>1
    <3> QED  BY <3>1
  <2> QED  BY <2>1, <2>2, <2>3 DEF Moved
<1>9. MovedTurn(t, u, 0, n, n)
  <2>1. \/ t.shrink = -1 /\ u.shrink = -1
        \/ t.shrink # -1 /\ 0 <= t.shrink /\ u.shrink = t.shrink - 0
    BY <1>7
  <2> QED  BY <1>7, <1>8, <2>1 DEF MovedTurn
<1>10. t.reader.state = r.state  BY <1>1, <1>7 DEF Reader
<1>11. Pair(root, b1, Len(p), q, b2, Len(p) + n, t, u)
  BY <1>1, <1>5, <1>6, <1>7, <1>9, <1>10 DEF Pair, n
<1>12. Joint(root, b1, Len(p), Len(r.buffer), q, b2, Len(p) + n)
  <2>1. Len(p) = Len(b1) - Len(r.buffer)  BY <1>3
  <2>2. b2 = b1 \o q  BY DEF b2
  <2> QED  BY <1>3, <2>1, <2>2 DEF Joint, n
<1> QED  BY <1>11, <1>12 DEF b1, b2, t, u, n

-----------------------------------------------------------------------------
(* A value's reader gets the same from two pieces as from one.              *)
LEMMA RestsWaits == ASSUME NEW c, Rests(c) PROVE Waits(c, Tree) /\ Kept(c, Tree)
<1>1. Kept(c, Tree) /\ IsSeq(c.given)  BY DEF Rests
<1>2. c.state # TREE  BY <1>1, ReaderAssumption DEF Kept
<1> QED  BY <1>1, <1>2 DEF Waits

LEMMA ValueResumes ==
  ASSUME NEW c, Rests(c), NEW p \in Seq(Letters), NEW q \in Seq(Letters), q # <<>>
  PROVE ValueJoins(c, p, q)
<1>1. Waits(c, Tree) /\ Kept(c, Tree)  BY RestsWaits
<1>2. PICK v : Leads(First(c, p), Len(c.buffer), v) /\ ReadValue(c, p) = Shrink(v)
  BY <1>1, ValueLoopEnds
<1>3. Rests(Shrink(v).reader)  BY <1>2, ReadValueRests
<1>4. Kept(Shrink(v).reader, Tree)  BY <1>3, RestsWaits
<1>5. PICK x : /\ Leads(First(Shrink(v).reader, q), Len(Shrink(v).reader.buffer), x)
               /\ ReadValue(Shrink(v).reader, q) = Shrink(x)
  BY <1>4, ValueLoopEnds
<1>6. p \o q \in Seq(Letters)  OBVIOUS
<1>7. PICK z : Leads(First(c, p \o q), Len(c.buffer), z) /\ ReadValue(c, p \o q) = Shrink(z)
  BY <1>1, <1>6, ValueLoopEnds
<1> DEFINE b1 == c.buffer \o p
           b2 == b1 \o q
<1>8. /\ Joint(Tree, b1, Len(p), Len(c.buffer), q, b2, Len(p) + Len(q))
      /\ Pair(Tree, b1, Len(p), q, b2, Len(p) + Len(q), First(c, p), First(c, p \o q))
  BY <1>1, ReaderAssumption, FirstPair
<1> HIDE DEF b1, b2
<1>9. Joined(First(c, p \o q), Len(c.buffer), v, Len(p), q)  BY <1>2, <1>8, Resumes
<1>10. JoinedAt(First(c, p \o q), Len(c.buffer), v, Len(p), x)  BY <1>5, <1>9 DEF Joined
<1>11. PICK y : /\ Leads(First(c, p \o q), Len(c.buffer), y) /\ Shrink(y).reader = Shrink(x).reader
                /\ Shrink(y).used = IF Shrink(v).used = Len(p) THEN Len(p) + Shrink(x).used
                                    ELSE Shrink(v).used
  BY <1>10 DEF JoinedAt
<1>12. y = z  BY <1>7, <1>11, LeadsOnce
<1> QED  BY <1>2, <1>5, <1>7, <1>11, <1>12 DEF ValueJoins

(* The same of the data's, whose values' readers do.                        *)
LEMMA DataResumes ==
  ASSUME NEW text \in Seq(Letters), NEW r, KeptData(r, text), Waits(r, Root),
         NEW p \in Seq(Letters), NEW q \in Seq(Letters), q # <<>>
  PROVE Read(Read(r, p).reader, q).reader = Read(r, p \o q).reader
<1>1. /\ p \o q \in Seq(Letters) /\ text \o p \in Seq(Letters)  OBVIOUS
<1>2. PICK v : Leads(First(r, p), Len(r.buffer), v) /\ Read(r, p) = Shrink(v)  BY DataLoopEnds
<1>3. KeptData(Shrink(v).reader, text \o p)  BY <1>2, <1>1, DataRead
<1> DEFINE text2 == text \o p
           pq == p \o q
           s == Shrink(v).reader
<1>4. PICK x : Leads(First(s, q), Len(s.buffer), x) /\ Read(s, q) = Shrink(x)
  <2>1. text2 \in Seq(Letters) /\ KeptData(s, text2)  BY <1>1, <1>3
  <2> HIDE DEF text2, s
  <2> QED  BY <2>1, DataLoopEnds
<1>5. PICK z : Leads(First(r, pq), Len(r.buffer), z) /\ Read(r, pq) = Shrink(z)
  <2>1. pq \in Seq(Letters)  BY <1>1
  <2> HIDE DEF pq
  <2> QED  BY <2>1, DataLoopEnds
<1> DEFINE b1 == r.buffer \o p
           b2 == b1 \o q
<1>6. \A c, a : Rests(c) /\ a \in Seq(Letters) => ValueJoins(c, a, q)  BY ValueResumes
<1>7. /\ Joint(Root, b1, Len(p), Len(r.buffer), q, b2, Len(p) + Len(q))
      /\ Pair(Root, b1, Len(p), q, b2, Len(p) + Len(q), First(r, p), First(r, p \o q))
  BY <1>6, FirstPair
<1> HIDE DEF b1, b2
<1>8. Joined(First(r, p \o q), Len(r.buffer), v, Len(p), q)  BY <1>2, <1>7, Resumes
<1>9. JoinedAt(First(r, p \o q), Len(r.buffer), v, Len(p), x)  BY <1>4, <1>8 DEF Joined
<1>10. PICK y : Leads(First(r, p \o q), Len(r.buffer), y) /\ Shrink(y).reader = Shrink(x).reader
  BY <1>9 DEF JoinedAt
<1>11. y = z  BY <1>5, <1>10, LeadsOnce
<1> QED  BY <1>2, <1>4, <1>5, <1>10, <1>11

LEMMA ReadWaits ==
  ASSUME NEW text \in Seq(Letters), NEW r, KeptData(r, text), Waits(r, Root), NEW p \in Seq(Letters)
  PROVE Waits(Read(r, p).reader, Root)
<1>1. PICK v : Leads(First(r, p), Len(r.buffer), v) /\ Read(r, p) = Shrink(v)  BY DataLoopEnds
<1> DEFINE b == r.buffer \o p
<1>2. r.buffer \in Seq(Letters)  BY DEF Waits, Kept, Reader
<1>3. b \in Seq(Letters) /\ Len(r.buffer) \in Nat /\ Len(p) \in Int /\ Len(p) = Len(b) - Len(r.buffer)
  BY <1>2
<1>4. Runs(First(r, p), Root, b, Len(p))  BY FirstRuns
<1> HIDE DEF b
<1>5. Runs(v, Root, b, Len(p)) /\ Over(v)  BY <1>1, <1>3, <1>4, LeadsRuns
<1> QED  BY <1>1, <1>3, <1>5, ShrinkWaits


-----------------------------------------------------------------------------
(* A feed as a whole: its steps are the children's, or leave them alone.    *)

LEMMA FeedStepIsChildrens == [FeedNext]_feedVars => [ChildrenNext]_childrenVars
BY DEF FeedNext, feedVars, Open, ParserEnds, EndOfFile, ReadError, ReadPiece, Elsewhere,
       ChildrenNext, FeedSteps, Child

(* What is proved of the children holds of those of a feed: reading adds    *)
(* no step to them.                                                         *)
THEOREM FeedIsChildren == FeedSpec => ChildrenSpec
<1>1. FeedInit => ChildrenInit  BY DEF FeedInit
<1> QED  BY <1>1, FeedStepIsChildrens, PTL DEF FeedSpec, ChildrenSpec

LEMMA FeedInvariant == FeedSpec => [](ChildrenInv /\ StreamInv)
<1>1. FeedSpec => []ChildrenInv  BY FeedIsChildren, ChildrenInvariant, PTL
<1>2. FeedSpec => []StreamInv  BY StreamInitHolds, StreamStepHolds, PTL DEF FeedSpec
<1> QED  BY <1>1, <1>2, PTL

(* The readers keep no more of the text than a tag that is cut off, or a    *)
(* value's text, and that it is the text's end, for every text the parser   *)
(* writes and wherever read cuts it.                                        *)
THEOREM FeedTypes == FeedSpec => []FeedTypeOK
<1>1. ChildrenInv /\ StreamInv => FeedTypeOK
  <2> SUFFICES ASSUME ChildrenInv, StreamInv PROVE FeedTypeOK  OBVIOUS
  <2>1. ChildrenTypeOK  BY DEF ChildrenInv
  <2>2. CASE doc = Closed
    <3>1. main # "reading" /\ consumed = 0 /\ written = 0 /\ reader = NoReader
      BY <2>2 DEF StreamInv
    <3>2. doc = Closed <=> main # "reading"  BY <2>2, <3>1
    <3> QED  BY <2>1, <2>2, <3>1, <3>2 DEF FeedTypeOK
  <2>3. CASE doc # Closed
    <3>1. /\ main = "reading" /\ doc \in Documents /\ written \in Nat /\ consumed \in 0..written
          /\ written <= TextSize(doc) /\ KeptData(reader, SubSeq(TextOf[doc], 1, consumed))
      BY <2>3 DEF StreamInv
    <3>2. consumed \in 0..TextSize(doc)  BY <3>1, TextIs
    <3>3. Keeps(reader)  BY <3>1, <3>2, KeptKeeps DEF KeptData
    <3>4. reader.state = TREE => Keeps(reader.cur_tree)  BY <3>1, <3>2, KeptKeeps DEF KeptData
    <3>5. doc = Closed <=> main # "reading"  BY <2>3, <3>1
    <3> QED  BY <2>1, <2>3, <3>1, <3>3, <3>4, <3>5 DEF FeedTypeOK
  <2> QED  BY <2>2, <2>3
<1> QED  BY <1>1, FeedInvariant, PTL

(* The loop of a read that may come ends: its last turn is what is kept.   *)
EveryReadEnds ==
  \A n \in Pieces : consumed + n <= written =>
    LET piece == SubSeq(TextOf[doc], consumed + 1, consumed + n)
    IN  \E t : Over(t) /\ Read(reader, piece) = Shrink(t)

(* No feed is stuck in a read: the loop of every read there may be ends,    *)
(* though it goes back over labels that are cut off.                        *)
THEOREM ReadsEnd == FeedSpec => [](main = "reading" => EveryReadEnds)
<1>1. ASSUME StreamInv, main = "reading" PROVE EveryReadEnds
  <2> SUFFICES ASSUME NEW n \in Pieces, consumed + n <= written
               PROVE LET piece == SubSeq(TextOf[doc], consumed + 1, consumed + n)
                     IN  \E t : Over(t) /\ Read(reader, piece) = Shrink(t)
    BY DEF EveryReadEnds
  <2> DEFINE text == SubSeq(TextOf[doc], 1, consumed)
             piece == SubSeq(TextOf[doc], consumed + 1, consumed + n)
  <2>1. /\ doc \in Documents /\ written \in Nat /\ consumed \in 0..written
        /\ written <= TextSize(doc) /\ KeptData(reader, text)
    BY <1>1 DEF StreamInv
  <2>2. n \in Nat  BY FeedAssumption
  <2>3. TextOf[doc] \in Seq(Letters) /\ TextSize(doc) = Len(TextOf[doc])  BY <2>1, TextIs
  <2>4. text \in Seq(Letters) /\ piece \in Seq(Letters)  BY <1>1, <2>1, <2>2, <2>3
  <2> HIDE DEF text, piece
  <2>5. \E t : Over(t) /\ Read(reader, piece) = Shrink(t)  BY <2>1, <2>4, DataLoopEnds
  <2> QED  BY <2>5 DEF piece
<1>2. StreamInv => (main = "reading" => EveryReadEnds)  BY <1>1
<1> QED  BY <1>2, FeedInvariant, PTL

(* A feed: what the reader is after some letters depends on them only.      *)
ReadAtOnce == IF consumed = 0 THEN NoReader ELSE Read(NoReader, SubSeq(TextOf[doc], 1, consumed)).reader

PiecesInv ==
  doc # Closed => Waits(reader, Root) /\ reader = ReadAtOnce

LEMMA NoReaderWaits == Waits(NoReader, Root)
<1>1. KeptData(NoReader, <<>>)  BY NoReaderKept
<1>2. NoReader.given = <<>> /\ NoReader.state = NULL  BY DEF NoReader, NewReader
<1>3. IsSeq(<<>>)  BY DEF IsSeq
<1> QED  BY <1>1, <1>2, <1>3 DEF Waits, KeptData, NULL, TREE

LEMMA NoReaderResumes ==
  ASSUME NEW p \in Seq(Letters), NEW q \in Seq(Letters), q # <<>>
  PROVE Read(Read(NoReader, p).reader, q).reader = Read(NoReader, p \o q).reader
<1> DEFINE none == <<>>
           r == NoReader
<1>1. none \in Seq(Letters) /\ KeptData(r, none) /\ Waits(r, Root)
  BY NoReaderKept, NoReaderWaits
<1> HIDE DEF none, r
<1>2. Read(Read(r, p).reader, q).reader = Read(r, p \o q).reader  BY <1>1, DataResumes
<1> QED  BY <1>2 DEF r

LEMMA PiecesInitHolds == FeedInit => PiecesInv
BY DEF FeedInit, PiecesInv

LEMMA PiecesStepHolds == StreamInv /\ StreamInv' /\ PiecesInv /\ [FeedNext]_feedVars => PiecesInv'
<1> SUFFICES ASSUME StreamInv, StreamInv', PiecesInv, [FeedNext]_feedVars PROVE PiecesInv'
  OBVIOUS
<1>1. CASE Open
  <2>1. consumed' = 0 /\ reader' = NoReader  BY <1>1 DEF Open
  <2> QED  BY <2>1, NoReaderWaits DEF PiecesInv, ReadAtOnce
<1>2. CASE EndOfFile \/ ReadError
  BY <1>2 DEF EndOfFile, ReadError, Close, PiecesInv
<1>3. ASSUME NEW n \in Pieces, ReadPiece(n) PROVE PiecesInv'
  <2> DEFINE all == TextOf[doc]
             c == consumed
             e == consumed'
             piece == SubSeq(all, c + 1, e)
  <2>1. /\ main = "reading" /\ e = c + n /\ reader' = Read(reader, piece).reader
        /\ doc' = doc /\ n \in Nat /\ n > 0 /\ written' = written /\ e <= written
    BY <1>3, FeedAssumption DEF ReadPiece
  <2>2. /\ doc # Closed /\ doc \in Documents /\ written \in Nat /\ c \in 0..written
        /\ written <= TextSize(doc) /\ KeptData(reader, SubSeq(all, 1, c))
    BY <2>1 DEF StreamInv
  <2>3. all \in Seq(Letters) /\ TextSize(doc) = Len(all)  BY <2>2, TextIs
  <2>4. c \in Nat /\ e \in Nat /\ c < e /\ e <= Len(all) /\ Len(all) \in Nat
    BY <2>1, <2>2, <2>3
  <2>5. /\ SubSeq(all, 1, c) \in Seq(Letters) /\ piece \in Seq(Letters) /\ Len(piece) = e - c
        /\ SubSeq(all, 1, c) \o piece = SubSeq(all, 1, e)
    <3> HIDE DEF all, c, e
    <3> QED  BY <2>3, <2>4
  <2>6. Waits(reader, Root) /\ reader = ReadAtOnce  BY <2>2 DEF PiecesInv
  <2>7. piece # <<>>
    <3> HIDE DEF piece, c, e
    <3> QED  BY <2>4, <2>5
  <2>8. Waits(reader', Root)
    <3> HIDE DEF piece, all, c, e
    <3> QED  BY <2>1, <2>2, <2>5, <2>6, ReadWaits
  <2>9. reader' = Read(NoReader, SubSeq(all, 1, e)).reader
    <3>1. CASE c = 0
      <4>1. reader = NoReader  BY <2>6, <3>1 DEF ReadAtOnce
      <4>2. piece = SubSeq(all, 1, e)  BY <3>1
      <4> QED  BY <2>1, <4>1, <4>2
    <3>2. CASE c # 0
      <4>1. reader = Read(NoReader, SubSeq(all, 1, c)).reader  BY <2>6, <3>2 DEF ReadAtOnce
      <4> HIDE DEF piece, all, c, e
      <4>2. Read(Read(NoReader, SubSeq(all, 1, c)).reader, piece).reader
              = Read(NoReader, SubSeq(all, 1, c) \o piece).reader
        BY <2>5, <2>7, NoReaderResumes
      <4> QED  BY <2>1, <2>5, <4>1, <4>2
    <3> QED  BY <3>1, <3>2
  <2>10. ReadAtOnce' = Read(NoReader, SubSeq(all, 1, e)).reader
    <3>1. ReadAtOnce' = IF consumed' = 0 THEN NoReader
                        ELSE Read(NoReader, SubSeq(TextOf[doc'], 1, consumed')).reader
      BY DEF ReadAtOnce
    <3> QED  BY <2>1, <2>4, <3>1
  <2> QED  BY <2>8, <2>9, <2>10 DEF PiecesInv
<1>4. CASE \/ ParserEnds \/ Elsewhere(Exec) \/ Elsewhere(ForkWget) \/ Elsewhere(PipeFails)
           \/ Elsewhere(ForkParserFails) \/ Elsewhere(MainReaps) \/ Elsewhere(MainHasNone)
           \/ Elsewhere(Handler) \/ Elsewhere(ChildExits) \/ UNCHANGED feedVars
  <2>1. UNCHANGED <<doc, consumed, reader>>
    BY <1>4 DEF ParserEnds, Elsewhere, stream, feedVars
  <2> QED  BY <2>1 DEF PiecesInv, ReadAtOnce
<1> QED  BY <1>1, <1>2, <1>3, <1>4 DEF FeedNext

(* While main reads the parser's text the reader is, whatever pieces the    *)
(* text came in, what one read of all of it would have left: the values it  *)
(* gave to insert_value, what it keeps and what it is inside of             *)
(* (XmlReader::read, Feeder::start_feed).                                   *)
THEOREM PiecesMakeNoDifference ==
  FeedSpec => [](main = "reading" => reader = ReadAtOnce)
<1>1. StreamInv /\ [FeedNext]_feedVars => StreamInv'  BY StreamStepHolds
<1>2. FeedInit => StreamInv /\ PiecesInv  BY StreamInitHolds, PiecesInitHolds
<1>3. StreamInv /\ StreamInv' /\ PiecesInv /\ [FeedNext]_feedVars => PiecesInv'
  BY PiecesStepHolds
<1>4. StreamInv /\ PiecesInv => (main = "reading" => reader = ReadAtOnce)
  BY DEF StreamInv, PiecesInv
<1> QED  BY <1>1, <1>2, <1>3, <1>4, PTL DEF FeedSpec

-----------------------------------------------------------------------------
(* Storing.  Whatever fails and whenever the feeder is restarted,           *)
(* values_cache only ever keeps from the database what the database has, and*)
(* what it has stays: for every set of codes, times and prices.             *)

USE StoreAssumption

(* The invariant is inductive as it stands.                                 *)
StoreInv == StoreTypeOK /\ CacheIsRecorded

LEMMA StoreInitHolds == StoreInit => StoreInv
<1> SUFFICES ASSUME StoreInit PROVE StoreInv  OBVIOUS
<1>1. page \in [Codes -> [day : 0..MaxDay, time : Times, price : Prices]]
  <2>1. \A t \in Times, p \in Prices :
          Quote(0, t, p) \in [day : 0..MaxDay, time : Times, price : Prices]
    BY DEF Quote
  <2> DEFINE P == {Quote(0, t, p) : t \in Times, p \in Prices}
  <2>2. P \subseteq [day : 0..MaxDay, time : Times, price : Prices]  BY <2>1
  <2>3. page \in [Codes -> P]  BY DEF StoreInit
  <2> HIDE DEF P
  <2> QED  BY <2>2, <2>3
<1>2. DOMAIN rows = {}  BY DEF StoreInit
<1>3. cache \in [Codes -> Times \cup {Never}] /\ CacheIsRecorded
  BY DEF StoreInit, CacheIsRecorded
<1> QED  BY <1>1, <1>2, <1>3 DEF StoreInit, StoreInv, StoreTypeOK

(* A step that leaves the tables, the cache and the day of a recorded row   *)
(* alone leaves what the cache promises.                                    *)
LEMMA RecordedStays ==
  ASSUME StoreTypeOK, CacheIsRecorded, today' \in Nat, today' >= today,
         DOMAIN rows \subseteq DOMAIN rows', cache' = cache
  PROVE CacheIsRecorded'
BY DEF StoreTypeOK, CacheIsRecorded

(* What InsertRow does to the table and to the cache.                       *)
LEMMA RowInserted ==
  ASSUME StoreTypeOK, CacheIsRecorded, InsertRow
  PROVE /\ CacheIsRecorded'
        /\ DOMAIN rows' \subseteq Codes \X (1..MaxDay) \X Times
        /\ \A k \in DOMAIN rows' : rows'[k] \in Prices
        /\ \A k \in DOMAIN rows : k \in DOMAIN rows' /\ rows'[k] = rows[k]
        /\ cache' \in [Codes -> Times \cup {Never}]
<1> DEFINE key == Key(current)
<1>1. current \in ValueType  BY DEF StoreTypeOK, InsertRow
<1>2. /\ current.code \in Codes /\ current.time \in Times /\ current.price \in Prices
      /\ key = <<current.code, today, current.time>> /\ today \in 1..MaxDay
  BY <1>1 DEF ValueType, Key, StoreTypeOK
<1>3. CASE Inserts
  <2>1. /\ rows' = [k \in DOMAIN rows \cup {key} |->
                      IF k = key THEN current.price ELSE rows[k]]
        /\ cache' = [cache EXCEPT ![current.code] = current.time]
        /\ today' = today /\ key \notin DOMAIN rows
    BY <1>3 DEF InsertRow, Inserts
  <2>2. DOMAIN rows' = DOMAIN rows \cup {key}  BY <2>1
  <2>3. \A c \in Codes : cache'[c] = IF c = current.code THEN current.time ELSE cache[c]
    BY <2>1 DEF StoreTypeOK
  <2>4. CacheIsRecorded'
    <3> SUFFICES ASSUME NEW c \in Codes, cache'[c] # Never
                 PROVE \E d \in 1..today' : <<c, d, cache'[c]>> \in DOMAIN rows'
      BY DEF CacheIsRecorded
    <3>1. CASE c = current.code
      <4>1. <<c, today, cache'[c]>> = key  BY <1>2, <2>3, <3>1
      <4>2. today \in 1..today'  BY <1>2, <2>1
      <4> QED  BY <2>2, <4>1, <4>2
    <3>2. CASE c # current.code
      <4>1. \E d \in 1..today : <<c, d, cache[c]>> \in DOMAIN rows
        BY <2>3, <3>2 DEF CacheIsRecorded
      <4> QED  BY <2>1, <2>2, <2>3, <3>2, <4>1
    <3> QED  BY <3>1, <3>2
  <2>5. cache' \in [Codes -> Times \cup {Never}]  BY <1>2, <2>1 DEF StoreTypeOK
  <2>6. DOMAIN rows' \subseteq Codes \X (1..MaxDay) \X Times  BY <1>2, <2>2 DEF StoreTypeOK
  <2>7. \A k \in DOMAIN rows' : rows'[k] \in Prices  BY <1>2, <2>1 DEF StoreTypeOK
  <2>8. \A k \in DOMAIN rows : k \in DOMAIN rows' /\ rows'[k] = rows[k]  BY <2>1
  <2> QED  BY <2>4, <2>5, <2>6, <2>7, <2>8
<1>4. CASE ~Inserts
  <2>1. rows' = rows /\ cache' = cache /\ today' = today  BY <1>4 DEF InsertRow
  <2> QED  BY <2>1 DEF StoreTypeOK, CacheIsRecorded
<1> QED  BY <1>3, <1>4

(* Each step keeps the invariant and every row.                             *)
LEMMA StoreStepHolds ==
  ASSUME StoreInv, [StoreNext]_storeVars
  PROVE StoreInv' /\ \A k \in DOMAIN rows : k \in DOMAIN rows' /\ rows'[k] = rows[k]
<1> USE DEF StoreInv
<1>0. today \in Nat  BY DEF StoreTypeOK
<1>1. ASSUME NEW c \in Codes, NEW t \in Times, NEW p \in Prices, Publish(c, t, p)
      PROVE StoreInv' /\ rows' = rows
  <2>1. StoreTypeOK'  BY <1>1 DEF StoreTypeOK, Publish, Quote
  <2>2. cache' = cache /\ rows' = rows /\ today' = today  BY <1>1 DEF Publish
  <2> QED  BY <1>0, <2>1, <2>2, RecordedStays
<1>2. ASSUME NextDay  PROVE StoreInv' /\ rows' = rows
  <2>1. StoreTypeOK'  BY <1>2 DEF StoreTypeOK, NextDay, storeBounds
  <2>2. cache' = cache /\ rows' = rows /\ today' = today + 1  BY <1>2 DEF NextDay
  <2> QED  BY <1>0, <2>1, <2>2, RecordedStays
<1>3. ASSUME Fetch  PROVE StoreInv' /\ rows' = rows
  <2>1. \A c \in Codes : Shown(c) => Value(c) \in ValueType
    BY DEF Shown, Value, ValueType, StoreTypeOK
  <2>2. StoreTypeOK'  BY <1>3, <2>1 DEF StoreTypeOK, Fetch, storeBounds
  <2>3. cache' = cache /\ rows' = rows /\ today' = today  BY <1>3 DEF Fetch
  <2> QED  BY <1>0, <2>2, <2>3, RecordedStays
<1>4. ASSUME NEW v \in feed, NextValue(v)  PROVE StoreInv' /\ rows' = rows
  <2>1. v \in ValueType  BY DEF StoreTypeOK
  <2>2. StoreTypeOK'  BY <1>4, <2>1 DEF StoreTypeOK, NextValue, storeBounds
  <2>3. cache' = cache /\ rows' = rows /\ today' = today  BY <1>4 DEF NextValue
  <2> QED  BY <1>0, <2>2, <2>3, RecordedStays
<1>5. ASSUME InsertId  PROVE StoreInv' /\ rows' = rows
  <2>1. current.code \in Codes  BY <1>5 DEF InsertId, StoreTypeOK, ValueType
  <2>2. StoreTypeOK'  BY <1>5, <2>1 DEF StoreTypeOK, InsertId, MayFail
  <2>3. cache' = cache /\ rows' = rows /\ today' = today  BY <1>5 DEF InsertId
  <2> QED  BY <1>0, <2>2, <2>3, RecordedStays
<1>6. ASSUME InsertRow
      PROVE StoreInv' /\ \A k \in DOMAIN rows : k \in DOMAIN rows' /\ rows'[k] = rows[k]
  <2>1. /\ statement' = "next" /\ failures' \in 0..MaxFailures
        /\ UNCHANGED <<today, page, feed, current, ids, quotes>>
    BY <1>6 DEF StoreTypeOK, InsertRow, MayFail
  <2>2. StoreTypeOK'  BY <1>6, <2>1, RowInserted DEF StoreTypeOK
  <2> QED  BY <1>6, <2>2, RowInserted
<1>7. ASSUME FeedStored  PROVE StoreInv' /\ rows' = rows
  <2>1. StoreTypeOK'  BY <1>7 DEF StoreTypeOK, FeedStored, storeBounds
  <2>2. cache' = cache /\ rows' = rows /\ today' = today  BY <1>7 DEF FeedStored
  <2> QED  BY <1>0, <2>1, <2>2, RecordedStays
<1>8. ASSUME Restart  PROVE StoreInv' /\ rows' = rows
  <2>1. StoreTypeOK'  BY <1>8 DEF StoreTypeOK, Restart
  <2>2. CacheIsRecorded'  BY <1>8 DEF CacheIsRecorded, Restart
  <2> QED  BY <1>8, <2>1, <2>2 DEF Restart
<1>9. CASE UNCHANGED storeVars
  BY <1>9 DEF storeVars, storeBounds, StoreTypeOK, CacheIsRecorded, Shown
<1> QED
  BY <1>1, <1>2, <1>3, <1>4, <1>5, <1>6, <1>7, <1>8, <1>9 DEF StoreNext, Step

(* Both the types and the cache's promise are kept by every step.           *)
THEOREM StoreTypes == StoreSpec => []StoreTypeOK
BY StoreInitHolds, StoreStepHolds, PTL DEF StoreSpec, StoreInv

(* A time in values_cache is a row's: no value is withheld from the         *)
(* database because of an insert that failed.                               *)
THEOREM CacheKeepsWhatIsThere == StoreSpec => []CacheIsRecorded
BY StoreInitHolds, StoreStepHolds, PTL DEF StoreSpec, StoreInv

(* No step changes or removes a stored quote.                               *)
THEOREM RowsAreForGood == StoreSpec => RowsStay
<1>1. StoreInv /\ [StoreNext]_storeVars =>
        [\A k \in DOMAIN rows : k \in DOMAIN rows' /\ rows'[k] = rows[k]]_storeVars
  BY StoreStepHolds
<1> QED  BY <1>1, StoreInitHolds, StoreStepHolds, PTL DEF StoreSpec, RowsStay

HIDE StoreAssumption

-----------------------------------------------------------------------------
(* Registrations, for any set of managers, any durations and any number of  *)
(* restarts, losses and duplicates.                                         *)

USE NotificationAssumption DEF NotificationAssumption

(* The bounds are naturals.                                                 *)
LEMMA BoundsAreNaturals == MaxRestarts \in Nat /\ MaxDuplicates \in Nat /\ MaxPings \in Nat
  OBVIOUS

(* Delivering a datagram puts none on the network.                          *)
LEMMA DeliverTypes ==
  ASSUME NotificationTypeOK, NEW d \in Datagram, Deliver(d)
  PROVE  net' \subseteq net /\ duplicates' \in 0..MaxDuplicates
  BY BoundsAreNaturals DEF Deliver, NotificationTypeOK

(* The two kinds of datagram.                                               *)
LEMMA Datagrams == \A m \in Managers : Registration(m) \in Datagram /\ NewFeed(m) \in Datagram
  BY DEF Registration, NewFeed, Datagram

(* A step keeps every variable's type.                                      *)
LEMMA NotificationTypeStep ==
  NotificationTypeOK /\ [NotificationNext]_notificationVars => NotificationTypeOK'
<1> SUFFICES ASSUME NotificationTypeOK, [NotificationNext]_notificationVars
             PROVE  NotificationTypeOK'
  OBVIOUS
<1> USE DEF NotificationTypeOK, notificationVars, noticeBounds
<1>1. CASE Announce
  <2>1. {NewFeed(m) : m \in {n \in Managers : observers'[n] # Unknown}} \subseteq Datagram
    BY Datagrams
  <2>2. observers' \in [Managers -> -1..Seconds \cup {Unknown}]
    BY <1>1 DEF Announce
  <2>. QED
    BY <1>1, <2>1, <2>2 DEF Announce
<1>2. CASE FeederRestarts
  BY <1>2, BoundsAreNaturals DEF FeederRestarts
<1>3. CASE SecondPasses
  <2>1. observers' \in [Managers -> -1..Seconds \cup {Unknown}]
    BY <1>3 DEF SecondPasses
  <2>2. heard' \in [Managers -> 0..(Seconds + 1) \cup {Unknown}]
    BY <1>3 DEF SecondPasses
  <2>3. quiet' \in [Managers -> 0..Wait]
    BY <1>3 DEF SecondPasses
  <2>. QED
    BY <1>3, <2>1, <2>2, <2>3 DEF SecondPasses
<1>4. ASSUME NEW m \in Managers, Add(m) PROVE NotificationTypeOK'
  BY <1>4, DeliverTypes, Datagrams DEF Add
<1>5. ASSUME NEW m \in Managers, Idle(m) PROVE NotificationTypeOK'
  BY <1>5, Datagrams DEF Idle
<1>6. ASSUME NEW m \in Managers, Receive(m) PROVE NotificationTypeOK'
  BY <1>6, DeliverTypes, Datagrams DEF Receive
<1>7. ASSUME NEW m \in Managers, Ping(m) PROVE NotificationTypeOK'
  BY <1>7, BoundsAreNaturals DEF Ping
<1>8. ASSUME NEW m \in Managers, ManagerStops(m) PROVE NotificationTypeOK'
  BY <1>8, BoundsAreNaturals DEF ManagerStops
<1>9. ASSUME NEW m \in Managers, ManagerStarts(m) PROVE NotificationTypeOK'
  BY <1>9 DEF ManagerStarts
<1>10. ASSUME NEW d \in Datagram, Lose(d) PROVE NotificationTypeOK'
  BY <1>10 DEF Lose
<1>11. CASE UNCHANGED notificationVars
  BY <1>11
<1>. QED
  BY <1>1, <1>2, <1>3, <1>4, <1>5, <1>6, <1>7, <1>8, <1>9, <1>10, <1>11 DEF NotificationNext

(* A registration ages as it runs out.                                      *)
LEMMA AgeStep ==
  NotificationTypeOK /\ LeftIsAge /\ [NotificationNext]_notificationVars => LeftIsAge'
<1> SUFFICES ASSUME NotificationTypeOK, LeftIsAge, [NotificationNext]_notificationVars
             PROVE  LeftIsAge'
  OBVIOUS
<1> USE DEF NotificationTypeOK, LeftIsAge
<1>1. CASE Announce
  BY <1>1 DEF Announce
<1>2. CASE FeederRestarts
  BY <1>2 DEF FeederRestarts
<1>3. CASE SecondPasses
  BY <1>3 DEF SecondPasses
<1>4. ASSUME NEW m \in Managers, Add(m) PROVE LeftIsAge'
  BY <1>4 DEF Add
<1>5. ASSUME NEW m \in Managers,
             Idle(m) \/ Receive(m) \/ Ping(m) \/ ManagerStops(m) \/ ManagerStarts(m)
      PROVE  LeftIsAge'
  BY <1>5 DEF Idle, Receive, Ping, ManagerStops, ManagerStarts
<1>6. ASSUME NEW d \in Datagram, Lose(d) PROVE LeftIsAge'
  BY <1>6 DEF Lose
<1>7. CASE UNCHANGED notificationVars
  BY <1>7 DEF notificationVars
<1>. QED
  BY <1>1, <1>2, <1>3, <1>4, <1>5, <1>6, <1>7 DEF NotificationNext

(* The event goes only to managers whose registration has not ended.        *)
LEMMA SendStep ==
  ASSUME NotificationTypeOK, LeftIsAge, [NotificationNext]_notificationVars, NEW m \in Managers,
         NewFeed(m) \in net' \ net
  PROVE  heard[m] # Unknown /\ heard[m] <= Seconds
<1>1. \A n \in Managers : NewFeed(m) # Registration(n)
  BY DEF NewFeed, Registration
<1>2. \A n \in Managers : NewFeed(m) = NewFeed(n) => m = n
  BY DEF NewFeed
<1>3. CASE Announce
  <2>1. observers'[m] # Unknown
    BY <1>2, <1>3 DEF Announce
  <2>2. observers[m] # Unknown /\ observers[m] >= 0
    BY <1>3, <2>1 DEF Announce, Expired, NotificationTypeOK
  <2>. QED
    BY <2>2 DEF NotificationTypeOK, LeftIsAge
<1>4. CASE \E n \in Managers : Idle(n)
  BY <1>1, <1>4 DEF Idle
<1>5. CASE \E n \in Managers : Add(n) \/ Receive(n)
  BY <1>5, DeliverTypes, Datagrams DEF Add, Receive
<1>6. CASE net' \subseteq net
  BY <1>6
<1>7. CASE FeederRestarts \/ SecondPasses \/ (\E d \in Datagram : Lose(d))
  BY <1>6, <1>7 DEF FeederRestarts, SecondPasses, Lose
<1>8. CASE \E n \in Managers : Ping(n) \/ ManagerStops(n) \/ ManagerStarts(n)
  BY <1>6, <1>8 DEF Ping, ManagerStops, ManagerStarts
<1>9. CASE UNCHANGED notificationVars
  BY <1>6, <1>9 DEF notificationVars
<1>. QED
  BY <1>3, <1>4, <1>5, <1>7, <1>8, <1>9 DEF NotificationNext

(* Types and ages hold throughout.                                          *)
THEOREM AgesAgree == NotificationSpec => [](NotificationTypeOK /\ LeftIsAge)
<1>1. NotificationInit => NotificationTypeOK /\ LeftIsAge
  BY DEF NotificationInit, NotificationTypeOK, LeftIsAge
<1>2. NotificationTypeOK /\ LeftIsAge /\ [NotificationNext]_notificationVars
        => (NotificationTypeOK /\ LeftIsAge)'
  BY NotificationTypeStep, AgeStep
<1>. QED
  BY <1>1, <1>2, PTL DEF NotificationSpec

(* No cruncher is notified after its registration ended, for any durations  *)
(* and whatever is lost, repeated or restarted.                             *)
THEOREM EndedAreForgotten == NotificationSpec => OnlyTheRegistered
<1> DEFINE Sent == \A m \in Managers : NewFeed(m) \in net' \ net
                      => heard[m] # Unknown /\ heard[m] <= Seconds
<1>1. NotificationTypeOK /\ LeftIsAge /\ [NotificationNext]_notificationVars
        => [Sent]_notificationVars
  BY SendStep
<1>. QED
  BY <1>1, AgesAgree, PTL DEF NotificationSpec, OnlyTheRegistered
=============================================================================
