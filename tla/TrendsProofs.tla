----------------------------- MODULE TrendsProofs -----------------------------
(***************************************************************************)
(* The window of the accumulated trends and the queue of empty days stay   *)
(* aligned with the day, for any number of days, any window, any limit and *)
(* whatever the statistics write meanwhile, whatever statements fail and   *)
(* whenever the process ends; and when both plugins are done the tables    *)
(* are filled by a process without a failed statement: by a forced one     *)
(* whatever was left before it, by another if it found the tables in step  *)
(* and its statistics never lacked more than the last day.                 *)
(***************************************************************************)
EXTENDS Trends, SequenceTheorems, FiniteSetTheorems, TLAPS

USE TrendsAssumption DEF None

(* Days in their order back.                                                *)
Down(s) == \A j, k \in DOMAIN s : j < k => s[j] > s[k]

-----------------------------------------------------------------------------
(* Sequences that go down.                                                  *)

(* A day before all of them goes to the end.                                *)
LEMMA DownAppend ==
  ASSUME NEW s \in Seq(Int), NEW d \in Int, Down(s), \A e \in ToSet(s) : d < e
  PROVE /\ Append(s, d) \in Seq(Int) /\ Down(Append(s, d))
        /\ ToSet(Append(s, d)) = ToSet(s) \cup {d}
        /\ Len(Append(s, d)) = Len(s) + 1
<1> DEFINE t == Append(s, d)
<1>1. /\ t \in Seq(Int) /\ Len(t) = Len(s) + 1 /\ Len(s) \in Nat
      /\ DOMAIN s = 1..Len(s) /\ DOMAIN t = 1..(Len(s) + 1)
      /\ \A i \in 1..Len(s) : t[i] = s[i]
      /\ t[Len(s) + 1] = d
  OBVIOUS
<1>2. \A i \in 1..Len(s) : s[i] \in Int /\ s[i] > d
  BY <1>1 DEF ToSet
<1>3. Down(t)
  BY <1>1, <1>2 DEF Down
<1>4. ToSet(t) = ToSet(s) \cup {d}
  <2>1. DOMAIN t = DOMAIN s \cup {Len(s) + 1}  BY <1>1
  <2> QED  BY <1>1, <2>1 DEF ToSet
<1> QED  BY <1>1, <1>3, <1>4

(* The first is the latest, and the others go on down.                      *)
LEMMA DownTail ==
  ASSUME NEW s \in Seq(Int), s # <<>>, Down(s)
  PROVE /\ Head(s) \in Int /\ Head(s) \in ToSet(s)
        /\ \A e \in ToSet(s) : e <= Head(s)
        /\ Tail(s) \in Seq(Int) /\ Down(Tail(s))
        /\ ToSet(Tail(s)) = ToSet(s) \ {Head(s)}
        /\ Len(Tail(s)) = Len(s) - 1
<1>1. /\ Len(s) \in Nat \ {0} /\ DOMAIN s = 1..Len(s) /\ Head(s) = s[1]
      /\ \A i \in 1..Len(s) : s[i] \in Int
  BY EmptySeq, LenProperties, ElementOfSeq
<1>2. /\ Tail(s) \in Seq(Int) /\ Len(Tail(s)) = Len(s) - 1
      /\ \A i \in 1..(Len(s) - 1) : Tail(s)[i] = s[i + 1]
  BY HeadTailProperties
<1>3. DOMAIN Tail(s) = 1..(Len(s) - 1)  BY <1>2, LenProperties
<1>4. \A j, k \in 1..Len(s) : j < k => s[j] > s[k]  BY <1>1 DEF Down
<1>5. Head(s) \in ToSet(s) /\ \A e \in ToSet(s) : e <= Head(s)
  <2>1. 1 \in DOMAIN s  BY <1>1
  <2>2. \A i \in 1..Len(s) : s[i] <= s[1]  BY <1>1, <1>4
  <2> QED  BY <1>1, <2>1, <2>2 DEF ToSet
<1>6. Down(Tail(s))
  <2> SUFFICES ASSUME NEW j \in 1..(Len(s) - 1), NEW k \in 1..(Len(s) - 1), j < k
               PROVE Tail(s)[j] > Tail(s)[k]
    BY <1>3 DEF Down
  <2>1. s[j + 1] > s[k + 1]  BY <1>1, <1>4
  <2> QED  BY <1>2, <2>1
<1>7. ToSet(Tail(s)) = ToSet(s) \ {Head(s)}
  <2>1. ASSUME NEW e \in ToSet(Tail(s))  PROVE e \in ToSet(s) /\ e # Head(s)
    <3>1. PICK i \in 1..(Len(s) - 1) : e = Tail(s)[i]  BY <1>3, <2>1 DEF ToSet
    <3>2. e = s[i + 1] /\ i + 1 \in 1..Len(s) /\ 1 < i + 1 /\ 1 \in 1..Len(s)
      BY <1>1, <1>2, <3>1
    <3>3. s[1] > s[i + 1]  BY <1>4, <3>2
    <3>4. s[1] # s[i + 1]  BY <1>1, <3>2, <3>3
    <3> QED  BY <1>1, <3>2, <3>4 DEF ToSet
  <2>2. ASSUME NEW e \in ToSet(s), e # Head(s)  PROVE e \in ToSet(Tail(s))
    <3>1. PICK i \in 1..Len(s) : e = s[i]  BY <1>1, <2>2 DEF ToSet
    <3>2. i # 1  BY <1>1, <2>2, <3>1
    <3>3. i - 1 \in 1..(Len(s) - 1) /\ Tail(s)[i - 1] = s[i]  BY <1>1, <1>2, <3>2
    <3> QED  BY <1>3, <3>1, <3>3 DEF ToSet
  <2> QED  BY <2>1, <2>2
<1> QED  BY <1>1, <1>2, <1>5, <1>6, <1>7

-----------------------------------------------------------------------------
(* The inductive invariant.                                                 *)

(* TypeOK without what only failures and restarts change.                   *)
Types ==
  /\ today \in DayRange /\ quoted \subseteq 1..today /\ statistics \subseteq quoted
  /\ trends \subseteq statistics /\ bare \subseteq trends /\ stat_day \in 0..today
  /\ DOMAIN trends_acum = DayRange /\ force \in {0} \cup Forced
  /\ pc \in {"idle", "calculate", "fill", "row"} /\ start \in 0..today
  /\ day <= start /\ day_tail <= start /\ empty_days \in Nat
  /\ Len(trend_tail) \in 0..Window
  /\ {newfeed, stcs_updates, lagged} \subseteq BOOLEAN
Told == failed \in BOOLEAN /\ mishaps \in 0..MaxMishaps

(* What WindowAndQueue says but for the front.                              *)
Shared ==
  /\ Down(trend_tail) /\ Down(empty_queue)
  /\ ToSet(trend_tail) \cup ToSet(empty_queue) = (day_tail + 1)..day
  /\ ToSet(trend_tail) \cap ToSet(empty_queue) = {}

Window_Inv ==
  /\ trend_tail \in Seq(Int) /\ empty_queue \in Seq(Int)
  /\ start \in Int /\ day \in Int /\ day_tail \in Int
  /\ pc \in {"idle", "calculate"} => trend_tail = <<>> /\ empty_queue = <<>>
  /\ pc \in {"fill", "row"} => Shared /\ day_tail <= day
  /\ pc = "row" => trend_tail # <<>>

Inv == Types /\ Window_Inv

(* In a row the day is the first of the queue or of the window.             *)
LEMMA DayIsAFront ==
  ASSUME Inv, pc = "row"
  PROVE /\ day_tail < day
        /\ QueuedDay => empty_queue # <<>> /\ Head(empty_queue) = day /\ day \notin ToSet(trend_tail)
        /\ ~QueuedDay => Head(trend_tail) = day /\ day \notin ToSet(empty_queue)
<1>1. /\ trend_tail \in Seq(Int) /\ empty_queue \in Seq(Int) /\ trend_tail # <<>>
      /\ day \in Int /\ day_tail \in Int /\ Shared
  BY DEF Inv, Window_Inv
<1>2. Head(trend_tail) \in ToSet(trend_tail) /\ \A e \in ToSet(trend_tail) : e <= Head(trend_tail)
  BY <1>1, DownTail DEF Shared
<1>3. Head(trend_tail) \in (day_tail + 1)..day  BY <1>1, <1>2 DEF Shared
<1>4. day_tail < day  BY <1>1, <1>3
<1>5. day \in ToSet(trend_tail) \cup ToSet(empty_queue)  BY <1>1, <1>4 DEF Shared
<1>6. CASE QueuedDay
  <2>1. empty_queue # <<>> /\ Head(empty_queue) = day  BY <1>6 DEF QueuedDay
  <2>2. day \in ToSet(empty_queue)  BY <1>1, <2>1, DownTail DEF Shared
  <2> QED  BY <1>1, <1>4, <1>6, <2>1, <2>2 DEF Shared
<1>7. CASE ~QueuedDay
  <2>1. day \notin ToSet(empty_queue)
    <3> SUFFICES ASSUME day \in ToSet(empty_queue)  PROVE FALSE  OBVIOUS
    <3>1. empty_queue # <<>>
      <4> SUFFICES ASSUME empty_queue = <<>>  PROVE FALSE  OBVIOUS
      <4> QED  BY DEF ToSet
    <3>2. /\ Head(empty_queue) \in ToSet(empty_queue)
          /\ \A e \in ToSet(empty_queue) : e <= Head(empty_queue)
      BY <1>1, <3>1, DownTail DEF Shared
    <3>3. Head(empty_queue) \in (day_tail + 1)..day  BY <1>1, <3>2 DEF Shared
    <3>4. Head(empty_queue) = day  BY <1>1, <3>2, <3>3
    <3> QED  BY <1>7, <3>1, <3>4 DEF QueuedDay
  <2>2. day \in ToSet(trend_tail)  BY <1>5, <2>1
  <2>3. Head(trend_tail) = day  BY <1>1, <1>2, <1>3, <2>2
  <2> QED  BY <1>4, <1>7, <2>1, <2>3
<1> QED  BY <1>6, <1>7

(* The invariant says what the property does.                               *)
LEMMA InvIsEnough ==
  ASSUME Inv
  PROVE WindowAndQueue
<1>1. pc = "row" /\ ~QueuedDay => Head(trend_tail) = day  BY DayIsAFront
<1>2. pc \in {"fill", "row"} => Shared  BY DEF Inv, Window_Inv
<1> QED  BY <1>1, <1>2 DEF WindowAndQueue, Shared, Down

LEMMA InvInit == Init => Inv
<1> SUFFICES ASSUME Init  PROVE Inv  OBVIOUS
<1>1. Window_Inv  BY DEF Init, Starts, Window_Inv
<1>2. Types
  <2>1. DOMAIN trends_acum = DayRange  BY DEF Init
  <2>2. lagged \in BOOLEAN /\ newfeed \in BOOLEAN /\ stcs_updates \in BOOLEAN
    BY DEF Init, Starts
  <2>3. statistics \subseteq quoted /\ quoted \subseteq 1..today  BY DEF Init
  <2>4. today \in Nat  BY DEF Init, DayRange
  <2> QED  BY <2>1, <2>2, <2>3, <2>4 DEF Init, Starts, Types
<1> QED  BY <1>1, <1>2 DEF Inv

LEMMA LocalsStay ==
  ASSUME Inv, UNCHANGED <<pc, start, day, window>>
  PROVE Window_Inv'
BY DEF Inv, Window_Inv, Shared, Down, window

-----------------------------------------------------------------------------
(* The steps of the world and of the statistics.                            *)

LEMMA OthersKeepInv ==
  ASSUME Inv, Quote \/ NextDay \/ Stat
  PROVE Inv'
<1>0. /\ today \in DayRange /\ quoted \subseteq 1..today /\ statistics \subseteq quoted
      /\ trends \subseteq statistics /\ bare \subseteq trends
      /\ stat_day \in 0..today /\ start \in 0..today
      /\ newfeed \in BOOLEAN /\ stcs_updates \in BOOLEAN /\ lagged \in BOOLEAN
  BY DEF Inv, Types
<1>1. UNCHANGED <<pc, start, day, window, empty_days, force>> /\ UNCHANGED tables
  BY DEF Quote, NextDay, Stat, StatBegin, StatDay, StatSame, StatTooManyEmpty, StatEnd,
         locals, world, tables
<1>2. Window_Inv'  BY <1>1, LocalsStay
<1>3. /\ today' \in DayRange /\ today <= today' /\ quoted' \subseteq 1..today'
      /\ statistics' \subseteq quoted' /\ statistics \subseteq statistics'
      /\ stat_day' \in 0..today'
  <2>1. CASE Quote
    BY <1>0, <2>1 DEF Quote, DayRange, tables
  <2>2. CASE NextDay
    BY <1>0, <2>2 DEF NextDay, DayRange, stats
  <2>3. CASE StatBegin
    BY <1>0, <2>3 DEF StatBegin, StatEnd, DayRange, world
  <2>4. CASE StatDay
    BY <1>0, <2>4 DEF StatDay, StatDayBefore, StatEnd, DayRange, world
  <2>5. CASE StatSame
    BY <1>0, <2>5 DEF StatSame, StatEnd, DayRange, world
  <2>6. CASE StatTooManyEmpty
    BY <1>0, <2>6 DEF StatTooManyEmpty, StatEnd, DayRange, world
  <2> QED  BY <2>1, <2>2, <2>3, <2>4, <2>5, <2>6 DEF Stat
<1>4. newfeed' \in BOOLEAN /\ stcs_updates' \in BOOLEAN /\ lagged' \in BOOLEAN
  <2>1. CASE Quote  BY <1>0, <2>1 DEF Quote
  <2>2. CASE NextDay  BY <1>0, <2>2 DEF NextDay, stats
  <2>3. CASE StatBegin  BY <1>0, <2>3 DEF StatBegin, StatEnd, world
  <2>4. CASE StatDay  BY <1>0, <2>4 DEF StatDay, StatDayBefore, StatEnd, world
  <2>5. CASE StatSame  BY <1>0, <2>5 DEF StatSame, StatEnd, world
  <2>6. CASE StatTooManyEmpty  BY <1>0, <2>6 DEF StatTooManyEmpty, StatEnd, world
  <2> QED  BY <2>1, <2>2, <2>3, <2>4, <2>5, <2>6 DEF Stat
<1>5. trends' = trends /\ bare' = bare /\ trends_acum' = trends_acum /\ start' = start
      /\ pc' = pc /\ day' = day /\ empty_days' = empty_days /\ force' = force
      /\ day_tail' = day_tail /\ trend_tail' = trend_tail
  BY <1>1 DEF tables, window
<1>6. start' \in 0..today'  BY <1>0, <1>3, <1>5 DEF DayRange
<1>7. Types'
  BY <1>0, <1>3, <1>4, <1>5, <1>6 DEF Inv, Types
<1> QED  BY <1>2, <1>7 DEF Inv

-----------------------------------------------------------------------------
(* The steps of the trends.                                                 *)

(* Of the types only these can change in such a step.                       *)
LEMMA TrendsTypes ==
  ASSUME Inv, UNCHANGED world, UNCHANGED stats,
         trends' \subseteq statistics, bare' \subseteq trends', DOMAIN trends_acum' = DayRange,
         stcs_updates' \in BOOLEAN,
         pc' \in {"idle", "calculate", "fill", "row"}, start' \in 0..today,
         day' <= start', day_tail' <= start', empty_days' \in Nat, Len(trend_tail') \in 0..Window
  PROVE Types'
BY DEF Inv, Types, world, stats

LEMMA BeginKeepsInv ==
  ASSUME Inv, Begin
  PROVE Inv'
<1>0. /\ today \in Nat /\ day_tail \in Int /\ day_tail <= start /\ start \in 0..today
      /\ trends \subseteq statistics /\ bare \subseteq trends
      /\ DOMAIN trends_acum = DayRange /\ Len(trend_tail) \in 0..Window
  BY DEF Inv, Types, Window_Inv, DayRange
<1>1. Types'
  <2>1. /\ UNCHANGED world /\ UNCHANGED stats /\ trends' = trends /\ bare' = bare
        /\ trends_acum' = trends_acum /\ stcs_updates' = FALSE /\ pc' = "calculate"
        /\ start' = today /\ day' = today /\ empty_days' = 0
        /\ day_tail' = day_tail /\ trend_tail' = trend_tail
    BY DEF Begin, tables, window
  <2>2. start' \in 0..today /\ day' <= start' /\ day_tail' <= start'  BY <1>0, <2>1
  <2> QED  BY <1>0, <2>1, <2>2, TrendsTypes
<1>2. Window_Inv'
  BY <1>0 DEF Inv, Window_Inv, Begin, window
<1> QED  BY <1>1, <1>2 DEF Inv

(* calculate_acum begins with an empty window at the day of the start.      *)
LEMMA ToAcumShares ==
  ASSUME Inv, pc = "calculate", ToAcum
  PROVE Window_Inv'
<1>1. trend_tail' = <<>> /\ empty_queue' = <<>> /\ day_tail' = start /\ day' = start
      /\ start' = start /\ pc' = "fill" /\ start \in Int
  BY DEF Inv, Window_Inv, ToAcum
<1>2. Shared'
  BY <1>1 DEF Shared, Down, ToSet
<1> QED  BY <1>1, <1>2 DEF Window_Inv

LEMMA CalculateKeepsInv ==
  ASSUME Inv, Calculate
  PROVE Inv'
<1>0. /\ start \in 0..today /\ day <= start /\ day_tail <= start /\ day \in Int /\ start \in Int
      /\ empty_days \in Nat /\ Len(trend_tail) \in 0..Window /\ stcs_updates \in BOOLEAN
      /\ trends \subseteq statistics /\ DOMAIN trends_acum = DayRange /\ pc = "calculate"
      /\ day_tail \in Int /\ bare \subseteq trends
  BY DEF Inv, Types, Window_Inv, Calculate, CalculateEnds, EmptyDay, InsertDay, SameDay, Calculates
<1>1. UNCHANGED world /\ UNCHANGED stats /\ stcs_updates' = stcs_updates
      /\ trends' \subseteq statistics /\ bare' \subseteq trends' /\ trends_acum' = trends_acum
  BY <1>0 DEF Calculate, CalculateEnds, EmptyDay, InsertDay, SameDay, tables
<1>2. CASE ToAcum
  <2>1. Window_Inv'  BY <1>0, <1>2, ToAcumShares
  <2>2. Types'
    BY <1>0, <1>1, <1>2, TrendsTypes DEF ToAcum
  <2> QED  BY <2>1, <2>2 DEF Inv
<1>3. CASE NextDayBack /\ empty_days' \in Nat
  <2>1. pc' = pc /\ start' = start /\ day' = day - 1 /\ day_tail' = day_tail
        /\ trend_tail' = trend_tail /\ empty_queue' = empty_queue
    BY <1>3 DEF NextDayBack, window
  <2>2. Window_Inv'  BY <1>0, <2>1 DEF Inv, Window_Inv
  <2>3. Types'  BY <1>0, <1>1, <1>3, <2>1, TrendsTypes
  <2> QED  BY <2>2, <2>3 DEF Inv
<1>4. ToAcum \/ (NextDayBack /\ empty_days' \in Nat)
  BY <1>0 DEF Calculate, CalculateEnds, EmptyDay, NothingRead, InsertDay, SameDay
<1> QED  BY <1>2, <1>3, <1>4

(* A run that ends leaves nothing.                                          *)
LEMMA ReturnKeepsInv ==
  ASSUME Inv, Return, UNCHANGED <<world, stats, tables, stcs_updates>>
  PROVE Inv'
<1>1. Types'
  BY TrendsTypes DEF Inv, Types, Return, tables, DayRange
<1>2. Window_Inv'  BY DEF Return, Window_Inv
<1> QED  BY <1>1, <1>2 DEF Inv

(* The next day of the window is taken or passed over.                      *)
LEMMA FillKeepsInv ==
  ASSUME Inv, TakeDay \/ (Fills /\ PassOver /\ UNCHANGED <<world, stats, tables, stcs_updates>>)
  PROVE Inv'
<1>0. /\ trend_tail \in Seq(Int) /\ empty_queue \in Seq(Int) /\ Shared /\ pc = "fill"
      /\ start \in Int /\ day \in Int /\ day_tail \in Int /\ day_tail <= day
      /\ day <= start /\ day_tail <= start /\ start \in 0..today
      /\ empty_days \in Nat /\ Len(trend_tail) \in 0..Window /\ Len(trend_tail) < Window
      /\ trends \subseteq statistics /\ bare \subseteq trends
      /\ DOMAIN trends_acum = DayRange /\ stcs_updates \in BOOLEAN
  BY DEF Inv, Types, Window_Inv, TakeDay, Fills
<1>1. /\ UNCHANGED world /\ UNCHANGED stats /\ UNCHANGED tables
      /\ stcs_updates' = stcs_updates /\ start' = start /\ day' = day
      /\ day_tail' = day_tail - 1
  BY DEF TakeDay, PassOver
<1>2. \A e \in ToSet(trend_tail) \cup ToSet(empty_queue) : day_tail < e
  BY <1>0 DEF Shared
<1>3. ((day_tail - 1) + 1)..day = ((day_tail + 1)..day) \cup {day_tail}
  BY <1>0
<1>4. day_tail \notin ToSet(trend_tail) /\ day_tail \notin ToSet(empty_queue)
  BY <1>0, <1>2
<1>5. CASE TakeDay
  <2>1. trend_tail' = Append(trend_tail, day_tail) /\ empty_queue' = empty_queue
        /\ pc' = pc /\ empty_days' = 0
    BY <1>5 DEF TakeDay
  <2>2. /\ trend_tail' \in Seq(Int) /\ Down(trend_tail')
        /\ ToSet(trend_tail') = ToSet(trend_tail) \cup {day_tail}
        /\ Len(trend_tail') = Len(trend_tail) + 1
    BY <1>0, <1>2, <2>1, DownAppend DEF Shared
  <2>3. ToSet(trend_tail') \cup ToSet(empty_queue') = (day_tail' + 1)..day'
    BY <1>0, <1>1, <1>3, <2>1, <2>2 DEF Shared
  <2>4. ToSet(trend_tail') \cap ToSet(empty_queue') = {}
    BY <1>0, <1>4, <2>1, <2>2 DEF Shared
  <2>5. Shared'
    BY <1>0, <2>1, <2>2, <2>3, <2>4 DEF Shared, Down
  <2>6. Window_Inv'
    BY <1>0, <1>1, <2>1, <2>2, <2>5 DEF Window_Inv
  <2>7. Types'
    BY <1>0, <1>1, <2>1, <2>2, TrendsTypes DEF tables
  <2> QED  BY <2>6, <2>7 DEF Inv
<1>6. CASE PassOver
  <2>1. empty_queue' = Append(empty_queue, day_tail) /\ trend_tail' = trend_tail
        /\ empty_days' \in Nat
        /\ (pc' = "fill" \/ (pc' = "row" /\ Len(trend_tail) > 1))
    BY <1>0, <1>6 DEF PassOver
  <2>2. /\ empty_queue' \in Seq(Int) /\ Down(empty_queue')
        /\ ToSet(empty_queue') = ToSet(empty_queue) \cup {day_tail}
    BY <1>0, <1>2, <2>1, DownAppend DEF Shared
  <2>3. ToSet(trend_tail') \cup ToSet(empty_queue') = (day_tail' + 1)..day'
    BY <1>0, <1>1, <1>3, <2>1, <2>2 DEF Shared
  <2>4. ToSet(trend_tail') \cap ToSet(empty_queue') = {}
    BY <1>0, <1>4, <2>1, <2>2 DEF Shared
  <2>5. Shared'
    BY <1>0, <2>1, <2>2, <2>3, <2>4 DEF Shared, Down
  <2>6. pc' = "row" => trend_tail' # <<>>
    <3>1. Len(<<>>) = 0  BY EmptySeq
    <3> QED  BY <2>1, <3>1
  <2>7. Window_Inv'
    BY <1>0, <1>1, <2>1, <2>2, <2>5, <2>6 DEF Window_Inv
  <2>8. Types'
    BY <1>0, <1>1, <2>1, TrendsTypes DEF tables
  <2> QED  BY <2>7, <2>8 DEF Inv
<1> QED  BY <1>5, <1>6

LEMMA FullKeepsInv ==
  ASSUME Inv, WindowFull
  PROVE Inv'
<1>0. /\ start \in 0..today /\ day <= start /\ day_tail <= start /\ empty_days \in Nat
      /\ Len(trend_tail) \in 0..Window /\ Len(trend_tail) = Window /\ stcs_updates \in BOOLEAN
      /\ trends \subseteq statistics /\ bare \subseteq trends /\ DOMAIN trends_acum = DayRange /\ pc = "fill"
  BY DEF Inv, Types, WindowFull
<1>1. /\ UNCHANGED world /\ UNCHANGED stats /\ UNCHANGED tables
      /\ stcs_updates' = stcs_updates /\ start' = start /\ day' = day /\ empty_days' = empty_days
      /\ day_tail' = day_tail /\ trend_tail' = trend_tail /\ empty_queue' = empty_queue
      /\ pc' = "row"
  BY DEF WindowFull, window
<1>2. Types'  BY <1>0, <1>1, TrendsTypes DEF tables
<1>3. trend_tail # <<>>
  <2>1. Len(<<>>) = 0  BY EmptySeq
  <2> QED  BY <1>0, <2>1
<1>4. Window_Inv'
  BY <1>0, <1>1, <1>3 DEF Inv, Window_Inv, Shared, Down
<1> QED  BY <1>2, <1>4 DEF Inv

(* With a row the day's own place is given up, in the queue or the window.  *)
LEMMA RowKeepsInv ==
  ASSUME Inv, SkipDay \/ InsertAcum \/ InsertAcumFails
  PROVE Inv'
<1>0. /\ trend_tail \in Seq(Int) /\ empty_queue \in Seq(Int) /\ Shared /\ pc = "row"
      /\ start \in Int /\ day \in Int /\ day_tail \in Int /\ trend_tail # <<>>
      /\ day <= start /\ day_tail <= start /\ start \in 0..today
      /\ empty_days \in Nat /\ Len(trend_tail) \in 0..Window
      /\ trends \subseteq statistics /\ bare \subseteq trends
      /\ DOMAIN trends_acum = DayRange /\ stcs_updates \in BOOLEAN
  BY DEF Inv, Types, Window_Inv, SkipDay, InsertAcum, InsertAcumFails
<1>1. /\ UNCHANGED world /\ UNCHANGED stats /\ trends' = trends /\ bare' = bare
      /\ stcs_updates' = stcs_updates /\ start' = start /\ day' = day - 1
      /\ day_tail' = day_tail /\ empty_days' = empty_days /\ pc' = "fill"
  BY DEF SkipDay, InsertAcum, InsertAcumFails, DayBefore, tables
<1>2. day_tail < day  BY <1>0, DayIsAFront
<1>3. (day_tail + 1)..(day - 1) = ((day_tail + 1)..day) \ {day}  BY <1>0, <1>2
<1>4. CASE SkipDay
  <2>1. QueuedDay /\ empty_queue' = Tail(empty_queue) /\ trend_tail' = trend_tail
        /\ trends_acum' = trends_acum
    BY <1>4 DEF SkipDay, tables
  <2>2. empty_queue # <<>> /\ Head(empty_queue) = day /\ day \notin ToSet(trend_tail)
    BY <1>0, <2>1, DayIsAFront
  <2>3. /\ empty_queue' \in Seq(Int) /\ Down(empty_queue')
        /\ ToSet(empty_queue') = ToSet(empty_queue) \ {day}
    BY <1>0, <2>1, <2>2, DownTail DEF Shared
  <2>4. ToSet(trend_tail') \cup ToSet(empty_queue') = (day_tail' + 1)..day'
    BY <1>0, <1>1, <1>3, <2>1, <2>2, <2>3 DEF Shared
  <2>5. ToSet(trend_tail') \cap ToSet(empty_queue') = {}
    BY <1>0, <2>1, <2>3 DEF Shared
  <2>6. Shared'
    BY <1>0, <2>1, <2>3, <2>4, <2>5 DEF Shared, Down
  <2>7. Window_Inv'
    BY <1>0, <1>1, <1>2, <2>1, <2>3, <2>6 DEF Window_Inv
  <2>8. Types'
    BY <1>0, <1>1, <2>1, TrendsTypes
  <2> QED  BY <2>7, <2>8 DEF Inv
<1>5. CASE InsertAcum \/ InsertAcumFails
  <2>1. ~QueuedDay /\ trend_tail' = Tail(trend_tail) /\ empty_queue' = empty_queue
        /\ DOMAIN trends_acum' = DOMAIN trends_acum
    BY <1>5 DEF InsertAcum, InsertAcumFails
  <2>2. Head(trend_tail) = day /\ day \notin ToSet(empty_queue)
    BY <1>0, <2>1, DayIsAFront
  <2>3. /\ trend_tail' \in Seq(Int) /\ Down(trend_tail')
        /\ ToSet(trend_tail') = ToSet(trend_tail) \ {day}
        /\ Len(trend_tail') = Len(trend_tail) - 1
    BY <1>0, <2>1, <2>2, DownTail DEF Shared
  <2>4. ToSet(trend_tail') \cup ToSet(empty_queue') = (day_tail' + 1)..day'
    BY <1>0, <1>1, <1>3, <2>1, <2>2, <2>3 DEF Shared
  <2>5. ToSet(trend_tail') \cap ToSet(empty_queue') = {}
    BY <1>0, <2>1, <2>3 DEF Shared
  <2>6. Shared'
    BY <1>0, <2>1, <2>3, <2>4, <2>5 DEF Shared, Down
  <2>7. Window_Inv'
    BY <1>0, <1>1, <1>2, <2>1, <2>3, <2>6 DEF Window_Inv
  <2>8. Len(trend_tail') \in 0..Window
    <3>1. Len(trend_tail) # 0  BY <1>0, EmptySeq
    <3> QED  BY <1>0, <2>3, <3>1
  <2>9. Types'
    BY <1>0, <1>1, <2>1, <2>8, TrendsTypes
  <2> QED  BY <2>7, <2>9 DEF Inv
<1> QED  BY <1>4, <1>5

-----------------------------------------------------------------------------

(* The statements that fail, and the process that ends.                     *)
LEMMA StatementKeepsInv ==
  ASSUME Inv, StatementFails
  PROVE Inv'
<1>0. /\ today \in DayRange /\ quoted \subseteq 1..today /\ statistics \subseteq quoted
      /\ trends \subseteq statistics /\ bare \subseteq trends /\ stat_day \in 0..today
      /\ DOMAIN trends_acum = DayRange /\ start \in 0..today /\ day <= start
      /\ day_tail <= start /\ empty_days \in Nat /\ Len(trend_tail) \in 0..Window
      /\ newfeed \in BOOLEAN /\ stcs_updates \in BOOLEAN /\ lagged \in BOOLEAN
      /\ pc \in {"idle", "calculate", "fill", "row"}
      /\ start \in Int /\ day \in Int /\ day_tail \in Int
  BY DEF Inv, Types, Window_Inv
<1>1. CASE StatFails
  <2>1. /\ UNCHANGED <<pc, start, day, window>> /\ UNCHANGED <<world, newfeed, statistics, tables>>
        /\ empty_days' = empty_days
    BY <1>1 DEF StatFails, locals
  <2>2. \/ stat_day > 1 /\ stat_day' = stat_day - 1 /\ stcs_updates' = stcs_updates
        \/ stat_day' = 0 /\ stcs_updates' = TRUE
    BY <1>1 DEF StatFails, StatDayBefore, StatEnd
  <2>3. stat_day' \in 0..today /\ stcs_updates' \in BOOLEAN
    <3>1. stat_day' \in 0..today  BY <1>0, <2>2 DEF DayRange
    <3>2. stcs_updates' \in BOOLEAN  BY <1>0, <2>2
    <3> QED  BY <3>1, <3>2
  <2>4. Window_Inv'  BY <2>1, LocalsStay
  <2>5. Types'  BY <1>0, <2>1, <2>3 DEF Inv, Types, world, tables, window
  <2> QED  BY <2>4, <2>5 DEF Inv
<1>2. CASE CodesFail
  <2>1. UNCHANGED <<pc, start, day, empty_days, window>> /\ UNCHANGED <<world, stats, tables>>
        /\ stcs_updates' = FALSE
    BY <1>2 DEF CodesFail, locals
  <2>2. Window_Inv'  BY <2>1, LocalsStay
  <2>3. Types'  BY <1>0, <2>1 DEF Inv, Types, world, stats, tables, window
  <2> QED  BY <2>2, <2>3 DEF Inv
<1>3. CASE ReadDayFails \/ InsertDayFails
  <2>1. /\ UNCHANGED world /\ UNCHANGED stats /\ stcs_updates' = stcs_updates
        /\ trends' \subseteq statistics /\ bare' \subseteq trends' /\ trends_acum' = trends_acum
        /\ pc = "calculate"
    BY <1>0, <1>3 DEF ReadDayFails, InsertDayFails, Calculates, tables
  <2>2. CASE ToAcum
    <3>1. Window_Inv'  BY <2>1, <2>2, ToAcumShares
    <3>2. Types'  BY <1>0, <2>1, <2>2, TrendsTypes DEF ToAcum
    <3> QED  BY <3>1, <3>2 DEF Inv
  <2>3. CASE NextDayBack /\ empty_days' \in Nat
    <3>1. pc' = pc /\ start' = start /\ day' = day - 1 /\ day_tail' = day_tail
          /\ trend_tail' = trend_tail /\ empty_queue' = empty_queue
      BY <2>3 DEF NextDayBack, window
    <3>2. Window_Inv'  BY <1>0, <2>1, <3>1 DEF Inv, Window_Inv
    <3>3. Types'  BY <1>0, <2>1, <2>3, <3>1, TrendsTypes
    <3> QED  BY <3>2, <3>3 DEF Inv
  <2>4. ToAcum \/ (NextDayBack /\ empty_days' \in Nat)
    BY <1>0, <1>3 DEF ReadDayFails, InsertDayFails, NothingRead
  <2> QED  BY <2>2, <2>3, <2>4
<1>4. CASE TailFails
  <2>1. Fills /\ (PassOver \/ GiveUp) /\ UNCHANGED <<world, stats, tables, stcs_updates>>
    BY <1>4 DEF TailFails
  <2> QED  BY <2>1, FillKeepsInv, ReturnKeepsInv DEF GiveUp
<1>5. CASE InsertAcumFails  BY <1>5, RowKeepsInv
<1> QED  BY <1>1, <1>2, <1>3, <1>4, <1>5 DEF StatementFails

LEMMA RestartKeepsInv ==
  ASSUME Inv, Restart
  PROVE Inv'
<1>1. Window_Inv'  BY DEF Restart, Return, Window_Inv
<1>2. Types'
  <2>1. today \in Nat /\ lagged' \in BOOLEAN  BY DEF Inv, Types, DayRange, Restart
  <2>2. /\ UNCHANGED <<today, quoted, statistics, trends, bare, trends_acum>>
        /\ stat_day' = 0 /\ force' \in {0} \cup Forced /\ pc' = "idle" /\ start' = 0 /\ day' = 0
        /\ day_tail' = 0 /\ empty_days' = 0 /\ trend_tail' = <<>>
        /\ newfeed' = TRUE /\ stcs_updates' = TRUE
    BY DEF Restart, Return, tables
  <2>3. Len(trend_tail') \in 0..Window  BY <2>2
  <2> QED  BY <2>1, <2>2, <2>3 DEF Inv, Types
<1> QED  BY <1>1, <1>2 DEF Inv

-----------------------------------------------------------------------------

LEMMA WorksKeepsInv ==
  ASSUME Inv, Works
  PROVE Inv'
<1>1. CASE Quote \/ NextDay \/ Stat  BY <1>1, OthersKeepInv
<1>2. CASE Begin  BY <1>2, BeginKeepsInv
<1>3. CASE Calculate  BY <1>3, CalculateKeepsInv
<1>4. CASE AcumEnds \/ TooManyEmpty \/ SameAcum
  BY <1>4, ReturnKeepsInv DEF AcumEnds, TooManyEmpty, GiveUp, SameAcum
<1>5. CASE TakeDay \/ PassDay  BY <1>5, FillKeepsInv DEF PassDay
<1>6. CASE WindowFull  BY <1>6, FullKeepsInv
<1>7. CASE SkipDay \/ InsertAcum  BY <1>7, RowKeepsInv
<1> QED  BY <1>1, <1>2, <1>3, <1>4, <1>5, <1>6, <1>7 DEF Works, CalculateAcum

LEMMA StutterKeepsInv ==
  ASSUME Inv, UNCHANGED vars
  PROVE Inv'
<1>1. Window_Inv'  BY LocalsStay DEF vars, locals
<1>2. Types'
  BY DEF Inv, Types, vars, world, stats, tables, locals, window
<1> QED  BY <1>1, <1>2 DEF Inv

LEMMA StepKeepsInv == Inv /\ [Next]_vars => Inv'
BY WorksKeepsInv, StatementKeepsInv, RestartKeepsInv, StutterKeepsInv DEF Next

LEMMA StepTells == Told /\ [Next]_vars => Told'
<1> SUFFICES ASSUME Told, [Next]_vars  PROVE Told'  OBVIOUS
<1>1. CASE UNCHANGED history  BY <1>1 DEF Told, history
<1>2. CASE UNCHANGED vars  BY <1>2 DEF Told, vars, history
<1>3. CASE Mishap /\ failed' \in BOOLEAN  BY <1>3 DEF Told, Mishap
<1>4. StatementFails \/ Restart => Mishap /\ failed' \in BOOLEAN
  BY DEF StatementFails, StatFails, CodesFail, ReadDayFails, InsertDayFails, TailFails,
         InsertAcumFails, Fails, Restart
<1> QED  BY <1>1, <1>2, <1>3, <1>4 DEF Next

LEMMA Invariant == Spec => [](Inv /\ Told)
<1>1. Init => Inv /\ Told
  <2>1. 0 \in 0..MaxMishaps  OBVIOUS
  <2> QED  BY <2>1, InvInit DEF Init, Starts, Told
<1>2. Inv /\ Told /\ [Next]_vars => (Inv /\ Told)'  BY StepKeepsInv, StepTells
<1> QED  BY <1>1, <1>2, PTL DEF Spec

(* The tables only have rows of days that have quotes, trends only of days  *)
(* that have statistics, and the two days a run holds stay behind its start: *)
(* also after statements that fail, and after restarts on what they left.   *)
THEOREM TypeCorrect == Spec => []TypeOK
<1>1. Inv /\ Told => TypeOK  BY DEF Inv, Types, Told, TypeOK
<1> QED  BY <1>1, Invariant, PTL

(* What calculate_acum takes as the day's own data is of that day, whatever *)
(* the statistics write while the window moves back and whatever statements *)
(* fail, for any length of the window, any limit of empty days, forced or   *)
(* not.                                                                     *)
THEOREM Aligned == Spec => []WindowAndQueue
<1>1. Inv => WindowAndQueue  BY InvIsEnough
<1> QED  BY <1>1, Invariant, PTL
-----------------------------------------------------------------------------
(* The days of a set from the latest to the first: each is where it is by   *)
(* how many are later.                                                      *)

Later(S, d) == {e \in S : e > d}

LEMMA LaterDays ==
  ASSUME NEW S \in SUBSET Int, IsFiniteSet(S), NEW d \in S
  PROVE /\ IsFiniteSet(Later(S, d))
        /\ Cardinality(Later(S, d)) \in 0..(Cardinality(S) - 1)
        /\ Cardinality(S) \in Nat
<1>1. Later(S, d) \in SUBSET S /\ d \notin Later(S, d) /\ d \in Int  BY DEF Later
<1>2. Later(S, d) # S  BY <1>1
<1>3. IsFiniteSet(Later(S, d)) /\ Cardinality(Later(S, d)) <= Cardinality(S)
      /\ Cardinality(S) # Cardinality(Later(S, d))
  BY <1>1, <1>2, FS_Subset
<1>4. Cardinality(S) \in Nat /\ Cardinality(Later(S, d)) \in Nat  BY <1>3, FS_CardinalityType
<1> QED  BY <1>3, <1>4

LEMMA FewerLater ==
  ASSUME NEW S \in SUBSET Int, IsFiniteSet(S), NEW d \in S, NEW e \in S, d < e
  PROVE Cardinality(Later(S, e)) < Cardinality(Later(S, d))
<1>1. /\ IsFiniteSet(Later(S, d)) /\ Cardinality(Later(S, d)) \in Nat
      /\ Cardinality(Later(S, e)) \in Nat
  BY LaterDays
<1>2. /\ Later(S, e) \in SUBSET Later(S, d)
      /\ e \in Later(S, d) /\ e \notin Later(S, e)
  <2>1. d \in Int /\ e \in Int /\ e > d /\ ~(e > e)  OBVIOUS
  <2>2. \A g \in S : g > e => g > d  BY <2>1
  <2> QED  BY <2>1, <2>2 DEF Later
<1>3. Later(S, e) # Later(S, d)  BY <1>2
<1>4. /\ Cardinality(Later(S, e)) <= Cardinality(Later(S, d))
      /\ Cardinality(Later(S, d)) # Cardinality(Later(S, e))
  BY <1>1, <1>2, <1>3, FS_Subset
<1> QED  BY <1>1, <1>4

LEMMA LatestFirstIsDown ==
  ASSUME NEW S \in SUBSET Int, IsFiniteSet(S)
  PROVE /\ LatestFirst(S) \in Seq(Int) /\ Len(LatestFirst(S)) = Cardinality(S)
        /\ Cardinality(S) \in Nat
        /\ Down(LatestFirst(S)) /\ ToSet(LatestFirst(S)) = S
<1> DEFINE n == Cardinality(S)
           rank == [d \in S |-> Cardinality(Later(S, d))]
           L == LatestFirst(S)
<1>1. n \in Nat  BY FS_CardinalityType
<1>2. \A d \in S : Cardinality(Later(S, d)) \in 0..(n - 1)  BY LaterDays
<1>3. \A d, e \in S : d < e => Cardinality(Later(S, e)) < Cardinality(Later(S, d))
  BY FewerLater
<1>4. \A d, e \in S : Cardinality(Later(S, e)) = Cardinality(Later(S, d)) => d = e
  <2> SUFFICES ASSUME NEW d \in S, NEW e \in S,
                      Cardinality(Later(S, e)) = Cardinality(Later(S, d)), d # e
               PROVE FALSE
    OBVIOUS
  <2>1. d < e \/ e < d  OBVIOUS
  <2>2. Cardinality(Later(S, d)) \in Int /\ Cardinality(Later(S, e)) \in Int  BY <1>2
  <2> QED  BY <1>3, <2>1, <2>2
<1>5. rank \in Injection(S, 0..(n - 1))
  BY <1>2, <1>4 DEF Injection, IsInjective
<1>6. IsFiniteSet(0..(n - 1)) /\ Cardinality(0..(n - 1)) = n
  <2>1. 0 \in Int /\ n - 1 \in Int /\ (n - 1) - 0 + 1 = n /\ (0 > n - 1 => n = 0)  BY <1>1
  <2> QED  BY <2>1, FS_Interval
<1>7. rank \in Surjection(S, 0..(n - 1))
  <2> HIDE DEF rank
  <2> QED  BY <1>5, <1>6, FS_Injection
<1>8. \A m \in 0..(n - 1) : \E d \in S : Cardinality(Later(S, d)) = m
  <2> DEFINE M == 0..(n - 1)
  <2>1. \A m \in M : \E d \in S : rank[d] = m
    <3>1. rank \in Surjection(S, M)  BY <1>7
    <3> HIDE DEF M, rank
    <3> QED  BY <3>1 DEF Surjection
  <2> QED  BY <2>1
<1> HIDE DEF rank, n
<1>9. L = [m \in 1..n |-> CHOOSE d \in S : Cardinality(Later(S, d)) = m - 1]
  BY DEF LatestFirst, Later, n
<1>10. \A m \in 1..n : L[m] \in S /\ Cardinality(Later(S, L[m])) = m - 1
  <2> SUFFICES ASSUME NEW m \in 1..n
               PROVE L[m] \in S /\ Cardinality(Later(S, L[m])) = m - 1
    OBVIOUS
  <2>1. m - 1 \in 0..(n - 1)  BY <1>1
  <2>2. \E d \in S : Cardinality(Later(S, d)) = m - 1  BY <1>8, <2>1
  <2> HIDE DEF L
  <2>3. L[m] = CHOOSE d \in S : Cardinality(Later(S, d)) = m - 1  BY <1>9
  <2> QED  BY <2>2, <2>3
<1> HIDE DEF L
<1>11. L \in Seq(Int) /\ Len(L) = n /\ DOMAIN L = 1..n
  <2>1. \A m \in 1..n : L[m] \in Int  BY <1>10
  <2>2. L = [m \in 1..n |-> L[m]]  BY <1>9
  <2>3. L \in [1..n -> Int]  BY <2>1, <2>2
  <2>4. L \in Seq(Int)  BY <1>1, <2>3, SeqDef
  <2>5. DOMAIN L = 1..n  BY <2>2
  <2> QED  BY <1>1, <2>4, <2>5, LenProperties
<1>12. Down(L)
  <2> SUFFICES ASSUME NEW j \in 1..n, NEW k \in 1..n, j < k  PROVE L[j] > L[k]
    BY <1>11 DEF Down
  <2>1. /\ L[j] \in S /\ L[k] \in S /\ Cardinality(Later(S, L[j])) = j - 1
        /\ Cardinality(Later(S, L[k])) = k - 1
    BY <1>10
  <2>2. L[j] # L[k]
    <3> SUFFICES ASSUME L[j] = L[k]  PROVE FALSE  OBVIOUS
    <3>1. j - 1 = k - 1  BY <2>1
    <3> QED  BY <1>1, <3>1
  <2>3. ~(L[j] < L[k])
    <3> SUFFICES ASSUME L[j] < L[k]  PROVE FALSE  OBVIOUS
    <3>1. k - 1 < j - 1  BY <1>3, <2>1
    <3> QED  BY <1>1, <3>1
  <2>4. L[j] \in Int /\ L[k] \in Int  BY <2>1
  <2> QED  BY <2>2, <2>3, <2>4
<1>13. ToSet(L) = S
  <2>1. ToSet(L) \subseteq S  BY <1>10, <1>11 DEF ToSet
  <2>2. ASSUME NEW d \in S  PROVE d \in ToSet(L)
    <3> DEFINE m == Cardinality(Later(S, d)) + 1
    <3>1. m \in 1..n /\ m - 1 = Cardinality(Later(S, d))  BY <1>1, <1>2
    <3>2. L[m] \in S /\ Cardinality(Later(S, L[m])) = Cardinality(Later(S, d))  BY <1>10, <3>1
    <3>3. L[m] = d  BY <1>4, <3>2
    <3> QED  BY <1>11, <3>1, <3>3 DEF ToSet
  <2> QED  BY <2>1, <2>2
<1> QED  BY <1>1, <1>11, <1>12, <1>13 DEF L, n

(* Days that go down are the days of their set from the latest.             *)
LEMMA DownIsLatestFirst ==
  ASSUME NEW s \in Seq(Int), Down(s)
  PROVE /\ IsFiniteSet(ToSet(s)) /\ Cardinality(ToSet(s)) = Len(s)
        /\ LatestFirst(ToSet(s)) = s
<1> DEFINE S == ToSet(s)
<1>1. /\ Len(s) \in Nat /\ DOMAIN s = 1..Len(s) /\ \A i \in 1..Len(s) : s[i] \in Int
      /\ \A j, k \in 1..Len(s) : j < k => s[j] > s[k]
      /\ s \in [1..Len(s) -> Int]
  BY LenProperties, ElementOfSeq DEF Down
<1>2. S \in SUBSET Int /\ S = {s[i] : i \in 1..Len(s)}  BY <1>1 DEF ToSet
<1>3. \A j, k \in 1..Len(s) : s[j] = s[k] => j = k
  <2> SUFFICES ASSUME NEW j \in 1..Len(s), NEW k \in 1..Len(s), s[j] = s[k], j # k PROVE FALSE
    OBVIOUS
  <2>1. j < k \/ k < j  BY <1>1
  <2> QED  BY <1>1, <2>1
<1>4. \A i \in 0..Len(s) : /\ IsFiniteSet({s[j] : j \in 1..i})
                           /\ Cardinality({s[j] : j \in 1..i}) = i
  <2> SUFFICES ASSUME NEW i \in 0..Len(s)
               PROVE /\ IsFiniteSet({s[j] : j \in 1..i})
                     /\ Cardinality({s[j] : j \in 1..i}) = i
    OBVIOUS
  <2> DEFINE T == {s[j] : j \in 1..i}
             f == [j \in 1..i |-> s[j]]
  <2>1. f \in Surjection(1..i, T)  BY DEF Surjection
  <2>2. f \in Injection(1..i, T)
    <3>1. \A j, k \in 1..i : j \in 1..Len(s) /\ k \in 1..Len(s)  BY <1>1
    <3>2. \A j, k \in 1..i : f[j] = f[k] => j = k  BY <1>3, <3>1
    <3> QED  BY <3>2 DEF Injection, IsInjective
  <2>3. IsFiniteSet(1..i) /\ Cardinality(1..i) = i
    <3>1. 1 \in Int /\ i \in Int /\ i - 1 + 1 = i /\ (1 > i => i = 0)  BY <1>1
    <3> QED  BY <3>1, FS_Interval
  <2> HIDE DEF f, T
  <2>4. /\ IsFiniteSet(T) /\ Cardinality(T) = Cardinality(1..i)
    BY <2>1, <2>2, <2>3, FS_Surjection
  <2> QED  BY <2>3, <2>4 DEF T
<1>5. IsFiniteSet(S) /\ Cardinality(S) = Len(s)
  <2>1. Len(s) \in 0..Len(s)  BY <1>1
  <2> QED  BY <1>2, <1>4, <2>1
<1>6. \A n \in 1..Len(s) : Cardinality({e \in S : e > s[n]}) = n - 1
  <2> SUFFICES ASSUME NEW n \in 1..Len(s) PROVE Cardinality({e \in S : e > s[n]}) = n - 1
    OBVIOUS
  <2>1. \A j \in 1..Len(s) : s[j] > s[n] <=> j \in 1..(n - 1)
    <3> SUFFICES ASSUME NEW j \in 1..Len(s) PROVE s[j] > s[n] <=> j \in 1..(n - 1)  OBVIOUS
    <3>1. CASE j < n  BY <1>1, <3>1
    <3>2. CASE j = n
      <4>1. ~(s[j] > s[n]) /\ j \notin 1..(n - 1)  BY <1>1, <3>2
      <4> QED  BY <4>1
    <3>3. CASE j > n
      <4>1. s[n] > s[j] /\ s[n] \in Int /\ s[j] \in Int  BY <1>1, <3>3
      <4> QED  BY <3>3, <4>1
    <3> QED  BY <1>1, <3>1, <3>2, <3>3
  <2>2. {e \in S : e > s[n]} = {s[j] : j \in 1..(n - 1)}
    <3>1. \A j \in 1..(n - 1) : j \in 1..Len(s)  BY <1>1
    <3> QED  BY <1>2, <2>1, <3>1
  <2>3. n - 1 \in 0..Len(s)  BY <1>1
  <2> QED  BY <1>4, <2>2, <2>3
<1>7. \A n \in 1..Len(s) : s[n] = CHOOSE d \in S : Cardinality({e \in S : e > d}) = n - 1
  <2> SUFFICES ASSUME NEW n \in 1..Len(s)
               PROVE s[n] = CHOOSE d \in S : Cardinality({e \in S : e > d}) = n - 1
    OBVIOUS
  <2>1. s[n] \in S /\ Cardinality({e \in S : e > s[n]}) = n - 1  BY <1>2, <1>6
  <2>2. \A d \in S : Cardinality({e \in S : e > d}) = n - 1 => d = s[n]
    <3> SUFFICES ASSUME NEW d \in S, Cardinality({e \in S : e > d}) = n - 1 PROVE d = s[n]
      OBVIOUS
    <3>1. PICK m \in 1..Len(s) : d = s[m]  BY <1>2
    <3>2. n - 1 = m - 1  BY <1>6, <3>1
    <3>3. n = m  BY <1>1, <3>2
    <3> QED  BY <3>1, <3>3
  <2> HIDE DEF S
  <2> QED  BY <2>1, <2>2
<1>8. LatestFirst(S) = [n \in 1..Len(s) |-> s[n]]
  <2> HIDE DEF S
  <2>1. LatestFirst(S) = [n \in 1..Len(s) |-> CHOOSE d \in S : Cardinality({e \in S : e > d}) = n - 1]
    BY <1>5 DEF LatestFirst
  <2> QED  BY <1>7, <2>1
<1>9. s = [n \in 1..Len(s) |-> s[n]]  BY <1>1
<1> QED  BY <1>5, <1>8, <1>9

-----------------------------------------------------------------------------
(* Rows of days without data.                                               *)

LEMMA CountedIs ==
  ASSUME NEW e \in Int, NEW f \in Int
  PROVE /\ IsFiniteSet(Counted(e, f)) /\ Cardinality(Counted(e, f)) \in Nat
        /\ Counted(e, f) \in SUBSET (e..f)
<1>1. Counted(e, f) \in SUBSET (e..f)  BY DEF Counted
<1>2. IsFiniteSet(e..f)  BY FS_Interval
<1>3. IsFiniteSet(Counted(e, f))  BY <1>1, <1>2, FS_Subset
<1> QED  BY <1>1, <1>3, FS_CardinalityType

(* A day more before them.                                                  *)
LEMMA CountedMore ==
  ASSUME NEW e \in Int, NEW f \in Int, e <= f
  PROVE Cardinality(Counted(e, f)) =
          Cardinality(Counted(e + 1, f)) + (IF force = 0 \/ e <= force THEN 1 ELSE 0)
<1>1. e + 1 \in Int  OBVIOUS
<1>2. /\ IsFiniteSet(Counted(e + 1, f)) /\ Cardinality(Counted(e + 1, f)) \in Nat
      /\ Counted(e + 1, f) \in SUBSET ((e + 1)..f)
  BY <1>1, CountedIs
<1>3. e \notin Counted(e + 1, f)  BY <1>2
<1>4. e..f = ((e + 1)..f) \cup {e}  OBVIOUS
<1>5. CASE force = 0 \/ e <= force
  <2>1. Counted(e, f) = Counted(e + 1, f) \cup {e}  BY <1>4, <1>5 DEF Counted
  <2> QED  BY <1>2, <1>3, <1>5, <2>1, FS_AddElement
<1>6. CASE ~(force = 0 \/ e <= force)
  <2>1. Counted(e, f) = Counted(e + 1, f)  BY <1>4, <1>6 DEF Counted
  <2> QED  BY <1>2, <1>6, <2>1
<1> QED  BY <1>5, <1>6

(* When a run is not forced all count.                                      *)
LEMMA AllCounted ==
  ASSUME force = 0, NEW e \in Int, NEW n \in Nat
  PROVE Cardinality(Counted(e, e + n - 1)) = n
<1>1. Counted(e, e + n - 1) = e..(e + n - 1)  BY DEF Counted
<1>2. e + n - 1 \in Int /\ (e + n - 1) - e + 1 = n /\ (e > e + n - 1 => n = 0)  OBVIOUS
<1> QED  BY <1>1, <1>2, FS_Interval

LEMMA NoneCounted ==
  ASSUME NEW e \in Int
  PROVE Cardinality(Counted(e + 1, e)) = 0
<1>1. Counted(e + 1, e) = {}  BY DEF Counted
<1> QED  BY <1>1, FS_EmptySet

(* From a later day, or to an earlier one.                                  *)
LEMMA LinkedNarrower ==
  ASSUME NEW days, NEW d \in Int, NEW t \in Int, NEW e \in Int, NEW u \in Int,
         Linked(days, d, t), d <= e, u <= t
  PROVE Linked(days, e, u)
<1> SUFFICES ASSUME NEW g \in e..u, NEW f \in g..u, (g..f) \cap days = {}
             PROVE Cardinality(Counted(g, f)) <= EmptyLimit
  BY DEF Linked
<1>1. g \in d..t /\ f \in g..t  OBVIOUS
<1> QED  BY <1>1 DEF Linked

(* With more days.                                                          *)
LEMMA LinkedMore ==
  ASSUME NEW days, NEW more, days \subseteq more, NEW d, NEW t, Linked(days, d, t)
  PROVE Linked(more, d, t)
<1> SUFFICES ASSUME NEW g \in d..t, NEW f \in g..t, (g..f) \cap more = {}
             PROVE Cardinality(Counted(g, f)) <= EmptyLimit
  BY DEF Linked
<1>1. (g..f) \cap days = {}  OBVIOUS
<1> QED  BY <1>1 DEF Linked

(* Days that are added after the end say nothing.                           *)
LEMMA LinkedSame ==
  ASSUME NEW days, NEW s \in Int, NEW d \in Int, NEW t \in Int, t \in days, t <= s,
         Linked(days \cup {s}, d, t)
  PROVE Linked(days, d, t)
<1> SUFFICES ASSUME NEW g \in d..t, NEW f \in g..t, (g..f) \cap days = {}
             PROVE Cardinality(Counted(g, f)) <= EmptyLimit
  BY DEF Linked
<1>1. t \notin g..f  OBVIOUS
<1>2. s \notin g..f  BY <1>1
<1>3. (g..f) \cap (days \cup {s}) = {}  BY <1>2
<1> QED  BY <1>3 DEF Linked

(* The day before, with data.                                               *)
LEMMA LinkedBefore ==
  ASSUME NEW days, NEW d \in Int, NEW t \in Int, d \in days, Linked(days, d + 1, t)
  PROVE Linked(days, d, t)
<1> SUFFICES ASSUME NEW g \in d..t, NEW f \in g..t, (g..f) \cap days = {}
             PROVE Cardinality(Counted(g, f)) <= EmptyLimit
  BY DEF Linked
<1>1. g # d  OBVIOUS
<1>2. g \in (d + 1)..t  BY <1>1
<1> QED  BY <1>2 DEF Linked

(* The day before, after which n at most are without data.                  *)
LEMMA LinkedEmpty ==
  ASSUME force = 0, NEW days, NEW d \in Int, NEW t \in Int, NEW n \in Nat,
         n + 1 <= EmptyLimit, d + n + 1 \in days, Linked(days, d + 1, t)
  PROVE Linked(days, d, t)
<1> SUFFICES ASSUME NEW g \in d..t, NEW f \in g..t, (g..f) \cap days = {}
             PROVE Cardinality(Counted(g, f)) <= EmptyLimit
  BY DEF Linked
<1>1. CASE g = d
  <2>1. ~(f >= d + n + 1)
    <3> SUFFICES ASSUME f >= d + n + 1 PROVE FALSE  OBVIOUS
    <3>1. d + n + 1 \in g..f  BY <1>1
    <3> QED  BY <3>1
  <2>2. f \in Int /\ g \in Int /\ n + 1 \in Nat /\ d + (n + 1) - 1 = d + n  OBVIOUS
  <2>3. Cardinality(Counted(d, d + n)) = n + 1
    <3>1. Cardinality(Counted(d, d + (n + 1) - 1)) = n + 1  BY <2>2, AllCounted
    <3> QED  BY <2>2, <3>1
  <2>4. Counted(g, f) \in SUBSET Counted(d, d + n)
    <3>1. \A h \in g..f : h \in d..(d + n)  BY <1>1, <2>1, <2>2
    <3> QED  BY <3>1 DEF Counted
  <2>5. IsFiniteSet(Counted(d, d + n))
    <3>1. d + n \in Int  OBVIOUS
    <3> QED  BY <3>1, CountedIs
  <2>6. Cardinality(Counted(g, f)) <= Cardinality(Counted(d, d + n))  BY <2>4, <2>5, FS_Subset
  <2>7. Cardinality(Counted(g, f)) \in Nat  BY <2>2, CountedIs
  <2>8. EmptyLimit \in Nat  OBVIOUS
  <2> QED  BY <2>3, <2>6, <2>7, <2>8
<1>2. CASE g # d
  <2>1. g \in (d + 1)..t  BY <1>2
  <2> QED  BY <2>1 DEF Linked
<1> QED  BY <1>1, <1>2

(* A row of too many.                                                       *)
LEMMA Unlinked ==
  ASSUME NEW days, NEW d \in Int, NEW t \in Int, NEW e \in Int, NEW f \in Int,
         d <= e, e <= f, f <= t, (e..f) \cap days = {}, Cardinality(Counted(e, f)) > EmptyLimit
  PROVE ~Linked(days, d, t)
<1>1. e \in d..t /\ f \in e..t  OBVIOUS
<1>2. Cardinality(Counted(e, f)) \in Nat /\ EmptyLimit \in Nat  BY CountedIs
<1> QED  BY <1>1, <1>2 DEF Linked

-----------------------------------------------------------------------------
(* The days of a window.                                                    *)

LEMMA WindowDaysAre ==
  ASSUME NEW days, IsFiniteSet(days), days \subseteq Int, NEW d \in Int
  PROVE /\ WindowDays(days, d) \subseteq days
        /\ IsFiniteSet(WindowDays(days, d))
        /\ \A w \in WindowDays(days, d) : w \in Int /\ w <= d
        /\ Cardinality(WindowDays(days, d)) \in Nat
<1>1. WindowDays(days, d) \subseteq days  BY DEF WindowDays
<1>2. IsFiniteSet(WindowDays(days, d))  BY <1>1, FS_Subset
<1> QED  BY <1>1, <1>2, FS_CardinalityType DEF WindowDays

(* They only depend on the days up to theirs.                               *)
LEMMA WindowOfDaysBefore ==
  ASSUME NEW days, NEW others, days \subseteq Int, others \subseteq Int, NEW d \in Int,
         \A e \in Int : e <= d => (e \in days <=> e \in others)
  PROVE WindowDays(days, d) = WindowDays(others, d)
<1>1. \A e : {f \in days : e < f /\ f <= d} = {f \in others : e < f /\ f <= d}  OBVIOUS
<1>2. {e \in days : e <= d} = {e \in others : e <= d}  OBVIOUS
<1> QED  BY <1>1, <1>2 DEF WindowDays

(* A window that goes down and has all days after a is that of its day when *)
(* it is full, or when there are no other days.                             *)
LEMMA WindowIs ==
  ASSUME NEW days, IsFiniteSet(days), days \subseteq Int, NEW d \in Int, NEW a \in Int,
         NEW s \in Seq(Int), Down(s), ToSet(s) = days \cap ((a + 1)..d),
         Len(s) <= Window, Len(s) = Window \/ \A w \in WindowDays(days, d) : w > a
  PROVE WindowDays(days, d) = ToSet(s) /\ WindowFrom(days, d) = s
<1> DEFINE S == ToSet(s)
           after(e) == {f \in days : e < f /\ f <= d}
<1>1. IsFiniteSet(S) /\ Cardinality(S) = Len(s) /\ LatestFirst(S) = s /\ Len(s) \in Nat
  BY DownIsLatestFirst, LenProperties
<1>2. \A e \in days : IsFiniteSet(after(e)) /\ Cardinality(after(e)) \in Nat
  <2>1. \A e \in days : after(e) \in SUBSET days  OBVIOUS
  <2> QED  BY <2>1, FS_Subset, FS_CardinalityType
<1>3. ASSUME NEW e \in S PROVE e \in WindowDays(days, d)
  <2>1. e \in days /\ e \in Int /\ e >= a + 1 /\ e <= d  OBVIOUS
  <2>2. \A f \in days : e < f /\ f <= d => f \in (a + 1)..d  BY <2>1
  <2>3. after(e) \in SUBSET (S \ {e})
    <3> SUFFICES ASSUME NEW f \in after(e) PROVE f \in S /\ f # e  OBVIOUS
    <3>1. f \in days /\ e < f /\ f <= d /\ f \in Int  OBVIOUS
    <3>2. f \in days \cap ((a + 1)..d)  BY <2>2, <3>1
    <3> QED  BY <2>1, <3>1, <3>2
  <2>4. IsFiniteSet(S \ {e}) /\ Cardinality(S \ {e}) = Len(s) - 1  BY <1>1, <1>3, FS_RemoveElement
  <2> HIDE DEF after, S
  <2>5. Cardinality(after(e)) <= Len(s) - 1  BY <2>3, <2>4, FS_Subset
  <2>6. Cardinality(after(e)) < Window  BY <1>1, <1>2, <2>1, <2>5
  <2> QED  BY <2>1, <2>6 DEF WindowDays, after
<1>4. ASSUME NEW w \in WindowDays(days, d) PROVE w \in S
  <2>1. w \in days /\ w \in Int /\ w <= d /\ Cardinality(after(w)) < Window  BY DEF WindowDays
  <2>2. CASE w > a
    <3>1. w \in (a + 1)..d  BY <2>1, <2>2
    <3> QED  BY <2>1, <3>1
  <2>3. CASE Len(s) = Window /\ ~(w > a)
    <3>1. S \in SUBSET after(w)
      <4>1. \A f \in S : f \in days /\ w < f /\ f <= d  BY <2>1, <2>3
      <4> QED  BY <4>1
    <3> HIDE DEF after, S
    <3>2. Cardinality(S) <= Cardinality(after(w))  BY <1>2, <2>1, <3>1, FS_Subset
    <3>3. FALSE  BY <1>1, <1>2, <2>1, <2>3, <3>2
    <3> QED  BY <3>3
  <2> QED  BY <2>2, <2>3
<1>5. WindowDays(days, d) = S  BY <1>3, <1>4
<1> HIDE DEF S, after
<1> QED  BY <1>1, <1>5 DEF WindowFrom, S

-----------------------------------------------------------------------------
(* The tables are filled: the invariant.                                    *)

(* The statistics have done what they were told of, and the run knows.      *)
Calm == ~newfeed /\ stat_day = None /\ ~stcs_updates

(* The history of the tables matters, for the run ends at a row.            *)
InStep == force = 0 /\ ~lagged
Sound == force # 0 \/ ~lagged

(* The statistics lack the last day at most, and have all days behind the   *)
(* one they are at.                                                         *)
Stats_Inv ==
  /\ ~lagged => \A m \in quoted \ statistics : \A d \in quoted : d <= m
  /\ stat_day # None => Ahead(stat_day)
  /\ ~newfeed /\ Sound => \A d \in quoted :
       Ahead(d) /\ Reached(quoted, d) => d \in statistics \/ (stat_day # None /\ d <= stat_day)

(* The days that calculate has just found empty, and those behind them.     *)
Empties == (day + 1)..(day + empty_days)

Passed_Inv ==
  pc = "calculate" =>
    /\ day + empty_days <= start
    /\ force # 0 => empty_days = 0
    /\ force = 0 => day + empty_days = start \/ day + empty_days + 1 \in statistics
    /\ \A d \in trends : d > day => d > day + empty_days
    /\ Calm => Empties \cap statistics = {}
    /\ InStep => \A d \in trends :
         d > day => Empties \cap quoted = {} /\ Linked(quoted, day + 1, d)

(* Behind a day with trends none is left out that is linked to it, but for  *)
(* those that a run has before it; in a calm run none is left out that is   *)
(* reached.                                                                 *)
Trends_Inv ==
  /\ pc # "idle" => trends \subseteq 1..start
  /\ pc # "idle" /\ Calm => quoted \subseteq 1..start
  /\ \A d \in DayRange : HasRow(d) => d \in trends
  /\ InStep => \A d \in trends, x \in quoted :
       x < d /\ Linked(quoted, x, d) =>
         x \in trends \/ (pc = "calculate" /\ x <= day /\ day < d /\ ~HasRow(d))
  /\ Calm /\ Sound => \A d \in quoted :
       Ahead(d) /\ Reached(quoted, d) => d \in trends \/ (pc = "calculate" /\ d <= day)

(* The window has all trends behind day_tail; the days after day_tail have  *)
(* none, and as many of them count as empty_days says.                      *)
Acum_Inv ==
  pc \in {"fill", "row"} =>
    /\ ToSet(trend_tail) = trends \cap ((day_tail + 1)..day)
    /\ \E f \in day_tail..start :
         /\ ((day_tail + 1)..f) \cap trends = {}
         /\ empty_days = Cardinality(Counted(day_tail + 1, f))
    /\ pc = "row" =>
         Len(trend_tail) > 1 /\ (Len(trend_tail) = Window \/ empty_days > EmptyLimit)

WindowReached(x) ==
  /\ Cardinality(WindowDays(trends, x)) > 1
  /\ \A w \in WindowDays(trends, x) : Reached(trends, w)

ToCome(x) == pc \in {"fill", "row"} /\ x <= day

(* The same of the accumulated trends.                                      *)
Rows_Inv ==
  /\ InStep => \A d, x \in trends :
       HasRow(d) /\ x < d /\ WindowLinked(x, d) => RowIsRight(x) \/ (ToCome(x) /\ day < d)
  /\ Calm /\ Sound /\ pc # "calculate" => \A x \in trends :
       Ahead(x) /\ WindowReached(x) => RowIsRight(x) \/ ToCome(x)

Fill_Inv == Inv /\ Stats_Inv /\ Passed_Inv /\ Trends_Inv /\ Acum_Inv /\ Rows_Inv

(* No row without its values is found by a run that is not forced; a forced *)
(* one has those it must write before it.                                   *)
Bare_Inv ==
  /\ InStep => bare = {}
  /\ force # 0 => \A e \in bare : Ahead(e) =>
       (pc = "idle" /\ stcs_updates) \/ (pc = "calculate" /\ e <= day)

(* What holds whatever fails: only days with trends have accumulated ones.  *)
Held_Inv ==
  /\ \A d \in DayRange : HasRow(d) => d \in trends
  /\ ToSet(trend_tail) \subseteq trends

(* All of it is so as long as no statement of the process failed.           *)
Whole_Inv == Inv /\ Held_Inv /\ (~failed => Fill_Inv /\ Bare_Inv)

(* What a process may find when it starts.                                  *)
StartState == Inv /\ Held_Inv /\ Starts /\ lagged = ~TablesInStep

-----------------------------------------------------------------------------

LEMMA Kinds ==
  ASSUME Inv
  PROVE /\ today \in Nat /\ today >= 1 /\ start \in Nat /\ start <= today /\ force \in Nat
        /\ day \in Int /\ day <= start /\ day_tail \in Int /\ day_tail <= start
        /\ empty_days \in Nat /\ stat_day \in Nat /\ stat_day <= today
        /\ quoted \subseteq 1..today /\ quoted \subseteq DayRange /\ quoted \subseteq Int
        /\ statistics \subseteq quoted /\ trends \subseteq statistics
        /\ IsFiniteSet(quoted) /\ IsFiniteSet(statistics) /\ IsFiniteSet(trends)
        /\ newfeed \in BOOLEAN /\ stcs_updates \in BOOLEAN /\ lagged \in BOOLEAN
<1>1. /\ today \in DayRange /\ start \in 0..today /\ force \in {0} \cup Forced
      /\ day \in Int /\ day <= start /\ day_tail \in Int /\ day_tail <= start
      /\ empty_days \in Nat /\ stat_day \in 0..today
      /\ quoted \subseteq 1..today /\ statistics \subseteq quoted /\ trends \subseteq statistics
      /\ newfeed \in BOOLEAN /\ stcs_updates \in BOOLEAN /\ lagged \in BOOLEAN
  BY DEF Inv, Types, Window_Inv
<1>2. today \in Nat /\ today >= 1 /\ today <= Days  BY <1>1 DEF DayRange
<1>3. force \in Nat  BY <1>1
<1>4. IsFiniteSet(1..today)
  <2>1. 1 \in Int /\ today \in Int  BY <1>2
  <2> QED  BY <2>1, FS_Interval
<1>5. IsFiniteSet(quoted)  BY <1>1, <1>4, FS_Subset
<1>6. IsFiniteSet(statistics)  BY <1>1, <1>5, FS_Subset
<1>7. IsFiniteSet(trends)  BY <1>1, <1>6, FS_Subset
<1>8. quoted \subseteq DayRange /\ quoted \subseteq Int
  <2>1. 1..today \subseteq DayRange  BY <1>2 DEF DayRange
  <2>2. 1..today \subseteq Int  BY <1>2
  <2> QED  BY <1>1, <2>1, <2>2
<1> QED  BY <1>1, <1>2, <1>3, <1>5, <1>6, <1>7, <1>8

LEMMA TwoAreMore ==
  ASSUME NEW S, IsFiniteSet(S), NEW a \in S, NEW b \in S, a # b
  PROVE Cardinality(S) > 1
<1>1. Cardinality(S) \in Nat  BY FS_CardinalityType
<1>2. Cardinality(S) # 0  BY FS_EmptySet
<1>3. Cardinality(S) # 1
  <2> SUFFICES ASSUME Cardinality(S) = 1 PROVE FALSE  OBVIOUS
  <2>1. PICK x : S = {x}  BY FS_Singleton
  <2> QED  BY <2>1
<1> QED  BY <1>1, <1>2, <1>3

LEMMA WindowFromIs ==
  ASSUME NEW days, IsFiniteSet(days), days \subseteq Int, NEW d \in Int
  PROVE /\ ToSet(WindowFrom(days, d)) = WindowDays(days, d)
        /\ Len(WindowFrom(days, d)) = Cardinality(WindowDays(days, d))
<1>1. WindowDays(days, d) \in SUBSET Int /\ IsFiniteSet(WindowDays(days, d))
  BY WindowDaysAre
<1> QED  BY <1>1, LatestFirstIsDown DEF WindowFrom

LEMMA StartFills == StartState => Fill_Inv /\ Bare_Inv
<1> SUFFICES ASSUME StartState PROVE Fill_Inv /\ Bare_Inv  BY DEF StartState
<1>1. /\ Inv /\ newfeed = TRUE /\ stcs_updates = TRUE /\ stat_day = None /\ pc = "idle"
      /\ ~lagged => TablesInStep
      /\ \A d \in DayRange : HasRow(d) => d \in trends
  BY DEF StartState, Starts, Held_Inv
<1>2. Stats_Inv  BY <1>1 DEF Stats_Inv, TablesInStep
<1>3. Passed_Inv /\ Acum_Inv  BY <1>1 DEF Passed_Inv, Acum_Inv
<1>4. Trends_Inv  BY <1>1 DEF Trends_Inv, Calm, InStep, TablesInStep
<1>5. Rows_Inv  BY <1>1 DEF Rows_Inv, Calm, InStep, TablesInStep
<1>6. Bare_Inv  BY <1>1 DEF Bare_Inv, InStep, TablesInStep
<1> QED  BY <1>1, <1>2, <1>3, <1>4, <1>5, <1>6 DEF Fill_Inv

LEMMA StartInit == Init => StartState
<1> SUFFICES ASSUME Init PROVE StartState  OBVIOUS
<1>1. Inv  BY InvInit
<1>2. Held_Inv
  <2>1. \A d \in DayRange : HasRow(d) => d \in trends  BY DEF Init, HasRow
  <2>2. ToSet(trend_tail) = {}  BY DEF Init, Starts, ToSet
  <2> QED  BY <2>1, <2>2 DEF Held_Inv
<1> QED  BY <1>1, <1>2 DEF Init, StartState

-----------------------------------------------------------------------------
(* The steps of the world and of the statistics.                            *)

(* What is linked and reached after a step.                                 *)
LEMMA LinksOf ==
  ASSUME force' = force
  PROVE /\ \A x, d : Linked(quoted, x, d)' <=> Linked(quoted', x, d)
        /\ \A x : Reached(quoted, x)' <=> Linked(quoted', x, today')
        /\ \A x : Reached(trends, x)' <=> Linked(trends', x, today')
        /\ \A x : Ahead(x)' <=> Ahead(x)
BY DEF Reached, Linked, Counted, Ahead

(* Today is a later day than those of the tables, and a step that leaves    *)
(* both plugins done adds no data.                                          *)
LEMMA OthersStep ==
  ASSUME Inv, Quote \/ NextDay \/ Stat
  PROVE /\ UNCHANGED <<pc, start, day, empty_days, day_tail, trend_tail, empty_queue>>
        /\ UNCHANGED <<force, trends, trends_acum>>
        /\ today' \in Int /\ today <= today'
        /\ quoted \subseteq quoted' /\ (quoted' = quoted \/ quoted' = quoted \cup {today})
        /\ statistics \subseteq statistics'
        /\ ~lagged' => ~lagged
        /\ Calm' => NextDay
<1> USE Kinds
<1>1. CASE Quote
  BY <1>1 DEF Quote, Calm, tables, locals, window
<1>2. CASE NextDay
  BY <1>2 DEF NextDay, Calm, tables, locals, window, stats
<1>3. CASE StatBegin
  BY <1>3 DEF StatBegin, StatEnd, Calm, tables, locals, window, world
<1>4. CASE StatDay
  BY <1>4 DEF StatDay, StatDayBefore, StatEnd, Calm, tables, locals, window, world
<1>5. CASE StatSame
  BY <1>5 DEF StatSame, StatEnd, Calm, tables, locals, window, world
<1>6. CASE StatTooManyEmpty
  BY <1>6 DEF StatTooManyEmpty, StatEnd, Calm, tables, locals, window, world
<1> QED  BY <1>1, <1>2, <1>3, <1>4, <1>5, <1>6 DEF Stat

LEMMA CalmStep ==
  ASSUME Inv, NextDay
  PROVE /\ quoted' = quoted /\ statistics' = statistics /\ today' = today + 1
        /\ Calm' => Calm
        /\ lagged' = lagged
BY DEF NextDay, stats, Calm

LEMMA OthersKeepPassed ==
  ASSUME Fill_Inv, Quote \/ NextDay \/ Stat
  PROVE Passed_Inv'
<1> SUFFICES ASSUME pc' = "calculate"
             PROVE /\ day' + empty_days' <= start'
                   /\ force' # 0 => empty_days' = 0
                   /\ force' = 0 => day' + empty_days' = start' \/ day' + empty_days' + 1 \in statistics'
                   /\ \A d \in trends' : d > day' => d > day' + empty_days'
                   /\ Calm' => Empties' \cap statistics' = {}
                   /\ InStep' => \A d \in trends' :
                        d > day' => Empties' \cap quoted' = {} /\ Linked(quoted, day + 1, d)'
  BY DEF Passed_Inv
<1>1. Inv /\ Passed_Inv  BY DEF Fill_Inv
<1>2. /\ UNCHANGED <<pc, start, day, empty_days, day_tail, trend_tail, empty_queue>>
      /\ UNCHANGED <<force, trends, trends_acum>>
      /\ today' \in Int /\ today <= today'
      /\ quoted \subseteq quoted' /\ (quoted' = quoted \/ quoted' = quoted \cup {today})
      /\ statistics \subseteq statistics'
      /\ ~lagged' => ~lagged
      /\ Calm' => NextDay
  BY <1>1, OthersStep
<1>3. /\ today \in Nat /\ day \in Int /\ start \in Nat /\ empty_days \in Nat
      /\ quoted \subseteq 1..today /\ statistics \subseteq quoted /\ trends \subseteq statistics
  BY <1>1, Kinds
<1>4. pc = "calculate"  BY <1>2
<1>5. /\ day + empty_days <= start
      /\ force # 0 => empty_days = 0
      /\ force = 0 => day + empty_days = start \/ day + empty_days + 1 \in statistics
      /\ \A d \in trends : d > day => d > day + empty_days
      /\ Calm => Empties \cap statistics = {}
      /\ InStep => \A d \in trends : d > day => Empties \cap quoted = {} /\ Linked(quoted, day + 1, d)
  BY <1>1, <1>4 DEF Passed_Inv
<1>6. Empties' = Empties  BY <1>2 DEF Empties
<1>7. Calm' => Calm /\ statistics' = statistics  BY <1>1, <1>2, CalmStep
<1>8. ASSUME InStep', NEW d \in trends, d > day
      PROVE Empties' \cap quoted' = {} /\ Linked(quoted, day + 1, d)'
  <2>1. InStep  BY <1>2, <1>8 DEF InStep
  <2>2. Empties \cap quoted = {} /\ Linked(quoted, day + 1, d)  BY <1>5, <1>8, <2>1
  <2>3. d > day + empty_days /\ d <= today  BY <1>3, <1>5, <1>8
  <2>4. today \notin Empties  BY <1>3, <2>3 DEF Empties
  <2>5. day + 1 \in Int /\ d \in Int  BY <1>3
  <2>6. Linked(quoted', day + 1, d)  BY <1>2, <2>2, LinkedMore
  <2>7. Linked(quoted, day + 1, d)'  BY <1>2, <2>6 DEF Linked, Counted
  <2> QED  BY <1>2, <1>6, <2>2, <2>4, <2>7
<1> QED  BY <1>2, <1>5, <1>6, <1>7, <1>8

(* What the statistics have to fill.                                        *)
Fills_Inv ==
  ~newfeed /\ Sound => \A d \in quoted :
    Ahead(d) /\ Reached(quoted, d) => d \in statistics \/ (stat_day # None /\ d <= stat_day)

LEMMA OthersKeepLag ==
  ASSUME Fill_Inv, Quote \/ NextDay \/ Stat, ~lagged',
         NEW m \in quoted' \ statistics', NEW d \in quoted'
  PROVE d <= m
<1>1. Inv /\ Stats_Inv  BY DEF Fill_Inv
<1>2. /\ today' \in Int /\ today <= today'
      /\ quoted \subseteq quoted' /\ (quoted' = quoted \/ quoted' = quoted \cup {today})
      /\ statistics \subseteq statistics' /\ ~lagged
  BY <1>1, OthersStep
<1>3. \A k \in quoted \ statistics : \A e \in quoted : e <= k  BY <1>1, <1>2 DEF Stats_Inv
<1>4. /\ today \in Nat /\ quoted \subseteq 1..today /\ statistics \subseteq quoted
      /\ IsFiniteSet(quoted)
  BY <1>1, Kinds
<1>5. CASE quoted' = quoted  BY <1>2, <1>3, <1>5
<1>6. CASE quoted' # quoted
  <2>1. Quote
    <3>1. NextDay => quoted' = quoted  BY DEF NextDay
    <3>2. Stat => quoted' = quoted
      BY DEF Stat, StatBegin, StatDay, StatSame, StatTooManyEmpty, world
    <3> QED  BY <1>6, <3>1, <3>2
  <2>2. statistics' = statistics /\ quoted' = quoted \cup {today}
        /\ lagged' = (lagged \/ Cardinality(quoted' \ statistics) > 1)
    BY <2>1 DEF Quote
  <2>3. today \notin quoted  BY <1>6, <2>2
  <2>4. ~(Cardinality(quoted' \ statistics) > 1)  BY <2>2
  <2>5. IsFiniteSet(quoted' \ statistics)
    <3>1. IsFiniteSet(quoted')  BY <1>4, <2>2, FS_AddElement
    <3> QED  BY <3>1, FS_Difference
  <2>6. m = today
    <3> SUFFICES ASSUME m # today PROVE FALSE  OBVIOUS
    <3>1. today \in quoted' \ statistics  BY <1>4, <2>2, <2>3
    <3>2. m \in quoted' \ statistics  BY <2>2
    <3> QED  BY <2>4, <2>5, <3>1, <3>2, TwoAreMore
  <2> QED  BY <1>4, <2>2, <2>6
<1> QED  BY <1>5, <1>6

LEMMA OthersKeepFills ==
  ASSUME Fill_Inv, Quote \/ NextDay \/ Stat
  PROVE Fills_Inv'
<1>1. Inv /\ Stats_Inv /\ Fills_Inv  BY DEF Fill_Inv, Stats_Inv, Fills_Inv
<1>2. /\ force' = force /\ today' \in Int /\ today <= today' /\ (~lagged' => ~lagged)
  BY <1>1, OthersStep
<1>3. /\ today \in Nat /\ quoted \subseteq 1..today /\ statistics \subseteq quoted
      /\ stat_day \in Nat /\ force \in Nat
  BY <1>1, Kinds
<1> SUFFICES ASSUME ~newfeed', Sound', NEW d \in quoted', Ahead(d)', Reached(quoted, d)'
             PROVE d \in statistics' \/ (stat_day' # None /\ d <= stat_day')
  BY DEF Fills_Inv
<1>4. Sound /\ Ahead(d) /\ Linked(quoted', d, today')  BY <1>2, LinksOf DEF Sound
<1>5. CASE Quote  BY <1>5 DEF Quote
<1>6. CASE NextDay
  <2>1. quoted' = quoted /\ statistics' = statistics /\ newfeed' = newfeed /\ stat_day' = stat_day
    BY <1>6 DEF NextDay, stats
  <2>2. d \in Int /\ d <= d  BY <1>3, <2>1
  <2>3. Linked(quoted, d, today)  BY <1>2, <1>3, <1>4, <2>1, <2>2, LinkedNarrower
  <2> QED  BY <1>1, <1>4, <2>1, <2>3 DEF Fills_Inv, Reached
<1>7. CASE StatBegin
  <2>1. quoted' = quoted /\ (IF Ahead(today) THEN stat_day' = today ELSE TRUE)
    BY <1>7 DEF StatBegin, world
  <2>2. d \in 1..today  BY <1>3, <2>1
  <2>3. CASE Ahead(today)  BY <1>3, <2>1, <2>2, <2>3
  <2>4. CASE ~Ahead(today)  BY <1>3, <1>4, <2>2, <2>4 DEF Ahead
  <2> QED  BY <2>3, <2>4
<1>8. quoted' = quoted /\ newfeed' = newfeed /\ today' = today
      => Reached(quoted, d) /\ d \in quoted /\ ~newfeed /\ d \in 1..today
         /\ (d \in statistics \/ (stat_day # None /\ d <= stat_day))
  BY <1>1, <1>3, <1>4 DEF Fills_Inv, Reached
<1>9. CASE StatDay
  <2>1. /\ quoted' = quoted /\ newfeed' = newfeed /\ today' = today
        /\ stat_day # None /\ statistics' = statistics \cup (quoted \cap {stat_day})
    BY <1>9 DEF StatDay, world
  <2>2. CASE d \in statistics \/ d = stat_day  BY <1>8, <2>1, <2>2
  <2>3. CASE ~(d \in statistics \/ d = stat_day)
    <3>1. d < stat_day /\ d >= 1 /\ d \in Nat  BY <1>3, <1>8, <2>1, <2>3
    <3>2. stat_day > 1 /\ d <= stat_day - 1 /\ stat_day - 1 # 0  BY <1>3, <3>1
    <3>3. Ahead(stat_day - 1)  BY <1>3, <1>4, <3>1, <3>2 DEF Ahead
    <3>4. stat_day' = stat_day - 1  BY <1>9, <3>2, <3>3 DEF StatDay, StatDayBefore
    <3> QED  BY <3>2, <3>4
  <2> QED  BY <2>2, <2>3
<1>10. CASE StatSame
  <2>1. /\ quoted' = quoted /\ newfeed' = newfeed /\ today' = today
        /\ stat_day \in statistics /\ statistics' = statistics /\ force = 0
    BY <1>10 DEF StatSame, world
  <2>2. \A m \in quoted \ statistics : \A e \in quoted : e <= m
    BY <1>1, <1>4, <2>1 DEF Stats_Inv, Sound
  <2>3. CASE d \in statistics  BY <2>1, <2>3
  <2>4. CASE d \notin statistics
    <3>1. d \in quoted \ statistics /\ d <= stat_day /\ d \in Int  BY <1>3, <1>8, <2>1, <2>4
    <3>2. stat_day <= d  BY <1>3, <2>1, <2>2, <3>1
    <3>3. d = stat_day  BY <1>3, <3>1, <3>2
    <3> QED  BY <2>1, <3>3
  <2> QED  BY <2>3, <2>4
<1>11. CASE StatTooManyEmpty
  <2>1. /\ quoted' = quoted /\ newfeed' = newfeed /\ today' = today /\ statistics' = statistics
        /\ force = 0 /\ stat_day + EmptyLimit <= today
        /\ quoted \cap (stat_day..(stat_day + EmptyLimit)) = {}
    BY <1>11 DEF StatTooManyEmpty, world
  <2>2. CASE d \in statistics  BY <2>1, <2>2
  <2>3. CASE d \notin statistics
    <3> DEFINE f == stat_day + EmptyLimit
    <3>1. d <= stat_day /\ d \in Int /\ Reached(quoted, d)  BY <1>3, <1>8, <2>1, <2>3
    <3>2. /\ stat_day \in Int /\ f \in Int /\ stat_day <= f /\ f <= today /\ today \in Int
          /\ EmptyLimit + 1 \in Nat /\ EmptyLimit \in Nat /\ stat_day + (EmptyLimit + 1) - 1 = f
      BY <1>3, <2>1
    <3>3. Cardinality(Counted(stat_day, f)) = EmptyLimit + 1
      <4>1. Cardinality(Counted(stat_day, stat_day + (EmptyLimit + 1) - 1)) = EmptyLimit + 1
        BY <2>1, <3>2, AllCounted
      <4> QED  BY <3>2, <4>1
    <3>4. Cardinality(Counted(stat_day, f)) > EmptyLimit  BY <3>2, <3>3
    <3>5. (stat_day..f) \cap quoted = {}  BY <2>1
    <3> HIDE DEF f
    <3>6. ~Linked(quoted, d, today)  BY <3>1, <3>2, <3>4, <3>5, Unlinked
    <3> QED  BY <3>1, <3>6 DEF Reached
  <2> QED  BY <2>2, <2>3
<1> QED  BY <1>5, <1>6, <1>7, <1>9, <1>10, <1>11 DEF Stat

LEMMA OthersKeepStats ==
  ASSUME Fill_Inv, Quote \/ NextDay \/ Stat
  PROVE Stats_Inv'
<1>1. Inv /\ Stats_Inv  BY DEF Fill_Inv
<1>2. /\ force' = force /\ trends' = trends  BY <1>1, OthersStep
<1>3. ~lagged' => \A m \in quoted' \ statistics' : \A d \in quoted' : d <= m
  BY OthersKeepLag
<1>4. Fills_Inv'  BY OthersKeepFills
<1>5. stat_day' # None => Ahead(stat_day)'
  <2>1. CASE stat_day' = stat_day  BY <1>1, <1>2, <2>1 DEF Stats_Inv, Ahead
  <2>2. CASE stat_day' # stat_day /\ stat_day' # None
    <3>1. Stat  BY <2>2 DEF Quote, NextDay, stats
    <3>2. \/ Ahead(today) /\ stat_day' = today
          \/ Ahead(stat_day - 1) /\ stat_day' = stat_day - 1
      BY <2>2, <3>1 DEF Stat, StatBegin, StatDay, StatDayBefore, StatSame, StatTooManyEmpty, StatEnd
    <3> QED  BY <1>2, <3>2 DEF Ahead
  <2> QED  BY <2>1, <2>2
<1> QED  BY <1>3, <1>4, <1>5 DEF Stats_Inv, Fills_Inv

(* The statements of what is complete, by name.                             *)
NoneLeftOut ==
  InStep => \A d \in trends, x \in quoted :
    x < d /\ Linked(quoted, x, d) =>
      x \in trends \/ (pc = "calculate" /\ x <= day /\ day < d /\ ~HasRow(d))
AllReached ==
  Calm /\ Sound => \A d \in quoted :
    Ahead(d) /\ Reached(quoted, d) => d \in trends \/ (pc = "calculate" /\ d <= day)
RowsLinked ==
  InStep => \A d \in trends, x \in trends :
    HasRow(d) /\ x < d /\ WindowLinked(x, d) => RowIsRight(x) \/ (ToCome(x) /\ day < d)
RowsReached ==
  Calm /\ Sound /\ pc # "calculate" => \A x \in trends :
    Ahead(x) /\ WindowReached(x) => RowIsRight(x) \/ ToCome(x)

LEMMA OthersKeepNone ==
  ASSUME Fill_Inv, Quote \/ NextDay \/ Stat
  PROVE NoneLeftOut'
<1>1. Inv /\ NoneLeftOut  BY DEF Fill_Inv, Trends_Inv, NoneLeftOut
<1>2. /\ pc' = pc /\ day' = day /\ force' = force /\ trends' = trends /\ trends_acum' = trends_acum
      /\ (quoted' = quoted \/ quoted' = quoted \cup {today}) /\ (~lagged' => ~lagged)
  BY <1>1, OthersStep
<1>3. /\ today \in Nat /\ quoted \subseteq 1..today /\ trends \subseteq quoted
      /\ quoted \subseteq Int
  BY <1>1, Kinds
<1> SUFFICES ASSUME InStep', NEW d \in trends, NEW x \in quoted', x < d, Linked(quoted', x, d)
             PROVE x \in trends \/ (pc = "calculate" /\ x <= day /\ day < d /\ ~HasRow(d))
  BY <1>2, LinksOf DEF NoneLeftOut, HasRow
<1>4. InStep  BY <1>2 DEF InStep
<1>5. d \in quoted /\ d \in Int /\ d <= today  BY <1>3
<1>6. x \in quoted
  <2> SUFFICES ASSUME x = today PROVE FALSE  BY <1>2
  <2> QED  BY <1>3, <1>5
<1>7. Linked(quoted, x, d)
  <2>1. CASE quoted' = quoted  BY <2>1
  <2>2. CASE quoted' = quoted \cup {today}
    <3>1. x \in Int /\ today \in Int  BY <1>3, <1>6
    <3>2. Linked(quoted \cup {today}, x, d)  BY <2>2
    <3> QED  BY <1>5, <3>1, <3>2, LinkedSame
  <2> QED  BY <1>2, <2>1, <2>2
<1> QED  BY <1>1, <1>4, <1>6, <1>7 DEF NoneLeftOut

LEMMA OthersKeepAll ==
  ASSUME Fill_Inv, Quote \/ NextDay \/ Stat
  PROVE AllReached' /\ RowsReached'
<1>1. Inv /\ AllReached /\ RowsReached
  BY DEF Fill_Inv, Trends_Inv, Rows_Inv, AllReached, RowsReached
<1>2. /\ pc' = pc /\ day' = day /\ force' = force /\ trends' = trends /\ trends_acum' = trends_acum
      /\ (Calm' => NextDay)
  BY <1>1, OthersStep
<1>3. CASE ~Calm'  BY <1>3 DEF AllReached, RowsReached
<1>4. CASE Calm'
  <2>1. /\ quoted' = quoted /\ statistics' = statistics /\ today' = today + 1 /\ Calm
        /\ lagged' = lagged
    BY <1>1, <1>2, <1>4, CalmStep
  <2>2. /\ today \in Int /\ today + 1 \in Int /\ today <= today + 1 /\ quoted \subseteq Int
        /\ IsFiniteSet(trends) /\ trends \subseteq quoted /\ statistics \subseteq quoted
    BY <1>1, Kinds
  <2>3. Sound' => Sound  BY <1>2, <2>1 DEF Sound
  <2>4. \A x \in quoted : /\ Linked(quoted, x, today + 1) => Reached(quoted, x)
                          /\ Linked(trends, x, today + 1) => Reached(trends, x)
    <3> SUFFICES ASSUME NEW x \in quoted
                 PROVE /\ Linked(quoted, x, today + 1) => Linked(quoted, x, today)
                       /\ Linked(trends, x, today + 1) => Linked(trends, x, today)
      BY DEF Reached
    <3>1. x \in Int /\ x <= x  BY <2>2
    <3> QED  BY <2>2, <3>1, LinkedNarrower
  <2>5. AllReached'
    <3> SUFFICES ASSUME Sound', NEW d \in quoted, Ahead(d), Linked(quoted, d, today + 1)
                 PROVE d \in trends \/ (pc = "calculate" /\ d <= day)
      BY <1>2, <2>1, LinksOf DEF AllReached
    <3> QED  BY <1>1, <2>1, <2>3, <2>4 DEF AllReached
  <2>6. RowsReached'
    <3> SUFFICES ASSUME Sound', pc # "calculate", NEW x \in trends, Ahead(x), WindowReached(x)'
                 PROVE RowIsRight(x) \/ ToCome(x)
      BY <1>2, <2>1, LinksOf DEF RowsReached, RowIsRight, ToCome
    <3>1. WindowDays(trends, x) \subseteq quoted  BY <2>2 DEF WindowDays
    <3>2. /\ Cardinality(WindowDays(trends, x)) > 1
          /\ \A w \in WindowDays(trends, x) : Linked(trends, w, today + 1)
      BY <1>2, <2>1, LinksOf DEF WindowReached
    <3>3. WindowReached(x)  BY <2>4, <3>1, <3>2 DEF WindowReached
    <3> QED  BY <1>1, <2>1, <2>3, <3>3 DEF RowsReached
  <2> QED  BY <2>5, <2>6
<1> QED  BY <1>3, <1>4

LEMMA OthersKeepTrends ==
  ASSUME Fill_Inv, Quote \/ NextDay \/ Stat
  PROVE Trends_Inv'
<1>1. Inv /\ Trends_Inv  BY DEF Fill_Inv
<1>2. /\ pc' = pc /\ start' = start /\ trends' = trends /\ trends_acum' = trends_acum
      /\ (Calm' => Calm /\ quoted' = quoted)
  BY <1>1, OthersStep, CalmStep
<1>3. NoneLeftOut' /\ AllReached'  BY OthersKeepNone, OthersKeepAll
<1>4. pc' # "idle" => trends' \subseteq 1..start'  BY <1>1, <1>2 DEF Trends_Inv
<1>5. pc' # "idle" /\ Calm' => quoted' \subseteq 1..start'  BY <1>1, <1>2 DEF Trends_Inv
<1>6. \A d \in DayRange : HasRow(d)' => d \in trends'  BY <1>1, <1>2 DEF Trends_Inv, HasRow
<1> QED  BY <1>3, <1>4, <1>5, <1>6 DEF Trends_Inv, NoneLeftOut, AllReached

LEMMA OthersKeepAcum ==
  ASSUME Fill_Inv, Quote \/ NextDay \/ Stat
  PROVE Acum_Inv'
<1>1. Inv /\ Acum_Inv  BY DEF Fill_Inv
<1>2. /\ UNCHANGED <<pc, start, day, empty_days, day_tail, trend_tail, empty_queue>>
      /\ UNCHANGED <<force, trends, trends_acum>>
  BY <1>1, OthersStep
<1> QED  BY <1>1, <1>2 DEF Acum_Inv, Counted

LEMMA OthersKeepRows ==
  ASSUME Fill_Inv, Quote \/ NextDay \/ Stat
  PROVE Rows_Inv'
<1>1. Inv /\ RowsLinked  BY DEF Fill_Inv, Rows_Inv, RowsLinked
<1>2. /\ pc' = pc /\ day' = day /\ force' = force /\ trends' = trends /\ trends_acum' = trends_acum
      /\ (quoted' = quoted \/ quoted' = quoted \cup {today}) /\ (~lagged' => ~lagged)
  BY <1>1, OthersStep
<1>3. /\ today \in Nat /\ quoted \subseteq 1..today /\ trends \subseteq quoted
      /\ quoted \subseteq Int
  BY <1>1, Kinds
<1>4. RowsLinked'
  <2> SUFFICES ASSUME InStep', NEW d \in trends, NEW x \in trends, HasRow(d), x < d,
                      WindowLinked(x, d)'
               PROVE RowIsRight(x) \/ (ToCome(x) /\ day < d)
    BY <1>2 DEF RowsLinked, HasRow, RowIsRight, ToCome
  <2>1. InStep  BY <1>2 DEF InStep
  <2>2. /\ Cardinality(WindowDays(trends, x)) > 1
        /\ \A w \in WindowDays(trends, x) : Linked(quoted', w, d)
    BY <1>2, LinksOf DEF WindowLinked
  <2>3. \A w \in WindowDays(trends, x) : Linked(quoted, w, d)
    <3> SUFFICES ASSUME NEW w \in WindowDays(trends, x), Linked(quoted', w, d)
                 PROVE Linked(quoted, w, d)
      BY <2>2
    <3>1. w \in Int  BY <1>3 DEF WindowDays
    <3>2. CASE quoted' = quoted  BY <3>2
    <3>3. CASE quoted' = quoted \cup {today}
      <4>1. d \in quoted /\ d \in Int /\ d <= today /\ today \in Int  BY <1>3
      <4>2. Linked(quoted \cup {today}, w, d)  BY <3>3
      <4> QED  BY <3>1, <4>1, <4>2, LinkedSame
    <3> QED  BY <1>2, <3>2, <3>3
  <2>4. WindowLinked(x, d)  BY <2>2, <2>3 DEF WindowLinked
  <2> QED  BY <1>1, <2>1, <2>4 DEF RowsLinked
<1>5. RowsReached'  BY OthersKeepAll
<1> QED  BY <1>4, <1>5 DEF Rows_Inv, RowsLinked, RowsReached

-----------------------------------------------------------------------------
(* The steps of calculate.                                                  *)

(* What is linked and reached stays in the steps of the trends.             *)
LEMMA LinksStay ==
  ASSUME UNCHANGED world, UNCHANGED stats
  PROVE /\ force' = force /\ quoted' = quoted /\ statistics' = statistics /\ today' = today
        /\ \A x, d : Linked(quoted, x, d)' <=> Linked(quoted, x, d)
        /\ \A x : Reached(quoted, x)' <=> Reached(quoted, x)
        /\ trends' = trends => \A x : Reached(trends, x)' <=> Reached(trends, x)
        /\ \A x : Ahead(x)' <=> Ahead(x)
        /\ InStep' <=> InStep
        /\ Sound' <=> Sound
        /\ stcs_updates' = stcs_updates => (Calm' <=> Calm)
BY DEF world, stats, Reached, Linked, Counted, Ahead, InStep, Sound, Calm

LEMMA TrendsKeepStats ==
  ASSUME Stats_Inv, UNCHANGED world, UNCHANGED stats
  PROVE Stats_Inv'
<1>1. /\ quoted' = quoted /\ statistics' = statistics /\ lagged' = lagged
      /\ newfeed' = newfeed /\ stat_day' = stat_day
  BY DEF world, stats
<1>2. ~lagged' => \A m \in quoted' \ statistics' : \A d \in quoted' : d <= m
  BY <1>1 DEF Stats_Inv
<1>3. stat_day' # None => Ahead(stat_day)'
  BY <1>1 DEF Stats_Inv, Ahead, world
<1>4. Fills_Inv'
  <2>1. Fills_Inv  BY DEF Stats_Inv, Fills_Inv
  <2> QED  BY <1>1, <2>1, LinksStay DEF Fills_Inv
<1> QED  BY <1>2, <1>3, <1>4 DEF Stats_Inv, Fills_Inv

LEMMA BeginFills ==
  ASSUME Fill_Inv, Begin
  PROVE Fill_Inv'
<1>1. Inv /\ Stats_Inv /\ Trends_Inv /\ Rows_Inv  BY DEF Fill_Inv
<1>2. /\ UNCHANGED world /\ UNCHANGED stats /\ trends' = trends /\ trends_acum' = trends_acum
      /\ pc = "idle" /\ pc' = "calculate" /\ start' = today /\ day' = today /\ empty_days' = 0
  BY DEF Begin, tables
<1>3. /\ today \in Nat /\ today >= 1 /\ quoted \subseteq 1..today /\ trends \subseteq 1..today
      /\ statistics \subseteq quoted /\ IsFiniteSet(trends)
  BY <1>1, Kinds
<1>4. Inv'  BY <1>1, BeginKeepsInv
<1>5. Stats_Inv'  BY <1>1, <1>2, TrendsKeepStats
<1>6. Passed_Inv'
  <2>1. \A d \in trends : ~(d > today)  BY <1>3
  <2>2. Empties' = {}  BY <1>2, <1>3 DEF Empties
  <2>3. today + 0 = today /\ today \in Int  BY <1>3
  <2> QED  BY <1>2, <1>3, <2>1, <2>2, <2>3 DEF Passed_Inv
<1>7. Acum_Inv'  BY <1>2 DEF Acum_Inv
<1>8. NoneLeftOut'
  <2>1. NoneLeftOut  BY <1>1 DEF Trends_Inv, NoneLeftOut
  <2> SUFFICES ASSUME InStep, NEW d \in trends, NEW x \in quoted, x < d, Linked(quoted, x, d)
               PROVE x \in trends
    BY <1>2, LinksStay DEF NoneLeftOut
  <2> QED  BY <1>2, <2>1 DEF NoneLeftOut
<1>9. AllReached'
  <2>1. \A d \in quoted : d <= today  BY <1>3
  <2> QED  BY <1>2, <2>1, LinksStay DEF AllReached
<1>10. RowsLinked'
  <2>1. RowsLinked  BY <1>1 DEF Rows_Inv, RowsLinked
  <2> SUFFICES ASSUME InStep, NEW d \in trends, NEW x \in trends, HasRow(d), x < d,
                      WindowLinked(x, d)
               PROVE RowIsRight(x)
    BY <1>2, LinksStay DEF RowsLinked, HasRow, WindowLinked, RowIsRight
  <2> QED  BY <1>2, <2>1 DEF RowsLinked, ToCome
<1>11. Trends_Inv'
  <2>1. \A d \in DayRange : HasRow(d)' => d \in trends'  BY <1>1, <1>2 DEF Trends_Inv, HasRow
  <2>2. trends' \subseteq 1..start' /\ quoted' \subseteq 1..start'  BY <1>2, <1>3, LinksStay
  <2> QED  BY <1>8, <1>9, <2>1, <2>2 DEF Trends_Inv, NoneLeftOut, AllReached
<1>12. Rows_Inv'  BY <1>2, <1>10 DEF Rows_Inv, RowsLinked
<1> QED  BY <1>4, <1>5, <1>6, <1>7, <1>11, <1>12 DEF Fill_Inv

(* What the invariant says in a run's calculate.                            *)
LEMMA InCalculate ==
  ASSUME Fill_Inv, pc = "calculate"
  PROVE /\ Inv /\ Stats_Inv /\ Trends_Inv /\ Rows_Inv /\ Fills_Inv
        /\ NoneLeftOut /\ AllReached /\ RowsLinked
        /\ today \in Nat /\ start \in Nat /\ start <= today /\ day \in Int /\ day <= start
        /\ empty_days \in Nat /\ force \in Nat
        /\ quoted \subseteq 1..today /\ statistics \subseteq quoted /\ trends \subseteq statistics
        /\ trends \subseteq 1..start /\ quoted \subseteq DayRange /\ quoted \subseteq Int
        /\ day + empty_days <= start
        /\ force # 0 => empty_days = 0
        /\ force = 0 => day + empty_days = start \/ day + empty_days + 1 \in statistics
        /\ \A d \in trends : d > day => d > day + empty_days
        /\ Calm => Empties \cap statistics = {} /\ quoted \subseteq 1..start
        /\ InStep => \A d \in trends :
             d > day => Empties \cap quoted = {} /\ Linked(quoted, day + 1, d)
        /\ \A d \in DayRange : HasRow(d) => d \in trends
        /\ ~lagged => \A m \in quoted \ statistics : \A d \in quoted : d <= m
        /\ trend_tail = <<>> /\ empty_queue = <<>>
<1>1. Inv /\ Stats_Inv /\ Trends_Inv /\ Rows_Inv /\ Passed_Inv  BY DEF Fill_Inv
<1>2. Fills_Inv /\ NoneLeftOut /\ AllReached /\ RowsLinked
  BY <1>1 DEF Stats_Inv, Trends_Inv, Rows_Inv, Fills_Inv, NoneLeftOut, AllReached, RowsLinked
<1>3. /\ today \in Nat /\ start \in Nat /\ start <= today /\ day \in Int /\ day <= start
      /\ empty_days \in Nat /\ force \in Nat
      /\ quoted \subseteq 1..today /\ statistics \subseteq quoted /\ trends \subseteq statistics
      /\ quoted \subseteq DayRange /\ quoted \subseteq Int
  BY <1>1, Kinds
<1>4. /\ day + empty_days <= start
      /\ force # 0 => empty_days = 0
      /\ force = 0 => day + empty_days = start \/ day + empty_days + 1 \in statistics
      /\ \A d \in trends : d > day => d > day + empty_days
      /\ Calm => Empties \cap statistics = {}
      /\ InStep => \A d \in trends :
           d > day => Empties \cap quoted = {} /\ Linked(quoted, day + 1, d)
  BY <1>1 DEF Passed_Inv
<1>5. /\ trends \subseteq 1..start
      /\ Calm => quoted \subseteq 1..start
      /\ \A d \in DayRange : HasRow(d) => d \in trends
  BY <1>1 DEF Trends_Inv
<1>6. ~lagged => \A m \in quoted \ statistics : \A d \in quoted : d <= m
  BY <1>1 DEF Stats_Inv
<1>7. trend_tail = <<>> /\ empty_queue = <<>>  BY <1>1 DEF Inv, Window_Inv
<1> QED  BY <1>1, <1>2, <1>3, <1>4, <1>5, <1>6, <1>7

(* A day more has no part in the windows of those before it.                *)
LEMMA WindowsBefore ==
  ASSUME NEW days \in SUBSET Int, NEW d \in Int, NEW x \in Int, x < d
  PROVE WindowDays(days \cup {d}, x) = WindowDays(days, x)
<1> DEFINE more == days \cup {d}
<1>1. days \subseteq Int /\ more \subseteq Int  OBVIOUS
<1>2. \A e \in Int : e <= x => (e \in days <=> e \in more)  OBVIOUS
<1> HIDE DEF more
<1>3. WindowDays(days, x) = WindowDays(more, x)  BY <1>1, <1>2, WindowOfDaysBefore
<1> QED  BY <1>3 DEF more

LEMMA InsertFills ==
  ASSUME Fill_Inv, InsertDay
  PROVE Fill_Inv'
<1>1. /\ pc = "calculate" /\ Ahead(day) /\ day \in statistics
      /\ UNCHANGED world /\ UNCHANGED stats /\ trends' = trends \cup {day}
      /\ trends_acum' = trends_acum /\ stcs_updates' = stcs_updates
      /\ pc' = "calculate" /\ start' = start /\ day' = day - 1 /\ empty_days' = 0
  BY DEF InsertDay, Calculates, NextDayBack
<1> USE InCalculate, LinksStay
<1>2. /\ Inv /\ Stats_Inv /\ NoneLeftOut /\ AllReached /\ RowsLinked
      /\ start \in Nat /\ day \in Int /\ day <= start
      /\ quoted \subseteq 1..today /\ quoted \subseteq Int /\ quoted \subseteq DayRange
      /\ statistics \subseteq quoted /\ trends \subseteq quoted /\ trends \subseteq 1..start
      /\ today \in Nat
  BY <1>1
<1>3. Inv'  BY <1>2, CalculateKeepsInv DEF Calculate
<1>4. Stats_Inv'  BY <1>1, <1>2, TrendsKeepStats
(* The day is linked to those that have trends after it.                    *)
<1>5. ASSUME InStep, NEW d \in trends \cup {day}, d > day - 1  PROVE Linked(quoted, day, d)
  <2>1. day \in quoted /\ d \in Int /\ day \in Int  BY <1>1, <1>2
  <2>2. Linked(quoted, day + 1, d)
    <3>1. CASE d = day  BY <1>2, <3>1 DEF Linked
    <3>2. CASE d # day
      <4>1. d \in trends /\ d > day  BY <1>2, <1>5, <3>2
      <4> QED  BY <1>1, <1>5, <4>1
    <3> QED  BY <3>1, <3>2
  <2> QED  BY <2>1, <2>2, LinkedBefore
<1>6. Passed_Inv'
  <2>1. Empties' = {}  BY <1>1, <1>2 DEF Empties
  <2>2. InStep' => \A d \in trends' : d > day' => Linked(quoted, day + 1, d)'
    <3> SUFFICES ASSUME InStep, NEW d \in trends \cup {day}, d > day - 1
                 PROVE Linked(quoted, day + 1, d)'
      BY <1>1
    <3>1. Linked(quoted, day, d)  BY <1>5
    <3>2. day' + 1 = day  BY <1>1, <1>2
    <3> QED  BY <1>1, <3>1, <3>2 DEF Linked, Counted, world
  <2>3. /\ day' + empty_days' <= start' /\ empty_days' = 0
        /\ day' + empty_days' + 1 \in statistics'
    BY <1>1, <1>2
  <2>4. \A d \in trends' : d > day' => d > day' + empty_days'  BY <1>1, <1>2
  <2> QED  BY <2>1, <2>2, <2>3, <2>4 DEF Passed_Inv
<1>7. NoneLeftOut'
  <2> SUFFICES ASSUME InStep, NEW d \in trends \cup {day}, NEW x \in quoted, x < d,
                      Linked(quoted, x, d)
               PROVE x \in trends \cup {day} \/ (x <= day - 1 /\ day - 1 < d /\ ~HasRow(d))
    BY <1>1 DEF NoneLeftOut, HasRow
  <2>1. x \in Int /\ d \in Int  BY <1>1, <1>2
  <2>2. CASE d \in trends
    <3>1. x \in trends \/ (x <= day /\ day < d /\ ~HasRow(d))
      BY <1>2, <2>2 DEF NoneLeftOut
    <3> QED  BY <1>2, <2>1, <3>1
  <2>3. CASE d \notin trends
    <3>1. d = day /\ d \in DayRange  BY <1>1, <1>2, <2>3
    <3>2. ~HasRow(d)  BY <1>1, <2>3, <3>1
    <3> QED  BY <1>2, <2>1, <3>1, <3>2
  <2> QED  BY <2>2, <2>3
<1>8. AllReached'
  <2> SUFFICES ASSUME Calm, Sound, NEW d \in quoted, Ahead(d), Reached(quoted, d)
               PROVE d \in trends \cup {day} \/ d <= day - 1
    BY <1>1 DEF AllReached
  <2>1. d \in trends \/ d <= day  BY <1>2 DEF AllReached
  <2>2. d \in Int  BY <1>2
  <2> QED  BY <1>2, <2>1, <2>2
<1>9. Trends_Inv'
  <2>1. trends' \subseteq 1..start'  BY <1>1, <1>2
  <2>2. Calm' => quoted' \subseteq 1..start'  BY <1>1
  <2>3. \A d \in DayRange : HasRow(d)' => d \in trends'  BY <1>1 DEF HasRow
  <2> QED  BY <1>7, <1>8, <2>1, <2>2, <2>3 DEF Trends_Inv, NoneLeftOut, AllReached
<1>10. Acum_Inv'  BY <1>1 DEF Acum_Inv
<1>11. RowsLinked'
  <2>1. CASE day \in trends
    <3>1. trends' = trends  BY <1>1, <2>1
    <3> SUFFICES ASSUME InStep, NEW d \in trends, NEW x \in trends, HasRow(d), x < d,
                        WindowLinked(x, d)
                 PROVE RowIsRight(x)
      BY <1>1, <3>1 DEF RowsLinked, HasRow, WindowLinked, RowIsRight
    <3> QED  BY <1>1, <1>2 DEF RowsLinked, ToCome
  <2>2. CASE day \notin trends
    <3> SUFFICES ASSUME InStep, NEW d \in trends \cup {day}, NEW x \in trends \cup {day},
                        HasRow(d), x < d, WindowLinked(x, d)'
                 PROVE RowIsRight(x)'
      BY <1>1 DEF RowsLinked, HasRow
    <3>1. d \in trends /\ d # day  BY <1>1, <1>2, <2>2
    <3>2. d \in Int /\ x \in Int  BY <1>1, <1>2
    <3>3. ~(d > day)
      <4> SUFFICES ASSUME d > day PROVE FALSE  OBVIOUS
      <4>1. Linked(quoted, day, d)  BY <1>2, <1>5, <3>2
      <4>2. day \in quoted /\ day < d  BY <1>1, <1>2, <3>2
      <4>3. day \in trends  BY <1>2, <3>1, <4>1, <4>2 DEF NoneLeftOut
      <4> QED  BY <2>2, <4>3
    <3>4. d < day  BY <1>2, <3>1, <3>2, <3>3
    <3>5. x \in trends /\ x < day  BY <1>2, <3>2, <3>4
    <3>6. WindowDays(trends', x) = WindowDays(trends, x)
      <4>1. trends \subseteq Int /\ day \in Int /\ trends' = trends \cup {day}  BY <1>1, <1>2
      <4> QED  BY <3>2, <3>5, <4>1, WindowsBefore
    <3>7. WindowLinked(x, d)
      <4>1. /\ Cardinality(WindowDays(trends', x)) > 1
            /\ \A w \in WindowDays(trends', x) : Linked(quoted, w, d)
        BY <1>1 DEF WindowLinked
      <4> QED  BY <3>6, <4>1 DEF WindowLinked
    <3>8. RowIsRight(x)  BY <1>1, <1>2, <3>1, <3>5, <3>7 DEF RowsLinked, ToCome
    <3> QED  BY <1>1, <3>6, <3>8 DEF RowIsRight, WindowFrom
  <2> QED  BY <2>1, <2>2
<1>12. Rows_Inv'  BY <1>1, <1>11 DEF Rows_Inv, RowsLinked
<1> QED  BY <1>3, <1>4, <1>6, <1>9, <1>10, <1>12 DEF Fill_Inv

(* A day without statistics has no quotes in step when a later one has      *)
(* trends.                                                                  *)
LEMMA EmptyInStep ==
  ASSUME Fill_Inv, pc = "calculate", InStep, day \notin statistics, NEW d \in trends, d > day
  PROVE day \notin quoted
<1>1. /\ \A m \in quoted \ statistics : \A e \in quoted : e <= m
      /\ trends \subseteq quoted /\ quoted \subseteq Int /\ day \in Int
  BY InCalculate DEF InStep
<1>2. d \in quoted /\ d \in Int /\ ~(d <= day)  BY <1>1
<1> QED  BY <1>1, <1>2

LEMMA EmptyFills ==
  ASSUME Fill_Inv, EmptyDay, NextDayBack,
         empty_days' = empty_days \/ empty_days' = empty_days + 1,
         force # 0 => empty_days' = empty_days,
         force = 0 => empty_days' = empty_days + 1 /\ empty_days + 1 <= EmptyLimit
  PROVE Fill_Inv'
<1>1. /\ pc = "calculate" /\ Ahead(day) /\ day \notin statistics
      /\ UNCHANGED world /\ UNCHANGED stats /\ trends' = trends
      /\ trends_acum' = trends_acum /\ stcs_updates' = stcs_updates
      /\ pc' = "calculate" /\ start' = start /\ day' = day - 1
  BY DEF EmptyDay, Calculates, NextDayBack, tables
<1>2. /\ Inv /\ Stats_Inv /\ NoneLeftOut /\ AllReached /\ RowsLinked /\ Trends_Inv /\ Fills_Inv
      /\ start \in Nat /\ day \in Int /\ day <= start /\ empty_days \in Nat
      /\ quoted \subseteq 1..today /\ quoted \subseteq Int /\ quoted \subseteq DayRange
      /\ statistics \subseteq quoted /\ trends \subseteq statistics /\ trends \subseteq 1..start
      /\ today \in Nat
  BY <1>1, InCalculate
<1>3. Inv'  BY <1>2, CalculateKeepsInv DEF Calculate
<1>4. Stats_Inv'  BY <1>1, <1>2, TrendsKeepStats
<1>5. /\ day + empty_days <= start
      /\ force # 0 => empty_days = 0
      /\ force = 0 => day + empty_days = start \/ day + empty_days + 1 \in statistics
      /\ \A d \in trends : d > day => d > day + empty_days
      /\ Calm => Empties \cap statistics = {}
      /\ InStep => \A d \in trends :
           d > day => Empties \cap quoted = {} /\ Linked(quoted, day + 1, d)
  BY <1>1, InCalculate
<1>6. \A d \in trends : d > day - 1 => d > day /\ d \in Int
  <2>1. \A d \in trends : d # day /\ d \in Int  BY <1>1, <1>2
  <2> QED  BY <1>2, <2>1
<1>7. ASSUME force = 0 PROVE Passed_Inv'
  <2>1. empty_days' = empty_days + 1 /\ empty_days + 1 <= EmptyLimit  BY <1>7
  <2>2. /\ day' + empty_days' = day + empty_days
        /\ day' + empty_days' + 1 = day + empty_days + 1
    BY <1>1, <1>2, <2>1
  <2>3. Empties' = Empties \cup {day}  BY <1>1, <1>2, <2>1, <2>2 DEF Empties
  <2>4. Calm => Empties' \cap statistics = {}  BY <1>1, <1>5, <2>3
  <2>5. ASSUME InStep, NEW d \in trends, d > day
        PROVE Empties' \cap quoted = {} /\ Linked(quoted, day, d)
    <3>1. Empties \cap quoted = {} /\ Linked(quoted, day + 1, d)  BY <1>5, <2>5
    <3>2. day \notin quoted  BY <1>1, <2>5, EmptyInStep
    <3>3. day + empty_days + 1 \in quoted
      <4>1. d > day + empty_days /\ d <= start /\ d \in Int  BY <1>2, <1>5, <2>5
      <4>2. day + empty_days # start  BY <1>2, <4>1
      <4> QED  BY <1>2, <1>5, <1>7, <4>2
    <3>4. d \in Int  BY <1>2
    <3>5. Linked(quoted, day, d)  BY <1>2, <1>7, <2>1, <3>1, <3>3, <3>4, LinkedEmpty
    <3> QED  BY <2>3, <3>1, <3>2, <3>5
  <2>6. Passed_Inv'
    <3>1. InStep' => \A d \in trends' :
            d > day' => Empties' \cap quoted' = {} /\ Linked(quoted, day + 1, d)'
      <4> SUFFICES ASSUME InStep, NEW d \in trends, d > day - 1
                   PROVE Empties' \cap quoted = {} /\ Linked(quoted, day + 1, d)'
        BY <1>1, LinksStay
      <4>1. Empties' \cap quoted = {} /\ Linked(quoted, day, d)  BY <1>6, <2>5
      <4>2. day' + 1 = day  BY <1>1, <1>2
      <4> QED  BY <1>1, <4>1, <4>2 DEF Linked, Counted, world
    <3>2. \A d \in trends' : d > day' => d > day' + empty_days'  BY <1>1, <1>5, <1>6, <2>2
    <3>3. /\ day' + empty_days' <= start' /\ force' = 0
          /\ day' + empty_days' = start' \/ day' + empty_days' + 1 \in statistics'
          /\ Calm' => Empties' \cap statistics' = {}
      BY <1>1, <1>5, <1>7, <2>2, <2>4, LinksStay
    <3> QED  BY <3>1, <3>2, <3>3 DEF Passed_Inv
  <2> QED  BY <2>6
<1>8. ASSUME force # 0 PROVE Passed_Inv'
  <2>1. empty_days = 0 /\ empty_days' = 0 /\ ~InStep  BY <1>5, <1>8 DEF InStep
  <2>2. Empties' = {}  BY <1>1, <1>2, <2>1 DEF Empties
  <2>3. \A d \in trends' : d > day' => d > day' + empty_days'  BY <1>1, <1>2, <2>1
  <2>4. day' + empty_days' <= start' /\ force' # 0  BY <1>1, <1>2, <1>8, <2>1, LinksStay
  <2>5. ~InStep'  BY <1>1, <2>1, LinksStay
  <2>6. Empties' \cap statistics' = {}  BY <2>2
  <2> QED  BY <2>1, <2>3, <2>4, <2>5, <2>6 DEF Passed_Inv
<1>9. Passed_Inv'  BY <1>7, <1>8
<1>10. NoneLeftOut'
  <2> SUFFICES ASSUME InStep, NEW d \in trends, NEW x \in quoted, x < d, Linked(quoted, x, d)
               PROVE x \in trends \/ (x <= day - 1 /\ day - 1 < d /\ ~HasRow(d))
    BY <1>1, LinksStay DEF NoneLeftOut, HasRow
  <2>1. x \in Int /\ d \in Int  BY <1>2
  <2>2. x \in trends \/ (x <= day /\ day < d /\ ~HasRow(d))  BY <1>2 DEF NoneLeftOut
  <2>3. day < d => x # day  BY <1>1, EmptyInStep
  <2> QED  BY <1>2, <2>1, <2>2, <2>3
<1>11. AllReached'
  <2> SUFFICES ASSUME Calm, Sound, NEW d \in quoted, Ahead(d), Reached(quoted, d)
               PROVE d \in trends \/ d <= day - 1
    BY <1>1, LinksStay DEF AllReached
  <2>1. d \in trends \/ d <= day  BY <1>2 DEF AllReached
  <2>2. d \in statistics  BY <1>2 DEF Fills_Inv, Calm
  <2>3. d \in Int /\ d # day  BY <1>1, <1>2, <2>2
  <2> QED  BY <1>2, <2>1, <2>3
<1>12. Trends_Inv'
  <2>1. trends' \subseteq 1..start'  BY <1>1, <1>2
  <2>2. Calm' => quoted' \subseteq 1..start'  BY <1>1, LinksStay, InCalculate
  <2>3. \A d \in DayRange : HasRow(d)' => d \in trends'  BY <1>1, <1>2 DEF HasRow, Trends_Inv
  <2> QED  BY <1>10, <1>11, <2>1, <2>2, <2>3 DEF Trends_Inv, NoneLeftOut, AllReached
<1>13. Acum_Inv'  BY <1>1 DEF Acum_Inv
<1>14. RowsLinked'
  <2> SUFFICES ASSUME InStep, NEW d \in trends, NEW x \in trends, HasRow(d), x < d,
                      WindowLinked(x, d)
               PROVE RowIsRight(x)
    BY <1>1, LinksStay DEF RowsLinked, HasRow, WindowLinked, RowIsRight
  <2> QED  BY <1>1, <1>2 DEF RowsLinked, ToCome
<1>15. Rows_Inv'  BY <1>1, <1>14 DEF Rows_Inv, RowsLinked
<1> QED  BY <1>3, <1>4, <1>9, <1>12, <1>13, <1>15 DEF Fill_Inv

(* A stretch of too many days that has no day of a set.                     *)
LEMMA AStretch ==
  ASSUME Fill_Inv, pc = "calculate", force = 0, empty_days + 1 > EmptyLimit,
         NEW x \in Int, x <= day, NEW t \in Int, day + empty_days <= t,
         NEW days, Empties \cap days = {}, day \notin days
  PROVE ~Linked(days, x, t)
<1>1. day \in Int /\ empty_days \in Nat  BY InCalculate
<1> DEFINE f == day + empty_days
<1>2. f \in Int /\ day <= f /\ f <= t /\ empty_days + 1 \in Nat /\ day + (empty_days + 1) - 1 = f
  BY <1>1
<1>3. Cardinality(Counted(day, f)) = empty_days + 1
  <2>1. Cardinality(Counted(day, day + (empty_days + 1) - 1)) = empty_days + 1
    BY <1>1, <1>2, AllCounted
  <2> QED  BY <1>2, <2>1
<1>4. Cardinality(Counted(day, f)) > EmptyLimit  BY <1>3
<1>5. (day..f) \cap days = {}
  <2>1. \A e \in day..f : e = day \/ e \in Empties  BY <1>1 DEF Empties
  <2> QED  BY <2>1
<1> HIDE DEF f
<1> QED  BY <1>1, <1>2, <1>4, <1>5, Unlinked

(* When calculate ends nothing is left out.                                 *)
LEMMA EndLeavesNone ==
  ASSUME Fill_Inv, CalculateEnds \/ SameDay \/ (EmptyDay /\ ToAcum)
  PROVE InStep => \A d \in trends, x \in quoted : x < d /\ Linked(quoted, x, d) => x \in trends
<1>1. pc = "calculate"  BY DEF CalculateEnds, SameDay, EmptyDay, Calculates
<1>2. /\ NoneLeftOut /\ start \in Nat /\ day \in Int /\ quoted \subseteq Int
      /\ trends \subseteq statistics /\ statistics \subseteq quoted /\ empty_days \in Nat
      /\ \A d \in trends : d > day => d > day + empty_days
      /\ InStep => \A d \in trends : d > day => Empties \cap quoted = {}
  BY <1>1, InCalculate
<1> SUFFICES ASSUME InStep, NEW d \in trends, NEW x \in quoted, x < d, Linked(quoted, x, d),
                    x \notin trends
             PROVE FALSE
  OBVIOUS
<1>3. x <= day /\ day < d /\ x \in Int /\ d \in Int /\ force = 0
  BY <1>2 DEF NoneLeftOut, InStep
<1>4. CASE CalculateEnds  BY <1>3, <1>4 DEF CalculateEnds, Ahead
<1>5. CASE SameDay
  <2>1. day \in trends  BY <1>5 DEF SameDay
  <2>2. x < day  BY <1>2, <1>3, <2>1
  <2>3. Linked(quoted, x, day)
    <3>1. x <= x /\ day <= d  BY <1>2, <1>3
    <3> QED  BY <1>2, <1>3, <3>1, LinkedNarrower
  <2>4. x <= day /\ day < day  BY <1>2, <2>1, <2>2, <2>3 DEF NoneLeftOut
  <2> QED  BY <1>2, <2>4
<1>6. CASE EmptyDay /\ ToAcum
  <2>1. day \notin statistics /\ empty_days + 1 > EmptyLimit
    <3>1. pc' = "fill"  BY <1>6 DEF ToAcum
    <3> QED  BY <1>1, <1>3, <1>6, <3>1 DEF EmptyDay, NothingRead, NextDayBack
  <2>2. day \notin quoted /\ Empties \cap quoted = {} /\ d > day + empty_days
    BY <1>1, <1>2, <1>3, <2>1, EmptyInStep
  <2>3. day + empty_days <= d  BY <1>2, <1>3, <2>2
  <2> QED  BY <1>1, <1>3, <2>1, <2>2, <2>3, AStretch
<1> QED  BY <1>4, <1>5, <1>6

LEMMA EndLeavesNoneReached ==
  ASSUME Fill_Inv, CalculateEnds \/ SameDay \/ (EmptyDay /\ ToAcum)
  PROVE Calm /\ Sound => \A d \in quoted : Ahead(d) /\ Reached(quoted, d) => d \in trends
<1>1. pc = "calculate"  BY DEF CalculateEnds, SameDay, EmptyDay, Calculates
<1>2. /\ NoneLeftOut /\ AllReached /\ Fills_Inv
      /\ start \in Nat /\ day \in Int /\ quoted \subseteq Int
      /\ trends \subseteq statistics /\ statistics \subseteq quoted /\ empty_days \in Nat
      /\ quoted \subseteq 1..today /\ today \in Nat /\ start <= today
      /\ day + empty_days <= start /\ force \in Nat
      /\ Calm => Empties \cap statistics = {}
  BY <1>1, InCalculate
<1> SUFFICES ASSUME Calm, Sound, NEW d \in quoted, Ahead(d), Reached(quoted, d), d \notin trends
             PROVE FALSE
  OBVIOUS
<1>3. d <= day /\ d \in Int /\ Linked(quoted, d, today) /\ today \in Int
  BY <1>2 DEF AllReached, Reached
<1>4. CASE CalculateEnds
  <2>1. force # 0 /\ ~(force < day)  BY <1>4 DEF CalculateEnds, Ahead
  <2>2. force < d  BY <2>1 DEF Ahead
  <2> QED  BY <1>2, <1>3, <2>1, <2>2
<1>5. CASE SameDay
  <2>1. day \in trends /\ force = 0  BY <1>5 DEF SameDay
  <2>2. d < day /\ day <= today  BY <1>2, <1>3, <2>1
  <2>3. Linked(quoted, d, day)
    <3>1. d <= d  BY <1>3
    <3> QED  BY <1>2, <1>3, <2>2, <3>1, LinkedNarrower
  <2>4. InStep  BY <2>1 DEF InStep, Sound
  <2>5. day < day  BY <1>2, <2>1, <2>2, <2>3, <2>4 DEF NoneLeftOut
  <2> QED  BY <1>2, <2>5
<1>6. CASE EmptyDay /\ ToAcum
  <2>1. pc' = "fill"  BY <1>6 DEF ToAcum
  <2>2. day \notin statistics /\ empty_days + 1 > EmptyLimit /\ force = 0
    BY <1>1, <1>6, <2>1 DEF EmptyDay, NothingRead, NextDayBack
  <2>3. \A e \in quoted : d <= e => e \in statistics
    <3> SUFFICES ASSUME NEW e \in quoted, d <= e PROVE e \in statistics  OBVIOUS
    <3>1. e \in Int /\ today <= today  BY <1>2
    <3>2. Linked(quoted, e, today)  BY <1>3, <3>1, LinkedNarrower
    <3>3. Ahead(e) /\ Reached(quoted, e)  BY <2>2, <3>2 DEF Ahead, Reached
    <3> QED  BY <1>2, <3>3 DEF Fills_Inv, Calm
  <2>4. day \notin quoted  BY <1>3, <2>2, <2>3
  <2>5. Empties \cap quoted = {}
    <3>1. \A e \in Empties : d <= e  BY <1>2, <1>3 DEF Empties
    <3> QED  BY <1>2, <2>3, <3>1
  <2>6. day + empty_days <= today  BY <1>2
  <2>7. ~Linked(quoted, d, today)  BY <1>1, <1>3, <2>2, <2>4, <2>5, <2>6, AStretch
  <2> QED  BY <1>3, <2>7
<1> QED  BY <1>4, <1>5, <1>6

LEMMA EndFills ==
  ASSUME Fill_Inv, CalculateEnds \/ SameDay \/ (EmptyDay /\ ToAcum)
  PROVE Fill_Inv'
<1>1. /\ pc = "calculate"
      /\ UNCHANGED world /\ UNCHANGED stats /\ trends' = trends
      /\ trends_acum' = trends_acum /\ stcs_updates' = stcs_updates
      /\ pc' = "fill" /\ start' = start /\ day' = start /\ empty_days' = 0
      /\ day_tail' = start /\ trend_tail' = trend_tail
  BY DEF CalculateEnds, SameDay, EmptyDay, Calculates, ToAcum, tables
<1>2. /\ Inv /\ Stats_Inv /\ RowsLinked /\ Trends_Inv
      /\ start \in Nat /\ trends \subseteq 1..start /\ trend_tail = <<>>
  BY <1>1, InCalculate
<1>3. Inv'  BY <1>2, CalculateKeepsInv DEF Calculate
<1>4. Stats_Inv'  BY <1>1, <1>2, TrendsKeepStats
<1>5. Passed_Inv'  BY <1>1 DEF Passed_Inv
<1>6. NoneLeftOut'  BY <1>1, EndLeavesNone, LinksStay DEF NoneLeftOut
<1>7. AllReached'  BY <1>1, EndLeavesNoneReached, LinksStay DEF AllReached
<1>8. Trends_Inv'
  <2>1. trends' \subseteq 1..start'  BY <1>1, <1>2
  <2>2. Calm' => quoted' \subseteq 1..start'  BY <1>1, LinksStay, InCalculate
  <2>3. \A d \in DayRange : HasRow(d)' => d \in trends'  BY <1>1, <1>2 DEF HasRow, Trends_Inv
  <2> QED  BY <1>6, <1>7, <2>1, <2>2, <2>3 DEF Trends_Inv, NoneLeftOut, AllReached
<1>9. Acum_Inv'
  <2>1. trends' \cap ((day_tail' + 1)..day') = {} /\ ToSet(trend_tail') = {}
    BY <1>1, <1>2 DEF ToSet
  <2>2. Cardinality(Counted(start + 1, start)) = 0  BY <1>2, NoneCounted
  <2>3. start \in day_tail'..start' /\ ((day_tail' + 1)..start) \cap trends' = {}  BY <1>1, <1>2
  <2>4. Counted(day_tail + 1, start)' = Counted(start + 1, start)
    BY <1>1 DEF Counted, world
  <2>5. empty_days' = Cardinality(Counted(day_tail' + 1, start'))  BY <1>1, <2>2
  <2>6. \E f \in day_tail'..start' :
          /\ ((day_tail' + 1)..f) \cap trends' = {}
          /\ empty_days' = Cardinality(Counted(day_tail + 1, f)')
    BY <1>1, <2>2, <2>3, <2>4
  <2> QED  BY <1>1, <2>1, <2>6 DEF Acum_Inv
<1>10. RowsLinked'
  <2> SUFFICES ASSUME InStep, NEW d \in trends, NEW x \in trends, HasRow(d), x < d,
                      WindowLinked(x, d)
               PROVE RowIsRight(x)
    BY <1>1, LinksStay DEF RowsLinked, HasRow, WindowLinked, RowIsRight
  <2> QED  BY <1>1, <1>2 DEF RowsLinked, ToCome
<1>11. RowsReached'
  <2>1. \A x \in trends : ToCome(x)'  BY <1>1, <1>2 DEF ToCome
  <2> QED  BY <1>1, <2>1 DEF RowsReached
<1>12. Rows_Inv'  BY <1>10, <1>11 DEF Rows_Inv, RowsLinked, RowsReached
<1> QED  BY <1>3, <1>4, <1>5, <1>8, <1>9, <1>12 DEF Fill_Inv

-----------------------------------------------------------------------------
(* The steps of calculate_acum.                                             *)

LEMMA InAcum ==
  ASSUME Fill_Inv, pc \in {"fill", "row"}
  PROVE /\ Inv /\ Stats_Inv /\ Trends_Inv /\ Rows_Inv /\ Acum_Inv
        /\ today \in Nat /\ start \in Nat /\ start <= today /\ day \in Int /\ day <= start
        /\ day_tail \in Int /\ day_tail <= day /\ empty_days \in Nat /\ force \in Nat
        /\ quoted \subseteq 1..today /\ statistics \subseteq quoted /\ trends \subseteq statistics
        /\ trends \subseteq 1..start /\ quoted \subseteq DayRange /\ quoted \subseteq Int
        /\ IsFiniteSet(trends)
        /\ trend_tail \in Seq(Int) /\ Down(trend_tail) /\ Len(trend_tail) \in 0..Window
        /\ ToSet(trend_tail) = trends \cap ((day_tail + 1)..day)
        /\ InStep => \A d \in trends, x \in quoted : x < d /\ Linked(quoted, x, d) => x \in trends
        /\ Calm /\ Sound => \A d \in quoted : Ahead(d) /\ Reached(quoted, d) => d \in trends
        /\ \A d \in DayRange : HasRow(d) => d \in trends
        /\ InStep => \A d \in trends, x \in trends :
             HasRow(d) /\ x < d /\ WindowLinked(x, d) => RowIsRight(x) \/ (x <= day /\ day < d)
        /\ Calm /\ Sound => \A x \in trends :
             Ahead(x) /\ WindowReached(x) => RowIsRight(x) \/ x <= day
<1>1. Inv /\ Stats_Inv /\ Trends_Inv /\ Rows_Inv /\ Acum_Inv  BY DEF Fill_Inv
<1>2. /\ today \in Nat /\ start \in Nat /\ start <= today /\ day \in Int /\ day <= start
      /\ day_tail \in Int /\ empty_days \in Nat /\ force \in Nat
      /\ quoted \subseteq 1..today /\ statistics \subseteq quoted /\ trends \subseteq statistics
      /\ quoted \subseteq DayRange /\ quoted \subseteq Int /\ IsFiniteSet(trends)
  BY <1>1, Kinds
<1>3. /\ trend_tail \in Seq(Int) /\ Down(trend_tail) /\ day_tail <= day
      /\ Len(trend_tail) \in 0..Window
  BY <1>1 DEF Inv, Window_Inv, Shared, Types
<1>4. ToSet(trend_tail) = trends \cap ((day_tail + 1)..day)  BY <1>1 DEF Acum_Inv
<1>5. /\ trends \subseteq 1..start
      /\ InStep => \A d \in trends, x \in quoted : x < d /\ Linked(quoted, x, d) => x \in trends
      /\ Calm /\ Sound => \A d \in quoted : Ahead(d) /\ Reached(quoted, d) => d \in trends
      /\ \A d \in DayRange : HasRow(d) => d \in trends
  BY <1>1 DEF Trends_Inv
<1>6. /\ InStep => \A d \in trends, x \in trends :
           HasRow(d) /\ x < d /\ WindowLinked(x, d) => RowIsRight(x) \/ (x <= day /\ day < d)
      /\ Calm /\ Sound => \A x \in trends :
           Ahead(x) /\ WindowReached(x) => RowIsRight(x) \/ x <= day
  BY <1>1 DEF Rows_Inv, ToCome
<1> QED  BY <1>1, <1>2, <1>3, <1>4, <1>5, <1>6

(* Too many days without trends: a day behind them is not reached, and in   *)
(* step not linked.                                                         *)
LEMMA TooManyBehind ==
  ASSUME Fill_Inv, pc \in {"fill", "row"}, NEW e \in Int, NEW f \in Int, f <= start,
         (e..f) \cap trends = {}, Cardinality(Counted(e, f)) > EmptyLimit,
         NEW w \in Int, w <= e
  PROVE /\ InStep => \A d \in trends : e <= d => ~Linked(quoted, w, d)
        /\ ~Reached(trends, w)
<1>1. /\ today \in Int /\ start \in Int /\ start <= today /\ quoted \subseteq Int
      /\ trends \subseteq quoted /\ statistics \subseteq quoted
  BY InAcum
<1>2. e <= f
  <2> SUFFICES ASSUME ~(e <= f) PROVE FALSE  OBVIOUS
  <2>1. e..f = {}  OBVIOUS
  <2>2. Counted(e, f) = {}  BY <2>1 DEF Counted
  <2>3. Cardinality(Counted(e, f)) = 0  BY <2>2, FS_EmptySet
  <2>4. EmptyLimit \in Nat  OBVIOUS
  <2> QED  BY <2>3, <2>4
<1>3. ASSUME InStep, NEW d \in trends, e <= d, Linked(quoted, w, d)  PROVE FALSE
  <2>1. d \in Int /\ f < d
    <3>1. d \in Int /\ d \notin e..f  BY <1>1
    <3> QED  BY <1>3, <3>1
  <2>2. (e..f) \cap quoted = {}
    <3> SUFFICES ASSUME NEW y \in e..f, y \in quoted PROVE FALSE  OBVIOUS
    <3>1. y \in Int /\ w <= y /\ y < d /\ d <= d  BY <2>1
    <3>2. Linked(quoted, y, d)  BY <1>3, <2>1, <3>1, LinkedNarrower
    <3>3. y \in trends  BY <1>3, <3>1, <3>2, InAcum
    <3> QED  BY <3>3
  <2>3. f <= d  BY <2>1
  <2> QED  BY <1>2, <1>3, <2>1, <2>2, <2>3, Unlinked
<1>4. ASSUME Reached(trends, w)  PROVE FALSE
  <2>1. Linked(trends, w, today) /\ f <= today  BY <1>1, <1>4 DEF Reached
  <2> QED  BY <1>1, <1>2, <2>1, Unlinked
<1> QED  BY <1>3, <1>4

(* The window that is held when a day's row is calculated is its own.       *)
LEMMA WindowIsItsOwn ==
  ASSUME Fill_Inv, pc = "row", ~QueuedDay
  PROVE /\ day \in trends /\ day_tail < day /\ trend_tail # <<>>
        /\ InStep => \A d \in trends :
             day < d /\ WindowLinked(day, d) => trend_tail = WindowFrom(trends, day)
        /\ Calm /\ Sound /\ WindowReached(day) => trend_tail = WindowFrom(trends, day)
<1>1. Inv /\ Acum_Inv /\ pc \in {"fill", "row"}  BY DEF Fill_Inv
<1>2. /\ day_tail < day /\ Head(trend_tail) = day /\ trend_tail # <<>>
  BY <1>1, DayIsAFront DEF Inv, Window_Inv
<1>3. /\ trend_tail \in Seq(Int) /\ Down(trend_tail) /\ Len(trend_tail) \in 0..Window
      /\ ToSet(trend_tail) = trends \cap ((day_tail + 1)..day)
      /\ day \in Int /\ day_tail \in Int /\ start \in Int /\ day <= start
      /\ trends \subseteq Int /\ IsFiniteSet(trends)
  BY <1>1, InAcum
<1>4. day \in trends  BY <1>2, <1>3, DownTail
<1>5. PICK f \in day_tail..start : /\ ((day_tail + 1)..f) \cap trends = {}
                                   /\ empty_days = Cardinality(Counted(day_tail + 1, f))
  BY <1>1 DEF Acum_Inv
<1>6. Len(trend_tail) = Window \/ empty_days > EmptyLimit  BY <1>1 DEF Acum_Inv
<1> DEFINE a == day_tail + 1
<1>7. /\ a \in Int /\ f \in Int /\ f <= start /\ (a..f) \cap trends = {} /\ a <= day
      /\ empty_days = Cardinality(Counted(a, f))
  BY <1>2, <1>3, <1>5
<1>8. \A w \in WindowDays(trends, day) : w \in Int  BY <1>3 DEF WindowDays
<1>9. ASSUME \A w \in WindowDays(trends, day) : w > day_tail
      PROVE trend_tail = WindowFrom(trends, day)
  <2>1. Len(trend_tail) <= Window  BY <1>3
  <2> QED  BY <1>3, <1>9, <2>1, WindowIs
<1>10. ASSUME Len(trend_tail) = Window  PROVE trend_tail = WindowFrom(trends, day)
  <2>1. Len(trend_tail) <= Window  BY <1>3
  <2> QED  BY <1>3, <1>10, <2>1, WindowIs
<1>11. ASSUME empty_days > EmptyLimit, NEW w \in WindowDays(trends, day), ~(w > day_tail)
       PROVE /\ InStep => \A d \in trends : day < d => ~Linked(quoted, w, d)
             /\ ~Reached(trends, w)
  <2>1. w \in Int /\ w <= a  BY <1>3, <1>8, <1>11
  <2>2. Cardinality(Counted(a, f)) > EmptyLimit  BY <1>7, <1>11
  <2>3. \A d \in trends : day < d => a <= d  BY <1>3, <1>7
  <2> HIDE DEF a
  <2> QED  BY <1>1, <1>7, <2>1, <2>2, <2>3, TooManyBehind
<1>12. ASSUME InStep, NEW d \in trends, day < d, WindowLinked(day, d)
       PROVE trend_tail = WindowFrom(trends, day)
  <2>1. \A w \in WindowDays(trends, day) : Linked(quoted, w, d)  BY <1>12 DEF WindowLinked
  <2> QED  BY <1>6, <1>9, <1>10, <1>11, <1>12, <2>1
<1>13. ASSUME Calm, Sound, WindowReached(day)
       PROVE trend_tail = WindowFrom(trends, day)
  <2>1. \A w \in WindowDays(trends, day) : Reached(trends, w)  BY <1>13 DEF WindowReached
  <2> QED  BY <1>6, <1>9, <1>10, <1>11, <1>13, <2>1
<1> QED  BY <1>2, <1>4, <1>12, <1>13

(* Only the accumulated trends change.                                      *)
LEMMA AcumKeepsTrends ==
  ASSUME Fill_Inv, pc \in {"fill", "row"}, UNCHANGED world, UNCHANGED stats, trends' = trends,
         stcs_updates' = stcs_updates, pc' \in {"idle", "fill", "row"},
         pc' # "idle" => start' = start, \A d \in DayRange : HasRow(d)' => d \in trends
  PROVE Stats_Inv' /\ Passed_Inv' /\ Trends_Inv'
<1>1. Stats_Inv'  BY InAcum, TrendsKeepStats
<1>2. pc' # "calculate"  OBVIOUS
<1>3. Passed_Inv'  BY <1>2 DEF Passed_Inv
<1>4. NoneLeftOut'
  <2>1. InStep => \A d \in trends, x \in quoted : x < d /\ Linked(quoted, x, d) => x \in trends
    BY InAcum
  <2> QED  BY <2>1, LinksStay DEF NoneLeftOut
<1>5. AllReached'
  <2>1. Calm /\ Sound => \A d \in quoted : Ahead(d) /\ Reached(quoted, d) => d \in trends
    BY InAcum
  <2> QED  BY <2>1, LinksStay DEF AllReached
<1>6. pc' # "idle" => trends' \subseteq 1..start'  BY InAcum
<1>7. pc' # "idle" /\ Calm' => quoted' \subseteq 1..start'
  <2>1. Trends_Inv /\ pc # "idle"  BY InAcum
  <2> QED  BY <2>1, LinksStay DEF Trends_Inv
<1>8. Trends_Inv'  BY <1>4, <1>5, <1>6, <1>7 DEF Trends_Inv, NoneLeftOut, AllReached
<1> QED  BY <1>1, <1>3, <1>8

(* The rows that are there, and those to come.                              *)
LEMMA AcumKeepsRows ==
  ASSUME Fill_Inv, pc \in {"fill", "row"}, UNCHANGED world, UNCHANGED stats, trends' = trends,
         stcs_updates' = stcs_updates,
         InStep => \A d \in trends, x \in trends :
           HasRow(d)' /\ x < d /\ WindowLinked(x, d) => RowIsRight(x)' \/ (ToCome(x)' /\ day' < d),
         Calm /\ Sound => \A x \in trends :
           Ahead(x) /\ WindowReached(x) => RowIsRight(x)' \/ ToCome(x)'
  PROVE Rows_Inv'
<1>1. \A x, d : WindowLinked(x, d)' <=> WindowLinked(x, d)  BY LinksStay DEF WindowLinked
<1>2. \A x : WindowReached(x)' <=> WindowReached(x)  BY LinksStay DEF WindowReached
<1>3. RowsLinked'  BY <1>1, LinksStay DEF RowsLinked
<1>4. RowsReached'  BY <1>2, LinksStay DEF RowsReached
<1> QED  BY <1>3, <1>4 DEF Rows_Inv, RowsLinked, RowsReached

(* The window and the days without trends before it.                        *)
LEMMA AcumFollows ==
  ASSUME UNCHANGED world, NEW e \in Int, NEW f \in Int, day_tail' + 1 = e,
         f \in day_tail'..start', ToSet(trend_tail') = trends' \cap (e..day'),
         (e..f) \cap trends' = {}, empty_days' = Cardinality(Counted(e, f)),
         pc' = "row" =>
           Len(trend_tail') > 1 /\ (Len(trend_tail') = Window \/ empty_days' > EmptyLimit)
  PROVE Acum_Inv'
<1>1. Counted(day_tail + 1, f)' = Counted(e, f)  BY DEF Counted, world
<1>2. \E g \in day_tail'..start' : /\ ((day_tail' + 1)..g) \cap trends' = {}
                                  /\ empty_days' = Cardinality(Counted(day_tail + 1, g)')
  BY <1>1
<1> QED  BY <1>2 DEF Acum_Inv

LEMMA TakeFills ==
  ASSUME Fill_Inv, TakeDay \/ PassDay \/ WindowFull
  PROVE Fill_Inv'
<1>1. /\ pc = "fill" /\ UNCHANGED world /\ UNCHANGED stats /\ trends' = trends
      /\ trends_acum' = trends_acum /\ stcs_updates' = stcs_updates
      /\ start' = start /\ day' = day
  BY DEF TakeDay, PassDay, PassOver, WindowFull, Fills, tables
<1>2. /\ Inv /\ Acum_Inv /\ Rows_Inv
      /\ today \in Nat /\ start \in Nat /\ day \in Int /\ day <= start
      /\ day_tail \in Int /\ day_tail <= day /\ empty_days \in Nat /\ force \in Nat
      /\ trends \subseteq statistics /\ trends \subseteq Int
      /\ trend_tail \in Seq(Int) /\ ToSet(trend_tail) = trends \cap ((day_tail + 1)..day)
      /\ \A d \in DayRange : HasRow(d) => d \in trends
  BY <1>1, InAcum
<1>3. Inv'  BY <1>2, FillKeepsInv, FullKeepsInv DEF PassDay
<1>4. pc' \in {"fill", "row"}
  BY <1>1 DEF TakeDay, PassDay, PassOver, WindowFull
<1>5. Stats_Inv' /\ Passed_Inv' /\ Trends_Inv'
  <2>1. \A d \in DayRange : HasRow(d)' => d \in trends  BY <1>1, <1>2 DEF HasRow
  <2>2. pc \in {"fill", "row"} /\ pc' \in {"idle", "fill", "row"}  BY <1>1, <1>4
  <2> QED  BY <1>1, <2>1, <2>2, AcumKeepsTrends
<1>6. Rows_Inv'
  <2>1. \A x : RowIsRight(x)' <=> RowIsRight(x)  BY <1>1 DEF RowIsRight
  <2>2. \A x : ToCome(x)' <=> ToCome(x)  BY <1>1, <1>4 DEF ToCome
  <2>3. \A d : HasRow(d)' <=> HasRow(d)  BY <1>1 DEF HasRow
  <2>4. InStep => \A d \in trends, x \in trends :
          HasRow(d)' /\ x < d /\ WindowLinked(x, d) => RowIsRight(x)' \/ (ToCome(x)' /\ day' < d)
    BY <1>1, <1>2, <2>1, <2>2, <2>3 DEF Rows_Inv
  <2>5. Calm /\ Sound => \A x \in trends :
          Ahead(x) /\ WindowReached(x) => RowIsRight(x)' \/ ToCome(x)'
    BY <1>1, <1>2, <2>1, <2>2 DEF Rows_Inv
  <2>6. pc \in {"fill", "row"}  BY <1>1
  <2> QED  BY <1>1, <2>4, <2>5, <2>6, AcumKeepsRows
<1>7. PICK f \in day_tail..start : /\ ((day_tail + 1)..f) \cap trends = {}
                                   /\ empty_days = Cardinality(Counted(day_tail + 1, f))
  BY <1>1, <1>2 DEF Acum_Inv
<1>8. (day_tail..day) = ((day_tail + 1)..day) \cup {day_tail}  BY <1>2
<1>9. ASSUME TakeDay PROVE Acum_Inv'
  <2>1. /\ day_tail \in trends /\ trend_tail' = Append(trend_tail, day_tail)
        /\ day_tail' = day_tail - 1 /\ empty_days' = 0 /\ pc' = "fill"
    BY <1>1, <1>9 DEF TakeDay, HasData
  <2>2. ToSet(trend_tail') = ToSet(trend_tail) \cup {day_tail}
    <3>1. Down(trend_tail)  BY <1>1, InAcum
    <3>2. \A e \in ToSet(trend_tail) : day_tail < e  BY <1>2
    <3> QED  BY <1>2, <2>1, <3>1, <3>2, DownAppend
  <2>3. PICK e \in Int : e = day_tail  BY <1>2
  <2>4. PICK g \in Int : g = day_tail - 1  BY <1>2
  <2>5. day_tail' + 1 = e  BY <1>2, <2>1, <2>3
  <2>6. ToSet(trend_tail') = trends' \cap (e..day')  BY <1>1, <1>2, <1>8, <2>1, <2>2, <2>3
  <2>7. g \in day_tail'..start' /\ (e..g) \cap trends' = {}
    BY <1>1, <1>2, <2>1, <2>3, <2>4
  <2>8. empty_days' = Cardinality(Counted(e, g))
    <3>1. g + 1 = e  BY <1>2, <2>3, <2>4
    <3>2. Cardinality(Counted(g + 1, g)) = 0  BY NoneCounted
    <3> QED  BY <2>1, <3>1, <3>2
  <2>9. pc' # "row"  BY <2>1
  <2> QED  BY <1>1, <2>5, <2>6, <2>7, <2>8, <2>9, AcumFollows
<1>10. ASSUME PassDay PROVE Acum_Inv'
  <2>1. /\ day_tail \notin trends /\ trend_tail' = trend_tail
        /\ day_tail' = day_tail - 1
        /\ empty_days' = empty_days + (IF force = 0 \/ day_tail' < force THEN 1 ELSE 0)
        /\ pc' = "row" => Len(trend_tail) > 1 /\ ~(empty_days' <= EmptyLimit)
    <3>1. ~HasData(day_tail)  BY <1>10 DEF PassDay
    <3>2. day_tail \notin trends  BY <1>2, <3>1 DEF HasData
    <3> QED  BY <1>1, <1>10, <3>2 DEF PassDay, PassOver
  <2>2. PICK e \in Int : e = day_tail  BY <1>2
  <2>3. day_tail' + 1 = e  BY <1>2, <2>1, <2>2
  <2>4. ToSet(trend_tail') = trends' \cap (e..day')  BY <1>1, <1>2, <1>8, <2>1, <2>2
  <2>5. f \in Int /\ f \in day_tail'..start' /\ e <= f  BY <1>1, <1>2, <2>1, <2>2
  <2>6. (e..f) \cap trends' = {}
    <3>1. e..f = ((e + 1)..f) \cup {e}  BY <2>5
    <3> QED  BY <1>1, <1>7, <2>1, <2>2, <3>1
  <2>7. empty_days' = Cardinality(Counted(e, f))
    <3>1. Cardinality(Counted(e, f)) =
            Cardinality(Counted(e + 1, f)) + (IF force = 0 \/ e <= force THEN 1 ELSE 0)
      BY <2>5, CountedMore
    <3>2. Cardinality(Counted(e + 1, f)) = empty_days  BY <1>7, <2>2
    <3>3. day_tail' < force <=> e <= force  BY <1>2, <2>1, <2>2
    <3> QED  BY <2>1, <3>1, <3>2, <3>3
  <2>8. pc' = "row" => Len(trend_tail') > 1 /\ empty_days' > EmptyLimit
    <3>1. empty_days' \in Nat /\ EmptyLimit \in Nat  BY <1>2, <2>1
    <3> QED  BY <2>1, <3>1
  <2> QED  BY <1>1, <2>3, <2>4, <2>5, <2>6, <2>7, <2>8, AcumFollows
<1>11. ASSUME WindowFull PROVE Acum_Inv'
  <2>1. /\ trend_tail' = trend_tail /\ day_tail' = day_tail /\ empty_days' = empty_days
        /\ Len(trend_tail) = Window
    BY <1>11 DEF WindowFull, window
  <2>2. PICK e \in Int : e = day_tail + 1  BY <1>2
  <2>3. f \in Int /\ f \in day_tail'..start' /\ day_tail' + 1 = e  BY <1>1, <1>2, <2>1, <2>2
  <2>4. Len(trend_tail') > 1 /\ Len(trend_tail') = Window
    <3>1. Window > 1 /\ Window \in Nat  OBVIOUS
    <3> QED  BY <2>1, <3>1
  <2> QED  BY <1>1, <1>2, <1>7, <2>1, <2>2, <2>3, <2>4, AcumFollows
<1>12. Acum_Inv'  BY <1>9, <1>10, <1>11
<1> QED  BY <1>3, <1>5, <1>6, <1>12 DEF Fill_Inv

LEMMA SkipFills ==
  ASSUME Fill_Inv, SkipDay
  PROVE Fill_Inv'
<1>1. /\ pc = "row" /\ QueuedDay /\ UNCHANGED world /\ UNCHANGED stats /\ trends' = trends
      /\ trends_acum' = trends_acum /\ stcs_updates' = stcs_updates
      /\ pc' = "fill" /\ start' = start /\ day' = day - 1 /\ empty_days' = empty_days
      /\ day_tail' = day_tail /\ trend_tail' = trend_tail
  BY DEF SkipDay, DayBefore, tables
<1>2. pc \in {"fill", "row"} /\ pc' \in {"idle", "fill", "row"}  BY <1>1
<1>3. /\ Inv /\ Acum_Inv /\ Rows_Inv /\ day \in Int /\ day_tail \in Int /\ trends \subseteq Int
      /\ ToSet(trend_tail) = trends \cap ((day_tail + 1)..day)
      /\ \A d \in DayRange : HasRow(d) => d \in trends
  BY <1>2, InAcum
<1>4. day \notin ToSet(trend_tail) /\ day_tail < day  BY <1>1, <1>3, DayIsAFront
<1>5. day \notin trends
  <2>1. day \in (day_tail + 1)..day  BY <1>3, <1>4
  <2> QED  BY <1>3, <1>4, <2>1
<1>6. Inv'  BY <1>3, RowKeepsInv
<1>7. Stats_Inv' /\ Passed_Inv' /\ Trends_Inv'
  <2>1. \A d \in DayRange : HasRow(d)' => d \in trends  BY <1>1, <1>3 DEF HasRow
  <2> QED  BY <1>1, <1>2, <2>1, AcumKeepsTrends
<1>8. PICK f \in day_tail..start : /\ ((day_tail + 1)..f) \cap trends = {}
                                   /\ empty_days = Cardinality(Counted(day_tail + 1, f))
  BY <1>2, <1>3 DEF Acum_Inv
<1>9. Acum_Inv'
  <2>1. PICK e \in Int : e = day_tail + 1  BY <1>3
  <2>2. f \in Int /\ f \in day_tail'..start' /\ day_tail' + 1 = e  BY <1>1, <1>3, <1>8, <2>1
  <2>3. ToSet(trend_tail') = trends' \cap (e..day')
    <3>1. e..(day - 1) = (e..day) \ {day}  BY <1>3
    <3> QED  BY <1>1, <1>3, <1>5, <2>1, <3>1
  <2>4. pc' # "row"  BY <1>1
  <2> QED  BY <1>1, <1>8, <2>1, <2>2, <2>3, <2>4, AcumFollows
<1>10. Rows_Inv'
  <2>1. \A x : RowIsRight(x)' <=> RowIsRight(x)  BY <1>1 DEF RowIsRight
  <2>2. \A x \in trends : ToCome(x) => ToCome(x)'
    <3>1. \A x \in trends : x <= day => x <= day - 1  BY <1>3, <1>5
    <3> QED  BY <1>1, <3>1 DEF ToCome
  <2>3. \A d : HasRow(d)' <=> HasRow(d)  BY <1>1 DEF HasRow
  <2>4. \A d \in trends : day < d => day' < d  BY <1>1, <1>3
  <2>5. InStep => \A d \in trends, x \in trends :
          HasRow(d)' /\ x < d /\ WindowLinked(x, d) => RowIsRight(x)' \/ (ToCome(x)' /\ day' < d)
    BY <1>1, <1>3, <2>1, <2>2, <2>3, <2>4 DEF Rows_Inv
  <2>6. Calm /\ Sound => \A x \in trends :
          Ahead(x) /\ WindowReached(x) => RowIsRight(x)' \/ ToCome(x)'
    BY <1>1, <1>3, <2>1, <2>2 DEF Rows_Inv
  <2> QED  BY <1>1, <1>2, <2>5, <2>6, AcumKeepsRows
<1> QED  BY <1>6, <1>7, <1>9, <1>10 DEF Fill_Inv

LEMMA InsertAcumFills ==
  ASSUME Fill_Inv, InsertAcum
  PROVE Fill_Inv'
<1>1. /\ pc = "row" /\ ~QueuedDay /\ UNCHANGED world /\ UNCHANGED stats /\ trends' = trends
      /\ trends_acum' = [trends_acum EXCEPT ![day] = trend_tail] /\ stcs_updates' = stcs_updates
      /\ pc' = "fill" /\ start' = start /\ day' = day - 1 /\ empty_days' = empty_days
      /\ day_tail' = day_tail /\ trend_tail' = Tail(trend_tail)
  BY DEF InsertAcum, DayBefore
<1>2. pc \in {"fill", "row"} /\ pc' \in {"idle", "fill", "row"}  BY <1>1
<1>3. /\ Inv /\ Acum_Inv /\ Rows_Inv /\ day \in Int /\ day_tail \in Int /\ trends \subseteq Int
      /\ trends \subseteq DayRange
      /\ trend_tail \in Seq(Int) /\ Down(trend_tail)
      /\ ToSet(trend_tail) = trends \cap ((day_tail + 1)..day)
      /\ \A d \in DayRange : HasRow(d) => d \in trends
  BY <1>2, InAcum
<1>4. /\ day \in trends /\ day_tail < day /\ trend_tail # <<>>
      /\ InStep => \A d \in trends :
           day < d /\ WindowLinked(day, d) => trend_tail = WindowFrom(trends, day)
      /\ Calm /\ Sound /\ WindowReached(day) => trend_tail = WindowFrom(trends, day)
  BY <1>1, WindowIsItsOwn
<1>5. Head(trend_tail) = day  BY <1>1, <1>3, DayIsAFront
<1>6. Inv'  BY <1>3, RowKeepsInv
<1>7. /\ trends_acum'[day] = trend_tail
      /\ \A x \in DayRange : x # day => trends_acum'[x] = trends_acum[x]
  <2>1. DOMAIN trends_acum = DayRange  BY <1>3 DEF Inv, Types
  <2> QED  BY <1>1, <1>3, <1>4, <2>1
<1>8. \A d \in DayRange : d # day => (HasRow(d)' <=> HasRow(d))  BY <1>7 DEF HasRow
<1>9. \A x \in trends : x # day => (RowIsRight(x)' <=> RowIsRight(x))
  BY <1>1, <1>3, <1>7 DEF RowIsRight
<1>10. Stats_Inv' /\ Passed_Inv' /\ Trends_Inv'
  <2>1. \A d \in DayRange : HasRow(d)' => d \in trends  BY <1>3, <1>4, <1>8
  <2> QED  BY <1>1, <1>2, <2>1, AcumKeepsTrends
<1>11. PICK f \in day_tail..start : /\ ((day_tail + 1)..f) \cap trends = {}
                                    /\ empty_days = Cardinality(Counted(day_tail + 1, f))
  BY <1>2, <1>3 DEF Acum_Inv
<1>12. Acum_Inv'
  <2>1. PICK e \in Int : e = day_tail + 1  BY <1>3
  <2>2. f \in Int /\ f \in day_tail'..start' /\ day_tail' + 1 = e  BY <1>1, <1>3, <1>11, <2>1
  <2>3. ToSet(trend_tail') = trends' \cap (e..day')
    <3>1. e..(day - 1) = (e..day) \ {day}  BY <1>3
    <3>2. ToSet(trend_tail') = ToSet(trend_tail) \ {day}  BY <1>1, <1>3, <1>4, <1>5, DownTail
    <3> QED  BY <1>1, <1>3, <2>1, <3>1, <3>2
  <2>4. pc' # "row"  BY <1>1
  <2> QED  BY <1>1, <1>11, <2>1, <2>2, <2>3, <2>4, AcumFollows
<1>13. ASSUME InStep, NEW d \in trends, NEW x \in trends, HasRow(d)', x < d, WindowLinked(x, d)
       PROVE RowIsRight(x)' \/ (ToCome(x)' /\ day' < d)
  <2>1. x \in Int /\ d \in Int /\ d \in DayRange  BY <1>3
  <2>2. CASE x = day
    <3>1. trend_tail = WindowFrom(trends, day)  BY <1>4, <1>13, <2>2
    <3> QED  BY <1>1, <1>7, <2>2, <3>1 DEF RowIsRight
  <2>3. CASE x < day /\ day <= d
    <3>1. x <= day - 1 /\ day - 1 < d  BY <1>3, <2>1, <2>3
    <3> QED  BY <1>1, <3>1 DEF ToCome
  <2>4. CASE x > day \/ d < day
    <3>1. x # day /\ d # day /\ ~(x <= day /\ day < d)  BY <1>3, <1>13, <2>1, <2>4
    <3>2. HasRow(d)  BY <1>8, <1>13, <2>1, <3>1
    <3>3. RowIsRight(x)  BY <1>2, <1>13, <3>1, <3>2, InAcum
    <3> QED  BY <1>9, <3>1, <3>3
  <2> QED  BY <1>3, <2>1, <2>2, <2>3, <2>4
<1>14. ASSUME Calm, Sound, NEW x \in trends, Ahead(x), WindowReached(x)
       PROVE RowIsRight(x)' \/ ToCome(x)'
  <2>1. x \in Int  BY <1>3
  <2>2. CASE x = day
    <3>1. trend_tail = WindowFrom(trends, day)  BY <1>4, <1>14, <2>2
    <3> QED  BY <1>1, <1>7, <2>2, <3>1 DEF RowIsRight
  <2>3. CASE x # day
    <3>1. RowIsRight(x) \/ x <= day  BY <1>2, <1>14, InAcum
    <3>2. x <= day => x <= day - 1  BY <1>3, <2>1, <2>3
    <3> QED  BY <1>1, <1>9, <2>3, <3>1, <3>2 DEF ToCome
  <2> QED  BY <2>2, <2>3
<1>15. Rows_Inv'  BY <1>1, <1>2, <1>13, <1>14, AcumKeepsRows
<1> QED  BY <1>6, <1>10, <1>12, <1>15 DEF Fill_Inv

(* A row that is there with the same window: it is right, and those behind  *)
(* it are.                                                                  *)
LEMMA SameAcumLeaves ==
  ASSUME Fill_Inv, SameAcum
  PROVE /\ InStep => \A d \in trends, x \in trends :
             HasRow(d) /\ x < d /\ WindowLinked(x, d) => RowIsRight(x)
        /\ Calm /\ Sound => \A x \in trends : Ahead(x) /\ WindowReached(x) => RowIsRight(x)
<1>1. pc = "row" /\ ~QueuedDay /\ trends_acum[day] = trend_tail /\ force = 0
  BY DEF SameAcum
<1>2. pc \in {"fill", "row"}  BY <1>1
<1>3. /\ today \in Int /\ day \in Int /\ day <= today /\ trends \subseteq Int
      /\ statistics \subseteq quoted /\ trends \subseteq statistics
  BY <1>2, InAcum
<1>4. /\ day \in trends /\ trend_tail # <<>>
      /\ InStep => \A d \in trends :
           day < d /\ WindowLinked(day, d) => trend_tail = WindowFrom(trends, day)
      /\ Calm /\ Sound /\ WindowReached(day) => trend_tail = WindowFrom(trends, day)
  BY <1>1, WindowIsItsOwn
<1>5. HasRow(day)  BY <1>1, <1>4 DEF HasRow, NoRow
<1>6. \A x \in trends : \A w \in WindowDays(trends, x) : w \in Int /\ w <= x
  BY <1>3 DEF WindowDays
<1>7. ASSUME InStep, NEW x \in trends, x < day, WindowLinked(x, day)  PROVE RowIsRight(x)
  <2>1. RowIsRight(x) \/ (x <= day /\ day < day)  BY <1>2, <1>4, <1>5, <1>7, InAcum
  <2> QED  BY <1>3, <2>1
<1>8. ASSUME InStep, NEW d \in trends, NEW x \in trends, HasRow(d), x < d, WindowLinked(x, d)
      PROVE RowIsRight(x)
  <2>1. x \in Int /\ d \in Int  BY <1>3
  <2>2. RowIsRight(x) \/ (x <= day /\ day < d)  BY <1>2, <1>8, InAcum
  <2>3. CASE x = day /\ day < d
    <3>1. trend_tail = WindowFrom(trends, day)  BY <1>4, <1>8, <2>3
    <3> QED  BY <1>1, <2>3, <3>1 DEF RowIsRight
  <2>4. CASE x < day /\ day < d
    <3>1. \A w \in WindowDays(trends, x) : Linked(quoted, w, day)
      <4> SUFFICES ASSUME NEW w \in WindowDays(trends, x) PROVE Linked(quoted, w, day)  OBVIOUS
      <4>1. w \in Int /\ w <= w /\ day <= d /\ Linked(quoted, w, d)
        BY <1>3, <1>6, <1>8, <2>1, <2>4 DEF WindowLinked
      <4> QED  BY <1>3, <2>1, <4>1, LinkedNarrower
    <3>2. WindowLinked(x, day)  BY <1>8, <3>1 DEF WindowLinked
    <3> QED  BY <1>7, <1>8, <2>4, <3>2
  <2> QED  BY <1>3, <2>1, <2>2, <2>3, <2>4
<1>9. ASSUME Calm, Sound, NEW x \in trends, Ahead(x), WindowReached(x)  PROVE RowIsRight(x)
  <2>1. InStep  BY <1>1, <1>9 DEF InStep, Sound
  <2>2. x \in Int  BY <1>3
  <2>3. RowIsRight(x) \/ x <= day  BY <1>2, <1>9, InAcum
  <2>4. CASE x = day
    <3>1. trend_tail = WindowFrom(trends, day)  BY <1>4, <1>9, <2>4
    <3> QED  BY <1>1, <2>4, <3>1 DEF RowIsRight
  <2>5. CASE x < day
    <3>1. \A w \in WindowDays(trends, x) : Linked(quoted, w, day)
      <4> SUFFICES ASSUME NEW w \in WindowDays(trends, x) PROVE Linked(quoted, w, day)  OBVIOUS
      <4>1. w \in Int /\ w <= w /\ Linked(trends, w, today)
        BY <1>6, <1>9 DEF WindowReached, Reached
      <4>2. Linked(quoted, w, today)  BY <1>3, <4>1, LinkedMore
      <4> QED  BY <1>3, <4>1, <4>2, LinkedNarrower
    <3>2. WindowLinked(x, day)  BY <1>9, <3>1 DEF WindowLinked, WindowReached
    <3> QED  BY <1>7, <1>9, <2>1, <2>5, <3>2
  <2> QED  BY <1>3, <2>2, <2>3, <2>4, <2>5
<1> QED  BY <1>8, <1>9

(* No row to come is ahead of force_until.                                  *)
LEMMA AcumEndsLeaves ==
  ASSUME Fill_Inv, AcumEnds
  PROVE /\ InStep => \A d \in trends, x \in trends :
             HasRow(d) /\ x < d /\ WindowLinked(x, d) => RowIsRight(x)
        /\ Calm /\ Sound => \A x \in trends : Ahead(x) /\ WindowReached(x) => RowIsRight(x)
<1>1. pc \in {"fill", "row"} /\ force # 0 /\ ~(force < day)  BY DEF AcumEnds, Ahead
<1>2. day \in Int /\ force \in Nat /\ trends \subseteq Int  BY <1>1, InAcum
<1>3. ~InStep  BY <1>1 DEF InStep
<1>4. \A x \in trends : Ahead(x) => ~(x <= day)  BY <1>1, <1>2 DEF Ahead
<1>5. Calm /\ Sound => \A x \in trends :
        Ahead(x) /\ WindowReached(x) => RowIsRight(x) \/ x <= day
  BY <1>1, InAcum
<1> QED  BY <1>3, <1>4, <1>5

(* A window of one day at most, and too many days without data before it:   *)
(* no day to come has a window of linked days.                              *)
LEMMA TooManyLeaves ==
  ASSUME Fill_Inv, TooManyEmpty
  PROVE /\ InStep => \A d \in trends, x \in trends :
             HasRow(d) /\ x < d /\ WindowLinked(x, d) => RowIsRight(x)
        /\ Calm /\ Sound => \A x \in trends : Ahead(x) /\ WindowReached(x) => RowIsRight(x)
<1>1. /\ pc = "fill" /\ ~HasData(day_tail) /\ Len(trend_tail) <= 1
      /\ empty_days + (IF force = 0 \/ day_tail - 1 < force THEN 1 ELSE 0) > EmptyLimit
  BY DEF TooManyEmpty, GiveUp, Fills
<1>2. pc \in {"fill", "row"}  BY <1>1
<1>3. /\ Acum_Inv /\ start \in Int /\ day \in Int /\ day_tail \in Int /\ day_tail <= day
      /\ force \in Nat /\ empty_days \in Nat
      /\ trends \subseteq Int /\ trends \subseteq statistics /\ IsFiniteSet(trends)
      /\ trend_tail \in Seq(Int) /\ Down(trend_tail)
      /\ ToSet(trend_tail) = trends \cap ((day_tail + 1)..day)
  BY <1>2, InAcum
<1>4. day_tail \notin trends  BY <1>1, <1>3 DEF HasData
<1>5. PICK f \in day_tail..start : /\ ((day_tail + 1)..f) \cap trends = {}
                                   /\ empty_days = Cardinality(Counted(day_tail + 1, f))
  BY <1>2, <1>3 DEF Acum_Inv
<1>6. PICK e \in Int : e = day_tail  BY <1>3
<1>7. f \in Int /\ e <= f /\ f <= start  BY <1>3, <1>5, <1>6
<1>8. (e..f) \cap trends = {}
  <2>1. e..f = ((e + 1)..f) \cup {e}  BY <1>7
  <2> QED  BY <1>4, <1>5, <1>6, <2>1
<1>9. Cardinality(Counted(e, f)) > EmptyLimit
  <2>1. Cardinality(Counted(e, f)) =
          Cardinality(Counted(e + 1, f)) + (IF force = 0 \/ e <= force THEN 1 ELSE 0)
    BY <1>7, CountedMore
  <2>2. Cardinality(Counted(e + 1, f)) = empty_days  BY <1>5, <1>6
  <2>3. day_tail - 1 < force <=> e <= force  BY <1>3, <1>6
  <2> QED  BY <1>1, <2>1, <2>2, <2>3
<1>10. ASSUME NEW w \in Int, w <= e
       PROVE /\ InStep => \A d \in trends : e <= d => ~Linked(quoted, w, d)
             /\ ~Reached(trends, w)
  BY <1>2, <1>7, <1>8, <1>9, <1>10, TooManyBehind
(* Of two days of the window one is behind day_tail.                        *)
<1>11. ASSUME NEW x \in trends, x <= day, Cardinality(WindowDays(trends, x)) > 1
       PROVE \E w \in WindowDays(trends, x) : w \in Int /\ w <= e
  <2> SUFFICES ASSUME \A w \in WindowDays(trends, x) : ~(w \in Int /\ w <= e)  PROVE FALSE
    OBVIOUS
  <2>1. x \in Int  BY <1>3
  <2>2. \A w \in WindowDays(trends, x) : w \in trends /\ w \in Int /\ w <= x
    BY <1>3 DEF WindowDays
  <2>3. WindowDays(trends, x) \in SUBSET ToSet(trend_tail)
    <3> SUFFICES ASSUME NEW w \in WindowDays(trends, x)
                 PROVE w \in trends /\ w \in (day_tail + 1)..day
      BY <1>3
    <3> QED  BY <1>3, <1>6, <1>11, <2>1, <2>2
  <2>4. IsFiniteSet(ToSet(trend_tail)) /\ Cardinality(ToSet(trend_tail)) = Len(trend_tail)
    BY <1>3, DownIsLatestFirst
  <2>5. Cardinality(WindowDays(trends, x)) <= Cardinality(ToSet(trend_tail))
    BY <2>3, <2>4, FS_Subset
  <2>6. Cardinality(WindowDays(trends, x)) \in Int /\ Len(trend_tail) \in Int
    <3>1. IsFiniteSet(WindowDays(trends, x))  BY <2>3, <2>4, FS_Subset
    <3>2. Len(trend_tail) \in Nat  BY <1>3, LenProperties
    <3> QED  BY <3>1, <3>2, FS_CardinalityType
  <2> QED  BY <1>1, <1>11, <2>4, <2>5, <2>6
<1>12. ASSUME InStep, NEW d \in trends, NEW x \in trends, HasRow(d), x < d, WindowLinked(x, d)
       PROVE RowIsRight(x)
  <2>1. RowIsRight(x) \/ (x <= day /\ day < d)  BY <1>2, <1>12, InAcum
  <2>2. ASSUME x <= day, day < d  PROVE FALSE
    <3>1. PICK w \in WindowDays(trends, x) : w \in Int /\ w <= e
      BY <1>11, <1>12, <2>2 DEF WindowLinked
    <3>2. Linked(quoted, w, d)  BY <1>12 DEF WindowLinked
    <3>3. e <= d  BY <1>3, <1>6, <2>2
    <3> QED  BY <1>10, <1>12, <3>1, <3>2, <3>3
  <2> QED  BY <2>1, <2>2
<1>13. ASSUME Calm, Sound, NEW x \in trends, Ahead(x), WindowReached(x)  PROVE RowIsRight(x)
  <2>1. RowIsRight(x) \/ x <= day  BY <1>2, <1>13, InAcum
  <2>2. ASSUME x <= day  PROVE FALSE
    <3>1. PICK w \in WindowDays(trends, x) : w \in Int /\ w <= e
      BY <1>11, <1>13, <2>2 DEF WindowReached
    <3>2. Reached(trends, w)  BY <1>13 DEF WindowReached
    <3> QED  BY <1>10, <1>13, <3>1, <3>2
  <2> QED  BY <2>1, <2>2
<1> QED  BY <1>12, <1>13

LEMMA ReturnFills ==
  ASSUME Fill_Inv, AcumEnds \/ TooManyEmpty \/ SameAcum
  PROVE Fill_Inv'
<1>1. /\ pc \in {"fill", "row"} /\ UNCHANGED world /\ UNCHANGED stats /\ trends' = trends
      /\ trends_acum' = trends_acum /\ stcs_updates' = stcs_updates /\ pc' = "idle"
  BY DEF AcumEnds, TooManyEmpty, GiveUp, SameAcum, Fills, Return, tables
<1>2. Inv' 
  <2>1. Inv  BY <1>1, InAcum
  <2> QED  BY <2>1, ReturnKeepsInv DEF AcumEnds, TooManyEmpty, GiveUp, SameAcum
<1>3. Stats_Inv' /\ Passed_Inv' /\ Trends_Inv'
  <2>1. \A d \in DayRange : HasRow(d) => d \in trends  BY <1>1, InAcum
  <2>2. \A d \in DayRange : HasRow(d)' => d \in trends  BY <1>1, <2>1 DEF HasRow
  <2>3. pc' \in {"idle", "fill", "row"} /\ (pc' # "idle" => start' = start)  BY <1>1
  <2> QED  BY <1>1, <2>2, <2>3, AcumKeepsTrends
<1>4. Acum_Inv'  BY <1>1 DEF Acum_Inv
<1>5. Rows_Inv'
  <2>1. /\ InStep => \A d \in trends, x \in trends :
             HasRow(d) /\ x < d /\ WindowLinked(x, d) => RowIsRight(x)
        /\ Calm /\ Sound => \A x \in trends : Ahead(x) /\ WindowReached(x) => RowIsRight(x)
    BY SameAcumLeaves, AcumEndsLeaves, TooManyLeaves
  <2>2. \A x : /\ RowIsRight(x)' <=> RowIsRight(x)
               /\ HasRow(x)' <=> HasRow(x)
    BY <1>1 DEF RowIsRight, HasRow
  <2> QED  BY <1>1, <2>1, <2>2, AcumKeepsRows
<1> QED  BY <1>2, <1>3, <1>4, <1>5 DEF Fill_Inv

LEMMA StutterFills ==
  ASSUME Fill_Inv, UNCHANGED vars
  PROVE Fill_Inv'
<1>1. /\ UNCHANGED world /\ UNCHANGED stats /\ trends' = trends /\ trends_acum' = trends_acum
      /\ stcs_updates' = stcs_updates /\ pc' = pc /\ start' = start /\ day' = day
      /\ empty_days' = empty_days /\ day_tail' = day_tail /\ trend_tail' = trend_tail
  BY DEF vars, tables, locals, window
<1>2. Inv'  BY StepKeepsInv DEF Fill_Inv
<1>3. Stats_Inv'  BY <1>1, TrendsKeepStats DEF Fill_Inv
<1>4. Passed_Inv'
  BY <1>1 DEF Fill_Inv, Passed_Inv, Empties, Calm, InStep, Linked, Counted, world, stats
<1>5. Trends_Inv'
  <2>1. NoneLeftOut /\ AllReached /\ Trends_Inv  BY DEF Fill_Inv, Trends_Inv, NoneLeftOut, AllReached
  <2>2. \A d : HasRow(d)' <=> HasRow(d)  BY <1>1 DEF HasRow
  <2>3. NoneLeftOut'  BY <1>1, <2>1, <2>2, LinksStay DEF NoneLeftOut
  <2>4. AllReached'  BY <1>1, <2>1, LinksStay DEF AllReached
  <2>5. /\ pc' # "idle" => trends' \subseteq 1..start'
        /\ pc' # "idle" /\ Calm' => quoted' \subseteq 1..start'
        /\ \A d \in DayRange : HasRow(d)' => d \in trends'
    BY <1>1, <2>1, <2>2, LinksStay DEF Trends_Inv
  <2> QED  BY <2>3, <2>4, <2>5 DEF Trends_Inv, NoneLeftOut, AllReached
<1>6. Acum_Inv'  BY <1>1 DEF Fill_Inv, Acum_Inv, Counted, world
<1>7. Rows_Inv'
  <2>1. RowsLinked /\ RowsReached  BY DEF Fill_Inv, Rows_Inv, RowsLinked, RowsReached
  <2>2. \A x : /\ RowIsRight(x)' <=> RowIsRight(x)
               /\ HasRow(x)' <=> HasRow(x)
               /\ ToCome(x)' <=> ToCome(x)
               /\ WindowReached(x)' <=> WindowReached(x)
               /\ \A d : WindowLinked(x, d)' <=> WindowLinked(x, d)
    BY <1>1, LinksStay DEF RowIsRight, HasRow, ToCome, WindowReached, WindowLinked
  <2>3. RowsLinked'  BY <1>1, <2>1, <2>2, LinksStay DEF RowsLinked
  <2>4. RowsReached'  BY <1>1, <2>1, <2>2, LinksStay DEF RowsReached
  <2> QED  BY <2>3, <2>4 DEF Rows_Inv, RowsLinked, RowsReached
<1> QED  BY <1>2, <1>3, <1>4, <1>5, <1>6, <1>7 DEF Fill_Inv

LEMMA WorksFills ==
  ASSUME Fill_Inv, Works \/ UNCHANGED vars
  PROVE Fill_Inv'
<1>1. CASE Quote \/ NextDay \/ Stat
  <2>1. Inv'  BY <1>1, OthersKeepInv DEF Fill_Inv
  <2> QED
    BY <1>1, <2>1, OthersKeepStats, OthersKeepPassed, OthersKeepTrends, OthersKeepAcum,
       OthersKeepRows DEF Fill_Inv
<1>2. CASE Begin  BY <1>2, BeginFills
<1>3. CASE CalculateEnds \/ SameDay  BY <1>3, EndFills
<1>4. CASE EmptyDay
  <2>1. empty_days \in Nat /\ EmptyLimit \in Nat
    BY <1>4, InCalculate DEF EmptyDay, Calculates
  <2>2. CASE ToAcum  BY <1>4, <2>2, EndFills
  <2>3. CASE ~ToAcum
    <3>1. /\ NextDayBack
          /\ empty_days' = empty_days \/ empty_days' = empty_days + 1
          /\ force # 0 => empty_days' = empty_days
          /\ force = 0 => empty_days' = empty_days + 1 /\ empty_days + 1 <= EmptyLimit
      BY <1>4, <2>1, <2>3 DEF EmptyDay, NothingRead
    <3> QED  BY <1>4, <3>1, EmptyFills
  <2> QED  BY <2>2, <2>3
<1>5. CASE InsertDay  BY <1>5, InsertFills
<1>6. CASE TakeDay \/ PassDay \/ WindowFull  BY <1>6, TakeFills
<1>7. CASE AcumEnds \/ TooManyEmpty \/ SameAcum  BY <1>7, ReturnFills
<1>8. CASE SkipDay  BY <1>8, SkipFills
<1>9. CASE InsertAcum  BY <1>9, InsertAcumFills
<1>10. CASE UNCHANGED vars  BY <1>10, StutterFills
<1> QED
  BY <1>1, <1>2, <1>3, <1>4, <1>5, <1>6, <1>7, <1>8, <1>9, <1>10
     DEF Works, Calculate, CalculateAcum

LEMMA WorksBares ==
  ASSUME Inv, Bare_Inv, Works \/ UNCHANGED vars
  PROVE Bare_Inv'
<1>0. bare \subseteq trends /\ trends \subseteq statistics /\ day \in Int /\ start \in Int
      /\ statistics \subseteq 1..today /\ today \in Nat /\ force \in Nat
  BY Kinds DEF Inv, Types
<1>1. CASE Quote \/ NextDay \/ Stat
  <2>1. /\ UNCHANGED <<pc, day, force, bare>> /\ (InStep' => InStep)
        /\ stcs_updates => stcs_updates'
    <3>1. UNCHANGED <<pc, day, force>> /\ (~lagged' => ~lagged)  BY <1>1, OthersStep
    <3>2. bare' = bare /\ (stcs_updates => stcs_updates')
      BY <1>1 DEF Quote, NextDay, Stat, StatBegin, StatDay, StatDayBefore, StatSame,
                  StatTooManyEmpty, StatEnd, tables
    <3> QED  BY <3>1, <3>2 DEF InStep
  <2> QED  BY <2>1 DEF Bare_Inv, Ahead
<1>2. CASE Begin
  <2>1. UNCHANGED world /\ bare' = bare /\ pc' = "calculate" /\ day' = today
    BY <1>2 DEF Begin, tables
  <2>2. \A e \in bare : e <= today  BY <1>0
  <2> QED  BY <2>1, <2>2 DEF Bare_Inv, InStep, world
<1>3. CASE CalculateEnds
  <2>1. UNCHANGED world /\ bare' = bare /\ pc = "calculate" /\ force # 0 /\ ~(force < day)
    BY <1>3 DEF CalculateEnds, tables, Ahead
  <2>2. \A e \in bare : Ahead(e) => FALSE
    <3> SUFFICES ASSUME NEW e \in bare, force < e PROVE FALSE  BY <2>1 DEF Ahead
    <3>1. e <= day /\ e \in Int  BY <1>0, <2>1 DEF Bare_Inv, Ahead
    <3> QED  BY <1>0, <2>1, <3>1
  <2> QED  BY <2>1, <2>2 DEF Bare_Inv, InStep, world, Ahead
<1>4. CASE EmptyDay \/ InsertDay
  <2>1. /\ UNCHANGED world /\ pc = "calculate"
        /\ (bare' = bare /\ day \notin bare) \/ bare' = bare \ {day}
        /\ force # 0 => pc' = pc /\ day' = day - 1
    BY <1>0, <1>4 DEF EmptyDay, InsertDay, NothingRead, NextDayBack, Calculates, tables
  <2>2. \A e \in bare : e # day /\ e <= day => e <= day - 1  BY <1>0
  <2> QED  BY <2>1, <2>2 DEF Bare_Inv, InStep, world, Ahead
<1>5. CASE SameDay
  <2>1. UNCHANGED world /\ bare' = bare /\ force = 0  BY <1>5 DEF SameDay, tables
  <2> QED  BY <2>1 DEF Bare_Inv, InStep, world
<1>6. CASE CalculateAcum
  <2>1. UNCHANGED world /\ bare' = bare /\ pc \in {"fill", "row"}
    BY <1>6 DEF CalculateAcum, AcumEnds, TakeDay, PassDay, TooManyEmpty, WindowFull, SkipDay,
                InsertAcum, SameAcum, Fills, tables
  <2>2. force # 0 => \A e \in bare : ~Ahead(e)  BY <2>1 DEF Bare_Inv
  <2> QED  BY <2>1, <2>2 DEF Bare_Inv, InStep, world, Ahead
<1>7. CASE UNCHANGED vars
  BY <1>7 DEF Bare_Inv, InStep, Ahead, vars, world, tables, locals
<1> QED  BY <1>1, <1>2, <1>3, <1>4, <1>5, <1>6, <1>7 DEF Works, Calculate

(* Whatever fails, rows are only written of days the window holds.          *)
LEMMA StepHolds ==
  ASSUME Inv, Held_Inv, [Next]_vars
  PROVE Held_Inv'
<1>1. CASE trend_tail' = <<>> /\ trends_acum' = trends_acum /\ trends \subseteq trends'
  <2>1. ToSet(trend_tail') = {}  BY <1>1 DEF ToSet
  <2> QED  BY <1>1, <2>1 DEF Held_Inv, HasRow
<1>2. CASE trend_tail' = trend_tail /\ trends_acum' = trends_acum /\ trends \subseteq trends'
  BY <1>2 DEF Held_Inv, HasRow
<1>3. CASE TakeDay
  <2>1. /\ trend_tail \in Seq(Int) /\ trend_tail' = Append(trend_tail, day_tail)
        /\ day_tail \in trends /\ trends' = trends /\ trends_acum' = trends_acum
    BY <1>3 DEF TakeDay, HasData, tables, Inv, Window_Inv
  <2>2. ToSet(trend_tail') \subseteq ToSet(trend_tail) \cup {day_tail}
    <3> SUFFICES ASSUME NEW i \in DOMAIN trend_tail'
                 PROVE trend_tail'[i] \in ToSet(trend_tail) \cup {day_tail}
      BY DEF ToSet
    <3>1. CASE i = Len(trend_tail) + 1  BY <2>1, <3>1
    <3>2. CASE i # Len(trend_tail) + 1
      <4>1. i \in DOMAIN trend_tail /\ trend_tail'[i] = trend_tail[i]  BY <2>1, <3>2
      <4> QED  BY <4>1 DEF ToSet
    <3> QED  BY <3>1, <3>2
  <2> QED  BY <2>1, <2>2 DEF Held_Inv, HasRow
<1>4. CASE InsertAcum \/ InsertAcumFails
  <2>1. /\ pc = "row" /\ ~QueuedDay /\ trend_tail' = Tail(trend_tail) /\ trends' = trends
        /\ trends_acum' = trends_acum
           \/ \E v : trends_acum' = [trends_acum EXCEPT ![day] = v]
    BY <1>4 DEF InsertAcum, InsertAcumFails
  <2>2. trend_tail \in Seq(Int) /\ trend_tail # <<>> /\ Down(trend_tail) /\ Head(trend_tail) = day
        /\ DOMAIN trends_acum = DayRange
    BY <2>1, DayIsAFront DEF Inv, Types, Window_Inv, Shared
  <2>3. day \in ToSet(trend_tail) /\ ToSet(trend_tail') \subseteq ToSet(trend_tail)
    BY <2>1, <2>2, DownTail
  <2>4. \A d \in DayRange : d # day => trends_acum'[d] = trends_acum[d]  BY <2>1, <2>2
  <2> QED  BY <2>1, <2>3, <2>4 DEF Held_Inv, HasRow
<1>5. Quote \/ NextDay \/ Stat =>
        trend_tail' = trend_tail /\ trends_acum' = trends_acum /\ trends \subseteq trends'
  BY OthersStep
<1>6. Calculate \/ Begin \/ ReadDayFails \/ InsertDayFails =>
        /\ trend_tail' = trend_tail \/ trend_tail' = <<>>
        /\ trends_acum' = trends_acum /\ trends \subseteq trends'
  BY DEF Begin, Calculate, CalculateEnds, EmptyDay, InsertDay, SameDay, NothingRead, NextDayBack,
         ToAcum, Calculates, ReadDayFails, InsertDayFails, tables, window, Inv, Window_Inv
<1>7. AcumEnds \/ PassDay \/ TooManyEmpty \/ WindowFull \/ SkipDay \/ SameAcum \/ TailFails =>
        /\ trend_tail' = trend_tail \/ trend_tail' = <<>>
        /\ trends_acum' = trends_acum /\ trends' = trends
  BY DEF AcumEnds, PassDay, PassOver, TooManyEmpty, GiveUp, WindowFull, SkipDay, SameAcum,
         TailFails, Return, tables, window
<1>8. StatFails \/ CodesFail \/ Restart \/ UNCHANGED vars =>
        /\ trend_tail' = trend_tail \/ trend_tail' = <<>>
        /\ trends_acum' = trends_acum /\ trends' = trends
  BY DEF StatFails, CodesFail, Restart, Return, vars, tables, locals, window
<1> QED
  BY <1>1, <1>2, <1>3, <1>4, <1>5, <1>6, <1>7, <1>8 DEF Next, Works, StatementFails, CalculateAcum

(* The tables of a process that starts are what the one before it left.     *)
LEMMA RestartStarts == Inv /\ Held_Inv /\ Restart => StartState'
<1> SUFFICES ASSUME Inv, Held_Inv, Restart PROVE StartState'  OBVIOUS
<1>1. Inv'  BY RestartKeepsInv
<1>2. Held_Inv'  BY StepHolds DEF Next
<1>3. Starts'  BY DEF Restart, Return, Starts
<1>4. lagged' = ~TablesInStep'  BY DEF Restart
<1> QED  BY <1>1, <1>2, <1>3, <1>4 DEF StartState

LEMMA WholeInvariant == Spec => []Whole_Inv
<1>1. Init => StartState  BY StartInit
<1>2. StartState => Fill_Inv /\ Bare_Inv  BY StartFills
<1>3. StartState => Inv /\ Held_Inv  BY DEF StartState
<1>4. Inv /\ Held_Inv /\ [Next]_vars => Inv' /\ Held_Inv'  BY StepKeepsInv, StepHolds
<1>5. Inv /\ Held_Inv /\ Restart => StartState'  BY RestartStarts
<1>6. Whole_Inv /\ [Next]_vars => Restart \/ failed' \/ (Fill_Inv' /\ Bare_Inv')
  <2> SUFFICES ASSUME Whole_Inv, [Next]_vars, ~Restart, ~failed'
               PROVE Fill_Inv' /\ Bare_Inv'
    OBVIOUS
  <2>1. ~StatementFails
    BY DEF StatementFails, StatFails, CodesFail, ReadDayFails, InsertDayFails, TailFails,
           InsertAcumFails, Fails
  <2>2. (Works \/ UNCHANGED vars) /\ failed' = failed  BY <2>1 DEF Next, vars, history
  <2>3. Fill_Inv /\ Bare_Inv /\ Inv  BY <2>2 DEF Whole_Inv
  <2> QED  BY <2>2, <2>3, WorksFills, WorksBares
<1>7. Whole_Inv => Inv /\ Held_Inv  BY DEF Whole_Inv
<1>8. Inv /\ Held_Inv /\ (failed \/ (Fill_Inv /\ Bare_Inv)) => Whole_Inv  BY DEF Whole_Inv
<1> QED  BY <1>1, <1>2, <1>3, <1>4, <1>5, <1>6, <1>7, <1>8, PTL DEF Spec

(* Done, what is reached is filled.                                         *)
LEMMA WholeIsEnough ==
  ASSUME Whole_Inv
  PROVE FilledInStep
<1> SUFFICES ASSUME Done, ~failed, ~lagged \/ force # 0,
                    NEW d \in quoted, Ahead(d), Reached(quoted, d)
             PROVE LET from == WindowFrom(trends, d)
                   IN  /\ d \in trends \ bare
                       /\ Len(from) > 1 /\ (\A e \in ToSet(from) : Reached(trends, e)) =>
                            trends_acum[d] = from
  BY DEF FilledInStep, Complete
<1>1. Inv /\ AllReached /\ RowsReached /\ Bare_Inv
  BY DEF Whole_Inv, Fill_Inv, Trends_Inv, Rows_Inv, AllReached, RowsReached
<1>2. Calm /\ Sound /\ pc = "idle" /\ ~stcs_updates  BY DEF Done, Calm, Sound
<1>3. trends \subseteq Int /\ IsFiniteSet(trends) /\ d \in Int /\ force \in Nat  BY <1>1, Kinds
<1>4. d \in trends  BY <1>1, <1>2 DEF AllReached
<1>5. d \notin bare  BY <1>1, <1>2 DEF Bare_Inv, InStep, Sound
<1> DEFINE from == WindowFrom(trends, d)
<1>6. ASSUME Len(from) > 1, \A e \in ToSet(from) : Reached(trends, e)
      PROVE trends_acum[d] = from
  <2>1. ToSet(from) = WindowDays(trends, d) /\ Len(from) = Cardinality(WindowDays(trends, d))
    BY <1>3, WindowFromIs
  <2> HIDE DEF from
  <2>2. WindowReached(d)  BY <1>6, <2>1 DEF WindowReached
  <2>3. RowIsRight(d)  BY <1>1, <1>2, <1>4, <2>2 DEF RowsReached, ToCome
  <2> QED  BY <2>3 DEF RowIsRight, from
<1> QED  BY <1>4, <1>5, <1>6

(* When both plugins are done and no statement of the process failed, each  *)
(* day with quotes that is reached has its trends, and its accumulated      *)
(* trends those of the next days that have trends: of a forced process      *)
(* whatever failed and ended before it, of another if it found the tables   *)
(* in step and the statistics never had more than the last day to fill.     *)
THEOREM TablesAreFilled == Spec => []FilledInStep
<1>1. Whole_Inv => FilledInStep  BY WholeIsEnough
<1> QED  BY <1>1, WholeInvariant, PTL
=============================================================================
