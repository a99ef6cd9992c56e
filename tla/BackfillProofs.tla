---------------------------- MODULE BackfillProofs ----------------------------
(***************************************************************************)
(* The run of the statistics, for every number of days, length of a month  *)
(* and of a year, and every limit: it leaves no day behind, the summaries  *)
(* agree with the days, and a forced run repairs what it passes.           *)
(***************************************************************************)
EXTENDS Backfill, FiniteSetTheorems, WellFoundedInduction, TLAPS

USE BackfillAssumption

-----------------------------------------------------------------------------
(* Largest days, and the months and years of days.                          *)

(* A set of natural numbers that is not empty has a smallest one: their     *)
(* intervals are ordered by inclusion, which is well founded.               *)
LEMMA Smallest ==
  ASSUME NEW S, S \subseteq Nat, S # {}
  PROVE \E m \in S : \A k \in S : m <= k
<1> DEFINE R == StrictSubsetOrdering(Nat)
           T == {0..k : k \in S}
<1>1. T \subseteq FiniteSubsetsOf(Nat)
  <2>1. \A k \in S : IsFiniteSet(0..k) /\ 0..k \in SUBSET Nat  BY FS_Interval
  <2> QED  BY <2>1 DEF FiniteSubsetsOf
<1>2. T # {}  OBVIOUS
<1> HIDE DEF T
<1>3. PICK t \in T : \A u \in T : ~ (<<u, t>> \in R)
  BY <1>1, <1>2, FS_StrictSubsetOrderingWellFounded, WFMin
<1>4. PICK m \in S : t = 0..m  BY DEF T
<1>5. ASSUME NEW k \in S, k < m PROVE FALSE
  <2>1. 0..k \in T /\ 0..k \subseteq 0..m /\ 0..k # 0..m  BY <1>5 DEF T
  <2>2. <<0..k, t>> \in R  BY <2>1, <1>4 DEF StrictSubsetOrdering
  <2> QED  BY <2>1, <2>2, <1>3
<1> QED  BY <1>5

LEMMA LargestDay ==
  ASSUME NEW S, S \subseteq DayRange, S # {}
  PROVE Max(S) \in S /\ \A d \in S : d <= Max(S)
<1> DEFINE T == {Days - d : d \in S}
<1>1. T \subseteq Nat /\ T # {}
  <2>1. \A d \in S : Days - d \in Nat  BY DEF DayRange
  <2> QED  BY <2>1
<1>2. PICK m \in T : \A k \in T : m <= k  BY <1>1, Smallest
<1>3. PICK x \in S : m = Days - x  BY <1>2
<1>4. \A d \in S : Days - d \in T  OBVIOUS
<1>5. \A d \in S : d \in Int  BY DEF DayRange
<1>6. \A d \in S : Days - x <= Days - d  BY <1>2, <1>3, <1>4
<1>7. \A d \in S : x >= d  BY <1>5, <1>6
<1> QED  BY <1>5, <1>7 DEF Max

LEMMA MonthOfDays ==
  /\ \A d \in Int : MonthOf(d) \in Int
  /\ \A c, d \in Int : c <= d => MonthOf(c) <= MonthOf(d)
  /\ \A d \in DayRange : MonthOf(d) \in MonthRange
<1>1. \A d \in Int : MonthOf(d) \in Int  BY DEF MonthOf
<1>2. ASSUME NEW c \in Int, NEW d \in Int, c <= d PROVE MonthOf(c) <= MonthOf(d)
  BY <1>2, SMTT(30) DEF MonthOf
<1>3. MonthOf(1) = 0  BY DEF MonthOf
<1>4. \A d \in DayRange : MonthOf(d) \in MonthRange
  BY <1>1, <1>2, <1>3 DEF DayRange, MonthRange
<1> QED  BY <1>1, <1>2, <1>4

LEMMA YearOfMonths ==
  /\ \A m \in Int : YearOf(m) \in Int
  /\ \A k, m \in Int : k <= m => YearOf(k) <= YearOf(m)
  /\ \A m \in MonthRange : YearOf(m) \in YearRange
<1>1. \A d \in Int : YearOf(d) \in Int  BY DEF YearOf
<1>2. ASSUME NEW c \in Int, NEW d \in Int, c <= d PROVE YearOf(c) <= YearOf(d)
  BY <1>2, SMTT(30) DEF YearOf
<1>3. YearOf(0) = 0  BY DEF YearOf
<1>4. MonthOf(Days) \in Int  BY MonthOfDays
<1>5. \A d \in MonthRange : YearOf(d) \in YearRange
  BY <1>1, <1>2, <1>3, <1>4 DEF YearRange, MonthRange
<1> QED  BY <1>1, <1>2, <1>5

(* A month (a year) that ends by a day is before that of the next day.      *)
LEMMA MonthEnds ==
  ASSUME NEW m \in Int, NEW f \in Int, MonthEnd(m) <= f
  PROVE m < MonthOf(f + 1)
BY SMTT(30) DEF MonthEnd, MonthOf

LEMMA YearEnds ==
  ASSUME NEW y \in Int, NEW f \in Int, YearEnd(y) <= f
  PROVE y < YearOf(MonthOf(f + 1))
<1> DEFINE m == (y + 1) * YearLen - 1
<1>1. m \in Int  OBVIOUS
<1>2. m < MonthOf(f + 1)  BY <1>1, MonthEnds DEF YearEnd
<1>3. MonthOf(f + 1) \in Int  BY MonthOfDays
<1>4. (y + 1) * YearLen <= MonthOf(f + 1)  BY <1>2, <1>3
<1> HIDE DEF m
<1> QED  BY <1>3, <1>4, SMTT(30) DEF YearOf

(* Between two months every year has one.                                   *)
LEMMA YearsBetween ==
  ASSUME NEW k \in Int, NEW m \in Int, k <= m,
         NEW y \in Int, YearOf(k) <= y, y <= YearOf(m)
  PROVE \E j \in k..m : YearOf(j) = y
<1>1. CASE YearOf(k) = y  BY <1>1
<1>2. CASE YearOf(k) < y
  <2> DEFINE j == y * YearLen
  <2>1. j \in Int /\ YearOf(j) = y  BY SMTT(30) DEF YearOf
  <2>2. k <= j  BY <1>2, <2>1, YearOfMonths
  <2>3. j <= m
    BY SMTT(30) DEF YearOf
  <2> QED  BY <2>1, <2>2, <2>3
<1> QED  BY <1>1, <1>2, YearOfMonths

-----------------------------------------------------------------------------
(* What the rows and the variables of a run are made of, whatever fails and *)
(* wherever the process ends.                                               *)

InDays == pc \in {"price", "volume", "insert"}
HasRow(d) == daily[d] # Absent

Types ==
  /\ TypeOK
  /\ day \in Int /\ unit \in Int /\ price \in Nat /\ volume \in Nat
  /\ recent \in Int \X Nat /\ last \in Int \X Nat
  /\ ~clean => failures > 0

(* No quotes are of a day to come, and rows are made of quotes.             *)
RowsOfQuotes ==
  \A d \in DayRange :
    /\ quotes[d] > 0 => d <= today
    /\ HasRow(d) => quotes[d] > 0 /\ daily[d][1] <= quotes[d] /\ daily[d][2] <= quotes[d]

(* What a read found: the quotes of the day, but for the recent day, whose  *)
(* quotes were as many as the run began with, or more.                      *)
Found(x) == IF day = recent[1] /\ recent[2] > 0 THEN recent[2] <= x ELSE x = Quoted(day)

(* The recent day, and what was read since.                                 *)
RunOK ==
  /\ pc # "idle" =>
       /\ recent[2] > 0 => /\ recent[1] \in 1..today /\ Ahead(recent[1])
                           /\ recent[2] <= quotes[recent[1]]
       /\ recent[2] = 0 => IF force = 0 THEN recent[1] < today ELSE recent[1] = force
       /\ \A d \in DayRange : HasRow(d) => d <= recent[1]
  /\ InDays => day <= recent[1]
  /\ InDays /\ day = recent[1] /\ recent[2] > 0 /\ HasRow(day) =>
       daily[day][1] <= recent[2] /\ daily[day][2] <= recent[2]
  /\ pc \in {"volume", "insert"} => Ahead(day) /\ price <= Quoted(day) /\ (clean => Found(price))
  /\ pc = "insert" =>
       /\ price > 0 \/ volume > 0
       /\ volume <= Quoted(day) /\ (clean => Found(volume))

Basics == Types /\ RowsOfQuotes /\ RunOK

LEMMA RowIs ==
  ASSUME TypeOK, NEW d \in DayRange, HasRow(d)
  PROVE daily[d] = <<daily[d][1], daily[d][2]>> /\ daily[d][1] \in Nat /\ daily[d][2] \in Nat
BY DEF TypeOK, HasRow

LEMMA RecentIs ==
  ASSUME TypeOK
  PROVE /\ Recent \in Int \X Nat
        /\ Recent[2] > 0 => /\ Recent[1] \in DayRange /\ Ahead(Recent[1])
                            /\ Recent[2] = quotes[Recent[1]]
        /\ Recent[2] = 0 => Recent[1] = SearchEnd
        /\ \A d \in DayRange : quotes[d] > 0 => d <= Recent[1]
<1> DEFINE found == {d \in DayRange : quotes[d] > 0 /\ d >= SearchEnd /\ Ahead(d)}
<1>1. SearchEnd \in Int /\ force \in Nat  BY DEF SearchEnd, TypeOK, DayRange
<1>2. quotes \in [DayRange -> Nat] /\ DayRange \subseteq Int  BY DEF TypeOK, DayRange
<1>3. \A d \in DayRange : quotes[d] > 0 /\ d \notin found => d <= SearchEnd
  BY <1>1, <1>2 DEF Ahead, SearchEnd
<1>4. CASE found = {}
  <2>1. Recent = <<SearchEnd, 0>>  BY <1>4 DEF Recent
  <2> QED  BY <2>1, <1>1, <1>3, <1>4
<1>5. CASE found # {}
  <2>1. Recent = <<Max(found), quotes[Max(found)]>>  BY <1>5 DEF Recent
  <2>2. Max(found) \in found /\ \A d \in found : d <= Max(found)
    BY <1>5, LargestDay
  <2> HIDE DEF found
  <2> DEFINE x == Max(found)
  <2>3. x \in DayRange /\ quotes[x] > 0 /\ Ahead(x) /\ SearchEnd <= x
    BY <2>2, <1>1 DEF found, DayRange
  <2>4. Recent = <<x, quotes[x]>> /\ \A d \in found : d <= x  BY <2>1, <2>2
  <2> HIDE DEF x
  <2>5. Recent[1] = x /\ Recent[2] = quotes[x] /\ Recent \in Int \X Nat
    BY <2>3, <2>4, <1>2
  <2>6. \A d \in DayRange : quotes[d] > 0 => d <= x
    BY <2>3, <2>4, <1>1, <1>2, <1>3
  <2> QED  BY <2>3, <2>5, <2>6
<1> QED  BY <1>4, <1>5

LEMMA StepTypes ==
  ASSUME Basics, [Next]_vars PROVE Types'
<1> DEFINE Counts == /\ crashes' \in 0..MaxCrashes /\ failures' \in 0..MaxFailures
                     /\ clean' \in BOOLEAN /\ (~clean' => failures' > 0)
<1>1. Quote => Types'
  BY DEF Quote, tables, locals, Basics, Types, TypeOK
<1>2. NextDay => Types'
  BY DEF NextDay, tables, locals, DayRange, Basics, Types, TypeOK
<1>3. Begin => Types'
  BY RecentIs DEF Begin, tables, Basics, Types, TypeOK
<1>4. \A n \in Nat : ReadPrices(n) /\ Counts => Types'
  BY DEF ReadPrices, tables, Basics, Types, TypeOK
<1>5. Quoted(day) \in Nat /\ (Quoted(day) > 0 => day \in DayRange)
  BY DEF Quoted, Basics, Types, TypeOK
<1>6. MonthOf(recent[1]) \in Int /\ YearOf(MonthOf(recent[1])) \in Int
  BY MonthOfDays, YearOfMonths DEF Basics, Types
<1>7. \A n \in Nat : n <= Quoted(day) /\ ReadVolumes(n) /\ Counts => Types'
  BY <1>5, <1>6 DEF ReadVolumes, tables, RunOK, ToMonths, DayBefore, Basics, Types, TypeOK
<1>8. EndDays => Types'
  BY <1>6 DEF EndDays, ToMonths, Same, tables, Basics, Types, TypeOK
<1>9. SameDay => Types'
  BY <1>6 DEF SameDay, DayBefore, ToMonths, Same, tables, Basics, Types, TypeOK
<1>10. InsertDay => Types'
  BY DEF InsertDay, DayBefore, Same, Row, Basics, Types, TypeOK
<1>11. EndMonths => Types'
  BY <1>6 DEF EndMonths, ToYears, Same, tables, locals, Basics, Types, TypeOK
<1>12. PassMonth => Types'
  BY DEF PassMonth, NextMonth, InMonths, Same, tables, locals, Basics, Types, TypeOK
<1>13. InsertMonth => Types'
  BY DEF InsertMonth, NextMonth, InMonths, PutMonth, Same, tables, locals, Basics, Types, TypeOK
<1>14. PassYear => Types'
  BY DEF PassYear, NextMonth, InYears, Same, tables, locals, Basics, Types, TypeOK
<1>15. InsertYear => Types'
  BY DEF InsertYear, NextMonth, InYears, PutYear, Same, tables, locals, Basics, Types, TypeOK
<1>16. EndRun => Types'
  BY DEF EndRun, Idle, Unstamped, tables, Basics, Types, TypeOK
<1>17. Crash => Types'
  BY DEF Crash, Idle, Unstamped, tables, Basics, Types, TypeOK
<1>18. Fails => Types'
  <2> SUFFICES ASSUME Fails PROVE Types'  OBVIOUS
  <2>1. crashes' = crashes /\ failures' = failures + 1 /\ failures < MaxFailures /\ clean' = FALSE
    BY DEF Fails
  <2>2. Counts
    <3>1. crashes \in 0..MaxCrashes /\ failures \in 0..MaxFailures
      BY DEF Basics, Types, TypeOK
    <3>2. crashes' \in 0..MaxCrashes /\ failures' \in 0..MaxFailures /\ failures' > 0
      BY <2>1, <3>1
    <3>3. clean' \in BOOLEAN  BY <2>1
    <3> QED  BY <3>2, <3>3
  <2> HIDE DEF Counts
  <2>6. CASE ReadPrices(0)  BY <2>1, <2>2, <2>6, <1>4
  <2>3. CASE ReadVolumes(0)  BY <2>1, <2>2, <2>3, <1>5, <1>7
  <2>4. CASE InsertDayFails
    BY <2>1, <2>2, <2>4 DEF Counts, InsertDayFails, DayBefore, Nulls, Basics, Types, TypeOK
  <2>5. CASE MonthFails
    BY <2>1, <2>2, <2>5, <1>6 DEF Counts, MonthFails, InMonths, NextMonth, ToYears, PutMonth, locals, Basics, Types, TypeOK
  <2>7. CASE YearFails
    <3>1. CASE NextMonth /\ UNCHANGED <<last, recent, locals>>
      BY <2>1, <2>2, <2>7, <3>1
         DEF Counts, YearFails, InYears, NextMonth, PutYear, locals, Basics, Types, TypeOK
    <3>2. CASE UNCHANGED yearly /\ last' = recent /\ Idle
      BY <2>1, <2>2, <2>7, <3>2
         DEF Counts, YearFails, Idle, Unstamped, Basics, Types, TypeOK
    <3> QED  BY <2>7, <3>1, <3>2 DEF YearFails
  <2> QED  BY <2>3, <2>4, <2>5, <2>6, <2>7 DEF Fails
<1>19. UNCHANGED vars => Types'
  BY DEF vars, tables, locals, Basics, Types, TypeOK
<1> QED
  BY <1>1, <1>2, <1>3, <1>4, <1>5, <1>7, <1>8, <1>9, <1>10, <1>11, <1>12, <1>13, <1>14,
     <1>15, <1>16, <1>17, <1>18, <1>19 DEF Next, Reads, Basics, Types, TypeOK

(* The steps that write the tables of quotes and days.                      *)
LEMMA DaysWritten ==
  ASSUME [Next]_vars
  PROVE Quote \/ NextDay \/ InsertDay \/ InsertDayFails \/ UNCHANGED <<today, quotes, daily>>
<1>1. Begin \/ EndDays \/ SameDay \/ EndRun \/ Crash \/ EndMonths \/ PassMonth \/ PassYear
      => UNCHANGED <<today, quotes, daily>>
  BY DEF Begin, EndDays, SameDay, EndRun, Crash, EndMonths, PassMonth, PassYear, Same, tables
<1>2. InsertMonth \/ InsertYear \/ MonthFails \/ YearFails => UNCHANGED <<today, quotes, daily>>
  BY DEF InsertMonth, InsertYear, MonthFails, YearFails, Same
<1>3. \A n : ReadPrices(n) \/ ReadVolumes(n) => UNCHANGED <<today, quotes, daily>>
  BY DEF ReadPrices, ReadVolumes, tables
<1>4. UNCHANGED vars => UNCHANGED <<today, quotes, daily>>
  BY DEF vars, tables
<1> QED  BY <1>1, <1>2, <1>3, <1>4 DEF Next, Reads, Fails

LEMMA StepRows ==
  ASSUME Basics, [Next]_vars PROVE RowsOfQuotes'
<1> USE DEF Basics, Types
<1>1. CASE Quote
  <2>1. /\ quotes' = [quotes EXCEPT ![today] = @ + 1] /\ today' = today /\ daily' = daily
        /\ today \in DayRange /\ quotes \in [DayRange -> Nat]
    BY <1>1 DEF Quote, tables, TypeOK
  <2>2. \A d \in DayRange : quotes'[d] = (IF d = today THEN quotes[d] + 1 ELSE quotes[d])
    BY <2>1
  <2> SUFFICES ASSUME NEW d \in DayRange
               PROVE /\ quotes'[d] > 0 => d <= today
                     /\ HasRow(d) => /\ quotes'[d] > 0
                                     /\ daily[d][1] <= quotes'[d] /\ daily[d][2] <= quotes'[d]
    BY <2>1 DEF RowsOfQuotes, HasRow
  <2>3. quotes[d] \in Nat  BY <2>1
  <2>4. today \in Int  BY <2>1 DEF DayRange
  <2> QED  BY <2>2, <2>3, <2>4, RowIs DEF RowsOfQuotes
<1>2. CASE NextDay
  BY <1>2 DEF NextDay, TypeOK, RowsOfQuotes, HasRow, tables, DayRange
<1>3. CASE InsertDay
  BY <1>3 DEF InsertDay, TypeOK, RowsOfQuotes, HasRow, Same, RunOK, Quoted, Row
<1>4. CASE InsertDayFails
  BY <1>4 DEF InsertDayFails, TypeOK, RowsOfQuotes, HasRow, RunOK, Quoted, Nulls
<1>5. CASE UNCHANGED <<today, quotes, daily>>
  BY <1>5 DEF RowsOfQuotes, HasRow
<1> QED  BY <1>1, <1>2, <1>3, <1>4, <1>5, DaysWritten

LEMMA StepRun ==
  ASSUME Basics, [Next]_vars PROVE RunOK'
<1>0. Types /\ TypeOK /\ RowsOfQuotes /\ RunOK /\ recent[1] \in Int /\ recent[2] \in Nat
  BY DEF Basics, Types
<1>1. CASE Quote
  <2>1. /\ UNCHANGED <<today, tables, force, last, recent, pc, locals, clean>>
        /\ quotes' = [quotes EXCEPT ![today] = @ + 1]
    BY <1>1 DEF Quote
  <2>2. \A d \in DayRange : quotes'[d] >= quotes[d] /\ (d # today => quotes'[d] = quotes[d])
    BY <2>1, <1>0 DEF TypeOK
  <2>3. quotes \in [DayRange -> Nat] /\ quotes' \in [DayRange -> Nat] /\ today \in DayRange
    BY <2>1, <1>0 DEF TypeOK
  <2>4. Quoted(day)' >= Quoted(day) /\ (day # today => Quoted(day)' = Quoted(day))
        /\ Quoted(day) \in Nat /\ Quoted(day)' \in Nat
    BY <2>1, <2>2, <2>3 DEF Quoted, locals
  <2>5. pc \in {"volume", "insert"} /\ day = today => day = recent[1] /\ recent[2] > 0
    <3>1. today \in Int /\ force \in Nat /\ day \in Int
      BY <1>0, <2>3 DEF TypeOK, Types, DayRange
    <3> SUFFICES ASSUME pc \in {"volume", "insert"}, day = today
                 PROVE day = recent[1] /\ recent[2] > 0
      OBVIOUS
    <3>2. day <= recent[1] /\ (force = 0 \/ force < day)
      BY <1>0 DEF RunOK, InDays, Ahead
    <3>3. /\ recent[2] > 0 => recent[1] <= today
          /\ recent[2] = 0 => IF force = 0 THEN recent[1] < today ELSE recent[1] = force
      BY <1>0, <3>1 DEF RunOK
    <3> QED  BY <1>0, <3>1, <3>2, <3>3
  <2>6. \A x : pc \in {"volume", "insert"} /\ Found(x) => Found(x)'
    BY <2>1, <2>4, <2>5 DEF Found, locals
  <2>7. \A d : HasRow(d)' = HasRow(d)
    BY <2>1 DEF HasRow, tables
  <2>8. recent[1] \in DayRange =>
          (recent[2] <= quotes[recent[1]] => recent[2] <= quotes'[recent[1]])
    BY <1>0, <2>2, <2>3
  <2>9. 1..today \subseteq DayRange  BY <2>3 DEF DayRange
  <2>10. (pc # "idle" /\ recent[2] > 0 => recent[1] \in 1..today /\ Ahead(recent[1])
                           /\ recent[2] <= quotes[recent[1]])'
    BY <1>0, <2>1, <2>8, <2>9 DEF RunOK, Ahead
  <2>11. (pc \in {"volume", "insert"} => Ahead(day) /\ price <= Quoted(day) /\ (clean => Found(price)))'
    BY <1>0, <2>1, <2>4, <2>6 DEF RunOK, Ahead, locals, Types
  <2>12. (pc = "insert" => (price > 0 \/ volume > 0) /\ volume <= Quoted(day) /\ (clean => Found(volume)))'
    BY <1>0, <2>1, <2>4, <2>6 DEF RunOK, locals, Types
  <2> QED  BY <1>0, <2>1, <2>7, <2>10, <2>11, <2>12 DEF RunOK, InDays, locals, tables
<1>2. CASE NextDay
  BY <1>0, <1>2 DEF NextDay, tables, locals, RunOK, InDays, HasRow, Ahead, Quoted, Found, TypeOK, DayRange
<1>3. CASE Begin
  <2>1. /\ UNCHANGED <<today, quotes, tables, force>>
        /\ recent' = Recent /\ day' = Recent[1] /\ pc' = "price"
    BY <1>3 DEF Begin
  <2>2. Recent[2] = 0 => IF force = 0 THEN Recent[1] < today ELSE Recent[1] = force
    BY <1>0, RecentIs DEF SearchEnd, TypeOK, DayRange
  <2>3. Recent[2] > 0 => Recent[1] \in 1..today
    BY <1>0, RecentIs DEF TypeOK, DayRange, RowsOfQuotes
  <2>4. \A d \in DayRange : HasRow(d) => d <= Recent[1]
    BY <1>0, RecentIs DEF RowsOfQuotes
  <2>5. Recent[2] > 0 /\ HasRow(Recent[1]) =>
          daily[Recent[1]][1] <= Recent[2] /\ daily[Recent[1]][2] <= Recent[2]
    BY <1>0, RecentIs DEF RowsOfQuotes
  <2>6. Recent[1] \in Int /\ Recent[2] \in Nat /\ \A d : HasRow(d)' = HasRow(d)
    BY <1>0, <2>1, RecentIs DEF HasRow, tables
  <2>7. Recent[2] > 0 => Ahead(Recent[1]) /\ Recent[2] <= quotes[Recent[1]]
    BY <1>0, RecentIs, <2>6
  <2> QED  BY <2>1, <2>2, <2>3, <2>4, <2>5, <2>6, <2>7 DEF RunOK, InDays, Ahead, tables
<1>4. ASSUME NEW n \in Nat, ReadPrices(n), n <= Quoted(day), clean' => n = Quoted(day) PROVE RunOK'
  <2>1. /\ UNCHANGED <<today, quotes, tables, force, last, recent, day, volume>>
        /\ price' = n /\ pc' = "volume" /\ pc = "price" /\ Ahead(day)
    BY <1>4 DEF ReadPrices
  <2>2. Quoted(day)' = Quoted(day) /\ \A d : HasRow(d)' = HasRow(d)
    BY <2>1 DEF Quoted, HasRow, tables
  <2>3. clean' => Found(n)
    BY <1>0, <1>4, <2>1 DEF Found, RunOK, Quoted, InDays, TypeOK, DayRange
  <2> QED  BY <1>0, <1>4, <2>1, <2>2, <2>3 DEF RunOK, InDays, Ahead, Found, tables
<1>5. ASSUME NEW n \in Nat, ReadVolumes(n), n <= Quoted(day), clean' => n = Quoted(day) /\ clean
      PROVE RunOK'
  <2>1. UNCHANGED <<today, quotes, tables, force, last, recent>> /\ pc = "volume"
    BY <1>5 DEF ReadVolumes
  <2>2. \A d : HasRow(d)' = HasRow(d)
    BY <2>1 DEF HasRow, tables
  <2>3. clean' => Found(n)
    BY <1>0, <1>5, <2>1 DEF Found, RunOK, Quoted, InDays, TypeOK, DayRange
  <2>4. CASE price > 0 \/ n > 0
    <3>1. pc' = "insert" /\ volume' = n /\ UNCHANGED <<day, price>>
      BY <1>5, <2>4 DEF ReadVolumes
    <3>2. Quoted(day)' = Quoted(day)  BY <2>1, <3>1 DEF Quoted
    <3> QED  BY <1>0, <1>5, <2>1, <2>2, <2>3, <2>4, <3>1, <3>2 DEF RunOK, InDays, Ahead, Found, tables
  <2>5. CASE ~(price > 0 \/ n > 0)
    <3>1. ToMonths \/ DayBefore(empty) \/ DayBefore(empty + 1)
      BY <1>5, <2>5 DEF ReadVolumes
    <3>2. pc' = "months" \/ (pc' = "price" /\ day' = day - 1)
      BY <3>1 DEF ToMonths, DayBefore
    <3> QED  BY <1>0, <2>1, <2>2, <3>2 DEF RunOK, InDays, Ahead, tables, Types
  <2> QED  BY <2>4, <2>5
<1>6. CASE EndDays \/ SameDay
  <2>1. UNCHANGED <<today, quotes, tables, force, last, recent>> /\ InDays
        /\ (pc' = "months" \/ (pc' = "price" /\ day' = day - 1))
    BY <1>6 DEF EndDays, SameDay, Same, ToMonths, DayBefore, InDays
  <2> QED  BY <1>0, <2>1 DEF RunOK, InDays, Ahead, HasRow, tables, Types
<1>7. CASE InsertDay \/ InsertDayFails
  <2>1. /\ UNCHANGED <<today, quotes, force, last, recent>> /\ pc = "insert"
        /\ pc' = "price" /\ day' = day - 1
        /\ \E row : daily' = daily \/ daily' = [daily EXCEPT ![day] = row]
    BY <1>7 DEF InsertDay, InsertDayFails, Same, DayBefore
  <2>2. \A d \in DayRange : HasRow(d)' => HasRow(d) \/ d = day
    BY <1>0, <2>1 DEF HasRow, TypeOK
  <2> QED  BY <1>0, <2>1, <2>2 DEF RunOK, InDays, Ahead, Types
<1>8. CASE EndMonths \/ PassMonth \/ InsertMonth \/ PassYear \/ InsertYear \/ MonthFails
  <2>1. UNCHANGED <<today, quotes, daily, force, recent>> /\ pc \in {"months", "years"}
    BY <1>8 DEF EndMonths, PassMonth, InsertMonth, PassYear, InsertYear, MonthFails, Same,
                tables, InMonths, InYears
  <2>2. pc' \in {"months", "years"}
    BY <1>8 DEF EndMonths, PassMonth, InsertMonth, PassYear, InsertYear, MonthFails, ToYears,
                NextMonth, InMonths, InYears
  <2> QED  BY <1>0, <2>1, <2>2 DEF RunOK, InDays, Ahead, HasRow
<1>9. CASE EndRun \/ Crash
  BY <1>9 DEF EndRun, Crash, Idle, RunOK, InDays
<1>10. CASE UNCHANGED vars
  BY <1>0, <1>10 DEF vars, tables, locals, RunOK, InDays, HasRow, Ahead, Quoted, Found
<1>11. Quoted(day) \in Nat  BY <1>0 DEF Quoted, TypeOK
<1>12. CASE Reads
  BY <1>4, <1>5, <1>11, <1>12 DEF Reads
<1>14. CASE YearFails
  <2>1. UNCHANGED <<today, quotes, daily, force>> /\ pc = "years"
    BY <1>14 DEF YearFails, InYears
  <2>2. CASE pc' = "idle"  BY <2>2 DEF RunOK, InDays
  <2>3. CASE NextMonth /\ recent' = recent
    BY <1>0, <2>1, <2>3 DEF NextMonth, RunOK, InDays, Ahead, HasRow
  <2> QED  BY <1>14, <2>2, <2>3 DEF YearFails, Idle
<1>13. CASE Fails
  <2>1. clean' = FALSE  BY <1>13 DEF Fails
  <2> QED  BY <1>4, <1>5, <1>7, <1>8, <1>11, <1>13, <1>14, <2>1 DEF Fails
<1> QED
  BY <1>1, <1>2, <1>3, <1>6, <1>7, <1>8, <1>9, <1>10, <1>12, <1>13 DEF Next

-----------------------------------------------------------------------------
(* What a run without failures leaves behind it.                            *)

InSums == pc \in {"months", "years"}

(* The row of the day of a stamp is of as many quotes, or more.             *)
Holds(stamp) ==
  stamp[2] > 0 =>
    /\ stamp[1] \in 1..today /\ Ahead(stamp[1])
    /\ HasRow(stamp[1])
    /\ stamp[2] <= daily[stamp[1]][1] /\ stamp[2] <= daily[stamp[1]][2]

AllCurrent(from, to) == \A d \in DayRange : from < d /\ d < to => Current(d)

Filled ==
  clean =>
    /\ InDays =>
         /\ recent[2] > 0 \/ force = 0 => AllCurrent(day, recent[1])
         /\ day < recent[1] => Holds(recent)
    /\ InSums =>
         /\ Holds(recent)
         /\ force # 0 /\ recent[2] > 0 => AllCurrent(force, recent[1])
    /\ pc = "idle" =>
         /\ Holds(last)
         /\ force # 0 /\ last[2] > 0 => AllCurrent(force, last[1])

(* Days before today get no more quotes.                                    *)
LEMMA Frozen ==
  ASSUME Basics, [Next]_vars
  PROVE /\ today \in Int /\ today' \in Int /\ today <= today'
        /\ \A d \in DayRange : /\ quotes[d] \in Nat /\ quotes'[d] \in Nat /\ quotes[d] <= quotes'[d]
                               /\ d < today => quotes'[d] = quotes[d]
<1>1. today \in DayRange /\ quotes \in [DayRange -> Nat]  BY DEF Basics, Types, TypeOK
<1>2. Quote \/ (today' = today + 1 /\ quotes' = quotes) \/ UNCHANGED <<today, quotes>>
  BY DaysWritten DEF NextDay, InsertDay, InsertDayFails, Same
<1>3. DayRange \subseteq Int  BY DEF DayRange
<1>4. CASE Quote
  <2>1. today' = today /\ quotes' = [quotes EXCEPT ![today] = @ + 1]  BY <1>4 DEF Quote
  <2> QED  BY <1>1, <1>3, <2>1
<1> QED  BY <1>1, <1>2, <1>3, <1>4

LEMMA Past ==
  ASSUME Basics, pc # "idle", recent[2] > 0 \/ force = 0
  PROVE recent[1] \in Int /\ recent[1] <= today
BY DEF Basics, Types, TypeOK, RunOK, DayRange

(* What was current stays so, of days before today that are not written.    *)
LEMMA CurrentStays ==
  ASSUME Basics, [Next]_vars, NEW d \in DayRange, d < today, daily'[d] = daily[d], Current(d)
  PROVE Current(d)'
BY Frozen DEF Current

LEMMA HoldsStays ==
  ASSUME Basics, [Next]_vars, UNCHANGED force, NEW r \in Int \X Nat, Holds(r),
         \A d \in DayRange : d = r[1] => daily'[d] = daily[d]
  PROVE (r[2] > 0 =>
           /\ r[1] \in 1..today /\ Ahead(r[1])
           /\ HasRow(r[1])
           /\ r[2] <= daily[r[1]][1] /\ r[2] <= daily[r[1]][2])'
<1>1. today \in DayRange  BY DEF Basics, Types, TypeOK
<1> QED  BY <1>1, Frozen DEF Holds, HasRow, Ahead, DayRange

(* What the process writes of days, besides those it inserts, is nothing.   *)
LEMMA RowFound ==
  ASSUME Basics, pc = "insert", clean
  PROVE /\ day \in DayRange
        /\ day = recent[1] /\ recent[2] > 0 => recent[2] <= price /\ recent[2] <= volume
        /\ ~(day = recent[1] /\ recent[2] > 0) => Row = <<quotes[day], quotes[day]>>
BY DEF Basics, Types, TypeOK, RunOK, Found, Quoted, Row

(* The row of a day that was read holds what the run began with.            *)
LEMMA RowHolds ==
  ASSUME Basics, pc = "insert", clean, day = recent[1],
         NEW row, row = Row
  PROVE recent[2] > 0 => /\ row # Absent /\ recent[1] \in 1..today /\ Ahead(recent[1])
                         /\ recent[2] <= row[1] /\ recent[2] <= row[2]
<1>1. price \in Nat /\ volume \in Nat  BY DEF Basics, Types
<1>2. row # Absent /\ row[1] = price /\ row[2] = volume  BY <1>1 DEF Row, Absent
<1> QED  BY <1>2, RowFound DEF Basics, RunOK

LEMMA StepFilled ==
  ASSUME Basics, Filled, [Next]_vars PROVE Filled'
<1> SUFFICES ASSUME clean' PROVE Filled'  BY DEF Filled
<1>0. /\ Types /\ TypeOK /\ RowsOfQuotes /\ RunOK
      /\ recent \in Int \X Nat /\ last \in Int \X Nat /\ day \in Int /\ force \in Nat
      /\ DayRange \subseteq Int /\ today \in Int
      /\ recent[1] \in Int /\ recent[2] \in Nat /\ last[1] \in Int /\ last[2] \in Nat
  <2>1. /\ Types /\ TypeOK /\ RowsOfQuotes /\ RunOK
        /\ recent \in Int \X Nat /\ last \in Int \X Nat /\ day \in Int /\ force \in Nat
    BY DEF Basics, Types, TypeOK
  <2>2. DayRange \subseteq Int /\ today \in Int  BY <2>1 DEF TypeOK, DayRange
  <2> QED  BY <2>1, <2>2
(* Steps that leave the run where it is.                                    *)
<1>1. ASSUME UNCHANGED <<daily, force, last, recent, clean>>,
             InDays => InDays' /\ day' = day, InSums => InSums', pc = "idle" => pc' = "idle"
      PROVE Filled'
  <2>0. clean  BY <1>1
  <2>1. \A d \in DayRange : d < today /\ Current(d) => Current(d)'  BY <1>1, CurrentStays
  <2>2. Holds(recent) => Holds(recent)'
    BY <1>0, <1>1, HoldsStays DEF Holds
  <2>3. Holds(last) => Holds(last)'
    BY <1>0, <1>1, HoldsStays DEF Holds
  <2>4. CASE InDays
    <3>1. InDays' /\ ~InSums' /\ pc' # "idle" /\ day' = day  BY <1>1, <2>4 DEF InDays, InSums
    <3>2. recent[2] > 0 \/ force = 0 => AllCurrent(day, recent[1])'
      BY <1>0, <1>1, <2>0, <2>1, <2>4, <3>1, Past DEF AllCurrent, Filled, InDays
    <3> QED  BY <1>1, <2>0, <2>2, <2>4, <3>1, <3>2 DEF Filled
  <2>5. CASE InSums
    <3>1. InSums' /\ ~InDays' /\ pc' # "idle"  BY <1>1, <2>5 DEF InDays, InSums
    <3>2. force # 0 /\ recent[2] > 0 => AllCurrent(force, recent[1])'
      BY <1>0, <1>1, <2>0, <2>1, <2>5, <3>1, Past DEF AllCurrent, Filled, InSums
    <3> QED  BY <1>1, <2>0, <2>2, <2>5, <3>1, <3>2 DEF Filled
  <2>6. CASE pc = "idle"
    <3>1. pc' = "idle" /\ ~InDays' /\ ~InSums'  BY <1>1, <2>6 DEF InDays, InSums
    <3>2. force # 0 /\ last[2] > 0 => AllCurrent(force, last[1])'
      BY <1>0, <1>1, <2>0, <2>1, <2>6, <3>1 DEF AllCurrent, Filled, Holds
    <3> QED  BY <1>1, <2>0, <2>3, <2>6, <3>1, <3>2 DEF Filled
  <2> QED  BY <1>0, <2>4, <2>5, <2>6 DEF TypeOK, InDays, InSums
<1>2. CASE Quote \/ NextDay \/ UNCHANGED vars
  BY <1>1, <1>2 DEF Quote, NextDay, vars, tables, locals, InDays, InSums
<1>3. CASE Begin
  <2>1. /\ UNCHANGED <<force, clean>> /\ recent' = Recent /\ day' = Recent[1] /\ pc' = "price"
    BY <1>3 DEF Begin
  <2>2. Recent[1] \in Int  BY <1>0, RecentIs
  <2> QED  BY <1>0, <2>1, <2>2 DEF Filled, InDays, InSums, AllCurrent
<1>4. CASE Crash
  <2>1. pc' = "idle" /\ last' = <<0, 0>>  BY <1>4 DEF Crash, Idle, Unstamped
  <2> QED  BY <2>1 DEF Filled, InDays, InSums, Holds
(* From one day to the one before: the day is current, or the run is at the *)
(* recent day and has written its row.                                      *)
<1>5. ASSUME UNCHANGED <<force, recent, clean, today, quotes>>, InDays,
             pc' = "price", day' = day - 1,
             \A d \in DayRange : d # day => daily'[d] = daily[d],
             \A d \in DayRange : d = day /\ d < recent[1] => Current(d)',
             day = recent[1] => Holds(recent)'
      PROVE Filled'
  <2>1. clean /\ InDays' /\ ~InSums' /\ pc' # "idle"  BY <1>5 DEF InDays, InSums
  <2>2. day <= recent[1]  BY <1>0, <1>5 DEF RunOK
  <2>3. recent[2] > 0 \/ force = 0 => AllCurrent(day, recent[1])'
    <3> SUFFICES ASSUME recent[2] > 0 \/ force = 0, NEW d \in DayRange, day - 1 < d, d < recent[1]
                 PROVE Current(d)'
      BY <1>5 DEF AllCurrent
    <3>1. CASE d = day  BY <1>5, <3>1
    <3>2. CASE d # day
      <4>1. day < d /\ d < today  BY <1>0, <1>5, <3>2, Past DEF InDays
      <4>2. Current(d)  BY <1>5, <2>1, <4>1 DEF Filled, AllCurrent
      <4> QED  BY <1>5, <3>2, <4>1, <4>2, CurrentStays
    <3> QED  BY <3>1, <3>2
  <2>4. day < recent[1] => Holds(recent)'
    BY <1>0, <1>5, <2>1, HoldsStays DEF Filled, Holds
  <2>5. Holds(recent)'  BY <1>0, <1>5, <2>2, <2>4
  <2> QED  BY <2>1, <2>3, <2>5, <1>5 DEF Filled
(* The end of the days.                                                     *)
<1>6. ASSUME UNCHANGED <<today, quotes, daily, force, recent, clean>>, InDays, pc' = "months",
             day = recent[1] => Holds(recent),
             force # 0 => day <= force
      PROVE Filled'
  <2>1. clean /\ ~InDays' /\ InSums' /\ pc' # "idle"  BY <1>6 DEF InDays, InSums
  <2>2. day <= recent[1]  BY <1>0, <1>6 DEF RunOK
  <2>3. Holds(recent)  BY <1>0, <1>6, <2>1, <2>2 DEF Filled
  <2>4. force # 0 /\ recent[2] > 0 => AllCurrent(force, recent[1])
    BY <1>0, <1>6, <2>1 DEF Filled, AllCurrent
  <2>5. Holds(recent)' = Holds(recent)  BY <1>6 DEF Holds, HasRow, Ahead
  <2>6. AllCurrent(force, recent[1])' = AllCurrent(force, recent[1])
    BY <1>6 DEF AllCurrent, Current
  <2> QED  BY <2>1, <2>3, <2>4, <2>5, <2>6, <1>6 DEF Filled
<1>7. CASE ReadPrices(Quoted(day)) /\ UNCHANGED <<crashes, failures, clean>>
  BY <1>1, <1>7 DEF ReadPrices, tables, InDays, InSums
<1>8. CASE ReadVolumes(Quoted(day)) /\ UNCHANGED <<crashes, failures, clean>>
  <2>1. pc = "volume" /\ InDays /\ clean /\ UNCHANGED <<today, quotes, daily, force, last, recent, clean>>
    BY <1>8 DEF ReadVolumes, tables, InDays
  <2>2. CASE price > 0 \/ Quoted(day) > 0
    <3>1. pc' = "insert" /\ day' = day  BY <1>8, <2>2 DEF ReadVolumes
    <3> QED  BY <2>1, <3>1, <1>1 DEF InDays, InSums
  <2>3. CASE ~(price > 0 \/ Quoted(day) > 0)
    <3>1. price = 0 /\ Quoted(day) = 0
      BY <1>0, <2>3 DEF Types, TypeOK, Quoted
    <3>2. day = recent[1] => recent[2] = 0
      BY <1>0, <2>1, <3>1 DEF RunOK, Found
    <3>3. day = recent[1] => Holds(recent)  BY <3>2 DEF Holds
    <3>5. \/ pc' = "months" /\ force = 0
          \/ pc' = "price" /\ day' = day - 1
      BY <1>8, <2>3 DEF ReadVolumes, ToMonths, DayBefore
    <3>6. Holds(recent)' = Holds(recent)  BY <2>1 DEF Holds, HasRow, Ahead
    <3>7. \A d \in DayRange : d = day => Current(d)'
      BY <2>1, <3>1 DEF Current, Quoted
    <3> QED  BY <2>1, <3>3, <3>5, <3>6, <3>7, <1>5, <1>6
  <2> QED  BY <2>2, <2>3
<1>9. CASE EndDays
  <2>1. InDays /\ ~Ahead(day) /\ pc' = "months" /\ UNCHANGED <<today, quotes, daily, force, recent, clean>>
    BY <1>9 DEF EndDays, ToMonths, Same, tables, InDays
  <2>2. force # 0 /\ day <= force  BY <1>0, <2>1 DEF Ahead
  <2>3. day = recent[1] => Holds(recent)
    BY <1>0, <2>1 DEF RunOK, Holds, InDays
  <2> QED  BY <2>1, <2>2, <2>3, <1>6
<1>10. CASE SameDay
  <2>0. /\ UNCHANGED <<today, quotes, daily, force, recent, clean>>
        /\ pc = "insert" /\ (daily[day] = Row \/ ~clean)
    BY <1>10 DEF SameDay, Same, tables
  <2>1. pc = "insert" /\ InDays /\ clean /\ daily[day] = Row
        /\ UNCHANGED <<today, quotes, daily, force, recent, clean>>
    BY <2>0 DEF InDays
  <2>6. (pc' = "months" /\ force = 0) \/ (pc' = "price" /\ day' = day - 1)
    BY <1>10 DEF SameDay, ToMonths, DayBefore
  <2>2. day = recent[1] => Holds(recent)
    BY <2>1, RowHolds DEF Holds, HasRow
  <2>3. Row = <<quotes[day], quotes[day]>> \/ ~(day < recent[1])
    BY <1>0, <2>1, RowFound
  <2>4. Holds(recent)' = Holds(recent)
    BY <2>1 DEF Holds, HasRow, Ahead
  <2>5. \A d \in DayRange : d = day /\ d < recent[1] => Current(d)'
    BY <2>1, <2>3 DEF Current
  <2> QED  BY <2>1, <2>2, <2>4, <2>5, <2>6, <1>5, <1>6
<1>11. CASE InsertDay
  <2>1. /\ pc = "insert" /\ InDays /\ clean /\ daily' = [daily EXCEPT ![day] = Row]
        /\ UNCHANGED <<today, quotes, force, recent, clean>>
        /\ pc' = "price" /\ day' = day - 1
    BY <1>11 DEF InsertDay, Same, DayBefore, tables, InDays
  <2>2. day \in DayRange /\ daily \in [DayRange -> {Absent} \cup (Nat \X Nat)]
    BY <1>0, <2>1 DEF TypeOK
  <2>3. daily'[day] = Row /\ \A d \in DayRange : d # day => daily'[d] = daily[d]  BY <2>1, <2>2
  <2>4. day = recent[1] => Holds(recent)'
    BY <2>1, <2>3, RowHolds DEF Holds, HasRow, Ahead
  <2>6. Row = <<quotes[day], quotes[day]>> \/ ~(day < recent[1])
    BY <1>0, <2>1, RowFound
  <2>5. \A d \in DayRange : d = day /\ d < recent[1] => Current(d)'
    BY <2>1, <2>3, <2>6 DEF Current
  <2> QED  BY <2>1, <2>3, <2>4, <2>5, <1>5
<1>12. CASE EndMonths \/ PassMonth \/ InsertMonth \/ PassYear \/ InsertYear
  <2>1. UNCHANGED <<daily, force, last, recent, clean>> /\ InSums
    BY <1>12 DEF EndMonths, PassMonth, InsertMonth, PassYear, InsertYear, Same, tables,
                 InMonths, InYears, InSums
  <2>2. InSums'
    BY <1>12 DEF EndMonths, PassMonth, InsertMonth, PassYear, InsertYear, ToYears,
                NextMonth, InMonths, InYears, InSums
  <2> QED  BY <2>1, <2>2, <1>1 DEF InSums, InDays
<1>13. CASE EndRun
  <2>1. /\ pc = "years" /\ pc' = "idle" /\ last' = recent /\ clean
        /\ UNCHANGED <<today, quotes, daily, force>>
    BY <1>13 DEF EndRun, Idle, tables
  <2>2. Holds(recent) /\ (force # 0 /\ recent[2] > 0 => AllCurrent(force, recent[1]))
    BY <2>1 DEF Filled, InSums
  <2>3. Holds(last)'  BY <2>1, <2>2 DEF Holds, HasRow, Ahead
  <2>4. force # 0 /\ recent[2] > 0 => AllCurrent(force, last[1])'
    BY <2>1, <2>2 DEF AllCurrent, Current
  <2> QED  BY <2>1, <2>3, <2>4 DEF Filled, InDays, InSums
<1>14. ~Fails  BY DEF Fails
<1> QED
  BY <1>2, <1>3, <1>4, <1>7, <1>8, <1>9, <1>10, <1>11, <1>12, <1>13, <1>14 DEF Next, Reads

-----------------------------------------------------------------------------
(* What a process that is not forced leaves behind it, while nothing fails  *)
(* and it does not end.                                                     *)

Undisturbed == force = 0 /\ crashes = 0 /\ failures = 0

(* From day d back to day c there are not too many empty days.              *)
Linked(d, c) ==
  \A e \in (c + 1)..d : e + EmptyLimit < d => \E q \in e..(e + EmptyLimit) : quotes[q] > 0

BehindCurrent(d) == \A c \in DayRange : c < d /\ Linked(d, c) => Current(c)

(* Behind a row no day was left out: the run that wrote it went on, so that *)
(* a later one may end there.                                               *)
RowsChained == \A d \in DayRange : HasRow(d) /\ (InDays => d <= day) => BehindCurrent(d)

(* The days passed over since the last row, or since the recent day.        *)
EmptyDays ==
  pc \in {"price", "volume"} =>
    /\ day + empty <= recent[1]
    /\ \A e \in DayRange : day < e /\ e <= day + empty => quotes[e] = 0
    /\ \/ day + empty = recent[1]
       \/ day + empty + 1 \in DayRange /\ quotes[day + empty + 1] > 0

Chain == Undisturbed => RowsChained /\ EmptyDays

LEMMA UndisturbedStep ==
  ASSUME Basics, [Next]_vars, Undisturbed'
  PROVE Undisturbed /\ clean /\ UNCHANGED <<force, crashes, failures, clean>> /\ ~Fails /\ ~Crash
<1>0. crashes \in Nat /\ failures \in Nat /\ (~clean => failures > 0)
  BY DEF Basics, Types, TypeOK
<1>1. crashes' = 0 /\ failures' = 0 /\ force' = 0  BY DEF Undisturbed
<1>2. ~Fails /\ ~Crash  BY <1>0, <1>1 DEF Fails, Crash
<1>3. UNCHANGED <<force, crashes, failures, clean>>
  BY <1>2 DEF Next, Quote, NextDay, Begin, Reads, ReadPrices, ReadVolumes, EndDays, SameDay, InsertDay,
     EndMonths, PassMonth, InsertMonth, PassYear, InsertYear, EndRun, Same, vars
<1> QED  BY <1>0, <1>1, <1>2, <1>3 DEF Undisturbed

(* What is between two days up to today does not change.                    *)
LEMMA LinkedStays ==
  ASSUME Basics, [Next]_vars, NEW d \in DayRange, d <= today, NEW c \in DayRange
  PROVE Linked(d, c)' <=> Linked(d, c)
<1>1. /\ EmptyLimit \in Nat /\ c \in Int /\ d \in Int /\ 1 <= c /\ d <= Days  BY DEF DayRange
<1>2. ASSUME NEW e \in (c + 1)..d, e + EmptyLimit < d, NEW q \in e..(e + EmptyLimit)
      PROVE quotes'[q] = quotes[q]
  <2>1. q \in DayRange /\ q < today  BY <1>1, <1>2, Frozen DEF DayRange
  <2> QED  BY <2>1, Frozen
<1> QED  BY <1>2 DEF Linked

LEMMA BehindStays ==
  ASSUME Basics, [Next]_vars, NEW d \in DayRange, HasRow(d), BehindCurrent(d),
         \A c \in DayRange : c < d => daily'[c] = daily[c]
  PROVE BehindCurrent(d)'
<1>1. d <= today /\ d \in Int /\ today \in Int
  BY Frozen DEF Basics, RowsOfQuotes, DayRange
<1> SUFFICES ASSUME NEW c \in DayRange, c < d, Linked(d, c)' PROVE Current(c)'
  BY DEF BehindCurrent
<1>2. Current(c)  BY <1>1, LinkedStays DEF BehindCurrent
<1>3. c < today  BY <1>1 DEF DayRange
<1> QED  BY <1>2, <1>3, CurrentStays

(* Rows that were written are linked as far as the last one.                *)
LEMMA LinkedPart ==
  ASSUME NEW d \in DayRange, NEW b \in DayRange, NEW c \in DayRange, c < b, b < d, Linked(d, c)
  PROVE Linked(b, c)
<1>1. EmptyLimit \in Nat /\ DayRange \subseteq Int  BY DEF DayRange
<1> SUFFICES ASSUME NEW e \in (c + 1)..b, e + EmptyLimit < b
             PROVE \E q \in e..(e + EmptyLimit) : quotes[q] > 0
  BY DEF Linked
<1>2. e \in (c + 1)..d /\ e + EmptyLimit < d  BY <1>1
<1> QED  BY <1>2 DEF Linked

(* Where the days end no day was left out of what is linked.                *)
LEMMA ChainEnds ==
  ASSUME Basics, Filled, RowsChained, InDays, clean, force = 0,
         day \in DayRange => Current(day),
         \/ day \in DayRange /\ HasRow(day)
         \/ \A e \in DayRange : day <= e /\ e <= day + EmptyLimit => quotes[e] = 0,
         NEW d \in DayRange, HasRow(d)
  PROVE BehindCurrent(d)
<1>1. /\ EmptyLimit \in Nat /\ DayRange \subseteq Int /\ day \in Int /\ d <= recent[1]
      /\ AllCurrent(day, recent[1])
  BY DEF DayRange, Basics, Types, RunOK, InDays, Filled
<1>2. CASE d <= day  BY <1>2 DEF RowsChained
<1>3. CASE day < d
  <2> SUFFICES ASSUME NEW c \in DayRange, c < d, Linked(d, c) PROVE Current(c)
    BY DEF BehindCurrent
  <2>0. recent[1] \in Int /\ c \in Int /\ d \in Int  BY <1>1 DEF Basics, Types
  <2>1. CASE day < c  BY <1>1, <2>0, <2>1 DEF AllCurrent
  <2>2. CASE c = day  BY <2>2
  <2>3. CASE c < day
    <3>1. day \in DayRange  BY <1>1, <1>3, <2>3 DEF DayRange
    <3>2. CASE HasRow(day)
      <4>1. BehindCurrent(day)  BY <1>1, <3>1, <3>2 DEF RowsChained
      <4>2. Linked(day, c)  BY <1>3, <2>3, <3>1, LinkedPart
      <4> QED  BY <2>3, <4>1, <4>2 DEF BehindCurrent
    <3>3. CASE \A e \in DayRange : day <= e /\ e <= day + EmptyLimit => quotes[e] = 0
      <4>1. CASE day + EmptyLimit < d
        <5>1. PICK q \in day..(day + EmptyLimit) : quotes[q] > 0
          BY <1>1, <1>3, <2>0, <2>3, <4>1 DEF Linked
        <5>2. q \in DayRange /\ day <= q /\ q <= day + EmptyLimit
          BY <1>1, <3>1, <4>1, <5>1 DEF DayRange
        <5> QED  BY <3>3, <5>1, <5>2
      <4>2. CASE d <= day + EmptyLimit
        <5>1. quotes[d] = 0  BY <1>1, <1>3, <3>3, <4>2
        <5>2. quotes[d] > 0  BY DEF Basics, RowsOfQuotes
        <5> QED  BY <5>1, <5>2
      <4> QED  BY <1>1, <4>1, <4>2
    <3> QED  BY <3>2, <3>3
  <2> QED  BY <1>1, <2>0, <2>1, <2>2, <2>3
<1> QED  BY <1>1, <1>2, <1>3

LEMMA StepChain ==
  ASSUME Basics, Filled, Chain, [Next]_vars PROVE Chain'
<1> SUFFICES ASSUME Undisturbed' PROVE (RowsChained /\ EmptyDays)'  BY DEF Chain
<1>0. /\ Types /\ TypeOK /\ RowsOfQuotes /\ RunOK /\ RowsChained /\ EmptyDays
      /\ force = 0 /\ clean /\ UNCHANGED <<force, clean>> /\ ~Fails /\ ~Crash
  <2>1. Undisturbed /\ clean /\ UNCHANGED <<force, clean>> /\ ~Fails /\ ~Crash
    BY UndisturbedStep
  <2>2. RowsChained /\ EmptyDays /\ force = 0  BY <2>1 DEF Chain, Undisturbed
  <2> QED  BY <2>1, <2>2 DEF Basics, Types
<1>00. /\ day \in Int /\ empty \in Nat /\ DayRange \subseteq Int /\ recent[1] \in Int
       /\ recent[2] \in Nat /\ EmptyLimit \in Nat /\ price \in Nat /\ volume \in Nat
  BY <1>0 DEF Types, TypeOK, DayRange
(* Steps that leave the run where it is.                                    *)
<1>1. ASSUME UNCHANGED <<daily, recent, day, empty>>, InDays = InDays',
             pc' \in {"price", "volume"} => pc \in {"price", "volume"}
      PROVE (RowsChained /\ EmptyDays)'
  <2>1. RowsChained'
    BY <1>0, <1>1, BehindStays DEF RowsChained, HasRow
  <2>2. ASSUME pc \in {"price", "volume"}, NEW e \in DayRange, day < e, e <= day + empty
        PROVE quotes'[e] = 0
    <3>1. quotes[e] = 0 /\ e <= recent[1]  BY <1>0, <1>00, <2>2 DEF EmptyDays
    <3>2. e < today
      BY <1>0, <1>00, <2>2, <3>1, Past, Frozen DEF RunOK
    <3> QED  BY <3>1, <3>2, Frozen
  <2>3. ASSUME NEW e \in DayRange, quotes[e] > 0 PROVE quotes'[e] > 0
    BY <2>3, Frozen
  <2>4. EmptyDays'
    BY <1>0, <1>1, <2>2, <2>3 DEF EmptyDays
  <2> QED  BY <2>1, <2>4
<1>2. CASE Quote \/ NextDay \/ UNCHANGED vars
  BY <1>1, <1>2 DEF Quote, NextDay, vars, tables, locals, InDays
<1>3. CASE Begin
  <2>1. /\ UNCHANGED <<today, quotes, daily>> /\ recent' = Recent /\ day' = Recent[1]
        /\ empty' = 0 /\ pc' = "price" /\ pc = "idle"
    BY <1>3 DEF Begin, tables
  <2>2. Recent[1] \in Int  BY <1>0, RecentIs
  <2>3. EmptyDays'  BY <1>00, <2>1, <2>2 DEF EmptyDays
  <2>4. RowsChained'
    BY <1>0, <2>1, BehindStays DEF RowsChained, HasRow, InDays
  <2> QED  BY <2>3, <2>4
<1>4. CASE ReadPrices(Quoted(day)) /\ UNCHANGED <<crashes, failures, clean>>
  BY <1>1, <1>4 DEF ReadPrices, tables, InDays
(* The days end: at a row that is the same, or after too many empty days.   *)
<1>5. ASSUME UNCHANGED <<today, quotes, daily>>, InDays, pc' = "months",
             day \in DayRange => Current(day),
             \/ day \in DayRange /\ HasRow(day)
             \/ \A e \in DayRange : day <= e /\ e <= day + EmptyLimit => quotes[e] = 0
      PROVE (RowsChained /\ EmptyDays)'
  <2>1. \A d \in DayRange : HasRow(d) => BehindCurrent(d)
    BY <1>0, <1>5, ChainEnds
  <2>2. RowsChained'
    BY <1>5, <2>1, BehindStays DEF RowsChained, HasRow
  <2> QED  BY <1>5, <2>2 DEF EmptyDays
<1>6. CASE ReadVolumes(Quoted(day)) /\ UNCHANGED <<crashes, failures, clean>>
  <2>1. pc = "volume" /\ InDays /\ UNCHANGED <<today, quotes, daily, recent>>
    BY <1>6 DEF ReadVolumes, tables, InDays
  <2>2. CASE price > 0 \/ Quoted(day) > 0
    <3>1. pc' = "insert" /\ day' = day  BY <1>6, <2>2 DEF ReadVolumes
    <3>2. RowsChained'
      BY <1>0, <2>1, <3>1, BehindStays DEF RowsChained, HasRow, InDays
    <3> QED  BY <3>1, <3>2 DEF EmptyDays
  <2>3. CASE ~(price > 0 \/ Quoted(day) > 0)
    <3>1. day \in DayRange => quotes[day] = 0
      BY <1>0, <2>3 DEF TypeOK, Quoted
    <3>2. \A e \in DayRange : day <= e /\ e <= day + empty => quotes[e] = 0
      BY <1>0, <1>00, <2>1, <3>1 DEF EmptyDays
    <3>3. CASE empty + 1 > EmptyLimit
      <4>1. pc' = "months"  BY <1>0, <1>6, <2>3, <3>3 DEF ReadVolumes, ToMonths
      <4>2. day \in DayRange => Current(day)  BY <3>1 DEF Current
      <4>3. empty = EmptyLimit  BY <1>0, <1>00, <3>3 DEF TypeOK
      <4> QED  BY <2>1, <3>2, <4>1, <4>2, <4>3, <1>5
    <3>4. CASE ~(empty + 1 > EmptyLimit)
      <4>1. pc' = "price" /\ day' = day - 1 /\ empty' = empty + 1
        BY <1>0, <1>6, <2>3, <3>4 DEF ReadVolumes, DayBefore
      <4>2. RowsChained'
        BY <1>0, <1>00, <2>1, <4>1, BehindStays DEF RowsChained, HasRow, InDays
      <4>3. day' + empty' = day + empty  BY <1>00, <4>1
      <4>4. EmptyDays'
        BY <1>0, <1>00, <2>1, <3>2, <4>1, <4>3 DEF EmptyDays
      <4> QED  BY <4>2, <4>4
    <3> QED  BY <3>3, <3>4
  <2> QED  BY <2>2, <2>3
<1>7. ~EndDays  BY <1>0 DEF EndDays, Ahead
<1>8. CASE SameDay
  <2>1. /\ UNCHANGED <<today, quotes, daily>>
        /\ pc = "insert" /\ (daily[day] = Row \/ ~clean)
        /\ pc' = "months"
    BY <1>0, <1>8 DEF SameDay, Same, ToMonths, tables
  <2>2. daily[day] = Row /\ InDays /\ day \in DayRange
    BY <1>0, <2>1 DEF InDays, TypeOK
  <2>3. HasRow(day)
    BY <1>00, <2>2 DEF HasRow, Row, Absent
  <2>4. CASE day < recent[1]
    <3>1. Row = <<quotes[day], quotes[day]>>  BY <1>0, <1>00, <2>1, <2>4, RowFound
    <3>2. Current(day)  BY <2>2, <3>1 DEF Current
    <3> QED  BY <2>1, <2>2, <2>3, <3>2, <1>5
  <2>5. CASE day = recent[1]
    <3>1. \A d \in DayRange : HasRow(d) => d <= day
      BY <1>0, <2>1, <2>5 DEF RunOK
    <3>2. RowsChained'
      BY <1>0, <2>1, <3>1, BehindStays DEF RowsChained, HasRow
    <3> QED  BY <2>1, <3>2 DEF EmptyDays
  <2> QED  BY <1>0, <1>00, <2>2, <2>4, <2>5 DEF RunOK
<1>9. CASE InsertDay
  <2>1. /\ UNCHANGED <<today, quotes, recent>> /\ daily' = [daily EXCEPT ![day] = Row]
        /\ pc = "insert" /\ InDays /\ pc' = "price" /\ day' = day - 1 /\ empty' = 0
    BY <1>9 DEF InsertDay, Same, DayBefore, InDays
  <2>2. day \in DayRange /\ daily \in [DayRange -> {Absent} \cup (Nat \X Nat)]
    BY <1>0, <2>1 DEF TypeOK
  <2>3. \A d \in DayRange : d # day => daily'[d] = daily[d]  BY <2>1, <2>2
  <2>4. \A d \in DayRange : d <= day - 1 => d < day /\ d # day  BY <1>00
  <2>5. RowsChained'
    <3> SUFFICES ASSUME NEW d \in DayRange, HasRow(d)', d <= day - 1 PROVE BehindCurrent(d)'
      BY <2>1 DEF RowsChained, InDays
    <3>1. HasRow(d) /\ d <= day  BY <2>3, <2>4, <1>00 DEF HasRow
    <3>2. \A c \in DayRange : c < d => daily'[c] = daily[c]  BY <2>3, <2>4, <1>00
    <3> QED  BY <1>0, <3>1, <3>2, BehindStays DEF RowsChained
  <2>6. quotes[day] > 0
    BY <1>0, <1>00, <2>1, <2>2 DEF RunOK, Quoted, TypeOK
  <2>7. day <= recent[1]  BY <1>0, <2>1 DEF RunOK
  <2>8. EmptyDays'
    <3>1. day' + empty' = day - 1 /\ day' + empty' + 1 = day  BY <1>00, <2>1
    <3>2. \A e \in DayRange : ~(day' < e /\ e <= day' + empty')  BY <1>00, <2>1
    <3>3. day - 1 <= recent[1]  BY <1>00, <2>7
    <3> QED  BY <2>1, <2>2, <2>6, <3>1, <3>2, <3>3 DEF EmptyDays
  <2> QED  BY <2>5, <2>8
<1>10. CASE EndMonths \/ PassMonth \/ InsertMonth \/ PassYear \/ InsertYear \/ EndRun
  <2>1. daily' = daily /\ ~InDays
    BY <1>10 DEF EndMonths, PassMonth, InsertMonth, PassYear, InsertYear, EndRun, Same, tables,
                 InMonths, InYears, InDays
  <2>2. pc' \in {"months", "years", "idle"}
    BY <1>10 DEF EndMonths, PassMonth, InsertMonth, PassYear, InsertYear, EndRun, Idle, ToYears,
                NextMonth, InMonths, InYears
  <2>3. RowsChained'  BY <1>0, <2>1, BehindStays DEF RowsChained, HasRow
  <2> QED  BY <2>2, <2>3 DEF EmptyDays
<1> QED
  BY <1>0, <1>2, <1>3, <1>4, <1>6, <1>7, <1>8, <1>9, <1>10 DEF Next, Reads

-----------------------------------------------------------------------------
(* What the forced loops of the months and the years leave behind them.     *)

MonthDone(m) == NoData(MonthSum(m)) \/ MonthStored(m)
YearDone(y) == NoData(YearSum(y)) \/ YearStored(y)

MonthsDone(stamp) == \A m \in MonthOf(force + 1)..MonthOf(stamp[1]) : MonthDone(m)
YearsDone(stamp) ==
  \A y \in YearOf(MonthOf(force + 1))..YearOf(MonthOf(stamp[1])) : YearDone(y)

ForcedSums ==
  clean /\ force # 0 =>
    /\ pc = "months" /\ recent[2] > 0 =>
         \A m \in Int : unit < m /\ m <= MonthOf(recent[1]) => MonthDone(m)
    /\ pc = "years" /\ recent[2] > 0 =>
         /\ MonthsDone(recent)
         /\ \A y \in Int : unit < y /\ y <= YearOf(MonthOf(recent[1])) => YearDone(y)
    /\ pc = "idle" /\ last[2] > 0 => MonthsDone(last) /\ YearsDone(last)

(* A month (a year) with data is one of the table's.                        *)
LEMMA WithData ==
  /\ \A m : ~NoData(MonthSum(m)) => m \in MonthRange
  /\ \A y : ~NoData(YearSum(y)) => y \in YearRange
<1>1. ASSUME NEW m, ~NoData(MonthSum(m)) PROVE m \in MonthRange
  <2>1. PICK d \in DayRange : MonthOf(d) = m  BY <1>1 DEF NoData, MonthSum
  <2> QED  BY <2>1, MonthOfDays
<1>2. ASSUME NEW y, ~NoData(YearSum(y)) PROVE y \in YearRange
  <2>1. PICK m \in MonthRange : YearOf(m) = y  BY <1>2 DEF NoData, YearSum
  <2> QED  BY <2>1, YearOfMonths
<1> QED  BY <1>1, <1>2

(* The sums are those of the tables.                                        *)
LEMMA SameSums ==
  /\ daily' = daily => \A m : MonthSum(m)' = MonthSum(m)
  /\ monthly' = monthly => \A y : YearSum(y)' = YearSum(y)
  /\ daily' = daily /\ monthly' = monthly =>
       \A m : MonthDone(m)' = MonthDone(m) /\ MonthStored(m)' = MonthStored(m)
  /\ monthly' = monthly /\ yearly' = yearly =>
       \A y : YearDone(y)' = YearDone(y) /\ YearStored(y)' = YearStored(y)
BY DEF MonthSum, YearSum, MonthDone, YearDone, MonthStored, YearStored, NoData

LEMMA StepForcedSums ==
  ASSUME Basics, ForcedSums, [Next]_vars PROVE ForcedSums'
<1> SUFFICES ASSUME clean', force' # 0 PROVE ForcedSums'  BY DEF ForcedSums
<1>0. /\ Types /\ TypeOK /\ RunOK /\ force \in Nat /\ unit \in Int
      /\ recent[1] \in Int /\ recent[2] \in Nat
      /\ MonthOf(recent[1]) \in Int /\ YearOf(MonthOf(recent[1])) \in Int
      /\ \A m : MonthEnd(m) = (m + 1) * MonthLen
  <2>1. Types /\ TypeOK /\ RunOK /\ force \in Nat /\ unit \in Int
        /\ recent[1] \in Int /\ recent[2] \in Nat
    BY DEF Basics, Types, TypeOK
  <2> QED  BY <2>1, MonthOfDays, YearOfMonths DEF MonthEnd
<1>1. CASE Quote \/ NextDay \/ UNCHANGED vars
  <2>1. UNCHANGED <<tables, force, last, recent, pc, unit, clean>>
    BY <1>1 DEF Quote, NextDay, vars
  <2> QED  BY <2>1, SameSums DEF ForcedSums, MonthsDone, YearsDone, tables
<1>2. CASE Begin \/ InsertDay
  BY <1>2 DEF Begin, InsertDay, DayBefore, ForcedSums
<1>3. CASE Reads \/ EndDays \/ SameDay
  <2>1. pc' \in {"price", "volume", "insert"} \/ (pc' = "months" /\ unit' = MonthOf(recent'[1]))
    BY <1>3 DEF Reads, ReadPrices, ReadVolumes, EndDays, SameDay, ToMonths, DayBefore, Same
  <2>2. recent' = recent  BY <1>3 DEF Reads, ReadPrices, ReadVolumes, EndDays, SameDay, Same
  <2> QED  BY <1>0, <2>1, <2>2 DEF ForcedSums
<1>4. CASE EndMonths
  <2>1. /\ UNCHANGED <<tables, force, recent, clean>> /\ pc = "months" /\ pc' = "years"
        /\ unit' = YearOf(MonthOf(recent[1])) /\ clean /\ force # 0
        /\ ~InMonths
    BY <1>4 DEF EndMonths, ToYears, Same
  <2>2. ASSUME recent[2] > 0 PROVE MonthsDone(recent)
    <3>1. Ahead(recent[1])  BY <1>0, <2>1, <2>2 DEF RunOK
    <3>2. ~Ahead(MonthEnd(unit))  BY <2>1, <3>1 DEF InMonths
    <3>3. MonthEnd(unit) <= force  BY <1>0, <2>1, <3>2 DEF Ahead
    <3>4. unit < MonthOf(force + 1) /\ MonthOf(force + 1) \in Int
      BY <1>0, <3>3, MonthEnds, MonthOfDays
    <3> QED  BY <1>0, <2>1, <2>2, <3>4 DEF ForcedSums, MonthsDone
  <2>3. MonthsDone(recent)' = MonthsDone(recent)
    BY <2>1, SameSums DEF MonthsDone, tables
  <2> QED  BY <1>0, <2>1, <2>2, <2>3 DEF ForcedSums
<1>5. CASE PassMonth \/ InsertMonth
  <2>1. /\ UNCHANGED <<daily, yearly, force, recent, clean>> /\ pc = "months" /\ pc' = "months"
        /\ clean /\ force # 0 /\ unit' = unit - 1
    BY <1>5 DEF PassMonth, InsertMonth, NextMonth, InMonths, Same, tables
  <2>2. ASSUME NEW m, m # unit, MonthDone(m) PROVE MonthDone(m)'
    <3>1. CASE PassMonth  BY <2>2, <3>1, SameSums DEF PassMonth, tables
    <3>2. CASE InsertMonth
      <4>1. monthly' = [monthly EXCEPT ![unit] = MonthSum(unit)]
        BY <3>2 DEF InsertMonth, PutMonth
      <4>2. m \in MonthRange => monthly'[m] = monthly[m]  BY <1>0, <2>2, <4>1 DEF TypeOK
      <4> QED  BY <2>1, <2>2, <4>2, SameSums DEF MonthDone, MonthStored
    <3> QED  BY <1>5, <3>1, <3>2
  <2>4. \A m : m = unit => MonthDone(m)'
    <3>1. CASE PassMonth
      <4>1. MonthDone(unit)  BY <3>1 DEF PassMonth, MonthsEnd, MonthDone
      <4> QED  BY <3>1, <4>1, SameSums DEF PassMonth, tables
    <3>2. CASE InsertMonth
      <4>1. monthly' = [monthly EXCEPT ![unit] = MonthSum(unit)] /\ ~NoData(MonthSum(unit))
        BY <3>2 DEF InsertMonth, PutMonth, MonthsEnd
      <4>2. unit \in MonthRange  BY <4>1, WithData
      <4>3. monthly'[unit] = MonthSum(unit)  BY <1>0, <4>1, <4>2 DEF TypeOK
      <4> QED  BY <2>1, <4>2, <4>3, SameSums DEF MonthDone, MonthStored
    <3> QED  BY <1>5, <3>1, <3>2
  <2> QED  BY <1>0, <2>1, <2>2, <2>4 DEF ForcedSums
<1>6. CASE PassYear \/ InsertYear
  <2>1. /\ UNCHANGED <<daily, monthly, force, recent, clean>> /\ pc = "years" /\ pc' = "years"
        /\ clean /\ force # 0 /\ unit' = unit - 1
    BY <1>6 DEF PassYear, InsertYear, NextMonth, InYears, Same, tables
  <2>2. ASSUME NEW y, y # unit, YearDone(y) PROVE YearDone(y)'
    <3>1. CASE PassYear  BY <2>2, <3>1, SameSums DEF PassYear, tables
    <3>2. CASE InsertYear
      <4>1. yearly' = [yearly EXCEPT ![unit] = YearSum(unit)]
        BY <3>2 DEF InsertYear, PutYear
      <4>2. y \in YearRange => yearly'[y] = yearly[y]  BY <1>0, <2>2, <4>1 DEF TypeOK
      <4> QED  BY <2>1, <2>2, <4>2, SameSums DEF YearDone, YearStored
    <3> QED  BY <1>6, <3>1, <3>2
  <2>4. \A y : y = unit => YearDone(y)'
    <3>1. CASE PassYear
      <4>1. YearDone(unit)  BY <3>1 DEF PassYear, YearsEnd, YearDone
      <4> QED  BY <3>1, <4>1, SameSums DEF PassYear, tables
    <3>2. CASE InsertYear
      <4>1. yearly' = [yearly EXCEPT ![unit] = YearSum(unit)] /\ ~NoData(YearSum(unit))
        BY <3>2 DEF InsertYear, PutYear, YearsEnd
      <4>2. unit \in YearRange  BY <4>1, WithData
      <4>3. yearly'[unit] = YearSum(unit)  BY <1>0, <4>1, <4>2 DEF TypeOK
      <4> QED  BY <2>1, <4>2, <4>3, SameSums DEF YearDone, YearStored
    <3> QED  BY <1>6, <3>1, <3>2
  <2>5. MonthsDone(recent)' = MonthsDone(recent)
    BY <2>1, SameSums DEF MonthsDone
  <2> QED  BY <1>0, <2>1, <2>2, <2>4, <2>5 DEF ForcedSums
<1>7. CASE EndRun
  <2>1. /\ UNCHANGED <<tables, force, clean>> /\ pc = "years" /\ pc' = "idle"
        /\ last' = recent /\ clean /\ force # 0 /\ ~InYears
    BY <1>7 DEF EndRun, Idle
  <2>2. ASSUME recent[2] > 0 PROVE YearsDone(recent)
    <3>1. Ahead(recent[1])  BY <1>0, <2>1, <2>2 DEF RunOK
    <3>2. ~Ahead(YearEnd(unit))  BY <2>1, <3>1 DEF InYears
    <3>3. YearEnd(unit) <= force  BY <1>0, <2>1, <3>2 DEF Ahead, YearEnd
    <3>4. unit < YearOf(MonthOf(force + 1)) /\ YearOf(MonthOf(force + 1)) \in Int
      BY <1>0, <3>3, YearEnds, YearOfMonths, MonthOfDays
    <3> QED  BY <1>0, <2>1, <2>2, <3>4 DEF ForcedSums, YearsDone
  <2>3. recent[2] > 0 => MonthsDone(recent)  BY <2>1 DEF ForcedSums
  <2>4. recent[2] > 0 => MonthsDone(last)' /\ YearsDone(last)'
    BY <2>1, <2>2, <2>3, SameSums DEF MonthsDone, YearsDone, tables
  <2> QED  BY <2>1, <2>4 DEF ForcedSums
<1>8. CASE Crash
  <2>1. pc' = "idle" /\ last' = <<0, 0>>  BY <1>8 DEF Crash, Idle, Unstamped
  <2> QED  BY <2>1 DEF ForcedSums
<1>9. ~Fails  BY DEF Fails
<1> QED
  BY <1>1, <1>2, <1>3, <1>4, <1>5, <1>6, <1>7, <1>8, <1>9 DEF Next

-----------------------------------------------------------------------------
(* The summaries of an undisturbed process.                                 *)

(* A summary was made of earlier rows, none of which has gone.              *)
Summary(f) == f \in [DOMAIN f -> Nat \X Nat]

Older(f, g) ==
  \A d \in DOMAIN f : d \in DOMAIN g /\ f[d][1] <= g[d][1] /\ f[d][2] <= g[d][2]

MonthsMade ==
  \A m \in MonthRange : monthly[m] # NoRow =>
    ~NoData(monthly[m]) /\ Summary(monthly[m]) /\ Older(monthly[m], MonthSum(m))

YearsMade ==
  \A y \in YearRange : yearly[y] # NoRow =>
    \A m \in DOMAIN yearly[y] :
      /\ m \in MonthRange /\ YearOf(m) = y /\ monthly[m] # NoRow
      /\ Summary(yearly[y][m]) /\ Older(yearly[y][m], monthly[m])

Made == Undisturbed => MonthsMade /\ YearsMade

LEMMA OlderSame ==
  ASSUME NEW f, Summary(f) PROVE Older(f, f)
BY DEF Summary, Older

LEMMA OlderStays ==
  ASSUME NEW f, NEW g, NEW h, Summary(f), Summary(g), Summary(h), Older(f, g), Older(g, h)
  PROVE Older(f, h)
BY DEF Summary, Older

LEMMA OlderBoth ==
  ASSUME NEW f, NEW g, Summary(f), Summary(g), Older(f, g), Older(g, f)
  PROVE f = g
<1>1. DOMAIN f = DOMAIN g  BY DEF Older
<1>2. ASSUME NEW d \in DOMAIN f PROVE f[d] = g[d]
  <2>1. f[d] \in Nat \X Nat /\ g[d] \in Nat \X Nat  BY <1>1 DEF Summary
  <2>2. f[d][1] = g[d][1] /\ f[d][2] = g[d][2]  BY <1>1, <2>1 DEF Older
  <2> QED  BY <2>1, <2>2
<1> QED  BY <1>1, <1>2 DEF Summary

LEMMA SumIs ==
  ASSUME TypeOK, NEW m
  PROVE /\ ~NoData(MonthSum(m)) => MonthSum(m) # NoRow
        /\ Summary(MonthSum(m))
        /\ DOMAIN MonthSum(m) = {d \in DayRange : MonthOf(d) = m /\ HasRow(d)}
        /\ \A d \in DayRange : MonthOf(d) = m /\ HasRow(d) => MonthSum(m)[d] = daily[d]
<1>1. DOMAIN MonthSum(m) = {d \in DayRange : MonthOf(d) = m /\ HasRow(d)}
  BY DEF MonthSum, HasRow
<1>2. \A d \in DayRange : MonthOf(d) = m /\ HasRow(d) => MonthSum(m)[d] = daily[d]
  BY DEF MonthSum, HasRow
<1>3. \A d \in DayRange : HasRow(d) => daily[d] \in Nat \X Nat  BY DEF TypeOK, HasRow
<1>4. MonthSum(m) \in [DOMAIN MonthSum(m) -> Nat \X Nat]
  BY <1>1, <1>3 DEF MonthSum, HasRow
<1>5. ~NoData(MonthSum(m)) => MonthSum(m) # NoRow  BY DEF NoData, NoRow
<1> QED  BY <1>1, <1>2, <1>4, <1>5 DEF Summary

(* A row that is written anew is of as many quotes, or more.                *)
LEMMA RowGrows ==
  ASSUME Basics, clean, pc = "insert", HasRow(day)
  PROVE daily[day][1] <= price /\ daily[day][2] <= volume
<1>1. day \in DayRange /\ RunOK /\ TypeOK /\ RowsOfQuotes /\ price \in Nat /\ volume \in Nat
      /\ recent[2] \in Nat
  BY RowFound DEF Basics, Types
<1>2. daily[day][1] \in Nat /\ daily[day][2] \in Nat  BY <1>1, RowIs
<1>3. CASE day = recent[1] /\ recent[2] > 0
  <2>1. daily[day][1] <= recent[2] /\ daily[day][2] <= recent[2]
    BY <1>1, <1>3 DEF RunOK, InDays
  <2>2. recent[2] <= price /\ recent[2] <= volume  BY <1>3, RowFound
  <2> QED  BY <1>1, <1>2, <2>1, <2>2
<1>4. CASE ~(day = recent[1] /\ recent[2] > 0)
  <2>1. price = quotes[day] /\ volume = quotes[day]  BY <1>4, RowFound DEF Row
  <2> QED  BY <1>1, <2>1 DEF RowsOfQuotes
<1> QED  BY <1>3, <1>4

(* What the insert of a day does to the table and to the months.            *)
LEMMA DayInserted ==
  ASSUME Basics, clean, InsertDay
  PROVE /\ day \in DayRange /\ daily'[day] = Row
        /\ \A d \in DayRange : HasRow(d)' <=> HasRow(d) \/ d = day
        /\ \A d \in DayRange : d # day => daily'[d] = daily[d]
        /\ \A m : Older(MonthSum(m), MonthSum(m)')
        /\ \A m : Summary(MonthSum(m)')
        /\ \A m : m # MonthOf(day) => MonthSum(m)' = MonthSum(m)
        /\ \A m : m = MonthOf(day) => day \in DOMAIN MonthSum(m)' /\ MonthSum(m)'[day] = Row
<1>1. /\ pc = "insert" /\ daily' = [daily EXCEPT ![day] = Row]
      /\ daily \in [DayRange -> {Absent} \cup (Nat \X Nat)] /\ TypeOK
      /\ day \in DayRange /\ price \in Nat /\ volume \in Nat
  BY RowFound DEF InsertDay, Basics, Types, TypeOK
<1>2. daily'[day] = Row /\ \A d \in DayRange : d # day => daily'[d] = daily[d]  BY <1>1
<1>3. Row \in Nat \X Nat /\ Row # Absent  BY <1>1 DEF Row, Absent
<1>4. \A d \in DayRange : HasRow(d)' <=> HasRow(d) \/ d = day
  BY <1>2, <1>3 DEF HasRow
<1>5. ASSUME NEW m PROVE
        /\ DOMAIN MonthSum(m)' = {d \in DayRange : MonthOf(d) = m /\ (HasRow(d) \/ d = day)}
        /\ \A d \in DOMAIN MonthSum(m)' : MonthSum(m)'[d] = daily'[d]
        /\ Summary(MonthSum(m)')
  <2>1. MonthSum(m)' = [d \in {d \in DayRange : MonthOf(d) = m /\ HasRow(d)'} |-> daily'[d]]
    BY DEF MonthSum, HasRow
  <2>2. {d \in DayRange : MonthOf(d) = m /\ HasRow(d)'}
        = {d \in DayRange : MonthOf(d) = m /\ (HasRow(d) \/ d = day)}
    BY <1>4
  <2>3. \A d \in DayRange : HasRow(d) \/ d = day => daily'[d] \in Nat \X Nat
    BY <1>1, <1>2, <1>3 DEF HasRow
  <2> QED  BY <2>1, <2>2, <2>3 DEF Summary
<1>6. ASSUME NEW m PROVE Older(MonthSum(m), MonthSum(m)')
  <2> SUFFICES ASSUME NEW d \in DOMAIN MonthSum(m)
               PROVE /\ d \in DOMAIN MonthSum(m)'
                     /\ MonthSum(m)[d][1] <= MonthSum(m)'[d][1]
                     /\ MonthSum(m)[d][2] <= MonthSum(m)'[d][2]
    BY DEF Older
  <2>1. d \in DayRange /\ MonthOf(d) = m /\ HasRow(d) /\ MonthSum(m)[d] = daily[d]
    BY <1>1, SumIs
  <2>2. d \in DOMAIN MonthSum(m)' /\ MonthSum(m)'[d] = daily'[d]  BY <1>5, <2>1
  <2>3. CASE d = day
    BY <1>1, <1>2, <2>1, <2>2, <2>3, RowGrows DEF Row
  <2>4. CASE d # day
    <3>1. daily[d][1] \in Nat /\ daily[d][2] \in Nat  BY <1>1, <2>1, RowIs
    <3> QED  BY <1>2, <2>1, <2>2, <2>4, <3>1
  <2> QED  BY <2>3, <2>4
<1>7. ASSUME NEW m, m # MonthOf(day) PROVE MonthSum(m)' = MonthSum(m)
  <2>1. \A d \in DayRange : MonthOf(d) = m => daily'[d] = daily[d]  BY <1>2, <1>7
  <2> QED  BY <2>1 DEF MonthSum
<1>8. \A m : m = MonthOf(day) => day \in DOMAIN MonthSum(m)' /\ MonthSum(m)'[day] = Row
  BY <1>1, <1>2, <1>5
<1> QED  BY <1>1, <1>2, <1>4, <1>5, <1>6, <1>7, <1>8

(* An inserted month (year) is as it was summed up, the others stay.        *)
LEMMA MonthInserted ==
  ASSUME Basics, InsertMonth
  PROVE /\ unit \in MonthRange /\ daily' = daily /\ yearly' = yearly
        /\ monthly'[unit] = MonthSum(unit) /\ monthly[unit] # MonthSum(unit)
        /\ ~NoData(MonthSum(unit))
        /\ \A m \in MonthRange : m # unit => monthly'[m] = monthly[m]
        /\ \A m : MonthSum(m)' = MonthSum(m)
        /\ \A m : m # unit => MonthStored(m)' = MonthStored(m)
        /\ \A m : m = unit => MonthStored(m)'
<1>1. /\ monthly' = [monthly EXCEPT ![unit] = MonthSum(unit)] /\ DOMAIN monthly = MonthRange
      /\ ~NoData(MonthSum(unit)) /\ ~MonthStored(unit) /\ daily' = daily /\ yearly' = yearly
  BY DEF InsertMonth, PutMonth, MonthsEnd, Same, Basics, Types, TypeOK
<1>2. unit \in MonthRange  BY <1>1, WithData
<1>3. /\ monthly'[unit] = MonthSum(unit)
      /\ \A m \in MonthRange : m # unit => monthly'[m] = monthly[m]
  BY <1>1, <1>2
<1>4. \A m : MonthSum(m)' = MonthSum(m)  BY <1>1, SameSums
<1>5. monthly[unit] # MonthSum(unit)  BY <1>1, <1>2 DEF MonthStored
<1> QED  BY <1>1, <1>2, <1>3, <1>4, <1>5 DEF MonthStored

LEMMA YearInserted ==
  ASSUME Basics, InsertYear
  PROVE /\ unit \in YearRange /\ daily' = daily /\ monthly' = monthly
        /\ yearly'[unit] = YearSum(unit)
        /\ ~NoData(YearSum(unit))
        /\ \A y \in YearRange : y # unit => yearly'[y] = yearly[y]
        /\ \A y : YearSum(y)' = YearSum(y)
        /\ \A y : y # unit => YearStored(y)' = YearStored(y)
        /\ \A y : y = unit => YearStored(y)'
<1>1. /\ yearly' = [yearly EXCEPT ![unit] = YearSum(unit)] /\ DOMAIN yearly = YearRange
      /\ ~NoData(YearSum(unit)) /\ daily' = daily /\ monthly' = monthly
  BY DEF InsertYear, PutYear, YearsEnd, Same, Basics, Types, TypeOK
<1>2. unit \in YearRange  BY <1>1, WithData
<1>3. /\ yearly'[unit] = YearSum(unit)
      /\ \A y \in YearRange : y # unit => yearly'[y] = yearly[y]
  BY <1>1, <1>2
<1>4. \A y : YearSum(y)' = YearSum(y)  BY <1>1, SameSums
<1> QED  BY <1>1, <1>2, <1>3, <1>4 DEF YearStored

(* The steps that write the tables of the statistics.                       *)
LEMMA TablesWritten ==
  ASSUME [Next]_vars, ~Fails
  PROVE InsertDay \/ InsertMonth \/ InsertYear \/ UNCHANGED <<daily, monthly, yearly>>
BY DEF Next, Quote, NextDay, Begin, Reads, ReadPrices, ReadVolumes, EndDays, SameDay, EndMonths,
       PassMonth, PassYear, EndRun, Crash, Same, tables, vars

LEMMA StepMade ==
  ASSUME Basics, Made, [Next]_vars PROVE Made'
<1> SUFFICES ASSUME Undisturbed' PROVE MonthsMade' /\ YearsMade'  BY DEF Made
<1>0. clean /\ ~Fails /\ MonthsMade /\ YearsMade /\ TypeOK
  BY UndisturbedStep DEF Made, Basics, Types
<1>1. CASE UNCHANGED <<daily, monthly, yearly>>
  BY <1>0, <1>1, SameSums DEF MonthsMade, YearsMade
<1>2. CASE InsertDay
  <2>1. UNCHANGED <<monthly, yearly>>  BY <1>2 DEF InsertDay
  <2>2. YearsMade'  BY <1>0, <2>1 DEF YearsMade
  <2>3. MonthsMade'
    <3> SUFFICES ASSUME NEW m \in MonthRange, monthly[m] # NoRow
                 PROVE /\ ~NoData(monthly[m]) /\ Summary(monthly[m])
                       /\ Older(monthly[m], MonthSum(m)')
      BY <2>1 DEF MonthsMade
    <3>1. ~NoData(monthly[m]) /\ Summary(monthly[m]) /\ Older(monthly[m], MonthSum(m))
      BY <1>0 DEF MonthsMade
    <3>2. Summary(MonthSum(m)) /\ Summary(MonthSum(m)') /\ Older(MonthSum(m), MonthSum(m)')
      BY <1>0, <1>2, SumIs, DayInserted
    <3> QED  BY <3>1, <3>2, OlderStays
  <2> QED  BY <2>2, <2>3
<1>3. CASE InsertMonth
  <2>1. MonthsMade'
    <3> SUFFICES ASSUME NEW m \in MonthRange, monthly'[m] # NoRow
                 PROVE /\ ~NoData(monthly'[m]) /\ Summary(monthly'[m])
                       /\ Older(monthly'[m], MonthSum(m))
      BY <1>3, MonthInserted DEF MonthsMade
    <3>1. CASE m = unit
      <4>1. monthly'[m] = MonthSum(m) /\ ~NoData(MonthSum(m))  BY <1>3, <3>1, MonthInserted
      <4> QED  BY <1>0, <4>1, SumIs, OlderSame
    <3>2. CASE m # unit  BY <1>0, <1>3, <3>2, MonthInserted DEF MonthsMade
    <3> QED  BY <3>1, <3>2
  <2>2. YearsMade'
    <3> SUFFICES ASSUME NEW y \in YearRange, yearly[y] # NoRow, NEW m \in DOMAIN yearly[y]
                 PROVE /\ m \in MonthRange /\ YearOf(m) = y /\ monthly'[m] # NoRow
                       /\ Summary(yearly[y][m]) /\ Older(yearly[y][m], monthly'[m])
      BY <1>3, MonthInserted DEF YearsMade
    <3>1. /\ m \in MonthRange /\ YearOf(m) = y /\ monthly[m] # NoRow
          /\ Summary(yearly[y][m]) /\ Older(yearly[y][m], monthly[m])
      BY <1>0 DEF YearsMade
    <3>2. CASE m = unit
      <4>1. monthly'[m] = MonthSum(m) /\ ~NoData(MonthSum(m))  BY <1>3, <3>2, MonthInserted
      <4>2. Summary(monthly[m]) /\ Older(monthly[m], MonthSum(m))
        BY <1>0, <3>1 DEF MonthsMade
      <4> QED  BY <1>0, <3>1, <4>1, <4>2, SumIs, OlderStays
    <3>3. CASE m # unit  BY <1>3, <3>1, <3>3, MonthInserted
    <3> QED  BY <3>2, <3>3
  <2> QED  BY <2>1, <2>2
<1>4. CASE InsertYear
  <2>1. MonthsMade'  BY <1>0, <1>4, YearInserted, SameSums DEF MonthsMade
  <2>2. YearsMade'
    <3> SUFFICES ASSUME NEW y \in YearRange, yearly'[y] # NoRow, NEW m \in DOMAIN yearly'[y]
                 PROVE /\ m \in MonthRange /\ YearOf(m) = y /\ monthly[m] # NoRow
                       /\ Summary(yearly'[y][m]) /\ Older(yearly'[y][m], monthly[m])
      BY <1>4, YearInserted DEF YearsMade
    <3>1. CASE y = unit
      <4>1. yearly'[y] = YearSum(y)  BY <1>4, <3>1, YearInserted
      <4>2. m \in MonthRange /\ YearOf(m) = y /\ monthly[m] # NoRow /\ yearly'[y][m] = monthly[m]
        BY <4>1 DEF YearSum
      <4> QED  BY <1>0, <4>2, OlderSame DEF MonthsMade
    <3>2. CASE y # unit
      <4>1. yearly'[y] = yearly[y]  BY <1>4, <3>2, YearInserted
      <4> QED  BY <1>0, <4>1 DEF YearsMade
    <3> QED  BY <3>1, <3>2
  <2> QED  BY <2>1, <2>2
<1> QED  BY <1>0, <1>1, <1>2, <1>3, <1>4, TablesWritten

(* Once a day of a month was written anew, the month is not stored; once a  *)
(* month was, its year is not.                                              *)
LEMMA DayOutdates ==
  ASSUME Basics, clean, MonthsMade, InsertDay, daily[day] # Row,
         NEW m, m = MonthOf(day)
  PROVE ~MonthStored(m)'
<1> SUFFICES ASSUME MonthStored(m)' PROVE FALSE  OBVIOUS
<1>1. m \in MonthRange /\ monthly[m] = MonthSum(m)' /\ TypeOK
  BY DEF MonthStored, InsertDay, Basics, Types
<1>2. day \in DayRange /\ day \in DOMAIN MonthSum(m)' /\ MonthSum(m)'[day] = Row
      /\ Summary(MonthSum(m)') /\ Older(MonthSum(m), MonthSum(m)')
  BY DayInserted
<1>3. monthly[m] # NoRow
  <2>1. day \in DOMAIN monthly[m]  BY <1>1, <1>2
  <2> QED  BY <2>1 DEF NoRow
<1>4. Summary(monthly[m]) /\ Older(monthly[m], MonthSum(m))
  BY <1>1, <1>3 DEF MonthsMade
<1>5. MonthSum(m) = MonthSum(m)'
  BY <1>1, <1>2, <1>4, SumIs, OlderBoth
<1>6. day \in DOMAIN MonthSum(m) /\ MonthSum(m)[day] = Row  BY <1>2, <1>5
<1>7. HasRow(day) /\ MonthSum(m)[day] = daily[day]  BY <1>1, <1>6, SumIs
<1> QED  BY <1>6, <1>7

LEMMA MonthOutdates ==
  ASSUME Basics, MonthsMade, YearsMade, InsertMonth, NEW y, y = YearOf(unit)
  PROVE ~YearStored(y)'
<1> SUFFICES ASSUME YearStored(y)' PROVE FALSE  OBVIOUS
<1>1. /\ unit \in MonthRange /\ monthly'[unit] = MonthSum(unit) /\ monthly[unit] # MonthSum(unit)
      /\ yearly' = yearly /\ TypeOK
  BY MonthInserted DEF Basics, Types
<1>2. y \in YearRange /\ yearly[y] = YearSum(y)'
  BY <1>1 DEF YearStored
<1>3. \A m \in MonthRange : YearOf(m) = y /\ monthly'[m] # NoRow =>
        m \in DOMAIN YearSum(y)' /\ YearSum(y)'[m] = monthly'[m]
  BY DEF YearSum
<1>4. monthly'[unit] # NoRow  BY <1>1, MonthInserted, SumIs
<1>5. unit \in DOMAIN yearly[y] /\ yearly[y][unit] = MonthSum(unit)
  BY <1>1, <1>2, <1>3, <1>4
<1> QED
  <2>1. CASE yearly[y] # NoRow
    <3>1. /\ monthly[unit] # NoRow /\ Older(MonthSum(unit), monthly[unit])
      BY <1>2, <1>5, <2>1 DEF YearsMade
    <3>2. Summary(monthly[unit]) /\ Older(monthly[unit], MonthSum(unit))
      BY <1>1, <3>1 DEF MonthsMade
    <3>3. monthly[unit] = MonthSum(unit)  BY <1>1, <3>1, <3>2, SumIs, OlderBoth
    <3> QED  BY <1>1, <3>3
  <2>2. CASE yearly[y] = NoRow
    <3> QED  BY <1>5, <2>2 DEF NoRow
  <2> QED  BY <2>1, <2>2

HasData(m) == ~NoData(MonthSum(m))
HasMonths(y) == ~NoData(YearSum(y))

(* Behind a month (a year) that is stored no other was left out.            *)
MonthBehind(m) ==
  HasData(m) /\ MonthStored(m) =>
    \A k \in MonthRange : k < m /\ (\A j \in k..m : HasData(j)) => MonthStored(k)
YearBehind(y) ==
  HasMonths(y) /\ YearStored(y) =>
    \A k \in YearRange : k < y /\ (\A j \in k..y : HasMonths(j)) => YearStored(k)

MonthsBehind == \A m \in MonthRange : (pc = "months" => m <= unit) => MonthBehind(m)
YearsBehind == \A y \in YearRange : (pc = "years" => y <= unit) => YearBehind(y)

(* Of the days done so far either the months of all were to be calculated   *)
(* again, or from one on everything was current.                            *)
AllOutdated == \A d \in DayRange : HasRow(d) /\ d > day => ~MonthStored(MonthOf(d))

CurrentFrom(d) ==
  /\ HasRow(d) /\ d > day /\ (day \in DayRange => Linked(d, day))
  /\ \A c \in DayRange : c <= day /\ Linked(d, c) => Current(c)

DaysDone == InDays => AllOutdated \/ \E d \in DayRange : CurrentFrom(d)

(* The months (years) done so far.                                          *)
MonthsSoFar ==
  pc = "months" =>
    /\ unit <= MonthOf(recent[1])
    /\ \A m \in Int : unit < m /\ m <= MonthOf(recent[1]) => HasData(m) /\ MonthStored(m)
    /\ \A m \in MonthRange : m > unit /\ monthly[m] # NoRow => ~YearStored(YearOf(m))

LastMonth(d) == HasData(MonthOf(d)) => MonthStored(MonthOf(d))
LastYear(d) == HasMonths(YearOf(MonthOf(d))) => YearStored(YearOf(MonthOf(d)))

YearsSoFar ==
  pc = "years" =>
    /\ LastMonth(recent[1])
    /\ unit <= YearOf(MonthOf(recent[1]))
    /\ \A y \in Int : unit < y /\ y <= YearOf(MonthOf(recent[1])) => HasMonths(y) /\ YearStored(y)

LastsStored == pc = "idle" /\ last[2] > 0 => LastMonth(last[1]) /\ LastYear(last[1])

Sums ==
  Undisturbed =>
    MonthsBehind /\ YearsBehind /\ DaysDone /\ MonthsSoFar /\ YearsSoFar /\ LastsStored

-----------------------------------------------------------------------------
(* A row of a month or of days is not after the recent one.                 *)
LEMMA NotAfter ==
  ASSUME Basics, pc # "idle"
  PROVE /\ \A m \in MonthRange : HasData(m) => m <= MonthOf(recent[1])
        /\ MonthsMade => \A m \in MonthRange : monthly[m] # NoRow => m <= MonthOf(recent[1])
        /\ MonthsMade => \A y \in YearRange : HasMonths(y) => y <= YearOf(MonthOf(recent[1]))
<1>0. recent[1] \in Int /\ MonthOf(recent[1]) \in Int /\ DayRange \subseteq Int
      /\ MonthRange \subseteq Int /\ TypeOK /\ RunOK
  BY MonthOfDays DEF Basics, Types, DayRange, MonthRange
<1>1. ASSUME NEW m \in MonthRange, HasData(m) PROVE m <= MonthOf(recent[1])
  <2>1. PICK d \in DayRange : MonthOf(d) = m /\ HasRow(d)
    BY <1>1 DEF HasData, NoData, MonthSum, HasRow
  <2>2. d <= recent[1]  BY <1>0, <2>1 DEF RunOK
  <2> QED  BY <1>0, <2>1, <2>2, MonthOfDays
<1>2. ASSUME MonthsMade, NEW m \in MonthRange, monthly[m] # NoRow
      PROVE m <= MonthOf(recent[1])
  <2>1. HasData(m)  BY <1>2 DEF MonthsMade, HasData, NoData, Older
  <2> QED  BY <1>1, <2>1
<1>3. ASSUME MonthsMade, NEW y \in YearRange, HasMonths(y)
      PROVE y <= YearOf(MonthOf(recent[1]))
  <2>1. PICK m \in MonthRange : YearOf(m) = y /\ monthly[m] # NoRow
    BY <1>3 DEF HasMonths, NoData, YearSum
  <2>2. m <= MonthOf(recent[1])  BY <1>2, <1>3, <2>1
  <2> QED  BY <1>0, <2>1, <2>2, YearOfMonths
<1> QED  BY <1>1, <1>2, <1>3

LEMMA SameHas ==
  /\ daily' = daily => \A m : HasData(m)' = HasData(m)
  /\ monthly' = monthly => \A y : HasMonths(y)' = HasMonths(y)
BY SameSums DEF HasData, HasMonths, NoData

LEMMA BehindSame ==
  /\ daily' = daily /\ monthly' = monthly => \A m : MonthBehind(m)' = MonthBehind(m)
  /\ monthly' = monthly /\ yearly' = yearly => \A y : YearBehind(y)' = YearBehind(y)
BY SameSums, SameHas DEF MonthBehind, YearBehind

(* Where the loop of the months ends.                                       *)
LEMMA MonthsAllBehind ==
  ASSUME Basics, pc = "months", MonthsSoFar, MonthsBehind, MonthsEnd, NEW m \in MonthRange
  PROVE MonthBehind(m)
<1>0. /\ recent[1] \in Int /\ MonthOf(recent[1]) \in Int /\ MonthRange \subseteq Int /\ unit \in Int
  BY MonthOfDays DEF Basics, Types, MonthRange
<1>1. CASE m <= unit  BY <1>1 DEF MonthsBehind
<1>2. CASE unit < m
  <2> SUFFICES ASSUME HasData(m), NEW k \in MonthRange, k < m, \A j \in k..m : HasData(j)
               PROVE MonthStored(k)
    BY DEF MonthBehind
  <2>1. m <= MonthOf(recent[1])  BY NotAfter
  <2>2. CASE unit < k  BY <1>0, <2>1, <2>2 DEF MonthsSoFar
  <2>3. CASE k <= unit
    <3>1. HasData(unit) /\ MonthStored(unit)
      BY <1>0, <1>2, <2>3 DEF MonthsEnd, HasData
    <3>2. unit \in MonthRange  BY <3>1, WithData DEF HasData
    <3>3. MonthBehind(unit)  BY <1>0, <3>2 DEF MonthsBehind
    <3>4. CASE k = unit  BY <3>1, <3>4
    <3>5. CASE k < unit
      <4>1. \A j \in k..unit : HasData(j)  BY <1>0, <1>2
      <4> QED  BY <3>1, <3>3, <3>5, <4>1 DEF MonthBehind
    <3> QED  BY <1>0, <2>3, <3>4, <3>5
  <2> QED  BY <1>0, <2>2, <2>3
<1> QED  BY <1>0, <1>1, <1>2

LEMMA YearsAllBehind ==
  ASSUME Basics, MonthsMade, pc = "years", YearsSoFar, YearsBehind, YearsEnd, NEW y \in YearRange
  PROVE YearBehind(y)
<1>0. /\ YearOf(MonthOf(recent[1])) \in Int /\ YearRange \subseteq Int /\ unit \in Int
  BY MonthOfDays, YearOfMonths DEF Basics, Types, YearRange
<1>1. CASE y <= unit  BY <1>1 DEF YearsBehind
<1>2. CASE unit < y
  <2> SUFFICES ASSUME HasMonths(y), NEW k \in YearRange, k < y, \A j \in k..y : HasMonths(j)
               PROVE YearStored(k)
    BY DEF YearBehind
  <2>0. k \in Int /\ unit \in Int  BY <1>0
  <2>1. y <= YearOf(MonthOf(recent[1]))  BY NotAfter
  <2>2. CASE unit < k  BY <1>0, <2>1, <2>2 DEF YearsSoFar
  <2>3. CASE k <= unit
    <3>1. HasMonths(unit) /\ YearStored(unit)
      BY <1>0, <1>2, <2>3 DEF YearsEnd, HasMonths
    <3>2. unit \in YearRange  BY <3>1, WithData DEF HasMonths
    <3>3. YearBehind(unit)  BY <1>0, <3>2 DEF YearsBehind
    <3>4. CASE k = unit  BY <3>1, <3>4
    <3>5. CASE k < unit
      <4>1. \A j \in k..unit : HasMonths(j)  BY <1>0, <1>2
      <4> QED  BY <3>1, <3>3, <3>5, <4>1 DEF YearBehind
    <3> QED  BY <2>0, <2>3, <3>4, <3>5
  <2> QED  BY <2>0, <2>2, <2>3
<1> QED  BY <1>0, <1>1, <1>2

(* Once everything from one day on is current, nothing is written any more. *)
LEMMA CurrentIsWritten ==
  ASSUME Basics, clean, force = 0, pc = "insert", NEW d \in DayRange, CurrentFrom(d)
  PROVE daily[day] = Row
<1>1. /\ day \in DayRange /\ Linked(d, day) /\ day < d /\ day \in Int /\ d \in Int
      /\ HasRow(d) /\ recent[1] \in Int
  BY RowFound DEF CurrentFrom, DayRange, Basics, Types
<1>2. Current(day)  BY <1>1 DEF CurrentFrom
<1>3. d <= recent[1]  BY <1>1 DEF Basics, RunOK
<1>4. Row = <<quotes[day], quotes[day]>>  BY <1>1, <1>3, RowFound
<1>5. quotes[day] > 0
  BY <1>1 DEF Basics, RunOK, Quoted, Types, TypeOK
<1> QED  BY <1>2, <1>4, <1>5 DEF Current

LEMMA SameRow ==
  ASSUME Basics, clean, InsertDay, daily[day] = Row
  PROVE daily' = daily
<1>1. daily' = [daily EXCEPT ![day] = Row] /\ daily \in [DayRange -> {Absent} \cup (Nat \X Nat)]
  BY DEF InsertDay, Basics, Types, TypeOK
<1> QED  BY <1>1

LEMMA StepMonthsBehind ==
  ASSUME Basics, Made, Sums, [Next]_vars, Undisturbed' PROVE MonthsBehind'
<1>0. /\ MonthsMade /\ MonthsBehind /\ DaysDone /\ MonthsSoFar /\ clean /\ force = 0
      /\ ~Fails /\ ~Crash /\ MonthRange \subseteq Int /\ DayRange \subseteq Int
      /\ unit \in Int /\ day \in Int /\ TypeOK
  <2>1. Undisturbed  BY UndisturbedStep
  <2> QED  BY <2>1, UndisturbedStep DEF Made, Sums, Undisturbed, MonthRange, DayRange, Basics, Types
<1>1. CASE InsertDay
  <2>1. pc = "insert" /\ pc' = "price"  BY <1>1 DEF InsertDay, DayBefore
  <2>2. \A m \in MonthRange : MonthBehind(m)  BY <1>0, <2>1 DEF MonthsBehind
  <2>3. monthly' = monthly  BY <1>1 DEF InsertDay
  <2>4. CASE daily[day] = Row
    <3>1. daily' = daily  BY <1>0, <1>1, <2>4, SameRow
    <3> QED  BY <2>2, <2>3, <3>1, BehindSame DEF MonthsBehind
  <2>5. CASE daily[day] # Row
    <3>1. AllOutdated
      BY <1>0, <2>1, <2>5, CurrentIsWritten DEF DaysDone, InDays
    <3> SUFFICES ASSUME NEW m \in MonthRange PROVE MonthBehind(m)'  BY DEF MonthsBehind
    <3>2. day \in DayRange /\ MonthOf(day) \in Int /\ m \in Int
      BY <1>0, <1>1, DayInserted, MonthOfDays
    <3>3. \A k : k # MonthOf(day) => /\ MonthStored(k)' = MonthStored(k)
                                    /\ HasData(k)' = HasData(k)
      BY <1>0, <1>1, <2>3, DayInserted DEF MonthStored, HasData, NoData
    <3>4. CASE m < MonthOf(day)
      <4>1. MonthBehind(m)  BY <2>2
      <4>2. \A k \in MonthRange : k < m => MonthStored(k)' = MonthStored(k)
        BY <1>0, <3>2, <3>3, <3>4
      <4>3. \A k \in MonthRange : \A j \in k..m : HasData(j)' = HasData(j)
        BY <1>0, <3>2, <3>3, <3>4
      <4>4. MonthStored(m)' = MonthStored(m) /\ HasData(m)' = HasData(m)  BY <3>2, <3>3, <3>4
      <4> QED  BY <4>1, <4>2, <4>3, <4>4 DEF MonthBehind
    <3>5. CASE m = MonthOf(day)
      <4>1. ~MonthStored(m)'  BY <1>0, <1>1, <2>5, <3>5, DayOutdates
      <4> QED  BY <4>1 DEF MonthBehind
    <3>6. CASE m > MonthOf(day)
      <4>1. HasData(m) => ~MonthStored(m)
        <5> SUFFICES ASSUME HasData(m) PROVE ~MonthStored(m)  OBVIOUS
        <5>1. PICK d \in DayRange : MonthOf(d) = m /\ HasRow(d)
          BY DEF HasData, NoData, MonthSum, HasRow
        <5>2. d > day
          BY <1>0, <3>2, <3>6, <5>1, MonthOfDays
        <5> QED  BY <3>1, <5>1, <5>2 DEF AllOutdated
      <4> QED  BY <3>2, <3>3, <3>6, <4>1 DEF MonthBehind
    <3> QED  BY <3>2, <3>4, <3>5, <3>6
  <2> QED  BY <2>4, <2>5
<1>2. CASE InsertMonth
  <2>1. pc = "months" /\ pc' = "months" /\ unit' = unit - 1
    BY <1>2 DEF InsertMonth, InMonths, NextMonth
  <2> SUFFICES ASSUME NEW m \in MonthRange, m <= unit - 1 PROVE MonthBehind(m)'
    BY <2>1 DEF MonthsBehind
  <2>2. m < unit /\ m \in Int  BY <1>0
  <2>3. MonthBehind(m)  BY <1>0, <2>1, <2>2 DEF MonthsBehind
  <2>4. \A k \in MonthRange : k <= m => MonthStored(k)' = MonthStored(k)
    BY <1>0, <1>2, <2>2, MonthInserted
  <2>5. \A k : HasData(k)' = HasData(k)  BY <1>2, MonthInserted, SameHas
  <2> QED  BY <1>0, <2>2, <2>3, <2>4, <2>5 DEF MonthBehind
<1>3. CASE EndMonths
  <2>1. UNCHANGED <<daily, monthly>> /\ pc = "months" /\ MonthsEnd
    BY <1>0, <1>3 DEF EndMonths, InMonths, Ahead, tables
  <2>2. \A m \in MonthRange : MonthBehind(m)  BY <1>0, <2>1, MonthsAllBehind
  <2> QED  BY <2>1, <2>2, BehindSame DEF MonthsBehind
<1>4. CASE UNCHANGED <<daily, monthly>> /\ ~EndMonths /\ ~InsertMonth
  <2>1. pc = "months" => pc' = "months" /\ unit' = unit
    BY <1>0, <1>4 DEF Next, Quote, NextDay, Begin, Reads, ReadPrices, ReadVolumes, EndDays, SameDay,
       InsertDay, PassMonth, PassYear, InsertYear, InYears, EndRun, vars
  <2> QED  BY <1>0, <1>4, <2>1, BehindSame DEF MonthsBehind
<1>5. InsertYear => UNCHANGED <<daily, monthly>> /\ ~EndMonths
  BY DEF InsertYear, InYears, Same, EndMonths
<1>6. UNCHANGED <<daily, monthly, yearly>> => UNCHANGED <<daily, monthly>>  OBVIOUS
<1> QED  BY <1>0, <1>1, <1>2, <1>3, <1>4, <1>5, <1>6, TablesWritten

LEMMA SumsNow ==
  ASSUME Basics, Filled, Chain, Made, Sums, [Next]_vars, Undisturbed'
  PROVE /\ MonthsMade /\ YearsMade /\ MonthsBehind /\ YearsBehind /\ DaysDone /\ MonthsSoFar
        /\ YearsSoFar /\ LastsStored /\ RowsChained /\ EmptyDays
        /\ clean /\ force = 0 /\ ~Fails /\ ~Crash
        /\ MonthRange \subseteq Int /\ YearRange \subseteq Int /\ DayRange \subseteq Int
        /\ unit \in Int /\ day \in Int /\ TypeOK /\ RunOK /\ recent[1] \in Int
        /\ MonthOf(recent[1]) \in Int /\ YearOf(MonthOf(recent[1])) \in Int
<1>1. Undisturbed /\ clean /\ ~Fails /\ ~Crash  BY UndisturbedStep
<1>2. recent[1] \in Int  BY DEF Basics, Types
<1>3. MonthOf(recent[1]) \in Int /\ YearOf(MonthOf(recent[1])) \in Int
  BY <1>2, MonthOfDays, YearOfMonths
<1>4. MonthRange \subseteq Int /\ YearRange \subseteq Int /\ DayRange \subseteq Int
  BY DEF MonthRange, YearRange, DayRange
<1>5. unit \in Int /\ day \in Int /\ TypeOK /\ RunOK  BY DEF Basics, Types
<1>6. force = 0  BY <1>1 DEF Undisturbed
<1> QED  BY <1>1, <1>2, <1>3, <1>4, <1>5, <1>6 DEF Chain, Made, Sums

LEMMA StepYearsBehind ==
  ASSUME Basics, Filled, Chain, Made, Sums, [Next]_vars, Undisturbed' PROVE YearsBehind'
<1>1. CASE InsertMonth
  <2>1. pc = "months" /\ pc' = "months"
    BY <1>1 DEF InsertMonth, InMonths, NextMonth
  <2>2. \A y \in YearRange : YearBehind(y)  BY <2>1, SumsNow DEF YearsBehind
  <2> SUFFICES ASSUME NEW y \in YearRange PROVE YearBehind(y)'  BY DEF YearsBehind
  <2>3. unit \in MonthRange /\ unit \in Int /\ YearOf(unit) \in Int /\ y \in Int
    BY <1>1, MonthInserted, SumsNow, YearOfMonths
  <2>4. \A k : k # YearOf(unit) => YearSum(k)' = YearSum(k)
    <3> SUFFICES ASSUME NEW k, k # YearOf(unit) PROVE YearSum(k)' = YearSum(k)  OBVIOUS
    <3>1. \A m \in MonthRange : YearOf(m) = k => monthly'[m] = monthly[m]
      BY <1>1, MonthInserted
    <3> QED  BY <3>1 DEF YearSum
  <2>5. \A k : k # YearOf(unit) => /\ YearStored(k)' = YearStored(k)
                                  /\ HasMonths(k)' = HasMonths(k)
    BY <1>1, <2>4, MonthInserted DEF YearStored, HasMonths, NoData
  <2>6. CASE y < YearOf(unit)
    <3>1. YearBehind(y)  BY <2>2
    <3>2. \A k \in YearRange : k < y => YearStored(k)' = YearStored(k)
      BY <2>3, <2>5, <2>6, SumsNow
    <3>3. \A k \in YearRange : \A j \in k..y : HasMonths(j)' = HasMonths(j)
      BY <2>3, <2>5, <2>6, SumsNow
    <3>4. YearStored(y)' = YearStored(y) /\ HasMonths(y)' = HasMonths(y)
      BY <2>3, <2>5, <2>6
    <3> QED  BY <3>1, <3>2, <3>3, <3>4 DEF YearBehind
  <2>7. CASE y = YearOf(unit)
    <3>1. ~YearStored(y)'  BY <1>1, <2>7, MonthOutdates, SumsNow
    <3> QED  BY <3>1 DEF YearBehind
  <2>8. CASE y > YearOf(unit)
    <3>1. HasMonths(y) => ~YearStored(y)
      <4> SUFFICES ASSUME HasMonths(y) PROVE ~YearStored(y)  OBVIOUS
      <4>1. PICK m \in MonthRange : YearOf(m) = y /\ monthly[m] # NoRow
        BY DEF HasMonths, NoData, YearSum
      <4>2. m > unit  BY <2>3, <2>8, <4>1, YearOfMonths, SumsNow
      <4> QED  BY <2>1, <4>1, <4>2, SumsNow DEF MonthsSoFar
    <3> QED  BY <2>3, <2>5, <2>8, <3>1 DEF YearBehind
  <2> QED  BY <2>3, <2>6, <2>7, <2>8
<1>2. CASE InsertYear
  <2>1. pc = "years" /\ pc' = "years" /\ unit' = unit - 1
    BY <1>2 DEF InsertYear, InYears, NextMonth
  <2> SUFFICES ASSUME NEW y \in YearRange, y <= unit - 1 PROVE YearBehind(y)'
    BY <2>1 DEF YearsBehind
  <2>2. y < unit /\ y \in Int  BY SumsNow
  <2>3. YearBehind(y)  BY <2>1, <2>2, SumsNow DEF YearsBehind
  <2>4. \A k \in YearRange : k <= y => YearStored(k)' = YearStored(k)
    BY <1>2, <2>2, YearInserted, SumsNow
  <2>5. \A k : HasMonths(k)' = HasMonths(k)  BY <1>2, YearInserted, SameHas
  <2> QED  BY <2>2, <2>3, <2>4, <2>5, SumsNow DEF YearBehind
<1>3. CASE EndRun
  <2>1. UNCHANGED <<monthly, yearly>> /\ pc = "years" /\ YearsEnd
    BY <1>3, SumsNow DEF EndRun, InYears, Ahead, tables
  <2>2. \A y \in YearRange : YearBehind(y)  BY <2>1, YearsAllBehind, SumsNow
  <2> QED  BY <2>1, <2>2, BehindSame DEF YearsBehind
<1>4. CASE UNCHANGED <<monthly, yearly>> /\ ~EndRun /\ ~InsertYear
  <2>1. pc = "years" => pc' = "years" /\ unit' = unit
    BY <1>4, SumsNow DEF Next, Quote, NextDay, Begin, Reads, ReadPrices, ReadVolumes, EndDays,
       SameDay, InsertDay, EndMonths, PassMonth, InsertMonth, InMonths, PassYear, vars
  <2> QED  BY <1>4, <2>1, BehindSame, SumsNow DEF YearsBehind
<1>5. InsertDay => UNCHANGED <<monthly, yearly>> /\ ~EndRun /\ ~InsertYear
  BY DEF InsertDay, EndRun, InsertYear, InYears
<1>6. UNCHANGED <<daily, monthly, yearly>> => UNCHANGED <<monthly, yearly>>  OBVIOUS
<1> QED  BY <1>1, <1>2, <1>3, <1>4, <1>5, <1>6, TablesWritten, SumsNow

(* The row of today's turn, which stays as it is, is where all is current.  *)
LEMMA StepDaysDone ==
  ASSUME Basics, Filled, Chain, Made, Sums, [Next]_vars, Undisturbed' PROVE DaysDone'
<1> USE SumsNow
<1>1. ASSUME UNCHANGED <<daily, monthly>>, InDays, InDays', day' = day PROVE DaysDone'
  <2>1. CASE AllOutdated
    <3>1. AllOutdated'  BY <1>1, <2>1, SameSums DEF AllOutdated, HasRow
    <3> QED  BY <3>1 DEF DaysDone
  <2>2. CASE \E d \in DayRange : CurrentFrom(d)
    <3>1. PICK d \in DayRange : CurrentFrom(d)  BY <2>2
    <3>2. HasRow(d) /\ d > day /\ d <= today /\ today \in Int /\ d \in Int
      BY <3>1, Frozen DEF CurrentFrom, Basics, RowsOfQuotes
    <3>3. \A c \in DayRange : c = day => Linked(d, c)'
      BY <3>1, <3>2, LinkedStays DEF CurrentFrom
    <3>4. ASSUME NEW c \in DayRange, c <= day, Linked(d, c)' PROVE Current(c)'
      <4>1. Linked(d, c)  BY <3>2, <3>4, LinkedStays
      <4>2. Current(c) /\ c < today  BY <3>1, <3>2, <3>4, <4>1 DEF CurrentFrom
      <4> QED  BY <1>1, <4>2, CurrentStays
    <3>5. day' \in DayRange => Linked(d, day)'
      BY <1>1, <3>3 DEF Linked
    <3>6. CurrentFrom(d)'  BY <1>1, <3>2, <3>4, <3>5 DEF CurrentFrom, HasRow
    <3> QED  BY <3>6 DEF DaysDone
  <2> QED  BY <1>1, <2>1, <2>2 DEF DaysDone
<1>2. CASE Begin
  <2>1. UNCHANGED <<daily, quotes>> /\ day' = Recent[1]  BY <1>2 DEF Begin, tables
  <2>2. \A d \in DayRange : HasRow(d) => d <= Recent[1]
    BY RecentIs DEF Basics, RowsOfQuotes
  <2>3. Recent[1] \in Int  BY RecentIs
  <2>4. AllOutdated'  BY <2>1, <2>2, <2>3 DEF AllOutdated, HasRow
  <2> QED  BY <2>4 DEF DaysDone
(* An empty day.                                                            *)
<1>3. ASSUME UNCHANGED <<daily, monthly, quotes>>, InDays, day' = day - 1,
             day \in DayRange => quotes[day] = 0, empty' = empty + 1, empty + 1 <= EmptyLimit,
             pc = "volume"
      PROVE DaysDone'
  <2>1. CASE AllOutdated
    <3>1. \A d \in DayRange : HasRow(d) /\ d > day - 1 => d > day
      BY <1>3 DEF Basics, RowsOfQuotes
    <3>2. AllOutdated'  BY <1>3, <2>1, <3>1, SameSums DEF AllOutdated, HasRow
    <3> QED  BY <3>2 DEF DaysDone
  <2>2. CASE \E d \in DayRange : CurrentFrom(d)
    <3>1. PICK d \in DayRange : CurrentFrom(d)  BY <2>2
    <3>2. HasRow(d) /\ d > day /\ d <= recent[1] /\ d \in Int /\ d <= Days
      BY <1>3, <3>1 DEF CurrentFrom, RunOK, DayRange, InDays
    <3>3. ASSUME day - 1 \in DayRange PROVE Linked(d, day - 1)
      <4>6. day \in DayRange  BY <3>2, <3>3 DEF DayRange
      <4>0. day \in DayRange /\ EmptyLimit \in Nat /\ empty \in Nat
        BY <4>6 DEF TypeOK
      <4>1. Linked(d, day)  BY <3>1, <4>0 DEF CurrentFrom
      <4>2. \/ day + empty = recent[1]
            \/ day + empty + 1 \in DayRange /\ quotes[day + empty + 1] > 0
        BY <1>3 DEF EmptyDays
      <4>3. day + EmptyLimit < d => \E q \in day..(day + EmptyLimit) : quotes[q] > 0
        BY <1>3, <3>2, <4>0, <4>2
      <4> SUFFICES ASSUME NEW e \in day..d, e + EmptyLimit < d
                   PROVE \E q \in e..(e + EmptyLimit) : quotes[q] > 0
        BY DEF Linked
      <4>4. CASE e = day  BY <4>3, <4>4
      <4>5. CASE e # day
        <5>1. e \in (day + 1)..d  BY <3>2, <4>5
        <5> QED  BY <4>1, <5>1 DEF Linked
      <4> QED  BY <4>4, <4>5
    <3>4. CurrentFrom(d)'
      BY <1>3, <3>1, <3>2, <3>3 DEF CurrentFrom, HasRow, Linked, Current
    <3> QED  BY <3>4 DEF DaysDone
  <2> QED  BY <1>3, <2>1, <2>2 DEF DaysDone
<1>4. CASE ReadVolumes(Quoted(day)) /\ UNCHANGED <<crashes, failures, clean>>
  <2>1. UNCHANGED <<daily, monthly, quotes>> /\ pc = "volume" /\ InDays
    BY <1>4 DEF ReadVolumes, tables, InDays
  <2>2. CASE price > 0 \/ Quoted(day) > 0
    BY <1>1, <1>4, <2>1, <2>2 DEF ReadVolumes, InDays
  <2>3. CASE ~(price > 0 \/ Quoted(day) > 0)
    <3>1. day \in DayRange => quotes[day] = 0
      BY <2>3 DEF TypeOK, Quoted
    <3>2. CASE empty + 1 > EmptyLimit
      BY <1>4, <2>3, <3>2 DEF ReadVolumes, ToMonths, DaysDone, InDays
    <3>3. CASE ~(empty + 1 > EmptyLimit)
      <4>1. day' = day - 1 /\ empty' = empty + 1
        BY <1>4, <2>3, <3>3 DEF ReadVolumes, DayBefore
      <4>2. empty + 1 <= EmptyLimit  BY <3>3 DEF TypeOK
      <4> QED  BY <1>3, <2>1, <3>1, <4>1, <4>2
    <3> QED  BY <3>2, <3>3
  <2> QED  BY <2>2, <2>3
<1>5. CASE InsertDay
  <2>1. /\ pc = "insert" /\ InDays /\ day' = day - 1 /\ UNCHANGED <<quotes, monthly>>
    BY <1>5 DEF InsertDay, DayBefore, Same, InDays
  <2>2. /\ day \in DayRange /\ daily'[day] = Row
        /\ \A d \in DayRange : HasRow(d)' <=> HasRow(d) \/ d = day
        /\ \A m : m # MonthOf(day) => MonthSum(m)' = MonthSum(m)
    BY <1>5, DayInserted
  <2>3. EmptyLimit \in Nat  OBVIOUS
  <2>4. CASE daily[day] = Row
    <3>1. daily' = daily  BY <1>5, <2>4, SameRow
    <3>2. HasRow(day)  BY <2>2, <3>1 DEF HasRow
    <3>3. BehindCurrent(day)  BY <2>1, <2>2, <3>2 DEF RowsChained
    <3>4. Linked(day, day - 1)
      <4>1. \A e \in day..day : ~(e + EmptyLimit < day)  BY <2>3
      <4> QED  BY <4>1 DEF Linked
    <3>5. HasRow(day) /\ day > day - 1 /\ Linked(day, day - 1)
          /\ \A c \in DayRange : c <= day - 1 /\ Linked(day, c) => Current(c)
      BY <3>2, <3>3, <3>4 DEF BehindCurrent
    <3>6. \A d : d = day => CurrentFrom(d)'
      BY <2>1, <3>1, <3>5 DEF CurrentFrom, HasRow, Linked, Current
    <3> QED  BY <2>2, <3>6 DEF DaysDone
  <2>5. CASE daily[day] # Row
    <3>1. AllOutdated
      BY <2>1, <2>5, CurrentIsWritten DEF DaysDone
    <3>2. AllOutdated'
      <4> SUFFICES ASSUME NEW d \in DayRange, HasRow(d)', d > day - 1
                   PROVE ~MonthStored(MonthOf(d))'
        BY <2>1 DEF AllOutdated
      <4>1. CASE MonthOf(d) = MonthOf(day)
        BY <1>5, <2>5, <4>1, DayOutdates
      <4>2. CASE MonthOf(d) # MonthOf(day)
        <5>1. HasRow(d) /\ d > day  BY <2>2, <4>2
        <5>2. ~MonthStored(MonthOf(d))  BY <3>1, <5>1 DEF AllOutdated
        <5> QED  BY <2>1, <2>2, <4>2, <5>2 DEF MonthStored
      <4> QED  BY <4>1, <4>2
    <3> QED  BY <3>2 DEF DaysDone
  <2> QED  BY <2>4, <2>5
<1>6. CASE Quote \/ NextDay \/ UNCHANGED vars \/ ReadPrices(Quoted(day))
  <2>1. UNCHANGED <<daily, monthly, day>> /\ InDays' = InDays
    BY <1>6 DEF Quote, NextDay, vars, ReadPrices, tables, locals, InDays
  <2> QED  BY <1>1, <2>1 DEF DaysDone
<1>7. CASE EndDays \/ SameDay \/ EndMonths \/ PassMonth \/ InsertMonth \/ PassYear \/ InsertYear \/ EndRun
  <2>1. ~InDays'
    BY <1>7 DEF EndDays, SameDay, EndMonths, PassMonth, InsertMonth, PassYear, InsertYear, EndRun,
       ToMonths, ToYears, NextMonth, Idle, InMonths, InYears, InDays
  <2> QED  BY <2>1 DEF DaysDone
<1> QED  BY <1>2, <1>4, <1>5, <1>6, <1>7 DEF Next, Reads

LEMMA StepMonthsSoFar ==
  ASSUME Basics, Filled, Chain, Made, Sums, [Next]_vars, Undisturbed' PROVE MonthsSoFar'
<1> USE SumsNow
<1>1. ASSUME UNCHANGED <<tables, recent, unit>>, pc = "months" PROVE MonthsSoFar'
  <2>1. /\ \A m : MonthStored(m)' = MonthStored(m) /\ HasData(m)' = HasData(m)
        /\ \A y : YearStored(y)' = YearStored(y)
    BY <1>1, SameSums, SameHas DEF tables
  <2> QED  BY <1>1, <2>1 DEF MonthsSoFar, tables
<1>2. ASSUME UNCHANGED <<tables, recent>>, InDays, unit' = MonthOf(recent[1]) PROVE MonthsSoFar'
  <2>1. \A m \in MonthRange : monthly[m] # NoRow => m <= MonthOf(recent[1])
    BY <1>2, NotAfter DEF InDays
  <2> QED  BY <1>2, <2>1 DEF MonthsSoFar, tables
<1>3. CASE InsertMonth
  <2>1. pc = "months" /\ unit' = unit - 1 /\ recent' = recent
    BY <1>3 DEF InsertMonth, InMonths, NextMonth, Same
  <2>2. /\ unit \in MonthRange /\ YearOf(unit) \in Int /\ yearly' = yearly
        /\ ~NoData(MonthSum(unit))
        /\ \A m \in MonthRange : m # unit => monthly'[m] = monthly[m]
        /\ \A m : MonthSum(m)' = MonthSum(m)
        /\ \A m : m # unit => MonthStored(m)' = MonthStored(m)
        /\ \A m : m = unit => MonthStored(m)'
    BY <1>3, MonthInserted, YearOfMonths
  <2>3. \A m : HasData(m)' = HasData(m)  BY <2>2 DEF HasData, NoData
  <2>4. ASSUME NEW m \in Int, unit - 1 < m, m <= MonthOf(recent[1])
        PROVE HasData(m)' /\ MonthStored(m)'
    <3>1. CASE m = unit  BY <2>2, <2>3, <3>1 DEF HasData
    <3>2. CASE m # unit
      <4>1. unit < m  BY <2>4, <3>2
      <4> QED  BY <2>1, <2>2, <2>3, <2>4, <4>1, <3>2 DEF MonthsSoFar
    <3> QED  BY <3>1, <3>2
  <2>5. ASSUME NEW m \in MonthRange, m > unit - 1, monthly'[m] # NoRow PROVE ~YearStored(YearOf(m))'
    <3>1. CASE YearOf(m) = YearOf(unit)
      BY <1>3, <3>1, MonthOutdates
    <3>2. CASE YearOf(m) # YearOf(unit)
      <4>1. m # unit /\ m > unit  BY <2>5, <3>2
      <4>2. ~YearStored(YearOf(m))  BY <2>1, <2>2, <2>5, <4>1 DEF MonthsSoFar
      <4>3. \A k \in MonthRange : YearOf(k) = YearOf(m) => monthly'[k] = monthly[k]
        BY <2>2, <3>2
      <4>4. YearSum(YearOf(m))' = YearSum(YearOf(m))  BY <4>3 DEF YearSum
      <4> QED  BY <2>2, <4>2, <4>4 DEF YearStored
    <3> QED  BY <3>1, <3>2
  <2>6. unit - 1 <= MonthOf(recent[1])  BY <2>1 DEF MonthsSoFar
  <2> QED  BY <2>1, <2>4, <2>5, <2>6 DEF MonthsSoFar
<1>4. CASE Quote \/ NextDay \/ UNCHANGED vars
  BY <1>1, <1>4 DEF Quote, NextDay, vars, MonthsSoFar
<1>5. CASE ReadVolumes(Quoted(day)) \/ EndDays \/ SameDay
  <2>1. UNCHANGED <<tables, recent>> /\ InDays /\ (pc' = "months" => unit' = MonthOf(recent[1]))
    BY <1>5 DEF ReadVolumes, EndDays, SameDay, ToMonths, DayBefore, Same, InDays
  <2> QED  BY <1>2, <2>1 DEF MonthsSoFar
<1>6. CASE Begin \/ ReadPrices(Quoted(day)) \/ InsertDay \/ EndMonths \/ PassMonth \/ PassYear
           \/ InsertYear \/ EndRun
  <2>1. pc' # "months"
    BY <1>6 DEF Begin, ReadPrices, InsertDay, EndMonths, PassMonth, PassYear, InsertYear, EndRun,
       DayBefore, ToYears, NextMonth, Idle, InYears
  <2> QED  BY <2>1 DEF MonthsSoFar
<1> QED  BY <1>3, <1>4, <1>5, <1>6 DEF Next, Reads

LEMMA StepYearsSoFar ==
  ASSUME Basics, Filled, Chain, Made, Sums, [Next]_vars, Undisturbed' PROVE YearsSoFar'
<1> USE SumsNow
<1>1. ASSUME UNCHANGED <<tables, recent, unit>>, pc = "years" PROVE YearsSoFar'
  <2>1. /\ \A m : MonthStored(m)' = MonthStored(m) /\ HasData(m)' = HasData(m)
        /\ \A y : YearStored(y)' = YearStored(y) /\ HasMonths(y)' = HasMonths(y)
    BY <1>1, SameSums, SameHas DEF tables
  <2> QED  BY <1>1, <2>1 DEF YearsSoFar, LastMonth
<1>2. CASE EndMonths
  <2>1. /\ UNCHANGED <<tables, recent>> /\ pc = "months" /\ MonthsEnd
        /\ pc' = "years" /\ unit' = YearOf(MonthOf(recent[1]))
    BY <1>2 DEF EndMonths, InMonths, Ahead, ToYears, Same
  <2>2. LastMonth(recent[1])
    <3>1. unit <= MonthOf(recent[1])  BY <2>1 DEF MonthsSoFar
    <3>2. CASE unit < MonthOf(recent[1])  BY <2>1, <3>2 DEF MonthsSoFar, LastMonth
    <3>3. CASE unit = MonthOf(recent[1])  BY <2>1, <3>3 DEF MonthsEnd, LastMonth, HasData
    <3> QED  BY <3>1, <3>2, <3>3
  <2>3. LastMonth(recent[1])'
    BY <2>1, <2>2, SameSums, SameHas DEF LastMonth, tables
  <2> QED  BY <2>1, <2>3 DEF YearsSoFar
<1>3. CASE InsertYear
  <2>1. pc = "years" /\ unit' = unit - 1 /\ recent' = recent
    BY <1>3 DEF InsertYear, InYears, NextMonth, Same
  <2>2. /\ unit \in YearRange /\ daily' = daily /\ monthly' = monthly
        /\ ~NoData(YearSum(unit))
        /\ \A y : YearSum(y)' = YearSum(y)
        /\ \A y : y # unit => YearStored(y)' = YearStored(y)
        /\ \A y : y = unit => YearStored(y)'
    BY <1>3, YearInserted
  <2>3. \A y : HasMonths(y)' = HasMonths(y)  BY <2>2 DEF HasMonths, NoData
  <2>4. ASSUME NEW y \in Int, unit - 1 < y, y <= YearOf(MonthOf(recent[1]))
        PROVE HasMonths(y)' /\ YearStored(y)'
    <3>1. CASE y = unit  BY <2>2, <2>3, <3>1 DEF HasMonths
    <3>2. CASE y # unit
      <4>1. unit < y  BY <2>4, <3>2
      <4> QED  BY <2>1, <2>2, <2>3, <2>4, <4>1, <3>2 DEF YearsSoFar
    <3> QED  BY <3>1, <3>2
  <2>5. LastMonth(recent[1])'
    BY <2>1, <2>2, SameSums, SameHas DEF LastMonth, YearsSoFar
  <2>6. unit - 1 <= YearOf(MonthOf(recent[1]))  BY <2>1 DEF YearsSoFar
  <2> QED  BY <2>1, <2>4, <2>5, <2>6 DEF YearsSoFar
<1>4. CASE Quote \/ NextDay \/ UNCHANGED vars
  BY <1>1, <1>4 DEF Quote, NextDay, vars, YearsSoFar
<1>5. CASE Begin \/ Reads \/ EndDays \/ SameDay \/ InsertDay \/ PassMonth \/ InsertMonth
           \/ PassYear \/ EndRun
  <2>1. pc' # "years"
    BY <1>5 DEF Begin, Reads, ReadPrices, ReadVolumes, EndDays, SameDay, InsertDay, PassMonth,
       InsertMonth, PassYear, EndRun, DayBefore, ToMonths, NextMonth, Idle, InMonths
  <2> QED  BY <2>1 DEF YearsSoFar
<1> QED  BY <1>2, <1>3, <1>4, <1>5 DEF Next

LEMMA StepLastsStored ==
  ASSUME Basics, Filled, Chain, Made, Sums, [Next]_vars, Undisturbed' PROVE LastsStored'
<1> USE SumsNow
<1>1. CASE EndRun
  <2>1. /\ UNCHANGED tables /\ pc = "years" /\ YearsEnd /\ last' = recent
    BY <1>1 DEF EndRun, InYears, Ahead
  <2>2. LastYear(recent[1])
    <3>1. unit <= YearOf(MonthOf(recent[1]))  BY <2>1 DEF YearsSoFar
    <3>2. CASE unit < YearOf(MonthOf(recent[1]))  BY <2>1, <3>2 DEF YearsSoFar, LastYear
    <3>3. CASE unit = YearOf(MonthOf(recent[1]))  BY <2>1, <3>3 DEF YearsEnd, LastYear, HasMonths
    <3> QED  BY <3>1, <3>2, <3>3
  <2>3. LastMonth(last[1])' /\ LastYear(last[1])'
    BY <2>1, <2>2, SameSums, SameHas DEF LastMonth, LastYear, YearsSoFar, tables
  <2> QED  BY <2>3 DEF LastsStored
<1>2. CASE Quote \/ NextDay \/ UNCHANGED vars
  <2>1. UNCHANGED <<tables, last, pc>>  BY <1>2 DEF Quote, NextDay, vars
  <2> QED  BY <2>1, SameSums, SameHas DEF LastsStored, LastMonth, LastYear, tables
<1>3. CASE Begin \/ Reads \/ EndDays \/ SameDay \/ InsertDay \/ EndMonths \/ PassMonth
           \/ InsertMonth \/ PassYear \/ InsertYear
  <2>1. pc' # "idle"
    BY <1>3 DEF Begin, Reads, ReadPrices, ReadVolumes, EndDays, SameDay, InsertDay, EndMonths,
       PassMonth, InsertMonth, PassYear, InsertYear, DayBefore, ToMonths, ToYears, NextMonth,
       InMonths, InYears
  <2> QED  BY <2>1 DEF LastsStored
<1> QED  BY <1>1, <1>2, <1>3 DEF Next

-----------------------------------------------------------------------------
(* The theorems.                                                            *)

IInv == Basics /\ Filled /\ ForcedSums /\ Chain /\ Made /\ Sums

LEMMA InitHolds == Init => IInv
<1> SUFFICES ASSUME Init PROVE IInv  OBVIOUS
<1>1. Types
  BY DEF Init, Types, TypeOK, DayRange, Unstamped
<1>2. \A d \in DayRange : quotes[d] = 0 /\ ~HasRow(d)  BY DEF Init, HasRow
<1>3. Basics /\ Filled
  BY <1>1, <1>2 DEF Init, Basics, RowsOfQuotes, RunOK, Filled, InDays, InSums, Holds, Unstamped
<1>4. ForcedSums /\ Chain
  BY <1>2 DEF Init, ForcedSums, Chain, RowsChained, EmptyDays, Unstamped
<1>5. Made  BY DEF Init, Made, MonthsMade, YearsMade
<1>6. \A m : ~HasData(m)
  BY <1>2 DEF HasData, NoData, MonthSum, HasRow
<1>7. \A y : ~HasMonths(y)
  BY DEF Init, HasMonths, NoData, YearSum
<1>8. Sums
  BY <1>6, <1>7 DEF Init, Sums, MonthsBehind, YearsBehind, MonthBehind, YearBehind, DaysDone,
     MonthsSoFar, YearsSoFar, LastsStored, InDays, Unstamped
<1> QED  BY <1>3, <1>4, <1>5, <1>8 DEF IInv

LEMMA StepHolds == IInv /\ [Next]_vars => IInv'
<1> SUFFICES ASSUME IInv, [Next]_vars PROVE IInv'  OBVIOUS
<1>1. Basics /\ Filled /\ ForcedSums /\ Chain /\ Made /\ Sums  BY DEF IInv
<1>2. Basics'  BY <1>1, StepTypes, StepRows, StepRun DEF Basics
<1>3. Filled' /\ ForcedSums' /\ Chain' /\ Made'
  BY <1>1, StepFilled, StepForcedSums, StepChain, StepMade
<1>4. Sums'
  <2>1. ASSUME Undisturbed'
        PROVE (MonthsBehind /\ YearsBehind /\ DaysDone /\ MonthsSoFar /\ YearsSoFar /\ LastsStored)'
    BY <1>1, <2>1, StepMonthsBehind, StepYearsBehind, StepDaysDone, StepMonthsSoFar,
       StepYearsSoFar, StepLastsStored
  <2> QED  BY <2>1 DEF Sums
<1> QED  BY <1>2, <1>3, <1>4 DEF IInv

LEMMA Invariant == Spec => []IInv
<1> QED  BY InitHolds, StepHolds, PTL DEF Spec

(* The variables keep their types, and no more empty days are passed over   *)
(* than the limit (calculate_days), whatever fails.                         *)
THEOREM TypeCorrect == Spec => []TypeOK
<1>1. IInv => TypeOK  BY DEF IInv, Basics, Types
<1> QED  BY <1>1, Invariant, PTL

(* When the run has ended, the row of the recent day is of its quotes.      *)
LEMMA RecentCurrent ==
  ASSUME IInv, UpToDate, clean
  PROVE /\ last[1] \in DayRange /\ HasRow(last[1]) /\ Current(last[1])
<1>1. /\ Basics /\ Filled /\ TypeOK /\ pc = "idle" /\ last = Recent /\ last[2] > 0
      /\ last[2] \in Nat
  BY DEF IInv, Basics, Types, UpToDate
<1>2. last[1] \in DayRange /\ last[2] = quotes[last[1]]  BY <1>1, RecentIs
<1>3. HasRow(last[1]) /\ last[2] <= daily[last[1]][1] /\ last[2] <= daily[last[1]][2]
  BY <1>1 DEF Filled, Holds
<1>4. /\ daily[last[1]] = <<daily[last[1]][1], daily[last[1]][2]>>
      /\ daily[last[1]][1] \in Nat /\ daily[last[1]][2] \in Nat
  BY <1>1, <1>2, <1>3, RowIs
<1>5. daily[last[1]][1] <= quotes[last[1]] /\ daily[last[1]][2] <= quotes[last[1]]
  BY <1>1, <1>2, <1>3 DEF Basics, RowsOfQuotes
<1>6. daily[last[1]][1] = quotes[last[1]] /\ daily[last[1]][2] = quotes[last[1]]
  BY <1>1, <1>2, <1>3, <1>4, <1>5
<1> QED  BY <1>2, <1>3, <1>4, <1>6 DEF Current

(* Though calculate_days stops at the first row that is as it would write   *)
(* it, no day is left out that quotes of days in between lead to.           *)
THEOREM NoDayLeftOut == Spec => []NoGaps
<1>1. ASSUME IInv PROVE NoGaps
  <2> SUFFICES ASSUME UpToDate, force = 0, crashes = 0, failures = 0,
                      NEW d \in 1..last[1], Reached(d)
               PROVE Current(d)
    BY DEF NoGaps
  <2>1. Undisturbed /\ clean /\ pc = "idle"
    BY <1>1 DEF IInv, Basics, Types, TypeOK, Undisturbed, UpToDate
  <2>2. last[1] \in DayRange /\ HasRow(last[1]) /\ Current(last[1])
    BY <1>1, <2>1, RecentCurrent
  <2>3. BehindCurrent(last[1])
    BY <1>1, <2>1, <2>2 DEF IInv, Chain, RowsChained, InDays
  <2>4. Linked(last[1], d)  BY DEF Reached, Linked
  <2>5. d \in DayRange /\ (d < last[1] \/ d = last[1])  BY <2>2 DEF DayRange
  <2> QED  BY <2>2, <2>3, <2>4, <2>5 DEF BehindCurrent
<1> QED  BY <1>1, Invariant, PTL

(* A process started with force_until puts every day, month and year after  *)
(* it in order, whatever processes before it left there.                    *)
THEOREM ForcedInOrder == Spec => []ForcedRepairs
<1>1. ASSUME IInv PROVE ForcedRepairs
  <2> SUFFICES ASSUME UpToDate, force # 0, clean
               PROVE /\ \A d \in (force + 1)..last[1] : Current(d)
                     /\ \A m \in MonthOf(force + 1)..MonthOf(last[1]) :
                          /\ NoData(MonthSum(m)) \/ MonthStored(m)
                          /\ NoData(YearSum(YearOf(m))) \/ YearStored(YearOf(m))
    BY DEF ForcedRepairs
  <2>1. /\ pc = "idle" /\ last[2] > 0 /\ force \in Nat /\ last[1] \in Int /\ last[1] <= Days
        /\ Current(last[1])
    <3>1. last[1] \in DayRange /\ Current(last[1])  BY <1>1, RecentCurrent
    <3>2. force \in Nat  BY <1>1 DEF IInv, Basics, Types, TypeOK
    <3> QED  BY <3>1, <3>2 DEF UpToDate, DayRange
  <2>2. AllCurrent(force, last[1]) /\ MonthsDone(last) /\ YearsDone(last)
    BY <1>1, <2>1 DEF IInv, Filled, ForcedSums
  <2>3. ASSUME NEW d \in (force + 1)..last[1] PROVE Current(d)
    <3>1. d \in DayRange /\ force < d  BY <2>1 DEF DayRange
    <3>2. CASE d = last[1]  BY <2>1, <3>2
    <3>3. CASE d # last[1]
      <4>1. d < last[1]  BY <2>1, <3>3
      <4> QED  BY <2>2, <3>1, <4>1 DEF AllCurrent
    <3> QED  BY <3>2, <3>3
  <2>4. ASSUME NEW m \in MonthOf(force + 1)..MonthOf(last[1])
        PROVE MonthDone(m) /\ YearDone(YearOf(m))
    <3>1. m \in Int /\ MonthOf(force + 1) \in Int /\ MonthOf(last[1]) \in Int
      BY <2>1, MonthOfDays
    <3>2. YearOf(m) \in YearOf(MonthOf(force + 1))..YearOf(MonthOf(last[1]))
      BY <3>1, YearOfMonths
    <3> QED  BY <2>2, <3>2 DEF MonthsDone, YearsDone
  <2> QED  BY <2>3, <2>4 DEF MonthDone, YearDone
<1> QED  BY <1>1, Invariant, PTL

(* Though calculate_months and calculate_years stop at the first row that   *)
(* is as they would write it, no month or year is left out that months with *)
(* data lead to.                                                            *)
THEOREM SummariesInOrder == Spec => []SummariesAgree
<1>1. ASSUME IInv PROVE SummariesAgree
  <2> DEFINE now == MonthOf(last[1])
  <2> SUFFICES ASSUME UpToDate, force = 0, crashes = 0, failures = 0,
                      NEW m \in 0..now, \A k \in m..now : HasData(k)
               PROVE MonthStored(m) /\ YearStored(YearOf(m))
    BY DEF SummariesAgree, HasData
  <2>1. Undisturbed /\ clean /\ pc = "idle" /\ last[2] > 0
    BY <1>1 DEF IInv, Basics, Types, TypeOK, Undisturbed, UpToDate
  <2>2. /\ MonthsMade /\ MonthsBehind /\ YearsBehind /\ LastMonth(last[1]) /\ LastYear(last[1])
        /\ Basics /\ TypeOK
    BY <1>1, <2>1 DEF IInv, Made, Sums, LastsStored, Basics, Types
  <2>3. last[1] \in DayRange  BY <1>1, <2>1, RecentCurrent
  <2>4. now \in MonthRange /\ now \in Int /\ MonthOf(Days) \in Int
    BY <2>3, MonthOfDays DEF DayRange
  <2>5. ASSUME NEW k \in m..now PROVE MonthStored(k)
    <3>1. HasData(now) /\ MonthStored(now)  BY <2>2, <2>4 DEF LastMonth
    <3>2. k \in MonthRange  BY <2>4 DEF MonthRange
    <3>3. CASE k = now  BY <3>1, <3>3
    <3>4. CASE k < now
      <4>1. MonthBehind(now)  BY <2>1, <2>2, <2>4 DEF MonthsBehind
      <4>2. \A j \in k..now : HasData(j)  BY <2>4
      <4> QED  BY <3>1, <3>2, <3>4, <4>1, <4>2 DEF MonthBehind
    <3> QED  BY <2>4, <3>3, <3>4
  <2>6. ASSUME NEW k \in m..now PROVE monthly[k] # NoRow /\ HasMonths(YearOf(k))
    <3>1. MonthStored(k) /\ HasData(k)  BY <2>5
    <3>2. monthly[k] # NoRow  BY <2>2, <3>1, SumIs DEF MonthStored, HasData
    <3> QED  BY <3>1, <3>2 DEF HasMonths, NoData, YearSum, MonthStored
  <2> HIDE DEF now
  <2>7. /\ YearOf(now) \in YearRange /\ YearOf(m) \in YearRange /\ m \in Int
        /\ YearOf(now) \in Int /\ YearOf(m) \in Int /\ YearOf(m) <= YearOf(now) /\ m <= now
    <3>1. m \in MonthRange /\ m \in Int /\ m <= now  BY <2>4 DEF MonthRange
    <3> QED  BY <2>4, <3>1, YearOfMonths
  <2>8. HasMonths(YearOf(now)) /\ YearStored(YearOf(now))
    BY <2>2, <2>4, <2>6, <2>7 DEF LastYear, now
  <2>9. CASE YearOf(m) = YearOf(now)  BY <2>5, <2>7, <2>8, <2>9
  <2>10. CASE YearOf(m) < YearOf(now)
    <3>1. YearBehind(YearOf(now))  BY <2>1, <2>2, <2>7 DEF YearsBehind
    <3>2. ASSUME NEW y \in YearOf(m)..YearOf(now) PROVE HasMonths(y)
      <4>1. PICK k \in m..now : YearOf(k) = y  BY <2>4, <2>7, YearsBetween
      <4> QED  BY <2>6, <4>1
    <3>3. YearStored(YearOf(m))  BY <2>7, <2>8, <2>10, <3>1, <3>2 DEF YearBehind
    <3> QED  BY <2>4, <2>5, <2>7, <3>3
  <2> QED  BY <2>7, <2>9, <2>10
<1> QED  BY <1>1, Invariant, PTL
===============================================================================
