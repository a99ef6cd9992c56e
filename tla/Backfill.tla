------------------------------- MODULE Backfill -------------------------------
(***************************************************************************)
(* The statistics plugin's run: it works back from the last day that has   *)
(* quotes and fills the tables of days, months and years until it meets a  *)
(* row that already holds what it would write.                             *)
(* Source: src/cruncher/plugins/statistics/Statistics.cc, with what it     *)
(* calls of src/ccltor/db and src/ccltor/utils.                            *)
(*                                                                         *)
(* One code is modelled; run() works through them one after the other.     *)
(* A value is known by the number of the day's quotes it was made from.    *)
(* Of the three items the price and the volume are read, one after the     *)
(* other; the capital is read like the volume.                             *)
(***************************************************************************)
EXTENDS Integers, FiniteSetsExt, Functions

CONSTANTS
  Days,         \* bound: the last day
  MonthLen,     \* days of a month
  YearLen,      \* months of a year
  EmptyLimit,   \* days without quotes that are passed over (15)
  SearchLimit,  \* days searched for the last quotes (5)
  Forced,       \* the values of force_until, besides 0: not forced
  MaxQuotes,    \* bound: quotes of all days
  MaxCrashes, MaxFailures,   \* bounds
  Bad           \* the row of a month or a year computed from failed reads

ASSUME BackfillAssumption ==
  /\ {EmptyLimit, SearchLimit, MaxQuotes, MaxCrashes, MaxFailures} \subseteq Nat
  /\ {Days, MonthLen, YearLen} \subseteq Nat \ {0}
  /\ Forced \subseteq Nat \ {0}

VARIABLES
  today,
  quotes,     \* the feeder's table: quotes of each day
  daily, monthly, yearly,   \* the tables of the statistics
  force,      \* force_until of the process
  last,       \* last_stamps
  recent,     \* recentst_day and recentst_time of this run
  pc,
  day,        \* calculate_days: the day,
  empty,      \*   empty_days,
  price,      \*   and what the read of the prices found
  volume,
  unit,       \* calculate_months, calculate_years: the month or year
  crashes, failures,
  clean       \* no statement failed since the process started

tables == <<daily, monthly, yearly>>
locals == <<day, empty, price, volume>>
vars == <<today, quotes, tables, force, last, recent, pc, locals, unit,
          crashes, failures, clean>>

Absent == <<-1, -1>>       \* no row of a day
Nulls == <<0, 0>>          \* a row whose columns were not set reads as zeros
NoRow == [d \in {} |-> Nulls]   \* no row of a month or a year
Unstamped == <<0, 0>>

DayRange == 1..Days
MonthOf(d) == (d - 1) \div MonthLen
YearOf(m) == m \div YearLen
MonthEnd(m) == (m + 1) * MonthLen
YearEnd(y) == MonthEnd((y + 1) * YearLen - 1)
MonthRange == 0..MonthOf(Days)
YearRange == 0..YearOf(MonthOf(Days))

(* The loops' condition, force_until < day: any date is after 0.            *)
Ahead(d) == force = 0 \/ force < d

(* get_value_data of a day.                                                 *)
Quoted(d) == IF d \in DayRange THEN quotes[d] ELSE 0

-----------------------------------------------------------------------------
Init ==
  /\ today = 1 /\ quotes = [d \in DayRange |-> 0]
  /\ daily = [d \in DayRange |-> Absent]
  /\ monthly = [m \in MonthRange |-> NoRow]
  /\ yearly = [y \in YearRange |-> NoRow]
  /\ force \in {0} \cup Forced
  /\ last = Unstamped /\ recent = Unstamped /\ pc = "idle"
  /\ day = 0 /\ empty = 0 /\ price = 0 /\ volume = 0 /\ unit = 0
  /\ crashes = 0 /\ failures = 0 /\ clean = TRUE

(* The feeder stores another quote; its day is the database's.              *)
Quote ==
  /\ SumFunction(quotes) < MaxQuotes
  /\ quotes' = [quotes EXCEPT ![today] = @ + 1]
  /\ UNCHANGED <<today, tables, force, last, recent, pc, locals, unit, crashes,
                 failures, clean>>

NextDay ==
  /\ today < Days /\ today' = today + 1
  /\ UNCHANGED <<quotes, tables, force, last, recent, pc, locals, unit, crashes,
                 failures, clean>>

(* Where the search for the last quotes ends when it finds none.            *)
SearchEnd == IF force = 0 THEN today - SearchLimit - 1 ELSE force

(* The day and the time of the last quote.  Each query takes all days from  *)
(* one on, the last one decides, so an earlier one that fails changes       *)
(* nothing.                                                                 *)
Recent ==
  LET found == {d \in DayRange : quotes[d] > 0 /\ d >= SearchEnd /\ Ahead(d)}
  IN  IF found = {} THEN <<SearchEnd, 0>> ELSE <<Max(found), quotes[Max(found)]>>

(* run() after a feed: nothing is calculated when there are no new quotes.  *)
Begin ==
  /\ pc = "idle" /\ Recent # last
  /\ recent' = Recent
  /\ day' = Recent[1] /\ empty' = 0 /\ pc' = "price"
  /\ UNCHANGED <<today, quotes, tables, force, last, price, volume, unit, crashes,
                 failures, clean>>

Same == UNCHANGED <<today, quotes, force, last, recent, crashes, failures, clean>>

-----------------------------------------------------------------------------
(* calculate_days.                                                          *)

(* The locals of calculate_days are gone, those of a day are anew.          *)
ToMonths ==
  /\ pc' = "months" /\ unit' = MonthOf(recent[1])
  /\ day' = 0 /\ empty' = 0 /\ price' = 0 /\ volume' = 0

DayBefore(n) ==
  /\ pc' = "price" /\ day' = day - 1
  /\ empty' = n /\ price' = 0 /\ volume' = 0
  /\ UNCHANGED unit

EndDays ==
  /\ pc = "price" /\ ~Ahead(day) /\ ToMonths
  /\ Same /\ UNCHANGED tables

ReadPrices(n) ==
  /\ pc = "price" /\ Ahead(day)
  /\ price' = n /\ pc' = "volume"
  /\ UNCHANGED <<today, quotes, tables, force, last, recent, day, empty, volume, unit>>

(* Faulty variant: one empty day more is passed over.                       *)
ReadVolumesBeyond(n) ==
  /\ pc = "volume"
  /\ IF price > 0 \/ n > 0
       THEN pc' = "insert" /\ volume' = n /\ empty' = 0 /\ UNCHANGED <<day, price, unit>>
       ELSE IF force # 0 THEN DayBefore(empty)
       ELSE IF empty > EmptyLimit THEN ToMonths
       ELSE DayBefore(empty + 1)
  /\ UNCHANGED <<today, quotes, tables, force, last, recent>>

ReadVolumes(n) ==
  /\ pc = "volume"
  /\ IF price > 0 \/ n > 0
       THEN pc' = "insert" /\ volume' = n /\ empty' = 0 /\ UNCHANGED <<day, price, unit>>
       ELSE IF force # 0 THEN DayBefore(empty)
       ELSE IF empty + 1 > EmptyLimit THEN ToMonths
       ELSE DayBefore(empty + 1)
  /\ UNCHANGED <<today, quotes, tables, force, last, recent>>

Row == <<price, volume>>

(* Faulty variant: a forced run ends at the first row that is the same.     *)
SameDayEnds ==
  /\ pc = "insert" /\ (daily[day] = Row \/ ~clean)
  /\ ToMonths
  /\ Same /\ UNCHANGED tables

(* statistics__insert_day finds the data in the row, or, when an earlier    *)
(* read of this process failed, in an entry the cache kept of the row.      *)
SameDay ==
  /\ pc = "insert" /\ (daily[day] = Row \/ ~clean)
  /\ IF force # 0 THEN DayBefore(0) ELSE ToMonths
  /\ Same /\ UNCHANGED tables

(* The row differs, or the cache remembers an older one: the same is        *)
(* written again.                                                           *)
InsertDay ==
  /\ pc = "insert"
  /\ daily' = [daily EXCEPT ![day] = Row]
  /\ DayBefore(0)
  /\ Same /\ UNCHANGED <<monthly, yearly>>

(* The INSERT or the UPDATE fails, and the run goes on as if they had not.  *)
InsertDayFails ==
  /\ pc = "insert"
  /\ \/ UNCHANGED daily
     \/ daily[day] = Absent /\ daily' = [daily EXCEPT ![day] = Nulls]
  /\ DayBefore(0)
  /\ UNCHANGED <<today, quotes, monthly, yearly, force, last, recent>>

-----------------------------------------------------------------------------
(* calculate_months and calculate_years.                                    *)

(* The rows of the days of a month, which meta_calculate sums up; none is of *)
(* a day after the recent one.                                              *)
MonthSum(m) ==
  LET rows == {d \in DayRange : MonthOf(d) = m /\ daily[d] # Absent}
  IN  [d \in rows |-> daily[d]]

(* The rows of the months of a year.                                        *)
YearSum(y) ==
  LET rows == {m \in MonthRange : YearOf(m) = y /\ monthly[m] # NoRow}
  IN  [m \in rows |-> monthly[m]]

NoData(sum) == DOMAIN sum = {}

MonthStored(m) == m \in MonthRange /\ monthly[m] = MonthSum(m)
YearStored(y) == y \in YearRange /\ yearly[y] = YearSum(y)

PutMonth(m, row) == monthly' = [monthly EXCEPT ![m] = row]
PutYear(y, row) == yearly' = [yearly EXCEPT ![y] = row]

(* The last day of the loops' turn: the first starts from the recent day.   *)
InMonths ==
  pc = "months" /\ Ahead(IF unit = MonthOf(recent[1]) THEN recent[1] ELSE MonthEnd(unit))
InYears ==
  pc = "years" /\ Ahead(IF unit = YearOf(MonthOf(recent[1])) THEN recent[1] ELSE YearEnd(unit))

(* Both loops end at a month (year) that has no data or is stored already;  *)
(* when forced they pass it over.                                           *)
MonthsEnd == NoData(MonthSum(unit)) \/ MonthStored(unit)
YearsEnd == NoData(YearSum(unit)) \/ YearStored(unit)

NextMonth == unit' = unit - 1 /\ UNCHANGED pc
ToYears == pc' = "years" /\ unit' = YearOf(MonthOf(recent[1]))

EndMonths ==
  /\ pc = "months" /\ (~InMonths \/ (force = 0 /\ MonthsEnd))
  /\ ToYears
  /\ Same /\ UNCHANGED <<tables, locals>>

PassMonth ==
  /\ InMonths /\ force # 0 /\ MonthsEnd
  /\ NextMonth
  /\ Same /\ UNCHANGED <<tables, locals>>

(* Faulty variant: only the month of the recent day is calculated.          *)
InsertMonthOnce ==
  /\ InMonths /\ ~MonthsEnd
  /\ PutMonth(unit, MonthSum(unit))
  /\ IF force # 0 THEN NextMonth ELSE ToYears
  /\ Same /\ UNCHANGED <<daily, yearly, locals>>

InsertMonth ==
  /\ InMonths /\ ~MonthsEnd
  /\ PutMonth(unit, MonthSum(unit))
  /\ NextMonth
  /\ Same /\ UNCHANGED <<daily, yearly, locals>>

(* A read fails, all do, or the INSERT or the UPDATE does.                  *)
MonthFails ==
  /\ InMonths
  /\ \/ unit \in MonthRange /\ PutMonth(unit, Bad) /\ NextMonth
     \/ UNCHANGED monthly /\ NextMonth
     \/ force = 0 /\ UNCHANGED monthly /\ ToYears
  /\ UNCHANGED <<today, quotes, daily, yearly, force, last, recent, locals>>

PassYear ==
  /\ InYears /\ force # 0 /\ YearsEnd
  /\ NextMonth
  /\ Same /\ UNCHANGED <<tables, locals>>

InsertYear ==
  /\ InYears /\ ~YearsEnd
  /\ PutYear(unit, YearSum(unit))
  /\ NextMonth
  /\ Same /\ UNCHANGED <<daily, monthly, locals>>

(* Between runs.                                                            *)
Idle ==
  /\ pc' = "idle" /\ recent' = Unstamped /\ unit' = 0
  /\ day' = 0 /\ empty' = 0 /\ price' = 0 /\ volume' = 0

(* As of a month, but for the end of the run.                               *)
YearFails ==
  /\ InYears
  /\ \/ /\ UNCHANGED yearly \/ (unit \in YearRange /\ PutYear(unit, Bad))
        /\ NextMonth /\ UNCHANGED <<last, recent, locals>>
     \/ force = 0 /\ UNCHANGED yearly /\ last' = recent /\ Idle
  /\ UNCHANGED <<today, quotes, daily, monthly, force>>

(* Faulty variant: the stamp is that of the quotes when the run ends.       *)
EndRunStampsNow ==
  /\ pc = "years" /\ (~InYears \/ (force = 0 /\ YearsEnd))
  /\ last' = Recent /\ Idle
  /\ UNCHANGED <<today, quotes, tables, force, crashes, failures, clean>>

EndRun ==
  /\ pc = "years" /\ (~InYears \/ (force = 0 /\ YearsEnd))
  /\ last' = recent /\ Idle
  /\ UNCHANGED <<today, quotes, tables, force, crashes, failures, clean>>

-----------------------------------------------------------------------------
(* The process ends and is started again, forced or not.                    *)
Crash ==
  /\ crashes < MaxCrashes /\ crashes' = crashes + 1
  /\ Idle /\ last' = Unstamped /\ clean' = TRUE
  /\ force' \in {0} \cup Forced
  /\ UNCHANGED <<today, quotes, tables, failures>>

Reads ==
  /\ ReadPrices(Quoted(day)) \/ ReadVolumes(Quoted(day))
  /\ UNCHANGED <<crashes, failures, clean>>

(* A read that fails finds nothing.                                         *)
Fails ==
  /\ failures < MaxFailures /\ failures' = failures + 1 /\ clean' = FALSE
  /\ ReadPrices(0) \/ ReadVolumes(0) \/ InsertDayFails \/ MonthFails \/ YearFails
  /\ UNCHANGED crashes

Next ==
  \/ Quote \/ NextDay
  \/ Begin \/ Reads \/ EndDays \/ SameDay \/ InsertDay
  \/ EndMonths \/ PassMonth \/ InsertMonth
  \/ PassYear \/ InsertYear \/ EndRun
  \/ Fails \/ Crash

Spec == Init /\ [][Next]_vars

-----------------------------------------------------------------------------
(* Properties.                                                              *)

TypeOK ==
  /\ today \in DayRange /\ quotes \in [DayRange -> Nat]
  /\ daily \in [DayRange -> {Absent} \cup (Nat \X Nat)]
  /\ DOMAIN monthly = MonthRange /\ DOMAIN yearly = YearRange
  /\ pc \in {"idle", "price", "volume", "insert", "months", "years"}
  /\ pc = "insert" => day \in DayRange
  /\ empty \in 0..EmptyLimit /\ force \in {0} \cup Forced
  /\ crashes \in 0..MaxCrashes /\ failures \in 0..MaxFailures /\ clean \in BOOLEAN

(* A run has ended and the feeder has stored nothing since it began.        *)
UpToDate == pc = "idle" /\ last = Recent /\ last[2] > 0

Current(d) == quotes[d] > 0 => daily[d] = <<quotes[d], quotes[d]>>

(* From the recent day back to d there are not too many empty days.         *)
Reached(d) ==
  \A e \in (d + 1)..last[1] : e + EmptyLimit < last[1] =>
    \E q \in e..(e + EmptyLimit) : quotes[q] > 0

(* Though it stops at the first row it finds right, and though quotes come  *)
(* while it reads, the work from the recent day back leaves no day behind   *)
(* ("going from today back calculating and filling the table",              *)
(* doc/DevelopmentTrack.txt:178), while nothing fails or crashes.           *)
NoGaps ==
  UpToDate /\ force = 0 /\ crashes = 0 /\ failures = 0 =>
    \A d \in 1..last[1] : Reached(d) => Current(d)

(* The months and the years agree with the days, back to the first month    *)
(* without data, though both loops end at the first that is stored already. *)
SummariesAgree ==
  UpToDate /\ force = 0 /\ crashes = 0 /\ failures = 0 =>
    LET now == MonthOf(last[1])
        linked == {m \in 0..now : \A k \in m..now : ~NoData(MonthSum(k))}
    IN  /\ \A m \in linked : MonthStored(m)
        /\ \A m \in linked : YearStored(YearOf(m))

(* A process started with force_until, of which no statement fails, repairs *)
(* what earlier ones left wrong from that day on, whatever they did.        *)
ForcedRepairs ==
  UpToDate /\ force # 0 /\ clean =>
    /\ \A d \in (force + 1)..last[1] : Current(d)
    /\ \A m \in MonthOf(force + 1)..MonthOf(last[1]) :
         /\ NoData(MonthSum(m)) \/ MonthStored(m)
         /\ NoData(YearSum(YearOf(m))) \/ YearStored(YearOf(m))
=============================================================================
