-------------------------------- MODULE Trends --------------------------------
(***************************************************************************)
(* The trends plugin's run beside the statistics plugin's: both work back  *)
(* from today, one fills the table of days that the other reads, and the   *)
(* trends calculate again when the statistics announce that they are done. *)
(* Then a window of the next days that have data moves back from today for *)
(* the accumulated trends.                                                 *)
(* Source: src/cruncher/plugins/trends/Trends.cc, with the queries of      *)
(* src/ccltor/db/DBtrends.cc.                                              *)
(*                                                                         *)
(* Only today's data changes; its values are left out (DBCache tells how   *)
(* old they may be): when they are compared they may be the same or not.   *)
(* A row of the accumulated trends is known by the days of its window.     *)
(*                                                                         *)
(* Any statement may fail: nothing looks at it, a query that fails reads   *)
(* as a day without data and a row that is not written is left out.  The   *)
(* process may end anywhere and start again, forced or not, on the tables  *)
(* it finds.  Backfill is the detail of the statistics' run.  One code is  *)
(* modelled.                                                               *)
(***************************************************************************)
EXTENDS Integers, Sequences, FiniteSets, SequencesExt

CONSTANTS
  Days,         \* bound: the last day
  Window,       \* TRENDACUM_N
  EmptyLimit,   \* empty days in a row that are passed over (15)
  Forced,       \* values of force_until besides 0: not forced
  MaxMishaps    \* bound: statements that fail, and times the process starts again

ASSUME TrendsAssumption ==
  /\ Days \in Nat \ {0} /\ {EmptyLimit, MaxMishaps} \subseteq Nat
  /\ Window \in Nat \ {0, 1} /\ Forced \subseteq Nat \ {0}

VARIABLES
  today,
  quoted,       \* days with quotes
  newfeed,      \* the statistics plugin has a feed to see to
  stat_day,     \* the day it is at; None between runs
  statistics, trends,   \* days with a row
  bare,         \* days whose row of trends has only its key
  trends_acum,  \* rows: the days of the window
  force,        \* force_until
  start,        \* today, as the run read it
  lagged,       \* the tables were found out of step, or the statistics had some
                \* time more than one day to fill
  failed,       \* a statement of this process failed
  mishaps,
  stcs_updates, \* the trends plugin was told of an update
  pc,
  day,          \* the locals of calculate and of calculate_acum
  empty_days, day_tail, trend_tail, empty_queue

world == <<today, quoted, force, lagged>>
stats == <<newfeed, stat_day, statistics>>
tables == <<trends, bare, trends_acum>>
window == <<day_tail, trend_tail, empty_queue>>
locals == <<pc, start, day, empty_days, window>>
history == <<failed, mishaps>>
vars == <<world, stats, tables, stcs_updates, locals, history>>

DayRange == 1..Days
None == 0
NoRow == <<>>
Bare == <<0>>      \* a row of the accumulated trends that has only its key

Ahead(d) == force = 0 \/ force < d

-----------------------------------------------------------------------------
(* What the tables should hold.                                             *)

LatestFirst(S) ==
  [n \in 1..Cardinality(S) |-> CHOOSE d \in S : Cardinality({e \in S : e > d}) = n - 1]

(* The first days of a set from d back, as many as a window takes.          *)
WindowDays(days, d) ==
  {e \in days : e <= d /\ Cardinality({f \in days : e < f /\ f <= d}) < Window}
WindowFrom(days, d) == LatestFirst(WindowDays(days, d))

HasRow(d) == trends_acum[d] # NoRow
RowIsRight(x) == trends_acum[x] = WindowFrom(trends, x)

(* From t back to d no row of days that are not among days has more than    *)
(* the limit; of a forced run only those count that it need not reach.      *)
Counted(e, f) == {g \in e..f : force = 0 \/ g <= force}
Linked(days, d, t) ==
  \A e \in d..t : \A f \in e..t :
    (e..f) \cap days = {} => Cardinality(Counted(e, f)) <= EmptyLimit
Reached(days, d) == Linked(days, d, today)

(* The window of x is one, and all of it is linked to d.                    *)
WindowLinked(x, d) ==
  /\ Cardinality(WindowDays(trends, x)) > 1
  /\ \A w \in WindowDays(trends, x) : Linked(quoted, w, d)

(* The statistics lack the last day at most, and behind a row there is no   *)
(* hole: a run that ends at a row that is there leaves nothing out.         *)
TablesInStep ==
  /\ bare = {}
  /\ \A m \in quoted \ statistics : \A d \in quoted : d <= m
  /\ \A d \in trends, x \in quoted : x < d /\ Linked(quoted, x, d) => x \in trends
  /\ \A d \in trends, x \in trends :
       HasRow(d) /\ x < d /\ WindowLinked(x, d) => RowIsRight(x)

-----------------------------------------------------------------------------
(* The process starts, with both plugins to run.                            *)
Starts ==
  /\ newfeed = TRUE /\ stat_day = None
  /\ stcs_updates = TRUE /\ pc = "idle"
  /\ start = 0 /\ day = 0 /\ empty_days = 0
  /\ day_tail = 0 /\ trend_tail = <<>> /\ empty_queue = <<>>
  /\ failed = FALSE

(* An earlier process filled the tables up to some day, or to none.         *)
Init ==
  /\ today \in DayRange /\ force \in {0} \cup Forced
  /\ quoted \in SUBSET (1..today)
  /\ \E d \in 0..today : statistics = {e \in quoted : e <= d}
  /\ trends = statistics /\ bare = {}
  /\ trends_acum = [d \in DayRange |->
       IF d \in statistics /\ Len(WindowFrom(statistics, d)) > 1
         THEN WindowFrom(statistics, d) ELSE NoRow]
  /\ Starts
  /\ lagged = ~TablesInStep
  /\ mishaps = 0

Quote ==
  /\ quoted' = quoted \cup {today} /\ newfeed' = TRUE
  /\ lagged' = (lagged \/ Cardinality(quoted' \ statistics) > 1)
  /\ UNCHANGED <<today, force, stat_day, statistics, tables, stcs_updates, locals>>

NextDay ==
  /\ today < Days /\ today' = today + 1
  /\ UNCHANGED <<quoted, force, lagged, stats, tables, stcs_updates, locals>>

-----------------------------------------------------------------------------
(* The statistics plugin: a run, and the event at its end.                  *)

StatEnd == stat_day' = None /\ stcs_updates' = TRUE

StatBegin ==
  /\ stat_day = None /\ newfeed
  /\ newfeed' = FALSE
  /\ IF Ahead(today) THEN stat_day' = today /\ UNCHANGED stcs_updates ELSE StatEnd
  /\ UNCHANGED <<world, statistics, tables, locals>>

StatDayBefore ==
  IF stat_day > 1 /\ Ahead(stat_day - 1)
    THEN stat_day' = stat_day - 1 /\ UNCHANGED stcs_updates ELSE StatEnd

(* A day is written when it has quotes, and the day before is next.         *)
StatDay ==
  /\ stat_day # None
  /\ statistics' = statistics \cup (quoted \cap {stat_day})
  /\ StatDayBefore
  /\ UNCHANGED <<world, newfeed, tables, locals>>

(* A row is there with the same data: the run ends.                         *)
StatSame ==
  /\ stat_day \in statistics /\ force = 0
  /\ StatEnd
  /\ UNCHANGED <<world, newfeed, statistics, tables, locals>>

(* Too many days without quotes: the run ends.  It goes on when some are    *)
(* after the recent day, from where it began.                               *)
StatTooManyEmpty ==
  /\ stat_day # None /\ force = 0 /\ stat_day + EmptyLimit <= today
  /\ quoted \cap (stat_day..(stat_day + EmptyLimit)) = {}
  /\ StatEnd
  /\ UNCHANGED <<world, newfeed, statistics, tables, locals>>

-----------------------------------------------------------------------------
(* The trends plugin: run and calculate.                                    *)

Begin ==
  /\ pc = "idle" /\ stcs_updates
  /\ stcs_updates' = FALSE
  /\ start' = today /\ day' = today /\ empty_days' = 0 /\ pc' = "calculate"
  /\ UNCHANGED <<world, stats, tables, window>>

Calculates == pc = "calculate" /\ Ahead(day)

ToAcum ==
  /\ pc' = "fill" /\ day' = start /\ empty_days' = 0 /\ day_tail' = start
  /\ UNCHANGED <<start, trend_tail, empty_queue>>

NextDayBack == day' = day - 1 /\ UNCHANGED <<pc, start, window>>

CalculateEnds ==
  /\ pc = "calculate" /\ ~Ahead(day) /\ ToAcum
  /\ UNCHANGED <<world, stats, tables, stcs_updates>>

NothingRead ==
  IF force # 0 THEN NextDayBack /\ UNCHANGED empty_days
  ELSE IF empty_days + 1 > EmptyLimit THEN ToAcum
  ELSE NextDayBack /\ empty_days' = empty_days + 1

EmptyDay ==
  /\ Calculates /\ day \notin statistics
  /\ NothingRead
  /\ UNCHANGED <<world, stats, tables, stcs_updates>>

(* Faulty variant: what was read is not looked at.                          *)
InsertDayUnread ==
  /\ Calculates /\ day \in DayRange
  /\ trends' = trends \cup {day} /\ bare' = bare \ {day}
  /\ NextDayBack /\ empty_days' = 0
  /\ UNCHANGED <<world, stats, trends_acum, stcs_updates>>

(* dbtrends__insert: the row is not there, or holds other values, or the    *)
(* cache remembers others.                                                  *)
InsertDay ==
  /\ Calculates /\ day \in statistics
  /\ trends' = trends \cup {day} /\ bare' = bare \ {day}
  /\ NextDayBack /\ empty_days' = 0
  /\ UNCHANGED <<world, stats, trends_acum, stcs_updates>>

(* Faulty variant: a forced run ends at a row that is there.                *)
SameDayEnds ==
  /\ Calculates /\ day \in statistics \cap trends
  /\ ToAcum
  /\ UNCHANGED <<world, stats, tables, stcs_updates>>

(* A row without values is not the same, and no entry of it is older.       *)
SameDay ==
  /\ Calculates /\ day \in (statistics \cap trends) \ bare /\ force = 0
  /\ ToAcum
  /\ UNCHANGED <<world, stats, tables, stcs_updates>>

-----------------------------------------------------------------------------
(* calculate_acum: in "fill" the window is filled, in "row" the day's row   *)
(* is calculated.                                                           *)

Fills == pc = "fill" /\ Ahead(day) /\ Len(trend_tail) < Window

HasData(d) == d \in statistics \cap trends

Return ==
  /\ pc' = "idle" /\ start' = 0 /\ day' = 0 /\ empty_days' = 0
  /\ day_tail' = 0 /\ trend_tail' = <<>> /\ empty_queue' = <<>>

AcumEnds ==
  /\ pc = "fill" /\ ~Ahead(day) /\ Return
  /\ UNCHANGED <<world, stats, tables, stcs_updates>>

TakeDay ==
  /\ Fills /\ HasData(day_tail)
  /\ trend_tail' = Append(trend_tail, day_tail)
  /\ day_tail' = day_tail - 1 /\ empty_days' = 0
  /\ UNCHANGED <<world, stats, tables, stcs_updates, pc, start, day, empty_queue>>

(* Faulty variant: the day passed over is not queued.                       *)
PassDayForgets ==
  /\ Fills /\ ~HasData(day_tail)
  /\ day_tail' = day_tail - 1
  /\ empty_days' = empty_days + (IF force = 0 \/ day_tail' < force THEN 1 ELSE 0)
  /\ IF empty_days' <= EmptyLimit THEN UNCHANGED pc
     ELSE Len(trend_tail) > 1 /\ pc' = "row"
  /\ UNCHANGED <<world, stats, tables, stcs_updates, start, day, trend_tail, empty_queue>>

(* A day without data; of a forced run only those before force_until count. *)
(* When there are too many the window stays short.                          *)
PassOver ==
  /\ empty_queue' = Append(empty_queue, day_tail)
  /\ day_tail' = day_tail - 1
  /\ empty_days' = empty_days + (IF force = 0 \/ day_tail' < force THEN 1 ELSE 0)
  /\ IF empty_days' <= EmptyLimit THEN UNCHANGED pc
     ELSE Len(trend_tail) > 1 /\ pc' = "row"
  /\ UNCHANGED <<start, day, trend_tail>>

PassDay ==
  /\ Fills /\ ~HasData(day_tail)
  /\ PassOver
  /\ UNCHANGED <<world, stats, tables, stcs_updates>>

(* Too many, and a window of one day at most: the run ends.                 *)
GiveUp ==
  /\ Len(trend_tail) <= 1
  /\ empty_days + (IF force = 0 \/ day_tail - 1 < force THEN 1 ELSE 0) > EmptyLimit
  /\ Return

TooManyEmpty ==
  /\ Fills /\ ~HasData(day_tail)
  /\ GiveUp
  /\ UNCHANGED <<world, stats, tables, stcs_updates>>

WindowFull ==
  /\ pc = "fill" /\ Ahead(day) /\ Len(trend_tail) = Window
  /\ pc' = "row"
  /\ UNCHANGED <<world, stats, tables, stcs_updates, start, day, empty_days, window>>

QueuedDay == empty_queue # <<>> /\ Head(empty_queue) = day

DayBefore == pc' = "fill" /\ day' = day - 1 /\ UNCHANGED <<start, empty_days, day_tail>>

SkipDay ==
  /\ pc = "row" /\ QueuedDay
  /\ empty_queue' = Tail(empty_queue)
  /\ DayBefore
  /\ UNCHANGED <<world, stats, tables, stcs_updates, trend_tail>>

InsertAcum ==
  /\ pc = "row" /\ ~QueuedDay
  /\ trends_acum' = [trends_acum EXCEPT ![day] = trend_tail]
  /\ trend_tail' = Tail(trend_tail)
  /\ DayBefore
  /\ UNCHANGED <<world, stats, trends, bare, stcs_updates, empty_queue>>

SameAcum ==
  /\ pc = "row" /\ ~QueuedDay /\ trends_acum[day] = trend_tail /\ force = 0
  /\ Return
  /\ UNCHANGED <<world, stats, tables, stcs_updates>>

-----------------------------------------------------------------------------
(* Statements that fail, and the process that ends.                         *)

Mishap == mishaps < MaxMishaps /\ mishaps' = mishaps + 1
Fails == Mishap /\ failed' = TRUE

(* Of the statistics' run: the day is not written.  The run ends early when *)
(* the codes could not be read, or the day was one empty day too many.      *)
StatFails ==
  /\ stat_day # None /\ Fails
  /\ StatDayBefore \/ ((force = 0 \/ stat_day = today) /\ StatEnd)
  /\ UNCHANGED <<world, newfeed, statistics, tables, locals>>

(* The codes could not be read: nothing is calculated.                      *)
CodesFail ==
  /\ pc = "idle" /\ stcs_updates /\ Fails
  /\ stcs_updates' = FALSE
  /\ UNCHANGED <<world, stats, tables, locals>>

(* statistics__get_day answers 0 of a day that is there.                    *)
ReadDayFails ==
  /\ Calculates /\ day \in statistics /\ Fails
  /\ NothingRead
  /\ UNCHANGED <<world, stats, tables, stcs_updates>>

(* The INSERT or the UPDATE fails, and the run goes on: a row that was not  *)
(* there stays away or has only its key, and one that was there stays.      *)
InsertDayFails ==
  /\ Calculates /\ day \in statistics /\ Fails
  /\ \/ UNCHANGED <<trends, bare>>
     \/ day \notin trends /\ trends' = trends \cup {day} /\ bare' = bare \cup {day}
  /\ NextDayBack /\ empty_days' = 0
  /\ UNCHANGED <<world, stats, trends_acum, stcs_updates>>

TailFails ==
  /\ Fills /\ HasData(day_tail) /\ Fails
  /\ PassOver \/ GiveUp
  /\ UNCHANGED <<world, stats, tables, stcs_updates>>

InsertAcumFails ==
  /\ pc = "row" /\ ~QueuedDay /\ Fails
  /\ \/ UNCHANGED trends_acum
     \/ ~HasRow(day) /\ trends_acum' = [trends_acum EXCEPT ![day] = Bare]
  /\ trend_tail' = Tail(trend_tail)
  /\ DayBefore
  /\ UNCHANGED <<world, stats, trends, bare, stcs_updates, empty_queue>>

Restart ==
  /\ Mishap /\ force' \in {0} \cup Forced
  /\ newfeed' = TRUE /\ stat_day' = None
  /\ stcs_updates' = TRUE /\ failed' = FALSE
  /\ Return
  /\ UNCHANGED <<today, quoted, statistics, tables>>
  /\ lagged' = ~TablesInStep'

-----------------------------------------------------------------------------
Stat == StatBegin \/ StatDay \/ StatSame \/ StatTooManyEmpty
Calculate == CalculateEnds \/ EmptyDay \/ InsertDay \/ SameDay
CalculateAcum ==
  AcumEnds \/ TakeDay \/ PassDay \/ TooManyEmpty \/ WindowFull \/ SkipDay \/ InsertAcum \/ SameAcum

Works == Quote \/ NextDay \/ Stat \/ Begin \/ Calculate \/ CalculateAcum

StatementFails ==
  StatFails \/ CodesFail \/ ReadDayFails \/ InsertDayFails \/ TailFails \/ InsertAcumFails

Next == (Works /\ UNCHANGED history) \/ StatementFails \/ Restart

Spec == Init /\ [][Next]_vars

-----------------------------------------------------------------------------
(* Properties.                                                              *)

TypeOK ==
  /\ today \in DayRange /\ quoted \subseteq 1..today /\ statistics \subseteq quoted
  /\ trends \subseteq statistics /\ bare \subseteq trends /\ stat_day \in 0..today
  /\ DOMAIN trends_acum = DayRange /\ force \in {0} \cup Forced
  /\ pc \in {"idle", "calculate", "fill", "row"} /\ start \in 0..today
  /\ day <= start /\ day_tail <= start /\ empty_days \in Nat
  /\ Len(trend_tail) \in 0..Window
  /\ {newfeed, stcs_updates, lagged, failed} \subseteq BOOLEAN
  /\ mishaps \in 0..MaxMishaps

(* The window and the queue share out the days between the two ends, each   *)
(* in order, so that what calculate_acum takes as the day's own data, the   *)
(* window's front, is of that day, whatever the statistics write meanwhile. *)
WindowAndQueue ==
  pc \in {"fill", "row"} =>
    LET down(s) == \A j, k \in DOMAIN s : j < k => s[j] > s[k]
    IN  /\ down(trend_tail) /\ down(empty_queue)
        /\ ToSet(trend_tail) \cup ToSet(empty_queue) = (day_tail + 1)..day
        /\ ToSet(trend_tail) \cap ToSet(empty_queue) = {}
        /\ pc = "row" /\ ~QueuedDay => Head(trend_tail) = day

(* Both plugins wait and nothing is left to tell them.                      *)
Done == ~newfeed /\ stat_day = None /\ ~stcs_updates /\ pc = "idle"

(* Each day has its trends, and its accumulated trends those of the next    *)
(* days that have trends.                                                   *)
Complete ==
  \A d \in quoted : Ahead(d) /\ Reached(quoted, d) =>
    LET from == WindowFrom(trends, d)
    IN  /\ d \in trends \ bare
        /\ Len(from) > 1 /\ (\A e \in ToSet(from) : Reached(trends, e)) =>
             trends_acum[d] = from

(* A process whose statements do not fail fills the tables in the end,      *)
(* though its trends read while its statistics write: a forced one whatever *)
(* the processes before it left, by statements that failed or by ending in  *)
(* between; another when it found the tables in step and its statistics     *)
(* never had more than the last day to fill.                                *)
FilledInStep == Done /\ ~failed /\ (~lagged \/ force # 0) => Complete

(* "Follow the pattern of current crunchers, going from today back          *)
(* calculating and filling the table" (doc/DevelopmentTrack.txt:178), that  *)
(* is, whenever both plugins are done.  It is not so when the trends read   *)
(* more than one day that is still to come: they end their next run at the  *)
(* first day they wrote themselves.                                         *)
Filled == Done /\ ~failed => Complete

=============================================================================
