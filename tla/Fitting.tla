-------------------------------- MODULE Fitting --------------------------------
(***************************************************************************)
(* The plugins that fit a day's least and greatest price to the days       *)
(* before it.  The interpolator has a window of days with data move back   *)
(* from today and solves an equation for each of its places; the           *)
(* regression takes all days there are and fits one equation to them.      *)
(* Both keep the equation and, for the day of the newest data that went    *)
(* into it, the result: a guess at the next day.                           *)
(* Source: src/cruncher/plugins/interpolator/Interpolator.cc,              *)
(* regression/Regression.cc, src/ccltor/db/DBinterpolator.cc.              *)
(*                                                                         *)
(* Numbers are left out: a result is known by the days it was made from.   *)
(* The statistics fill their table meanwhile, one row after the other.     *)
(* One value is modelled.                                                  *)
(***************************************************************************)
EXTENDS DaysBack

CONSTANTS
  N, K,         \* equations, and days of data in each
  NrColumns     \* INTERPM_M: columns that the regression queries

ASSUME FittingAssumption ==
  /\ N \in Nat /\ {K, NrColumns} \subseteq Nat \ {0}

VARIABLES
  statistics,   \* days with a row
  start,        \* the day the run starts from
  known,        \* days it has to find: statistics when it began, but for those
                \* it failed to read
  xx,           \* days whose data were taken, the latest first
  day_tail, empty_queue,
  columns,      \* regression: the days in each answer of get_day
  row,          \* i: the row of A that is used next
  used,         \* the days in the row that is stored now
  statements,   \* insert_equation and insert_result that are still to be done
  equations,    \* rows of interpolator_equation: <<type, date>>
  results       \* of interpolator_results, by equation and date

begun == <<start, known>>
window == <<xx, day_tail, empty_queue>>
tables == <<equations, results>>
fittingVars == <<statistics, begun, window, columns, row, used, statements, tables>>

Types == {"min", "max"}
Dates == 1..LastDay
Equations == Types \X Dates
Null == <<0>>      \* a row without a result

FittingInit ==
  /\ statistics \in SUBSET (1..FirstDay)
  /\ start = 0 /\ known = {}
  /\ xx = <<>> /\ day_tail = 0 /\ empty_queue = <<>>
  /\ columns = <<>> /\ row = 0 /\ used = <<>> /\ statements = <<>>
  /\ equations = {} /\ results = [e \in Equations |-> [d \in Dates |-> NoRow]]

(* The statistics plugin inserts a day.                                     *)
FillDay ==
  /\ \E d \in (1..today) \ statistics : statistics' = statistics \cup {d}
  /\ UNCHANGED <<daysBack, begun, window, columns, row, used, statements, tables>>

FittingNextDay == MidNight /\ UNCHANGED fittingVars

Forget ==
  /\ xx' = <<>> /\ day_tail' = 0 /\ empty_queue' = <<>>
  /\ columns' = <<>> /\ row' = 0 /\ used' = <<>> /\ statements' = <<>>

FittingCodesFail == CodesFail /\ UNCHANGED fittingVars

Starts == start' = today /\ known' = statistics
Ends == Return /\ Forget

FittingRestart == Restart /\ Forget /\ UNCHANGED <<statistics, begun, tables>>

-----------------------------------------------------------------------------
(* DBinterpolator.  A result is stored under the id of an equation, if it   *)
(* is there.                                                                *)

InsertEquation(type, date) ==
  /\ equations' = equations \cup {<<type, date>>}
  /\ UNCHANGED results

InsertResult(type, date, label, value) ==
  /\ UNCHANGED equations
  /\ IF <<type, date>> \in equations
       THEN results' = [results EXCEPT ![<<type, date>>][label] =
                          IF value = Null /\ @ # NoRow THEN @ ELSE value]
       ELSE UNCHANGED results

(* A day's statements, for the equation of a date.                          *)
EquationThenResult(type, date) == <<<<"equation", type, date>>, <<"result", type, date>>>>
Result(type, date) == <<<<"result", type, date>>>>

Insert ==
  /\ statements # <<>>
  /\ LET s == Head(statements)
     IN  IF s[1] = "equation" THEN InsertEquation(s[2], s[3])
         ELSE InsertResult(s[2], s[3], day, used)
  /\ statements' = Tail(statements)
  /\ UNCHANGED <<daysBack, statistics, begun, window, columns, row, used>>

(* One of the statements fails: what is not there yet is then without its   *)
(* number or not there.                                                     *)
InsertFails ==
  /\ statements # <<>> /\ FailsAt(pc)
  /\ LET s == Head(statements)
     IN  UNCHANGED tables \/ (s[1] = "result" /\ InsertResult(s[2], s[3], day, Null))
  /\ statements' = Tail(statements)
  /\ UNCHANGED <<statistics, begun, window, columns, row, used>>

-----------------------------------------------------------------------------
(* Interpolator::calculate.                                                 *)

InterpolatorBegins ==
  /\ BeginAt("fill") /\ Starts /\ day_tail' = start'
  /\ UNCHANGED <<statistics, xx, empty_queue, columns, row, used, statements, tables>>

InterpolatorEnds ==
  /\ pc = "fill" /\ ~Ahead(day) /\ Ends
  /\ UNCHANGED <<statistics, begun, tables>>

Filling == pc = "fill" /\ Ahead(day) /\ Len(xx) < N + K

(* Faulty variant: the empty days are counted in all, not in a row.         *)
TakeDayCounting ==
  /\ Filling /\ day_tail \in statistics
  /\ xx' = Append(xx, day_tail) /\ day_tail' = day_tail - 1
  /\ UNCHANGED <<daysBack, statistics, begun, empty_queue, columns, row, used, statements, tables>>

TakeDay ==
  /\ Filling /\ day_tail \in statistics
  /\ xx' = Append(xx, day_tail) /\ day_tail' = day_tail - 1
  /\ empty_days' = 0
  /\ UNCHANGED <<today, force, updated, pc, day, mishaps>>
  /\ UNCHANGED <<statistics, begun, empty_queue, columns, row, used, statements, tables>>

EmptyDays == empty_days + (IF force = 0 \/ day_tail - 1 < force THEN 1 ELSE 0)

PassOver ==
  /\ EmptyDays <= EmptyLimit
  /\ empty_queue' = Append(empty_queue, day_tail)
  /\ day_tail' = day_tail - 1 /\ empty_days' = EmptyDays
  /\ UNCHANGED <<today, force, updated, pc, day>>
  /\ UNCHANGED <<statistics, start, xx, columns, row, used, statements, tables>>

(* A day without a row; of a forced run those from force_until on do not    *)
(* count.                                                                   *)
PassDay ==
  /\ Filling /\ day_tail \notin statistics
  /\ PassOver /\ UNCHANGED <<known, mishaps>>

TooManyEmpty ==
  /\ Filling /\ day_tail \notin statistics /\ EmptyDays > EmptyLimit
  /\ Ends /\ UNCHANGED <<statistics, begun, tables>>

(* statistics__get_day fails: the day is taken as one without a row.        *)
TailFails ==
  /\ Filling /\ day_tail \in statistics
  /\ known' = known \ {day_tail}
  /\ \/ PassOver /\ mishaps < MaxMishaps /\ mishaps' = mishaps + 1
     \/ EmptyDays > EmptyLimit /\ FailsAt("idle") /\ Forget /\ UNCHANGED <<statistics, start, tables>>

WindowIsFull == pc = "fill" /\ Ahead(day) /\ Len(xx) = N + K
Queued == empty_queue # <<>> /\ Head(empty_queue) = day

SkipDay ==
  /\ WindowIsFull /\ Queued
  /\ empty_queue' = Tail(empty_queue)
  /\ DayBefore("fill")
  /\ UNCHANGED <<statistics, begun, xx, day_tail, columns, row, used, statements, tables>>

(* The equation is solved and its solution used with the newest days.  That *)
(* lu fails is not looked at: what is stored then is not a number, which    *)
(* the data base refuses.                                                   *)
Solve ==
  /\ WindowIsFull /\ ~Queued
  /\ \/ used' = SubSeq(xx, 1, K) /\ Goto("solved")
     \/ used' = Null /\ FailsAt("solved")
  /\ xx' = Tail(xx)
  /\ statements' = EquationThenResult("min", day) \o EquationThenResult("max", day)
  /\ UNCHANGED <<statistics, begun, day_tail, empty_queue, columns, row, tables>>

(* Not forced, one day is all.                                              *)
Solved ==
  /\ pc = "solved" /\ statements = <<>>
  /\ IF force = 0 THEN Ends
     ELSE DayBefore("fill") /\ UNCHANGED <<window, columns, row, used, statements>>
  /\ UNCHANGED <<statistics, begun, tables>>

Interpolator ==
  \/ InterpolatorBegins \/ FittingCodesFail \/ InterpolatorEnds
  \/ TakeDay \/ PassDay \/ TailFails \/ TooManyEmpty
  \/ SkipDay \/ Solve \/ Insert \/ InsertFails \/ Solved

-----------------------------------------------------------------------------
(* Regression::calculate.                                                   *)

RegressionBegins ==
  /\ BeginAt("query") /\ Starts
  /\ UNCHANGED <<statistics, window, columns, row, used, statements, tables>>

(* get_day, for one column after the other.                                 *)
Query ==
  /\ pc = "query" /\ Len(columns) < NrColumns
  /\ columns' = Append(columns, {d \in statistics : d <= day})
  /\ UNCHANGED <<daysBack, statistics, begun, window, row, used, statements, tables>>

(* It fails: the column is empty, in which the scan ends with no day.       *)
QueryFails ==
  /\ pc = "query" /\ Len(columns) < NrColumns
  /\ FailsAt("idle") /\ Forget /\ UNCHANGED <<statistics, begun, tables>>

(* The scan back from start: a day is taken that all columns have.  Those   *)
(* before the latest of these move start back, those after it are queued.   *)
(* The scan ends where a column has no more days.                           *)
LatestFirst(S) ==
  [n \in 1..Cardinality(S) |-> CHOOSE d \in S : Cardinality({e \in S : e > d}) = n - 1]
Taken == LatestFirst({d \in Dates : \A i \in 1..NrColumns : d \in columns[i]})

Scanned == pc = "query" /\ Len(columns) = NrColumns

TooFewDays ==
  /\ Scanned /\ Len(Taken) < N + K
  /\ Ends /\ UNCHANGED <<statistics, begun, tables>>

(* lu fails, or the error is not a number.                                  *)
NoFit ==
  /\ Scanned /\ Len(Taken) >= N + K
  /\ FailsAt("idle") /\ Forget /\ UNCHANGED <<statistics, begun, tables>>

FitAt(from) ==
  /\ Scanned /\ Len(Taken) >= N + K
  /\ xx' = Taken /\ start' = from
  /\ empty_queue' = LatestFirst(((Taken[Len(Taken)])..from) \ ToSet(Taken))
  /\ statements' = <<<<"equation", "min", from>>, <<"equation", "max", from>>>>
  /\ pc' = "label" /\ day' = from /\ UNCHANGED <<today, force, updated, empty_days, mishaps>>
  /\ UNCHANGED <<statistics, known, day_tail, columns, row, used, tables>>

(* Faulty variant: start does not move and no day before it is queued.      *)
FitFromStart ==
  /\ Scanned /\ Len(Taken) >= N + K
  /\ xx' = Taken
  /\ empty_queue' = LatestFirst(((Taken[Len(Taken)])..Taken[1]) \ ToSet(Taken))
  /\ statements' = <<<<"equation", "min", start>>, <<"equation", "max", start>>>>
  /\ pc' = "label" /\ day' = start /\ UNCHANGED <<today, force, updated, empty_days, mishaps>>
  /\ UNCHANGED <<statistics, begun, day_tail, columns, row, used, tables>>

(* One equation for each price.                                             *)
Fit == Scanned /\ Len(Taken) > 0 /\ FitAt(Taken[1])

(* The rows of A, the first of them uu, are as many as days of data but K,  *)
(* and one.                                                                 *)
Labels == pc = "label" /\ statements = <<>> /\ Ahead(day) /\ row + K <= Len(xx)

PassLabel ==
  /\ Labels /\ Queued
  /\ empty_queue' = Tail(empty_queue) /\ DayBefore("label")
  /\ UNCHANGED <<statistics, begun, xx, day_tail, columns, row, used, statements, tables>>

Label ==
  /\ Labels /\ ~Queued
  /\ used' = SubSeq(xx, row + 1, row + K) /\ row' = row + 1
  /\ statements' = Result("min", start) \o Result("max", start)
  /\ Goto("labelled")
  /\ UNCHANGED <<statistics, begun, window, columns, tables>>

Labelled ==
  /\ pc = "labelled" /\ statements = <<>>
  /\ IF force = 0 THEN Ends
     ELSE DayBefore("label") /\ UNCHANGED <<window, columns, row, used, statements>>
  /\ UNCHANGED <<statistics, begun, tables>>

RegressionEnds ==
  /\ pc = "label" /\ statements = <<>> /\ (~Ahead(day) \/ row + K > Len(xx))
  /\ Ends /\ UNCHANGED <<statistics, begun, tables>>

Regression ==
  \/ RegressionBegins \/ FittingCodesFail \/ Query \/ QueryFails \/ TooFewDays \/ NoFit \/ Fit
  \/ PassLabel \/ Label \/ Labelled \/ RegressionEnds \/ Insert \/ InsertFails

FittingWorld == FillDay \/ FittingNextDay \/ FittingRestart

-----------------------------------------------------------------------------
(* Properties.                                                              *)

FittingTypeOK ==
  /\ statistics \subseteq 1..today /\ known \subseteq statistics /\ start \in 0..today
  /\ Len(xx) <= LastDay /\ ToSet(xx) \subseteq statistics /\ ToSet(empty_queue) \subseteq Int
  /\ equations \subseteq Equations /\ row \in 0..LastDay
  /\ \A e \in Equations : \A d \in Dates : results[e][d] # NoRow => e \in equations

(* s are the latest days with data from d back: none that had a row when    *)
(* the run began is left out, but those it failed to read.                  *)
OfDay(s, d) ==
  /\ Len(s) = K /\ s[1] = d
  /\ \A i \in 2..K : s[i] < s[i - 1]
  /\ ToSet(s) \subseteq statistics /\ known \cap (s[K]..d) \subseteq ToSet(s)

(* A result is stored under the day of the newest data that went into it,   *)
(* and goes back from there without leaving out a day but one whose read    *)
(* failed, though the day is found by counting back past the queued ones,   *)
(* while days come in between, reads fail, and the columns are read one     *)
(* after the other.                                                         *)
OfItsDay ==
  [][\A e \in Equations : \A d \in Dates :
       results'[e][d] \in {results[e][d], Null} \/ OfDay(results'[e][d], d)]_results

(* There are days enough to fit d, and none of the gaps between the ones    *)
(* that the interpolator needs is too long.                                 *)
Back(d) == LatestFirst({e \in known : e <= d})
Reached(d) ==
  \A e, f \in d..start :
    (e..f) \cap known = {} => Cardinality({g \in e..f : force = 0 \/ g <= force}) <= EmptyLimit
Interpolable(d) == Len(Back(d)) >= N + K /\ Reached(Back(d)[N + K])
Fittable(d) == Len(Back(start)) >= N + K /\ Len(Back(d)) >= K

HasResults(d) == \A type \in Types : \E date \in Dates : OfDay(results[<<type, date>>][d], d)

(* The run of a process that nothing happened to has left a result of each  *)
(* day that it had data enough for, if it was forced, and else of the last. *)
RanThrough(fits(_)) ==
  pc = "idle" /\ ~updated /\ mishaps = 0 /\ Ahead(start) =>
    \A d \in known : fits(d) =>
      IF force # 0 THEN Ahead(d) => HasResults(d)
      ELSE d = Back(start)[1] => \E e \in d..LastDay : HasResults(e)
=============================================================================
