-------------------------------- MODULE Output --------------------------------
(***************************************************************************)
(* The output program: it queries series of data, one after the other,     *)
(* merges each with what it has by day and, if they have any, by time, and *)
(* prints the rows as a table or as a chart.  Other programs see nothing   *)
(* of it.                                                                  *)
(* Source: src/output/Output.cc, Chart.cc, Table.cc, with the queries of   *)
(* src/ccltor/db/DBfeeder.cc, DBstatistics.cc, DBtrends.cc, DBwealth.cc,   *)
(* DBinterpolator.cc.                                                      *)
(*                                                                         *)
(* A datum is known by its place in its series; they are not normalized.   *)
(***************************************************************************)
EXTENDS Integers, Sequences, SequencesExt, FiniteSetsExt

CONSTANTS
  Series,       \* bound: answers of get_data, days and times; some have no times
  MaxSeries     \* bound: outpdescs

ASSUME OutputAssumption ==
  /\ MaxSeries \in Nat
  /\ Series \subseteq [days : Seq(Nat), times : Seq(Nat)]
  /\ \A s \in Series :   \* ORDER BY date; a time of each day or of none
       /\ \A m, n \in DOMAIN s.days : m < n => s.days[m] <= s.days[n]
       /\ s.times # <<>> => Len(s.times) = Len(s.days)

VARIABLES
  stage,
  answers,      \* the series of the columns, and the one that is merged
  at, X,        \* t, X: the rows' stamps, and a column of each series
  next_new, next_old,   \* i, j: of the last answer's data, and of the rows
  tr, Xr        \* the rows merged so far

rows == <<at, X>>
merge == <<next_new, next_old, tr, Xr>>
outputVars == <<stage, answers, rows, merge>>

NoStamps == [days |-> <<>>, times |-> <<>>]
answer == Last(answers)
Data(s) == [n \in DOMAIN s.days |-> n]

OutputInit ==
  /\ stage = "read" /\ answers = <<>>
  /\ at = NoStamps /\ X = <<>>
  /\ next_new = 0 /\ next_old = 0 /\ tr = NoStamps /\ Xr = <<>>

(* get_data, and the beginning of merge_data.  The first series is the      *)
(* first column, with data or without.                                      *)
GetFirst(s) ==
  /\ X = <<>>
  /\ answers' = <<s>> /\ at' = s /\ X' = <<Data(s)>>
  /\ UNCHANGED <<stage, merge>>

(* Of the others one without data changes nothing.                          *)
GetNext(s) ==
  /\ X # <<>> /\ s.days # <<>>
  /\ answers' = Append(answers, s)
  /\ stage' = "merge" /\ next_new' = 1 /\ next_old' = 1
  /\ tr' = NoStamps /\ Xr' = [c \in 1..(Len(X) + 1) |-> <<>>]
  /\ UNCHANGED rows

GetNothing(s) == X # <<>> /\ s.days = <<>> /\ UNCHANGED outputVars

GetData ==
  /\ stage = "read" /\ Len(answers) < MaxSeries
  /\ \E s \in Series : GetFirst(s) \/ GetNext(s) \/ GetNothing(s)

-----------------------------------------------------------------------------
(* The loop of merge_data.                                                  *)

OldLeft == next_old <= Len(at.days)
NewLeft == next_new <= Len(answer.days)
SameDay == OldLeft /\ NewLeft /\ at.days[next_old] = answer.days[next_new]
OldHasTime == next_old <= Len(at.times)
NewHasTime == next_new <= Len(answer.times)

(* The last is repeated.  That of none is read out of bounds.               *)
Datum(column, k) == IF k <= Len(column) THEN column[k] ELSE Last(column)
Readable == \A c \in DOMAIN X : X[c] # <<>>

(* MERGE_STEP: a row with the k-th stamp.  Without a time it has the one of *)
(* the row before, if that has one.                                         *)
MergeStep(stamps, k) ==
  /\ tr' = [days |-> Append(tr.days, stamps.days[k]),
            times |-> IF k <= Len(stamps.times) THEN Append(tr.times, stamps.times[k])
                      ELSE IF tr.times # <<>> THEN Append(tr.times, Last(tr.times)) ELSE <<>>]
  /\ Xr' = [c \in 1..(Len(X) + 1) |->
              Append(Xr[c], IF c <= Len(X) THEN Datum(X[c], next_old)
                            ELSE Datum(Data(answer), next_new))]
  /\ UNCHANGED <<stage, answers, rows>>

OldRow == MergeStep(at, next_old) /\ next_old' = next_old + 1
NewRow == MergeStep(answer, next_new) /\ next_new' = next_new + 1

MergeOld ==
  /\ OldLeft
  /\ \/ ~NewLeft
     \/ NewLeft /\ at.days[next_old] < answer.days[next_new]
     \/ SameDay /\ OldHasTime /\ NewHasTime /\ at.times[next_old] < answer.times[next_new]
  /\ OldRow /\ UNCHANGED next_new

MergeNew ==
  /\ NewLeft
  /\ \/ ~OldLeft
     \/ OldLeft /\ answer.days[next_new] < at.days[next_old]
     \/ SameDay /\ NewHasTime /\ (OldHasTime => answer.times[next_new] < at.times[next_old])
  /\ NewRow /\ UNCHANGED next_old

(* Faulty variant: the datum of the day is used up by the first row.        *)
MergeUntimedOnce ==
  /\ SameDay /\ ~NewHasTime
  /\ OldRow /\ next_new' = next_new + 1

(* A datum without a time goes to all rows of its day.                      *)
MergeUntimed ==
  /\ SameDay /\ ~NewHasTime
  /\ OldRow /\ next_new' = IF next_old' > Len(at.times) THEN next_new + 1 ELSE next_new

MergeSame ==
  /\ SameDay /\ OldHasTime /\ NewHasTime /\ at.times[next_old] = answer.times[next_new]
  /\ OldRow /\ next_new' = next_new + 1

(* A turn of the loop.                                                      *)
Merge ==
  /\ stage = "merge" /\ Readable
  /\ MergeOld \/ MergeNew \/ MergeUntimed \/ MergeSame

Merged ==
  /\ stage = "merge" /\ ~OldLeft /\ ~NewLeft
  /\ stage' = "read" /\ at' = tr /\ X' = Xr
  /\ next_new' = 0 /\ next_old' = 0 /\ tr' = NoStamps /\ Xr' = <<>>
  /\ UNCHANGED answers

(* The last of a series without data.                                       *)
ReadsOutOfBounds ==
  /\ stage = "merge" /\ ~Readable
  /\ stage' = "aborted" /\ UNCHANGED <<answers, rows, merge>>

-----------------------------------------------------------------------------
(* The fronts.                                                              *)

Shows == stage = "read" /\ X # <<>>

ShowTable ==
  /\ Shows /\ stage' = "end"
  /\ UNCHANGED <<answers, rows, merge>>

(* The chart looks for the time of each row, if the first has one.          *)
ShowChart ==
  /\ Shows
  /\ stage' = IF X[1] # <<>> /\ Len(at.times) \in 1..(Len(at.days) - 1) THEN "aborted" ELSE "end"
  /\ UNCHANGED <<answers, rows, merge>>

Output ==
  \/ GetData \/ Merge \/ Merged \/ ReadsOutOfBounds
  \/ ShowTable \/ ShowChart

-----------------------------------------------------------------------------
(* Properties.                                                              *)

OutputTypeOK ==
  /\ stage \in {"read", "merge", "end", "aborted"}
  /\ answers \in Seq(Series) /\ Len(answers) <= MaxSeries
  /\ next_new \in 0..(IF stage = "read" THEN 0 ELSE Len(answer.days) + 1)
  /\ next_old \in 0..(Len(at.days) + 1)
  /\ \A c \in DOMAIN X : Len(X[c]) = Len(at.days)

(* The series that are columns of the rows.                                 *)
Shown == SubSeq(answers, 1, Len(X))

HasTimes(s) == s.times # <<>>
Stamp(s, n) == <<s.days[n], IF HasTimes(s) THEN s.times[n] ELSE 0>>
Before(p, q) == p[1] < q[1] \/ (p[1] = q[1] /\ p[2] < q[2])
Ordered(s) == \A m, n \in DOMAIN s.days : m < n => Before(Stamp(s, m), Stamp(s, n))
Stamps(s) == {Stamp(s, n) : n \in DOMAIN s.days}

(* The first datum of a series that is not before a stamp, or its last.     *)
NextDatum(s, stamp) ==
  LET from == {n \in DOMAIN s.days : ~Before(Stamp(s, n), stamp)}
  IN  IF from = {} THEN Len(s.days) ELSE Min(from)

OfOneKind(list) == \A p, q \in ToSet(list) : Ordered(p) /\ HasTimes(p) = HasTimes(q)

(* No datum is lost or comes under another day, and the days are in order,  *)
(* though rows may have no time and a query may answer several data of a    *)
(* day.  When either all series have times or none has, the rows are their  *)
(* stamps, once each and in order, and have of each series the next datum   *)
(* or its last; and when one of two has, the datum of the other is in all   *)
(* rows of its day.  It aborts only when the first series has no data, or   *)
(* when rows without a time come before the first that has one.             *)
RowsOfAll ==
  /\ \A q, r \in DOMAIN at.days : q < r => at.days[q] <= at.days[r]
  /\ \A c \in DOMAIN X : \A n \in DOMAIN Shown[c].days :
       \E r \in DOMAIN at.days : at.days[r] = Shown[c].days[n] /\ X[c][r] = n
  /\ OfOneKind(Shown) =>
       /\ Ordered(at) /\ Stamps(at) = UNION {Stamps(s) : s \in ToSet(Shown)}
       /\ \A c \in DOMAIN X : \A r \in DOMAIN at.days : X[c][r] = NextDatum(Shown[c], Stamp(at, r))
  /\ Len(Shown) = 2 =>
       \A c \in 1..2 : Ordered(Shown[c]) /\ ~HasTimes(Shown[c]) /\ HasTimes(Shown[3 - c]) =>
         \A r \in DOMAIN at.days, n \in DOMAIN Shown[c].days :
           at.days[r] = Shown[c].days[n] => X[c][r] = n
  /\ stage = "aborted" =>
       answers[1].days = <<>> \/ \E p, q \in ToSet(Shown) : HasTimes(p) # HasTimes(q)
=============================================================================
