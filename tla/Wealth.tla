-------------------------------- MODULE Wealth --------------------------------
(***************************************************************************)
(* The wealth plugin: the rows of the tables of days, trends and           *)
(* accumulated trends of all values are summed up, day by day, in three    *)
(* tables of the market.                                                   *)
(* Source: src/cruncher/plugins/wealth/Wealth.cc, src/ccltor/db/           *)
(* DBwealth.cc.                                                            *)
(*                                                                         *)
(* A row is a pair: its first columns, and the last one, by which alone    *)
(* two of the tables are compared.  Days and trends are read through the   *)
(* cache, column by column: a value that was replaced is answered until    *)
(* its entry expires (DBCache).                                            *)
(***************************************************************************)
EXTENDS DaysBack

CONSTANTS
  Tables,       \* bound: those of the three tables that are modelled
  NrCodes,      \* how many values the market has
  Rows,         \* bound: what a row of a value may hold
  MaxChanges    \* bound: rows of values that are written

ASSUME WealthAssumption ==
  /\ {NrCodes, MaxChanges} \subseteq Nat
  /\ Tables \subseteq {"sday", "trends", "acum"}
  /\ Rows \subseteq Nat \X Nat /\ Rows # {}

VARIABLES
  source,     \* the tables of the values
  replaced,   \* rows the cache may still hold
  changes,
  code,       \* codes[i]
  sums,       \* sday, trends, trends_acum
  count,      \* codes with some data
  all_same,
  wealth      \* the tables of the market

reading == <<code, sums, count>>
wealthVars == <<source, replaced, changes, reading, all_same, wealth>>

Cached == Tables \ {"acum"}
Codes == 1..NrCodes
Days == FirstDay..LastDay    \* those that may have data
Zero == <<0, 0>>
NoReplaced == [t \in Tables |-> [c \in Codes |-> [d \in Days |-> {}]]]
NoSums == [t \in Tables |-> Zero]

WealthInit ==
  /\ LET row == CHOOSE r \in Rows : TRUE
     IN  source = [t \in Tables |-> [c \in Codes |-> [d \in Days |-> IF d = FirstDay THEN row ELSE NoRow]]]
  /\ replaced = NoReplaced
  /\ changes = 0
  /\ code = 1 /\ sums = NoSums /\ count = 0 /\ all_same = TRUE
  /\ wealth = [t \in Tables |-> [d \in Days |-> NoRow]]

(* The statistics or the trends write a row of a day since FirstDay.         *)
Change(t, c, d) ==
  /\ changes < MaxChanges /\ changes' = changes + 1
  /\ d \in FirstDay..today
  /\ \E row \in Rows \ {source[t][c][d]} :
       source' = [source EXCEPT ![t][c][d] = row]
  /\ replaced' = IF t \in Cached /\ source[t][c][d] # NoRow
                   THEN [replaced EXCEPT ![t][c][d] = @ \cup {source[t][c][d]}] ELSE replaced
  /\ UNCHANGED <<daysBack, reading, all_same, wealth>>

(* Entries of the cache end.  That some end before others makes no          *)
(* difference: a read may be answered with the row that is there.           *)
NothingReplaced == replaced = NoReplaced
Expire ==
  /\ ~NothingReplaced
  /\ replaced' = NoReplaced
  /\ UNCHANGED <<daysBack, source, changes, reading, all_same, wealth>>

(* msg.                                                                     *)
TrendsUpdated ==
  /\ ~updated /\ updated' = TRUE
  /\ UNCHANGED <<today, force, pc, day, empty_days, mishaps, wealthVars>>

WealthNextDay == MidNight /\ UNCHANGED wealthVars

-----------------------------------------------------------------------------
(* run.                                                                     *)

NewDay == code' = 1 /\ sums' = NoSums /\ count' = 0 /\ all_same' = TRUE

WealthBegin == BeginAt("read") /\ UNCHANGED wealthVars

(* Without codes no day has data.                                           *)
WealthCodesFail == CodesFail /\ UNCHANGED wealthVars

WealthEnds ==
  /\ pc = "read" /\ code = 1 /\ ~Ahead(day)
  /\ Return /\ UNCHANGED wealthVars

(* What a query of a table's columns may answer: each column of a cached    *)
(* table is of its own time.                                                *)
Answers(t, c) ==
  IF day \notin Days THEN {NoRow}
  ELSE LET now == source[t][c][day]
           rows == {now} \cup replaced[t][c][day]
       IN  IF now = NoRow THEN {NoRow} ELSE {<<p[1], q[2]>> : p, q \in rows}

Answered(c) == UNION {Answers(t, c) : t \in Tables}

Plus(p, row) == IF row = NoRow THEN p ELSE <<p[1] + row[1], p[2] + row[2]>>

Take(row) ==
  /\ sums' = [t \in Tables |-> Plus(sums[t], row[t])]
  /\ count' = count + (IF \A t \in Tables : row[t] = NoRow THEN 0 ELSE 1)
  /\ code' = code + 1

(* Faulty variant: one code too many.                                       *)
ReadCodePast ==
  /\ pc = "read" /\ Ahead(day) /\ code <= NrCodes + 1
  /\ Take([t \in Tables |-> IF code > NrCodes THEN Zero ELSE CHOOSE a \in Answers(t, code) : TRUE])
  /\ UNCHANGED <<daysBack, source, replaced, changes, all_same, wealth>>

(* A code's rows are added.  They are taken as they are when the last of    *)
(* the three is read: what was read before of the others may be replaced.   *)
ReadCode ==
  /\ pc = "read" /\ Ahead(day) /\ code <= NrCodes
  /\ \E row \in [Tables -> Answered(code)] :
       (\A t \in Tables : row[t] \in Answers(t, code)) /\ Take(row)
  /\ UNCHANGED <<daysBack, source, replaced, changes, all_same, wealth>>

(* A query fails: the code's row is taken as if it were not there.          *)
ReadFails ==
  /\ pc = "read" /\ Ahead(day) /\ code <= NrCodes
  /\ FailsAt("read")
  /\ \E t \in Tables :
       Take([u \in Tables |-> IF u = t \/ day \notin Days THEN NoRow ELSE source[u][code][day]])
  /\ UNCHANGED <<source, replaced, changes, all_same, wealth>>

(* The tables are compared in this order.                                   *)
Order == SelectSeq(<<"sday", "trends", "acum">>, LAMBDA t : t \in Tables) \o <<"compared">>
After(t) == Order[1 + (CHOOSE i \in DOMAIN Order : Order[i] = t)]

AllRead == pc = "read" /\ Ahead(day) /\ code > NrCodes

NoData ==
  /\ AllRead /\ count = 0
  /\ IF force = 0 /\ empty_days + 1 > EmptyLimit THEN Return
     ELSE /\ day' = day - 1
          /\ empty_days' = empty_days + (IF force = 0 THEN 1 ELSE 0)
          /\ UNCHANGED <<today, force, updated, pc, mishaps>>
  /\ NewDay /\ UNCHANGED <<source, replaced, changes, wealth>>

SomeData ==
  /\ AllRead /\ count > 0
  /\ pc' = Head(Order) /\ empty_days' = 0
  /\ UNCHANGED <<today, force, updated, day, mishaps, wealthVars>>

Updating(t) == CASE t = "sday" -> "update_sday" [] t = "trends" -> "update_trends"
                 [] t = "acum" -> "update_acum"

(* the_same: all columns of the days, the last one of the others.           *)
Same(t, row, sum) == row # NoRow /\ (IF t = "sday" THEN row = sum ELSE row[2] = sum[2])

SameRow(t) ==
  /\ pc = t /\ Same(t, wealth[t][day], sums[t])
  /\ Goto(After(t)) /\ UNCHANGED wealthVars

(* Faulty variant: nothing is updated when the key is there already.        *)
InsertKeyOrReturn(t) ==
  /\ pc = t /\ ~Same(t, wealth[t][day], sums[t])
  /\ all_same' = FALSE
  /\ IF wealth[t][day] = NoRow
       THEN wealth' = [wealth EXCEPT ![t][day] = Zero] /\ Goto(Updating(t))
       ELSE UNCHANGED wealth /\ Goto(After(t))
  /\ UNCHANGED <<source, replaced, changes, reading>>

(* insert_sday, insert_trends, insert_trends_acum: the key first, whose     *)
(* columns read as zeros.                                                   *)
InsertKey(t) ==
  /\ pc = t /\ ~Same(t, wealth[t][day], sums[t])
  /\ all_same' = FALSE
  /\ \/ wealth' = [wealth EXCEPT ![t][day] = IF @ = NoRow THEN Zero ELSE @] /\ Goto(Updating(t))
     \/ UNCHANGED wealth /\ FailsAt(Updating(t))
  /\ UNCHANGED <<source, replaced, changes, reading>>

(* Then the columns, of a row that is there.                                *)
UpdateRow(t) ==
  /\ pc = Updating(t)
  /\ \/ /\ wealth' = [wealth EXCEPT ![t][day] = IF @ = NoRow THEN @ ELSE sums[t]]
        /\ Goto(After(t))
     \/ UNCHANGED wealth /\ FailsAt(After(t))
  /\ UNCHANGED <<source, replaced, changes, reading, all_same>>

Compared ==
  /\ pc = "compared"
  /\ IF all_same /\ force = 0 THEN Return ELSE DayBefore("read")
  /\ NewDay /\ UNCHANGED <<source, replaced, changes, wealth>>

WealthRestart ==
  /\ Restart /\ NewDay
  /\ replaced' = NoReplaced
  /\ UNCHANGED <<source, changes, wealth>>

WealthRun ==
  \/ WealthBegin \/ WealthCodesFail \/ WealthEnds
  \/ ReadCode \/ ReadFails \/ NoData \/ SomeData \/ Compared
  \/ \E t \in Tables : SameRow(t) \/ InsertKey(t) \/ UpdateRow(t)

WealthWorld ==
  \/ WealthRestart \/ Expire \/ TrendsUpdated \/ WealthNextDay
  \/ \E t \in Tables, c \in Codes, d \in Days : Change(t, c, d)

-----------------------------------------------------------------------------
(* Properties.                                                              *)

WealthTypeOK ==
  /\ \A t \in Tables : \A c \in Codes : \A d \in Days :
       source[t][c][d] \in Rows \cup {NoRow} /\ replaced[t][c][d] \subseteq Rows
  /\ changes \in 0..MaxChanges /\ code \in 1..(NrCodes + 1)
  /\ count \in 0..(code - 1) /\ all_same \in BOOLEAN
  /\ \A t \in Tables : \A d \in Days : wealth[t][d] \in (Nat \X Nat) \cup {NoRow}
  /\ count = 0 => sums = NoSums

(* Nothing will happen but updates.                                         *)
Settled ==
  /\ changes = MaxChanges /\ NothingReplaced /\ today = LastDay
  /\ mishaps = MaxMishaps

SumOf(t, d) ==
  LET total[c \in 0..NrCodes] == IF c = 0 THEN Zero ELSE Plus(total[c - 1], source[t][c][d])
  IN  total[NrCodes]
HasSome(d) == \E t \in Tables, c \in Codes : source[t][c][d] # NoRow

(* The compared columns of a day's rows are the sums of its values.         *)
Summed(d) == HasSome(d) => \A t \in Tables : Same(t, wealth[t][d], SumOf(t, d))

(* One update that comes when nothing changes any more is enough, whatever  *)
(* was read old, in part or not at all, and whatever failed before: today's *)
(* rows are the sums, and so are those of all days of a forced run.         *)
SumsConverge ==
  Settled /\ updated ~>
    \A d \in Days : Ahead(d) /\ (d = today \/ force # 0) => Summed(d)
=============================================================================
