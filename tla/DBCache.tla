------------------------------- MODULE DBCache -------------------------------
(***************************************************************************)
(* The cache the cruncher's plugins share, in front of one row of          *)
(* statistics_of_day or trends (one value, one day).  One plugin computes  *)
(* the row and inserts it (statistics__insert_day, dbtrends__insert); the  *)
(* plugins downstream read its columns (statistics__get_day, dbtrends__get)*)
(* Source: src/ccltor/db/DBCache.cc, DBstatistics.cc, DBtrends.cc, and for *)
(* when the writer looks at the row src/cruncher/plugins/statistics/       *)
(* Statistics.cc.                                                          *)
(*                                                                         *)
(* The row is one that the writer's run comes to.  The statistics' run     *)
(* does nothing for a code whose newest quote is the one of its last run;  *)
(* with a newer one it begins at that quote's day, whose row counts one    *)
(* quote more, so that it goes on to the row of the day before, this one.  *)
(* The trends' run looks at the row of the recent day each time.           *)
(*                                                                         *)
(* Time is kept as ages, so the state is finite: an entry has the ticks it *)
(* has left to live, a value the ticks since the row last held it.         *)
(***************************************************************************)
EXTENDS Integers, FiniteSets

CONSTANTS
  Column,       \* the columns of the row
  Value,        \* what a column may hold
  Zero,         \* what strtod makes of a NULL column
  Writer,       \* the plugin that owns the table
  Reader,       \* the plugins that read it
  Ttl,          \* ticks an entry lives (300 s)
  MaxHold,      \* bound: ticks a thread spends between reading and storing
  Stamped,      \* the writer keeps last_stamps (the statistics; not the trends)
  MaxChanges,   \* bound: times the computed data change
  MaxFailures,  \* bound: statements that fail
  MaxCrashes    \* bound: process restarts

Thread == Reader \cup {Writer}
Row == [Column -> Value \cup {Zero}]

CONSTANTS Absent, NoEntry, None    \* no row; no entry; no column

ASSUME DBCacheAssumption ==
  /\ Writer \notin Reader /\ Zero \notin Value
  /\ Absent \notin Row /\ Column # {} /\ None \notin Column
  /\ Ttl \in Nat \ {0} /\ MaxHold \in Nat /\ Stamped \in BOOLEAN
  /\ {MaxChanges, MaxFailures, MaxCrashes} \subseteq Nat

VARIABLES
  db,         \* the row in the data base, or Absent
  cache,      \* per column: the entry under the get function's key
  pc, column, value,  \* each thread: its place, the column it gets, the answer
  left,       \* the columns the writer has still to compare
  data,       \* the row the writer inserts, or Absent between inserts
  source,     \* the row the feeds imply now
  newer,      \* the newest quote is not the one of last_stamps
  age,        \* per column and value: ticks since the row last held it
  held,       \* per thread: ticks since it read the data base
  changes, failures, crashes

counters == <<changes, failures, crashes>>
feeds == <<source, newer>>
vars == <<db, cache, pc, column, value, left, data, feeds, age, held,
          counters>>

TooOld == Ttl + MaxHold + 1    \* ages saturate here
Entry == [data : Value \cup {Zero}, life : 0..Ttl]
(* valid also asks that expires be less than 50000 s ahead: only a clock    *)
(* set back makes it more than Ttl ahead, and here time only goes on.       *)
Valid(e) == e # NoEntry /\ e.life > 0

PC == {"idle", "lookup", "read", "store", "answer", "none",
       "compare", "insert", "update", "fill", "skipped", "done"}

Goto(t, label) == pc' = [pc EXCEPT ![t] = label]

(* A thread's locals end with the call.                                     *)
Forget(t) ==
  column' = [column EXCEPT ![t] = None] /\ value' = [value EXCEPT ![t] = Zero]

Init ==
  /\ db = Absent
  /\ cache = [c \in Column |-> NoEntry]
  /\ pc = [t \in Thread |-> "idle"]
  /\ column = [t \in Thread |-> None]
  /\ value = [t \in Thread |-> Zero]
  /\ left = {}
  /\ source \in [Column -> Value] /\ newer = TRUE /\ data = Absent
  /\ age = [c \in Column |-> [v \in Value \cup {Zero} |-> TooOld]]
  /\ held = [t \in Thread |-> 0]
  /\ changes = 0 /\ failures = 0 /\ crashes = 0

(* The row becomes r: values it no longer holds start to age.               *)
SetRow(r) ==
  /\ db' = r
  /\ age' = [c \in Column |-> [age[c] EXCEPT ![r[c]] = 0]]

-----------------------------------------------------------------------------
(* statistics__get_day / dbtrends__get, by any thread.                      *)

ReaderGets(t, c) ==
  /\ t \in Reader /\ pc[t] = "idle"
  /\ column' = [column EXCEPT ![t] = c]
  /\ Goto(t, "lookup")
  /\ UNCHANGED <<db, cache, value, left, data, feeds, age, held, counters>>

(* Faulty variant: a hit renews the entry, so one asked for often never     *)
(* expires.                                                                 *)
HitRenews(t) ==
  /\ pc[t] = "lookup" /\ Valid(cache[column[t]])
  /\ value' = [value EXCEPT ![t] = cache[column[t]].data]
  /\ cache' = [cache EXCEPT ![column[t]].life = Ttl]
  /\ Goto(t, "answer")
  /\ UNCHANGED <<db, column, left, data, feeds, age, held, counters>>

Hit(t) ==
  /\ pc[t] = "lookup" /\ Valid(cache[column[t]])
  /\ value' = [value EXCEPT ![t] = cache[column[t]].data]
  /\ Goto(t, "answer")
  /\ UNCHANGED <<db, cache, column, left, data, feeds, age, held, counters>>

(* An expired entry is erased on the way.                                   *)
Miss(t) ==
  /\ pc[t] = "lookup" /\ ~Valid(cache[column[t]])
  /\ cache' = [cache EXCEPT ![column[t]] = NoEntry]
  /\ Goto(t, "read")
  /\ UNCHANGED <<db, column, value, left, data, feeds, age, held, counters>>

ReadRow(t) ==
  /\ pc[t] = "read"
  /\ IF db = Absent
       THEN Goto(t, "none") /\ UNCHANGED value
       ELSE Goto(t, "store") /\ value' = [value EXCEPT ![t] = db[column[t]]]
  /\ UNCHANGED <<db, cache, column, left, data, feeds, age, held, counters>>

(* The query fails: exec_sql returned NULL, the caller sees no row.         *)
ReadFails(t) ==
  /\ pc[t] = "read" /\ failures < MaxFailures
  /\ failures' = failures + 1
  /\ Goto(t, "none")
  /\ UNCHANGED <<db, cache, column, value, left, data, feeds, age, held,
                 changes, crashes>>

(* Faulty variant: an entry is given one tick too many.                     *)
StoreLonger(t) ==
  /\ pc[t] = "store"
  /\ cache' = [cache EXCEPT ![column[t]] =
                 IF @ = NoEntry THEN [data |-> value[t], life |-> Ttl + 1] ELSE @]
  /\ held' = [held EXCEPT ![t] = 0]
  /\ Goto(t, "answer")
  /\ UNCHANGED <<db, column, value, left, data, feeds, age, counters>>

(* The lock was given up for the query: another thread may have stored.     *)
Store(t) ==
  /\ pc[t] = "store"
  /\ cache' = [cache EXCEPT ![column[t]] =
                 IF @ = NoEntry THEN [data |-> value[t], life |-> Ttl] ELSE @]
  /\ held' = [held EXCEPT ![t] = 0]
  /\ Goto(t, "answer")
  /\ UNCHANGED <<db, column, value, left, data, feeds, age, counters>>

ReaderReturns(t) ==
  /\ t \in Reader /\ pc[t] \in {"answer", "none"}
  /\ Goto(t, "idle") /\ Forget(t)
  /\ UNCHANGED <<db, cache, left, data, feeds, age, held, counters>>

-----------------------------------------------------------------------------
(* statistics__insert_day / dbtrends__insert, by the writer.                *)

(* The stamp is kept at the end of the run, as it was read before it began. *)
Begin ==
  /\ pc[Writer] = "idle" /\ newer
  /\ newer' = ~Stamped
  /\ data' = source /\ left' = Column
  /\ Goto(Writer, "compare")
  /\ UNCHANGED <<db, cache, column, value, source, age, held, counters>>

CompareNext(c) ==
  /\ pc[Writer] = "compare" /\ c \in left
  /\ column' = [column EXCEPT ![Writer] = c]
  /\ Goto(Writer, "lookup")
  /\ UNCHANGED <<db, cache, value, left, data, feeds, age, held, counters>>

ComparedSame ==
  /\ pc[Writer] = "answer" /\ value[Writer] = data[column[Writer]]
  /\ left' = left \ {column[Writer]}
  /\ Goto(Writer, "compare") /\ Forget(Writer)
  /\ UNCHANGED <<db, cache, data, feeds, age, held, counters>>

ComparedOther ==
  /\ \/ pc[Writer] = "none"
     \/ pc[Writer] = "answer" /\ value[Writer] # data[column[Writer]]
  /\ Goto(Writer, "insert") /\ Forget(Writer)
  /\ left' = {}
  /\ UNCHANGED <<db, cache, data, feeds, age, held, counters>>

(* All columns were found the same: return 0, "same data, returning ...".   *)
Skip ==
  /\ pc[Writer] = "compare" /\ left = {}
  /\ Goto(Writer, "skipped")
  /\ UNCHANGED <<db, cache, column, value, left, data, feeds, age, held,
                 counters>>

(* INSERT of the bare key: fails on a row that is there, and that failure   *)
(* is not looked at.  A new row is visible with NULL columns.               *)
InsertKey ==
  /\ pc[Writer] = "insert"
  /\ IF db = Absent THEN SetRow([c \in Column |-> Zero]) ELSE UNCHANGED <<db, age>>
  /\ Goto(Writer, "update")
  /\ UNCHANGED <<cache, column, value, left, data, feeds, held, counters>>

Update ==
  /\ pc[Writer] = "update"
  /\ IF db = Absent THEN UNCHANGED <<db, age>> ELSE SetRow(data)
  /\ Goto(Writer, "fill")
  /\ UNCHANGED <<cache, column, value, left, data, feeds, held, counters>>

(* Either statement may fail; the insert goes on all the same.              *)
StatementFails ==
  /\ pc[Writer] \in {"insert", "update"} /\ failures < MaxFailures
  /\ failures' = failures + 1
  /\ Goto(Writer, IF pc[Writer] = "insert" THEN "update" ELSE "fill")
  /\ UNCHANGED <<db, cache, column, value, left, data, feeds, age, held,
                 changes, crashes>>

(* The new data are then stored too, but under keys made of the insert      *)
(* function's own name (__FUNCTION__), which no get looks up: they change   *)
(* no answer and are left out.                                              *)
Fill ==
  /\ pc[Writer] = "fill"
  /\ Goto(Writer, "done")
  /\ UNCHANGED <<db, cache, column, value, left, data, feeds, age, held, counters>>

(* Faulty variant: the stamp that is kept is read when the run has ended.   *)
WriterReturnsStamped ==
  /\ pc[Writer] \in {"skipped", "done"}
  /\ newer' = (newer /\ ~Stamped)
  /\ Goto(Writer, "idle") /\ Forget(Writer)
  /\ data' = Absent
  /\ UNCHANGED <<db, cache, left, source, age, held, counters>>

WriterReturns ==
  /\ pc[Writer] \in {"skipped", "done"}
  /\ Goto(Writer, "idle") /\ Forget(Writer)
  /\ data' = Absent
  /\ UNCHANGED <<db, cache, left, feeds, age, held, counters>>

-----------------------------------------------------------------------------
(* DBCache::drain, by the manager when its scan found every plugin waiting: *)
(* the scan is not atomic, so a thread may be anywhere by now.              *)
Drain ==
  /\ cache' = [c \in Column |-> IF Valid(cache[c]) THEN cache[c] ELSE NoEntry]
  /\ UNCHANGED <<db, pc, column, value, left, data, feeds, age, held, counters>>

(* Time passes.                                                             *)
Older(e) == IF Valid(e) THEN [e EXCEPT !.life = @ - 1] ELSE e
Current(c, v) == db # Absent /\ db[c] = v
Tick ==
  /\ \A t \in Thread : pc[t] = "store" => held[t] < MaxHold
  /\ cache' = [c \in Column |-> Older(cache[c])]
  /\ age' = [c \in Column |-> [v \in Value \cup {Zero} |->
               IF Current(c, v) THEN 0
               ELSE IF age[c][v] < TooOld THEN age[c][v] + 1 ELSE TooOld]]
  /\ held' = [t \in Thread |-> IF pc[t] = "store" THEN held[t] + 1 ELSE held[t]]
  /\ UNCHANGED <<db, pc, column, value, left, data, feeds, counters>>

(* A quote changes what the row should hold.  It is the newest one or not:  *)
(* the stamp is the newest price's, and late quotes and volumes are stored  *)
(* too.                                                                     *)
SourceChanges ==
  /\ changes < MaxChanges
  /\ changes' = changes + 1
  /\ source' \in [Column -> Value] /\ source' # source
  /\ newer' \in {newer, TRUE}
  /\ UNCHANGED <<db, cache, pc, column, value, left, data, age, held,
                 failures, crashes>>

(* A newer quote, of a day that the row does not sum up.                    *)
NewerQuote ==
  /\ newer' = TRUE
  /\ UNCHANGED <<db, cache, pc, column, value, left, data, source, age, held, counters>>

(* The process is killed and started again: the cache and the stamps are    *)
(* gone.                                                                    *)
Crash ==
  /\ crashes < MaxCrashes
  /\ crashes' = crashes + 1
  /\ newer' = TRUE
  /\ cache' = [c \in Column |-> NoEntry]
  /\ pc' = [t \in Thread |-> "idle"] /\ left' = {} /\ data' = Absent
  /\ column' = [t \in Thread |-> None] /\ value' = [t \in Thread |-> Zero]
  /\ held' = [t \in Thread |-> 0]
  /\ UNCHANGED <<db, source, age, changes, failures>>

-----------------------------------------------------------------------------
Get(t) == Hit(t) \/ Miss(t) \/ ReadRow(t) \/ Store(t)

ReaderStep(t) == Get(t) \/ ReaderReturns(t)

WriterStep ==
  \/ Get(Writer) \/ Begin \/ ComparedSame \/ ComparedOther \/ Skip \/ InsertKey
  \/ Update \/ Fill \/ WriterReturns
  \/ \E c \in Column : CompareNext(c)

Next ==
  \/ WriterStep \/ StatementFails
  \/ \E t \in Thread : ReadFails(t)
  \/ \E t \in Reader : ReaderStep(t) \/ \E c \in Column : ReaderGets(t, c)
  \/ Drain \/ Tick \/ SourceChanges \/ NewerQuote \/ Crash

Spec == Init /\ [][Next]_vars

(* The writer is woken in the end when there is a newer quote (each fetch   *)
(* of a feed is announced), its thread and every thread that has begun a    *)
(* get go on, and time passes.  That a newer quote comes is not assumed.    *)
Fairness ==
  /\ WF_vars(WriterStep) /\ WF_vars(Tick)
  /\ \A t \in Reader : WF_vars(ReaderStep(t))

FairSpec == Spec /\ Fairness

-----------------------------------------------------------------------------
(* Properties.                                                              *)

TypeOK ==
  /\ db \in Row \cup {Absent}
  /\ cache \in [Column -> Entry \cup {NoEntry}]
  /\ pc \in [Thread -> PC]
  /\ column \in [Thread -> Column \cup {None}] /\ value \in [Thread -> Value \cup {Zero}]
  /\ left \subseteq Column
  /\ data \in [Column -> Value] \cup {Absent} /\ source \in [Column -> Value]
  /\ newer \in BOOLEAN
  /\ age \in [Column -> [Value \cup {Zero} -> 0..TooOld]]
  /\ held \in [Thread -> 0..MaxHold]
  /\ changes \in 0..MaxChanges /\ failures \in 0..MaxFailures
  /\ crashes \in 0..MaxCrashes

(* The cache lies by at most its lifetime: what an entry says was in the    *)
(* row no more than Ttl ticks ago, plus the time the thread that stored it  *)
(* took between its query and its store.                                    *)
StaleAtMostTtl ==
  \A c \in Column :
    Valid(cache[c]) =>
      age[c][cache[c].data] <= (Ttl - cache[c].life) + MaxHold

(* A thread about to store answers with a value the row held not longer     *)
(* than MaxHold ago, whatever was inserted meanwhile.                       *)
ReadIsRecent ==
  \A t \in Thread :
    pc[t] = "store" => age[column[t]][value[t]] <= held[t]

(* What makes the two inductive: a value in the row has age 0, a thread in  *)
(* a get has a column, and the writer in an insert has its data.            *)
RowIsCurrent == db # Absent => \A c \in Column : age[c][db[c]] = 0

CallsHaveArguments ==
  /\ \A t \in Thread : pc[t] \in {"lookup", "read", "store"} => column[t] \in Column
  /\ pc[Writer] # "idle" => data \in [Column -> Value]

IInv == TypeOK /\ CallsHaveArguments /\ RowIsCurrent /\ ReadIsRecent /\ StaleAtMostTtl

(* The quotes of the row are all in, no statement fails any more, and the   *)
(* row has been as it is for as long as an entry may lie.                   *)
Settled ==
  /\ changes = MaxChanges /\ failures = MaxFailures
  /\ \A c \in Column, v \in Value \cup {Zero} : Current(c, v) \/ age[c][v] = TooOld

(* One newer quote is enough to repair a row that a stale entry, a failed   *)
(* statement, a crash between the INSERT and the UPDATE or a late quote     *)
(* left wrong, once it has settled.  Without one it stays wrong, for the    *)
(* code's stamp is the last one: that is not excluded here.                 *)
RowConverges ==
  (Settled /\ newer) ~> (db = source)
=============================================================================
