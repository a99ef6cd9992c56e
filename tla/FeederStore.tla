----------------------------- MODULE FeederStore -----------------------------
(***************************************************************************)
(* What of the source's quotes reaches the database: XmlReaderValue::done  *)
(* takes a value that has a time of today, DBfeeder::insert_value writes   *)
(* its code and its row, each a statement that may fail, unless its cache  *)
(* has the value's time already.                                           *)
(* Source: src/feeder/XmlReaderValue.cc, src/ccltor/db/DBfeeder.cc,        *)
(* src/ccltor/db/CcltorDB.cc, src/scripts/db/feeder2.sql.                  *)
(*                                                                         *)
(* A price stands for price, volume and capital.  PREPARE is left out: the *)
(* statement written in full inserts the same row.                         *)
(***************************************************************************)
EXTENDS Integers, FiniteSets

CONSTANTS
  Codes, Prices,
  Times,        \* the minutes a quote may have
  Never,        \* no time: not in the cache, not quoted, or an old quote's date
  MaxDay,       \* bound: days
  MaxQuotes,    \* bound: quotes the source publishes
  MaxFailures   \* bound: statements that fail, feeders restarted

ASSUME StoreAssumption ==
  /\ Times \subseteq Nat /\ Never \notin Times
  /\ MaxDay \in Nat \ {0} /\ {MaxQuotes, MaxFailures} \subseteq Nat

VARIABLES
  today, page,     \* the source: per code the last quote's day, time and price
  feed,            \* values the running feed has still to store, as read
  statement,       \* the statement insert_value is at, of the value current
  current,
  cache,           \* values_cache: the time last stored of each code
  ids, rows,       \* feeder_value_ids; feeder_value_data: key |-> price
  quotes, failures

storeBounds == <<quotes, failures>>
storeVars == <<today, page, feed, statement, current, cache, ids, rows, storeBounds>>

Quote(d, t, p) == [day |-> d, time |-> t, price |-> p]
Value(c) == [code |-> c, time |-> page[c].time, price |-> page[c].price,
             day |-> page[c].day]

(* A row's date is the server's when it is inserted.                        *)
Key(v) == <<v.code, today, v.time>>

(* The page shows the time of a quote of today, and the date of an older.   *)
Shown(c) == page[c].day = today

StoreInit ==
  /\ today = 1
  /\ page \in [Codes -> {Quote(0, t, p) : t \in Times, p \in Prices}]
  /\ feed = {} /\ statement = "idle" /\ current = Never
  /\ cache = [c \in Codes |-> Never] /\ ids = {} /\ rows = <<>>
  /\ quotes = 0 /\ failures = 0

-----------------------------------------------------------------------------
(* The source.  A day's quotes come in the order of their times, some of    *)
(* them in the same minute.                                                 *)

Publish(c, t, p) ==
  /\ quotes < MaxQuotes /\ quotes' = quotes + 1
  /\ Shown(c) => t >= page[c].time
  /\ page' = [page EXCEPT ![c] = Quote(today, t, p)]
  /\ UNCHANGED <<today, feed, statement, current, cache, ids, rows, failures>>

NextDay ==
  /\ today < MaxDay
  /\ today' = today + 1
  /\ UNCHANGED <<page, feed, statement, current, cache, ids, rows, storeBounds>>

-----------------------------------------------------------------------------
(* A feed.                                                                  *)

(* Faulty variant: done keeps the values of other days.                     *)
FetchAll ==
  /\ statement = "idle"
  /\ feed' = {Value(c) : c \in Codes}
  /\ statement' = "next"
  /\ UNCHANGED <<today, page, current, cache, ids, rows, storeBounds>>

(* The page is fetched and parsed; done drops the values without a time.    *)
Fetch ==
  /\ statement = "idle"
  /\ feed' = {Value(c) : c \in {x \in Codes : Shown(x)}}
  /\ statement' = "next"
  /\ UNCHANGED <<today, page, current, cache, ids, rows, storeBounds>>

(* insert_value: a code not in the cache is inserted first, a time that is  *)
(* there is not.                                                            *)
NextValue(v) ==
  /\ statement = "next" /\ v \in feed
  /\ feed' = feed \ {v} /\ current' = v
  /\ statement' = IF cache[v.code] = Never THEN "id"
           ELSE IF cache[v.code] = v.time THEN "next" ELSE "row"
  /\ UNCHANGED <<today, page, cache, ids, rows, storeBounds>>

(* A statement may fail: the connection, the server.                        *)
MayFail ==
  \/ failures' = failures
  \/ failures < MaxFailures /\ failures' = failures + 1

InsertId ==
  /\ statement = "id" /\ statement' = "row" /\ MayFail
  /\ ids' = IF failures' = failures THEN ids \cup {current.code} ELSE ids
  /\ UNCHANGED <<today, page, feed, current, cache, rows, quotes>>

(* Whether the row is inserted: the key is new and refers to a code.        *)
Inserts == failures' = failures /\ Key(current) \notin DOMAIN rows /\ current.code \in ids

(* Faulty variant: the cache is set before the statement is executed.       *)
InsertRowCached ==
  /\ statement = "row" /\ statement' = "next" /\ MayFail
  /\ rows' = IF Inserts
             THEN [k \in DOMAIN rows \cup {Key(current)} |->
                     IF k = Key(current) THEN current.price ELSE rows[k]]
             ELSE rows
  /\ cache' = [cache EXCEPT ![current.code] = current.time]
  /\ UNCHANGED <<today, page, feed, current, ids, quotes>>

InsertRow ==
  /\ statement = "row" /\ statement' = "next" /\ MayFail
  /\ rows' = IF Inserts
             THEN [k \in DOMAIN rows \cup {Key(current)} |->
                     IF k = Key(current) THEN current.price ELSE rows[k]]
             ELSE rows
  /\ cache' = IF Inserts THEN [cache EXCEPT ![current.code] = current.time] ELSE cache
  /\ UNCHANGED <<today, page, feed, current, ids, quotes>>

FeedStored ==
  /\ statement = "next" /\ feed = {} /\ statement' = "idle"
  /\ UNCHANGED <<today, page, feed, current, cache, ids, rows, storeBounds>>

(* The feeder dies, at any statement, and is started again.                 *)
Restart ==
  /\ failures < MaxFailures /\ failures' = failures + 1
  /\ cache' = [c \in Codes |-> Never] /\ feed' = {} /\ statement' = "idle"
  /\ UNCHANGED <<today, page, current, ids, rows, quotes>>

Step == Fetch \/ (\E v \in feed : NextValue(v)) \/ InsertId \/ InsertRow \/ FeedStored

StoreNext ==
  \/ Step \/ NextDay \/ Restart
  \/ \E c \in Codes, t \in Times, p \in Prices : Publish(c, t, p)

StoreSpec == StoreInit /\ [][StoreNext]_storeVars
StoreFairSpec == StoreSpec /\ WF_storeVars(Step)

-----------------------------------------------------------------------------
(* Properties.                                                              *)

ValueType == [code : Codes, time : Times, price : Prices, day : 1..MaxDay]

StoreTypeOK ==
  /\ today \in 1..MaxDay
  /\ page \in [Codes -> [day : 0..MaxDay, time : Times, price : Prices]]
  /\ feed \subseteq ValueType /\ current \in ValueType \cup {Never}
  /\ statement \in {"idle", "next", "id", "row"}
  /\ statement \in {"id", "row"} => current \in ValueType
  /\ cache \in [Codes -> Times \cup {Never}] /\ ids \subseteq Codes
  /\ DOMAIN rows \subseteq Codes \X (1..MaxDay) \X Times
  /\ \A k \in DOMAIN rows : rows[k] \in Prices
  /\ quotes \in 0..MaxQuotes /\ failures \in 0..MaxFailures

(* What the cache keeps from being inserted was inserted: a statement that  *)
(* failed is tried again at the next feed.                                  *)
CacheIsRecorded ==
  \A c \in Codes : cache[c] # Never => \E d \in 1..today : <<c, d, cache[c]>> \in DOMAIN rows

(* A row holds a price the source showed that day at that time, for good.   *)
RowsStay == [][\A k \in DOMAIN rows : k \in DOMAIN rows' /\ rows'[k] = rows[k]]_storeVars

Superseded(c, q) == page[c] # q \/ today # q.day
Stored(c, q) == <<c, q.day, q.time>> \in DOMAIN rows
OtherDays(c, q) == \E d \in 1..(q.day - 1) : <<c, d, q.time>> \in DOMAIN rows

(* A quote that stays on the page while feeds go on is stored, though       *)
(* statements fail and the feeder is restarted, unless another day has a row *)
(* of its time.                                                             *)
QuotesAreStored ==
  \A c \in Codes, d \in 1..MaxDay, t \in Times, p \in Prices :
    LET q == Quote(d, t, p)
    IN (page[c] = q /\ today = d)
         ~> (Superseded(c, q) \/ Stored(c, q) \/ OtherDays(c, q))

=============================================================================
