# A model of the stock market calculator

TLA+ modules, TLC runs and TLAPS proofs for the programs of this repository: the
daemons that fetch quotes (`feeder`), start commands (`scheduler`) and calculate
statistics (`cruncher` with its plugins), the messages between them, and the
tables they fill in one PostgreSQL database. Paths below are those of the
repository; `PROJECT.json` maps every definition to the lines it models.

## 1. Inventory

```
   web page --wget|parser--> ccltor_feeder --INSERT--> feeder_value_data
                                 |  ^                        |
                    NEWFEED (UDP)|  |registration            v  (queries)
                                 v  |            +--> Statistics --> statistics_of_{day,month,year}
   ccltor_control --events/STOP--> ccltor_cruncher       | STATISTICS_UPDATED
         |                           (manager thread,    v
         +--> ccltor_scheduler        a thread per     Trends --> trends, trends_acum
                 | fork/exec          plugin)            | TRENDS_UPDATED
                 v                                       v
              commands                     Wealth, Interpolator, Regression
   ccltor_output: reads the tables, prints charts and tables
```

| Component (source) | State it keeps | Operations | What is hard | What makes it correct | Module |
|---|---|---|---|---|---|
| Cruncher manager and plugin threads (`cruncher/CruncherManager.cc`, `run`/`msg` of the plugins) | map of plugins, observers of each event, per plugin a mutex, condition, counter of updates, RUNNING/WAITING; shots left | load, unpark, observe, send, dispatch, wait, run, idle scan, register, STOP | threads, `manager_mtx` held over the plugins' locks, scan without locks | no update is lost; none is acted upon before init is over; each is taken up; shots end the process | `Crunchers` |
| Statistics: filling its tables (`plugins/statistics/Statistics.cc`) | `last_stamps`, tables of days, months, years | recent day, days back, months back, years back | quotes arrive while it reads; failures and crashes leave holes that the early end never looks at | no gaps; summaries agree with days; a forced run repairs | `Backfill` |
| Trends: filling its tables (`plugins/trends/Trends.cc`) | tables, a window of the next days and a queue of empty days | calculate, calculate_acum | reads the table the statistics are filling; window and queue | window aligned with the day; tables are filled; runs end | `Trends` |
| Cache of the database (`ccltor/db/DBCache.cc`), insertion of a row (`DBstatistics.cc`, `DBtrends.cc`) | entries that live 300 s | get, compare, insert, fill, drain | lock released between lookup and store; INSERT then UPDATE; results not looked at | staleness bounded; the row gets the data in the end | `DBCache` |
| Feeder: when it feeds (`feeder/Feeder.cc` `run`) | `last_feed`, the clock | wait, feed | days off, hours, delay; wakes for anything | a due feed is started; feeding never stops | `Feeder` |
| Feeder and scheduler: children (`Feeder.cc` `feed`, both `sig_chld`) | children, pending signal | fork, exit, wait in main and in the handler | merged signals, a handler that may block | every exit accounted for; handlers do not block; feeds end | `Children`, in `Feed` |
| Reader of the parsers' XML (`utils/XmlReader.cc`, `feeder/XmlReaderData.cc`, `XmlReaderValue.cc`) | text that is not finished, its state, a reader for the tree it is in | read a piece, match a tag, a value, a tree, done | tags, values and labels cut anywhere; elements nobody knows; a parser that dies | the values given are those of the text read, once each, in order | `XmlReader`, in `Feed` |
| Feeder: storing quotes (`DBfeeder.cc`, `XmlReaderValue.cc`) | `values_cache`, tables `feeder_value_*` | fetch, insert code, insert row | statements fail, restarts, a cache without dates | nothing is skipped that was never stored | `FeederStore` |
| Notification of feeds (`CcltorObservers.cc`, the manager's poll) | registrations with their end | add, notify, register when silent | UDP loses, delays, duplicates; both sides restart | only the registered are told; all are told in the end | `Notification` |
| Messages (`ccltor/ic`, handlers, `control`) | datagrams | encode, decode, handle | two places decide which events have a sub event; casts | each message has the one effect its sender meant | `ICMessages` implements `Bus` |
| Scheduler (`scheduler/Scheduler.cc`) | `next`, `next_time`, `delay`, `last_stamps` | update, poll, exec | late wakes, clock set back, masks, a loop variable that is not reset | once only, in time, not on masked days, never twice in a pass | `Scheduler` |
| Wealth (`plugins/wealth/Wealth.cc`, `DBwealth.cc`) | three tables of the market | sum a day's rows of all values, compare, insert key, update columns, day before | columns from the cache, each of its own time; queries and statements that fail; a comparison of the last column only | the compared columns are the sums in the end | `Wealth`, in `BackEnd` |
| Interpolator, regression (`plugins/interpolator`, `plugins/regression`, `DBinterpolator.cc`) | equations and results; a window or a scan of days, a queue of empty days | fill, solve, store; query, scan, fit, label | the day of a result is found by counting back, while the statistics write | a result is of the day it is stored under and leaves no day out; a run leaves all results it had data for | `Fitting`, in `BackEnd` |
| Output (`output/Output.cc`, `Chart.cc`, `Table.cc`) | rows: days, times, a column of each series | query, merge, print | series with times and without, with several data of a day, without data; two cursors over them | no datum is lost or comes under another day; rows in order, once each | `Output`, in `BackEnd` |
| Matrices, equations (`ccltor/calculus`) | none | floating point | - | - | not modelled |
| Configuration, log, conversions, scripts | none | pure I/O | - | - | not modelled |

How they interact: the processes share the database and UDP messages only.
Inside the cruncher the plugins share the manager (observers, dispatch), the
cache and the database. `Crunchers` is about *when* a plugin runs, `Backfill`,
`Trends` and `BackEnd` about what its runs leave in the tables, `DBCache` about what a read
or an insertion in such a run may return, `Notification` and `ICMessages` about
how the event that starts it all arrives; `Feed` and `FeederStore` are the way of a
quote from the parser to the database. The output is a process of its own that only queries.

The behaviours that are hard to test are listed, at their lines, under
`hazards` in `PROJECT.json`, with the properties that watch them.

## 2. The modules and the code

Every module takes its sizes as CONSTANTS and keeps the names of the source. A
definition that is called a faulty variant in its comment (`TakeUntested`,
`MsgNoBroadcast`, ...) is not part of any specification: it is what a plausible
error would make of the definition after it, and `mutants` of `PROJECT.json`
tells which property finds it.

**Crunchers.** `pc` says where each thread is; a plugin goes
`parked -> observe -> enter -> check -> cond -> ... -> read -> write -> send ->
dispatch -> enter`. `Enter`/`Sleep`/`Relock`/`Take` are the loop around
`pthread_cond_wait`, with spurious wakes; `Take` sets the counter to 0 in the
same critical section. `Send`/`ReceiveEvent` take `manager_mtx` and `Msg` takes
a plugin's mutex while it is held, one observer at a time. `Load` is the gate:
the main thread locks a plugin's mutex before it creates the thread and
`Unpark` opens it after all are loaded. `Timeout`, `ScanWaiting`, `ScanRunning`, `AllDone*`
are the 500 s of silence, the scan of `get_state` without a lock, and the shots.
Data are generations: `version[e]` is in the tables announced by e,
`announced[e]` was there at the last dispatch, `seen[c]` was read by c.

**Backfill.** One code. A row of a day is the pair of the numbers of quotes its
prices and its volumes were calculated from, which the plugin reads with two
queries (`ReadPrices`, `ReadVolumes`); a row of a month is the function of the
days' rows it was summed from, a row of a year that of the months'. `Begin` is
the search of the recent day and the test of `last_stamps`; `SameDay`,
`EndDays`, `PassMonth`, `EndMonths`, ... are the loops' ends and early returns.
`Fails` lets a read or a statement of days, months or years fail, `Crash` starts the process again,
forced (`force_until`) or not.

**Trends.** The trends plugin's two loops step by step beside the statistics'
loop (`Stat...`), of which a step is a day. Only whether a day has rows is kept;
a row of `trends_acum` is the sequence of the days in its window. `SameDay` and
`InsertDay` are both possible where a row exists: what the comparison finds
depends on the data and on the cache. A run of either plugin gives up after too many empty days, so the
properties are about the days that are `Reached`: from today back to them no stretch of days without data is too long.
Of a forced process only days up to `force_until` count (`Counted`), and the days before it that
nothing has filled are days without data to the window, so the days of a window are to be reached in
the table of the trends, not among the quotes. Statements fail in every place where they are made (`StatementFails`):
a query that fails reads as a day without data, of an insertion nothing is left, or a row with its key only (`bare`, `Bare`), and
the run goes on, since nothing looks at what `exec_sql` returned (`DBtrends.cc:17`, `Trends.cc:82`, `:202`). `Restart` ends the
process anywhere and starts another, forced or not, on the tables it finds. `lagged` tells whether it found them out of step
(`TablesInStep`), or its statistics had more than the last day to fill since; `failed`, whether a statement of this process failed.

**DBCache.** One row and its columns; the writer (statistics or trends) and its
readers. `Hit`, `Miss`, `ReadRow`, `Store` are the steps of a get, with the lock
released between the lookup and the store; `CompareNext`, `ComparedSame`,
`InsertKey`, `Update`, `Fill` those of an insertion. Ages are counted instead of
a clock: how long ago a value was in the row, how long an entry has to live.
When the writer looks at the row again is part of it: with `Stamped` it does so (`Begin`) only for a quote that is newer than
the stamp of its last run (`Statistics.cc:285`), which `NewerQuote` brings. Such a run begins at the newest quote's day, whose row
is not the same any more, so it does not end there (`:114`) and comes to this row, which is that day's or the next back.

**Feeder.** The loop of `run` in seconds of a week. **Children.** The children as
counts, one pending signal, a handler that waits once; `feeds` says whether the
process is the feeder or the scheduler, whose main never waits.

**Feed** composes `Children` with the parser's pipe and **XmlReader**: `Open` is
the fork of the parser, `ReadPiece` one turn of the feeder's read loop,
`EndOfFile` and `ReadError` its two ends. `XmlReader` is the incremental reader as a function of a
reader and a piece: `Look` is the search of the next `<`, `InNull`, `InEnd`,
`InStart`, `InValue`, `InTree` the branches of `XmlReader::read`, `Cut` and `BackToTag` the odd
states of a label that is cut off, `Shrink` the erasure at the end of a call. There are two readers, as in the code:
that of a value (`ReadValue`), whose turns are `ValueBody`, and that of the data (`Read`), which has trees only and gives
the rest to the value's reader (`InTree`). The loop of a read is a recursive function of the number of its turns; there are no more of
them than letters in the one and than twice that in the other, which `ReadsEnd` proves. In the run letters are TLA+
strings of one letter (`Letters`), labels short ones with common beginnings. **WholeReader** is the promise: the values
given so far are those that end in the text read so far. `ReadsWhole` says that `Feed` implements it.

**DaysBack** is the frame of a run of the last three plugins (begin, the day before,
return, a statement that fails, a restart), **Wealth** and **Fitting** fill it.
In `Wealth` a row is a pair of numbers, the last column being the one that is
compared; `Answers` is what the cache may return for it, each column of its own time; `InsertKey` and
`UpdateRow` are the two statements. In `Fitting` a result is the sequence of the days it was made from; the
interpolator's `TakeDay`, `PassDay`, `SkipDay`, `Solve` are the window that moves back and the queue of days
it passed over, the regression's `Query`, `Fit`, `PassLabel`, `Label` its
queries column by column, its scan back and its labels. A read that fails is a day without a row to the interpolator (`TailFails`)
and an empty column to the regression (`QueryFails`); without codes nothing is done (`CodesFail`). **BackEnd** loads one of the three,
since none reads in the process what another of them writes, or the output program instead. **Output** queries
series one after the other (`GetData`: the first is the first column as it is, one of the others is merged with the
rows unless it has no data) and merges each with the rows it has: `MergeOld`, `MergeNew`,
`MergeUntimed`, `MergeSame` are the branches of a turn of `merge_data`, `MergeStep` its macro; a datum is known
by its place in its series. `ReadsOutOfBounds` and the end of `ShowChart` that aborts are the two ways
in which it can fail.

**FeederStore.** The page, the rows as a function of (code, day, time), the cache by time alone.
**Notification.** A feeder and managers over a set of datagrams with loss,
delay and duplication. **ICMessages.** Messages as words of a small width;
`Encode`/`Create` are the senders' and the receivers' sides, and each handler is
an action; of a manager's, `fed` tells which events its plugins were given. **Bus** is the same system with messages for what they mean: no words, no
decoding, one effect for each message. `ImplementsBus` maps a packet of words to
the message it was made from. **Scheduler.** `Choice` is `update`'s loop with the variable `t`
that keeps its value from one turn to the next; `Tick` and `Adjust` move the
clock forward and back; `rest` is what poll has left.

## 3. The runs

| Run | Bounds | What it shows |
|---|---|---|
| `crunchers` | statistics and trends, either may fail to load, 2 shots, 1 feed, any event or STOP from control once | `NoLostUpdate`, `NoRunWhileLoading`; fair: `UpdatesAreSeen`, `ShotsTerminate` |
| `crunchers_fitting` | with the interpolator | finding: the event it observes is not the one it accepts |
| `backfill` | 6 days, months of 2, years of 2 months, 1 empty day passed over, 3 quotes, a crash, a failure, forced from day 2 or not | `NoGaps`, `SummariesAgree`, `ForcedRepairs` |
| `trends` | 4 days, window of 3, 1 empty day, forced from day 2 or 3 or not, tables filled up to any day at first, 2 failed statements or restarts | `WindowAndQueue`, `FilledInStep` |
| `dbcache` | a column, 2 values, a reader, entries that live 2 ticks, a query of at most 1, 2 changes, a failure, a crash | `StaleAtMostTtl`; fair: `RowConverges` |
| `scheduler` | 9 days of 4 ticks from any weekday, 2 daily commands (one with weekends masked), one once, one repeated; 1 tick late, 1 back | `DailyRuns`, `DueIsExecuted`, `MaskDaysAreSkipped`, `NotTwiceInAPass` |
| `notification` | a manager, 3 restarts, a duplicate, 2 other messages; silence 3, registration 5, feeds every 4 | `OnlyTheRegistered`; fair: `Informed` |
| `ic` | a feeder, a scheduler, a manager, a control; words of 16 values; 3 messages | `ImplementsBus` |
| `feeder_schedule` | weeks of 4 days of 8 minutes of 3 seconds, a day off, a second late at a step | `OnSchedule`; fair: `FeedsForever` |
| `feeder_store` | a code, 2 days, 2 times, 2 prices, 4 quotes, 3 failures or restarts | `CacheIsRecorded`; fair: `QuotesAreStored` |
| `feed` | 4 forks, feeder or scheduler; 4 documents, read in pieces of 1, 2 and 30 letters in any mix | `EveryExitIsCounted`, `WaitFindsAChild`; fair: `FeedsEnd`; `ReadsWhole` |
| `back_end` | days 4 and 5, forced from day 2 or not, 1 empty day, one failed statement or restart; wealth: 2 codes, the table of days, 2 rows that differ in both columns, 2 changes; 1 equation of 2 days, 2 columns; output: up to 3 of 8 series, of days 1 to 3 and times 1 and 2 | `Fitted`, `OfItsDay`, `RowsOfAll`; fair: `SumsConverge` |

Why the bounds are enough. The errors these properties are about need two or
three actors and a few events: an update between a test and a wait needs one
dispatcher and one sleeper; a chain of two plugins has every kind of dispatch
(from main, from a plugin, to a plugin that waits, works or has not observed yet).
A gap in the tables needs a hole and two days on either side;
six days hold three months and two years, so each loop is left by each of its
ends. A window of 3 is filled, runs short and slides over an empty day. A
week and two days of the scheduler pass a weekend from every weekday. An entry of
the cache lives longer than a query takes, as 300 s do. The feeder's days have minutes
before, in and after the hours. Of the documents one has an unknown element with the tags of a value inside, one
values that are refused and tags in a text; pieces of one and two letters cut
every tag at every place, a piece of 30 holds more than a value. With four days, of which any may have rows
already, a window of three days is filled, runs short, and has a gap at either end, and a day, a row or a window is left out by each
statement that fails and each place where the process ends; with two mishaps a restart follows a failure. Of the wealth's tables
that of the days is read through the cache and compared in all its columns: its rows differ in both, so an answer may be old
or mixed of two moments and the comparison sees it. The output's
series have times or none, one or several data of a day, or no data, and every order of three of them is merged. `mutants` shows for each property that the
bounds suffice for it to be violated by an error in the code it is about.

Deadlock is not checked where the model does end: in `backfill`, `back_end` and `ic` (bounds used up),
`scheduler` and `feed` (the bound of time or forks, or the process was stopped).

Fairness. In `crunchers` each thread is scheduled (weak), and a thread that dispatches
gets a mutex that is free again and again (strong: spurious wakes might
otherwise take it for ever); nothing is assumed of other processes. In `dbcache`
the writer's thread runs when it has something to do, so do readers, and time passes. That a newer quote comes is
not assumed: `RowConverges` promises the row its data only if one does, once the row has settled. In `notification` the feeder feeds and reads
values, polls time out, and of infinitely many datagrams some arrive (strong);
no single datagram has to. In `feeder_schedule` and `feed`
the process runs, time passes, and a read returns when there is something to read. Nothing is assumed of the
children, neither that a parser writes nor that it ends: `read` (`Feeder.cc:168`) and `wait` have no timeout. `FeedsEnd` says that
a feed ends or is held up for ever by a child that lives (`Held`), so that nothing else holds it up: no merged signal, no
exit taken by the wrong `wait`. In `feeder_store` feeds go on. In `back_end` the
plugin's thread runs (weak); that it is told of an update is in the property's premise.

## 4. The proofs

For every value of the constants that satisfies the modules' assumptions:

- `CrunchersProofs`: type correctness, `NoLostUpdate`, `NoRunWhileLoading` and
  `IdleMeansCurrent` (when all plugins sleep and nothing is being dispatched,
  each has read what was last announced to it and announced what it made of it)
  for any plugins and events with one producer per table.
  `IInv` joins to these `LockInv` (who dispatches holds `manager_mtx`),
  `GateInv`, `ObserveInv` (a plugin that has not observed has its counter up, which is what
  makes an event before `observe` harmless) and `DataInv` (generations only flow
  downstream). `NoLostUpdate` is not inductive without them: that a dispatch
  reaches a plugin needs it to be in `observers`, and that a read covers the
  announcement needs `announced <= version`.
- `DBCacheProofs`: types and `StaleAtMostTtl` for any columns, values, readers, life and
  bounds. The strengthening is that a value in the row has age 0 and that a
  thread about to store read its value at most `held` ticks ago.
- `BackfillProofs`: types, `NoGaps`, `SummariesAgree` and `ForcedRepairs`, for any length of months and years, any
  number of days and limit of empty ones. `Basics` tells what rows and locals are made of: a day before today has the
  quotes it will ever have, and what a read found of the recent day is what the run began with, or more.
  `Filled` and `ForcedSums` are a run that did not fail: the days from `day` to the recent one are current, and the months
  done so far. `NoGaps` then needs that a run may end early: behind each row no day was left out (`RowsChained`), and the days
  just passed over were empty (`EmptyDays`), so that whoever ends at a row relies on the run that wrote it.
  `SummariesAgree` is the same one and two tables up: a month that is stored is older than its days or the same (`Made`,
  `Older`), a row that is inserted outdates its month and its year (`DayOutdates`, `MonthOutdates`), and of the
  days done so far either all have outdated months or everything is current from one of them on (`DaysDone`),
  which is why the months' loop may end at the first that agrees.
- `TrendsProofs`: types, `WindowAndQueue` and `FilledInStep`, for any number of days, window and
  limit, with statements that fail and restarts in any place. Alone the latter is not inductive: that the front of the window is the
  day needs the days of window and queue to be those from `day_tail` to `day`,
  each in one of the two, in their order back (`Shared`), and the window not to be empty when a row is
  calculated (`Window_Inv`); the lemmas `DownAppend` and `DownTail` are about such sequences.
  These hold whatever fails. `FilledInStep` is of a process none of whose statements failed: it
  follows from what each plugin leaves to do (`Fill_Inv`), which holds from the start of such a process on whatever tables it finds
  (`StartFills`), since what it takes from them is `TablesInStep` or, when forced, nothing. A forced one has each row without values
  before it until it has passed it, and one in step has none (`Bare_Inv`). The statistics lack the last day at most, or the
  days from the one they are at (`Stats_Inv`). A run of the trends that is not forced ends at a row that is there, so it relies on those
  before it: in step, no day linked to one with trends is without them, but for those a run still has before it, and it
  only had them before it when the later one was new and had no accumulated trends (`NoneLeftOut`). The stretch it has just
  passed over is without quotes for all that has trends after it (`Passed_Inv`). Of the accumulated
  trends the same is said of the days of the windows (`RowsLinked`, `RowsReached`): the window that is held is the day's own when it is
  full, or when the days passed over behind it are too many for any before them to be linked (`Acum_Inv`,
  `TooManyBehind`, `WindowIsItsOwn`).
- `BackEndProofs`: types of all that `BackEnd` composes, `OfItsDay`, `Fitted` and `RowsOfAll`. The first three for any number of equations and of days and
  columns in each, any limit, forced or not, whatever fails, wherever the process starts again, and whatever rows the
  statistics add; a day whose own read failed is no longer among those the run knew (`known`). In the interpolator again the window and the queue share out the days
  between the two ends (`Shared`); here also the window's days have rows and the queued ones had none when the run began,
  so that the first days of a full window leave out none that was known (`FrontIsOfItsDay`). In the regression each
  answer has all that was known (`Columns_Inv`), the scan takes what all have, and the
  queue and the rows that are left share out the days back to the first of the window (`Remains`). For `Fitted` a run
  counts the days it has passed (`Gap`: as many as `empty_days` says, so a day it gives up before was not to be reached), has left no day
  behind without its results (`Passed`), and the statements still to be done are those that are missing
  (`Storing`, `Inserting`, `Labelling`). Sorting is told by ranks, the n-th day back being the one with n - 1 after it:
  `LatestFirstIsDown` shows that this is the days' order back, all of them and once.
  `RowsOfAll` is for any number of series of any length. While two are merged (`Merge_Inv`) the rows so far are in order
  and before all that is left (`MergeInOrder`) and hold each datum that was passed (`NothingLost`). If both have times, or
  neither, the rows are exactly the stamps that were passed, in order, and each has the next datum of each side (`StampsMerged`,
  `NextData`); if one has none, its datum of a day is in all rows of the day so far (`OldInAll`, `NewInAll`).
  The rows that are shown say the same of all series up to now (`RowsShown_Inv`); that they still do when another is merged with
  them, which are merged themselves, is `NextOfNext`: the next datum of the next row is the next datum.
- `SchedulerProofs`: types and all four properties, for any commands, length of a day, lateness and
  setting back of the clock. `Choice` is a recursive function of the commands so far; `TurnsExist` shows that there is one, and
  `ChoiceIs` that what the loop leaves, with the variable that it does not reset, is the earliest time of a command that is
  not exhausted. `Planned` says so of `next` and `next_time` as of the time of the last update, and `Passes` that
  what was executed since the clock was read is not due before it is read again: `NotTwiceInAPass`.
  The others are of a process that is punctual: it wakes when the next is due (`InTime`), a daily command has run on each
  of its days between its start and its next time (`Dailies`), and a command with a mask that is kept has its next time planned
  while its masked day is still to be passed over (`Kept`).
- `FeederProofs`, of the feeder's modules, of which only `Feed` and `Children` have variables in common:
  the schedule's types and `OnSchedule`, for any week, hours, delay and lateness: a feed
  is not due for as long as can be told (`NotDueFor`), a second takes one from that (`LagTicks`), and
  each step of the loop has the lag of those since the wait was computed (`Lags`);
  zombies and those reaped by main add up to merged, pending
  and handled signals (`EveryExitIsCounted`); with main not reaping in the
  scheduler this is inductive, and gives `WaitFindsAChild`; a feed takes no step that its children could not
  take without it (`FeedIsChildren`), so both hold of `Feed` too.
  `FeedTypeOK` says that a reader keeps only the end of what it was given, and no more of it than a tag that is cut off or
  the text of a value, whatever the labels, the texts and the pieces are. A turn of the loop keeps the buffer, never goes back
  before the last `<`, and uses letters or is the last (`InLoop`, `Turned`), so the loop ends before its bound: `ReadsEnd`.
  When it has ended the reader is in no odd state, and what it keeps starts at its offset, which is at the end or at a tag that is
  not finished (`AtTag`), or it is in a value (`Kept`). Of the data's reader the same holds (`KeptData`); while
  it is in a tree its own buffer is empty, and that of the value's reader is the end of the text (`InData`).
  `StreamInv` says this of the feed as it goes.
  `PiecesMakeNoDifference` says that the reader is at any moment what a single read of the whole text so far
  would have left, so that what is given to `insert_value`, and all that is still to come, is a matter of the text and
  not of where `read` cut it. The loop over a piece and the one over the piece with the next are followed side by side (`Pair`): the
  turns are the same as long as what they look at lies in the first (`LookJoins`). Where the first loop has to stop, at a tag
  that is cut off, in a value's text or at the end, the second pass starts from what was kept (`Joined`), in a buffer that is the other's
  shifted by what was erased (`Moved`), and turns are the same under such a shift (`Shifts`); by induction over the turns this
  holds of the whole loops (`Resumes`). Three places need more. A piece may end inside a tree: the value's reader must then itself
  make no difference (`ValueJoins`), so this is proved of it first (`ValueResumes`) and then of the data's (`DataResumes`).
  Labels are looked for again in the text that was kept, so no tag may end in it (`Clean`, `Rests`). And a value's reader that is
  done with the last letter of a piece is only found to be so, and to have used nothing, in the next (`Again`).
  Of what is stored, the cached time of a code is that of a row of its
  (`CacheIsRecorded`, inductive with the types), and no row is removed or replaced (`RowsStay`);
  what is left of a registration is what it named less its
  age (`LeftIsAge`), from which `OnlyTheRegistered` follows for each step.
- `ICMessagesProofs`: `ICMessages` implements `Bus` (`Implements`), for any daemons, any
  width of a word and any events. The invariant is that every packet is the
  encoding of a message that its sender may send (`ArrivesAsSent` then says that it decodes to
  itself, but for the event 4 below); with it each handler is the one step of the bus for that message.
  Also: the casts are of an `ICEvent2`; only a STOP stops.

What the constants are assumed to be. Most assumptions only give them their types. Those that say more are of the code:
in `Scheduler` the model's time has at least two days and poll can wait for eight days
(`8 * DayLen <= MaxWait`: 691200 s, and 2147483 s are what an `int` of milliseconds holds), because that is the longest walk over
masked days; in `DaysBack` and `Wealth` there is a day and a row; the series of `Output` are in the order of their days, and have a time for
each or none (`ORDER BY date`, `DBfeeder.cc:125`, `DBstatistics.cc:127`, and one `push_back` a row), but several data of a day
in any order of their times where there are any; `Backfill` needs nothing of its limit of empty days; in `XmlReader` no label has a `<` or a `>`
in it (they are names, `XmlReaderValue.cc:6`), and a value's label is not the data's.

Induction. A set of numbers has a smallest one (`Smallest`, from the well-founded order of finite sets by inclusion), and with it
what holds of 0 and of each successor holds of all (`UpTo`); so the values of recursive functions over the commands,
the turns of a read and the ends of walks over days are within reach. RECURSIVE operators and the fold operators of the library are not.

Only model-checked: every liveness property (`SumsConverge` among them), and of `ReadsWhole`, that `Feed` implements `WholeReader`,
what is not `PiecesMakeNoDifference`: that one read of a text as parsers write it gives the values that were written, each once and in order.
It is of what an input of any length and shape means, an induction over documents.

## 5. Where the code departs from what it says

A finding, with its run: the interpolator and the regression never run
again (`crunchers_fitting`).

Other departures met while modelling. The passing runs' properties are stated
so that they hold of the code, and say so in their comments:

- `CruncherManager.cc:206`: the states are read one after the other without a
  lock; a plugin counted as waiting may have been woken by one that is scanned
  later, and the manager exits ("everything seems to be done", line 216) with
  an update announced and unread. `UpdatesAreSeen` excepts plugins that an exit overtakes.
- `Trends.cc:88`: the trends tables keep holes when the process starts with more
  than a day to fill. The first run does not wait for the statistics (the
  counter starts at 1, line 21): it finds the older days still empty and stops
  after too many; the next run stops at the first day, which it wrote
  itself. `Filled` of `Trends` is what the documentation has it do and does not hold;
  `FilledInStep` excepts processes that lag, unless they are forced.
- `Trends.cc:82`, `:202`: nothing looks at a statement that failed, so the row stays out or as it was, and a run that is not
  forced ends before it for ever; a query that failed is taken for a day without data. A forced process repairs all after its `force_until`.
  `FilledInStep` is of a process whose own statements do not fail.
- `Interpolator.cc:99`: a failed read is a day without data too: the results that are calculated then leave it out. `OfItsDay`
  allows just this. `Regression.cc:91`: a failed query leaves a column empty, and the run ends without results.
- `Feeder.cc:168`: `read` has no timeout; a parser that never ends its output holds the feeder up for ever. `FeedsEnd` names it.
- `Wealth.cc:142` and `:156`: `the_same` is overwritten for each column, so of trends and accumulated trends only the last
  one is compared: a row whose other columns changed is left as it is. `SumsConverge` is of the compared columns.
- `Wealth.cc:165`: a run ends at the first day that is the same; days before it that a crash or a failed
  statement left wrong stay so until a forced run. `:86`: a query that fails counts as a value without data, and the
  sum without it is stored. `SumsConverge` is of today, and of all days when forced.
- `Interpolator.cc:161`: what `lu` returns is not looked at; of a singular matrix the result is not a number,
  which the database refuses, and a row without a result is left. `Regression.cc:127`: the logarithm of a volume of 0
  makes the error not a number, and there is no fit as long as the day is among the data.
- `Feeder.cc:171`: a read error makes the feed a failure although values were stored before: they are not announced.
- `DBinterpolator.cc:147`: the ids of equations are read from column 0, which is the error, and not from 2 (only the output calls it).
- `Output.cc:118`: of a first series without data the last datum is read out of bounds when a second is merged with it.
  `:115`: rows without a time that come before the first with one have none, so there are fewer times than days and the chart's
  `at` (`Chart.cc:33`) throws. `:104`: a later series without data is no column, and those after it move up in the table.
  `RowsOfAll` allows the first two only in these cases, and is of the columns there are.
- `ICMsg.cc:12`: `send_msg` returns nothing, and its callers test what it returned. `CcltorIC.cc:37`: `O_NONBLOCK` is set with
  `F_SETFD`, so the socket blocks. `CruncherManager.cc:225`: `observers` is searched without the mutex while plugins insert.
- `DBfeeder.cc:42`: the cache compares times without dates: the first quote of a
  day with the time of the last one stored (say, of the closing auction) is not
  stored. `QuotesAreStored` excepts it.
- `DBCache.cc:196`: an insertion fills keys that no get uses, so a comparison
  may be with data up to 300 s old and skip an insertion that is due. It is made up for by the next newer quote of the code
  (`RowConverges`), and without one never (`Statistics.cc:285`): an hour in which only other codes have quotes changes nothing.
- `Statistics.cc:114`: after a crash or a failed statement days behind a row
  that is right stay wrong until a forced run (`NoGaps` is of processes that
  neither fail nor crash, `ForcedRepairs` of the repair).
- `Scheduler.cc:28`: a daily command whose time passed while the process
  was late is put off to the next day; `:29`: the walk over masked days ends at the seventh, so a command
  that has all days masked runs every week; `:37`: the mask of a command repeated
  after more than a day is tested for tomorrow and not for its day; `:38`: when two days running are masked and another command is
  executed on the second, the mask is tested from there but the days are added to a time of the first, and the
  command runs on the second. "Mask days are skipped" (`doc/DevelopmentTrack.txt:167`): `MaskDaysAreSkipped` is of the
  commands that are none of these (`MaskIsKept`). `:146`: a wait of more than
  24.8 days overflows an int.
- `ICEvent.cc:23` takes event 4 as one with a sub event, `ccltor_control.cc:19`
  as one without: it is lost.
- A feeder asked to feed near midnight stores its rows under the day of the
  insertion (`FeederStore`'s `Key`), and a quote of the old day fetched before
  is then a row of the new one.

## 6. Not modelled, and the plan

Not modelled: floating point (matrices, equations, the arithmetic of the fits, the formulas of the
statistics: a row is known by the data it was made from), the SQL of the output's queries, its normalization and its printing, reading of
configuration and options, logging, name resolution, the Perl and shell scripts; summer time; torn reads
of the tree of `observers` and other undefined behaviour of which no outcome
changes a modelled state. A single code is modelled in `Backfill`, `Trends`,
`DBCache` and `Fitting`: the programs treat codes one after the other and independently. `Wealth`, which sums
them up, has several.

Done: the cruncher's threads and cache (`Crunchers`, `DBCache`), the scheduler,
notification and messages with their abstract bus, the feeder (`Feeder`,
`Children`, `FeederStore`, and the reader of its input in `Feed`), the plugins' runs (`Backfill`, `Trends`,
`BackEnd`), the output's rows (`Output`). Left:

1. `dec_day` against a calendar.
2. `Crunchers` as the implementation of an abstract pipeline (each plugin
   eventually reflects the newest generation), with a refinement mapping;
   `DBCache` and `FeederStore` against an abstract table.
3. Proofs: the refinements of 2, and, now that pieces make no difference, `ReadsWhole` of documents read at once
   of which no text has a tag.
