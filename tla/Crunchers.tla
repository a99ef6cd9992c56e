------------------------------ MODULE Crunchers ------------------------------
(***************************************************************************)
(* The cruncher process: a manager (the main thread) and one thread per    *)
(* plugin.  A plugin registers for one event, sleeps on its condition      *)
(* variable, and on every wake-up reads the data behind that event, writes *)
(* its own tables and announces them with an event of its own:             *)
(*     feeder --NEWFEED--> Statistics --STATISTICS_UPDATED--> Trends       *)
(*            --TRENDS_UPDATED--> Wealth, Interpolator, Regression         *)
(* Source: src/cruncher/CruncherManager.cc, src/cruncher/plugins.          *)
(*                                                                         *)
(* Data are abstracted to generations.  version[e] is the newest feed      *)
(* generation contained in the tables whose change event e announces.      *)
(***************************************************************************)
EXTENDS Integers, Sequences, FiniteSets

CONSTANTS
  Crunchers,      \* the plugins named in the configuration
  Main,           \* the manager's thread
  Event,          \* the plain events (NEWFEED, STATISTICS_UPDATED, ...)
  NewFeed,        \* ICEVENT_FEEDER_NEWFEED
  Stop,           \* ICEVENT_CONTROL_RUNNING / STOP
  None,           \* no event; no owner
  Observes,       \* [Crunchers -> Event]: argument of manager->observe
  Accepts,        \* [Crunchers -> Event]: the event tested by the plugin's msg
  Emits,          \* [Crunchers -> Event or None]: what run sends when done
  MayFail,        \* the plugins whose library may fail to load
  FromControl,    \* what ccltor_control sends: events, STOP
  Shots,          \* the -s option; 0 means run for ever
  MaxFeeds,       \* bound: generations the feeders store
  MaxSends        \* bound: datagrams other processes send

Thread == Crunchers \cup {Main}

ASSUME ThreadsAssumption == Main \notin Crunchers /\ None \notin Thread
ASSUME EventsAssumption ==
  /\ NewFeed \in Event /\ Stop \notin Event /\ None \notin Event
  /\ Observes \in [Crunchers -> Event]
  /\ Accepts \in [Crunchers -> Event]
  /\ Emits \in [Crunchers -> Event \cup {None}]
  /\ FromControl \subseteq Event \cup {Stop}
  /\ MayFail \subseteq Crunchers
ASSUME ProducersAssumption ==   \* one producer per table
  \A c, d \in Crunchers :
    Emits[c] # None => Emits[c] # NewFeed /\ (Emits[c] = Emits[d] => c = d)
ASSUME BoundsAssumption == Shots \in Nat /\ MaxFeeds \in Nat /\ MaxSends \in Nat

VARIABLES
  loading,     \* plugins the init loop has still to load
  crunchers,   \* domain of the map CruncherManager::crunchers
  pc,          \* where each thread is
  state,       \* CRUNCHER_RUNNING / CRUNCHER_WAITING, read without a lock
  pending,     \* newfeeds, stcs_updates, trends_updates: wake-ups not yet taken
  mtx,         \* owner of each plugin's mutex (Main's gate before it runs)
  managerMtx,  \* owner of manager_mtx
  observers,   \* CruncherManager::observers
  event,       \* the event a thread is dispatching
  todo,        \* the observers it has still to call msg() on
  inbox,       \* datagrams in the manager's socket
  unscanned,   \* plugins the idle scan has still to look at
  shots,       \* config.shots
  registered,  \* the feeders have been asked to send NEWFEED
  version,     \* feed generation contained in the data behind each event
  announced,   \* generation of those data when the event was last dispatched
  seen,        \* generation of its input each plugin last read
  sends        \* datagrams sent so far by other processes

mainVars  == <<loading, crunchers, unscanned, shots, registered>>
lockVars  == <<mtx, managerMtx>>
dispVars  == <<event, todo>>
dataVars  == <<version, announced, seen>>
wireVars  == <<inbox, sends>>
vars == <<mainVars, lockVars, dispVars, dataVars, wireVars,
          pc, state, pending, observers>>

CruncherPC == {"none", "parked", "observe", "enter", "check", "cond", "woken",
               "read", "write", "send", "dispatch"}
MainPC == {"load", "unpark", "poll", "dispatch", "scan", "exited"}

Alive == pc[Main] # "exited"
Goto(t, label) == pc' = [pc EXCEPT ![t] = label]

Init ==
  /\ loading = Crunchers /\ crunchers = {}
  /\ pc = [t \in Thread |-> IF t = Main THEN "load" ELSE "none"]
  /\ state = [c \in Crunchers |-> "RUNNING"]
  /\ pending = [c \in Crunchers |-> 1]
  /\ mtx = [c \in Crunchers |-> None] /\ managerMtx = None
  /\ observers = [e \in Event |-> {}]
  /\ event = [t \in Thread |-> None] /\ todo = [t \in Thread |-> {}]
  /\ inbox = <<>> /\ sends = 0
  /\ unscanned = {} /\ shots = Shots /\ registered = FALSE
  /\ version = [e \in Event |-> 0] /\ announced = [e \in Event |-> 0]
  /\ seen = [c \in Crunchers |-> 0]

-----------------------------------------------------------------------------
(* CruncherManager::init: a plugin's thread is created behind its gate, the *)
(* mutex the main thread holds; a plugin that fails to load is skipped.     *)

(* Faulty variant: the thread is created without its gate.                  *)
LoadUngated(c) ==
  /\ pc[Main] = "load" /\ c \in loading
  /\ loading' = loading \ {c}
  /\ crunchers' = crunchers \cup {c}
  /\ Goto(c, "parked")
  /\ UNCHANGED <<unscanned, shots, registered, lockVars, dispVars, dataVars,
                 wireVars, state, pending, observers>>

Load(c) ==
  /\ pc[Main] = "load" /\ c \in loading
  /\ loading' = loading \ {c}
  /\ crunchers' = crunchers \cup {c}
  /\ mtx' = [mtx EXCEPT ![c] = Main]
  /\ Goto(c, "parked")
  /\ UNCHANGED <<unscanned, shots, registered, managerMtx, dispVars, dataVars,
                 wireVars, state, pending, observers>>

LoadFails(c) ==
  /\ pc[Main] = "load" /\ c \in loading \cap MayFail
  /\ loading' = loading \ {c}
  /\ UNCHANGED <<crunchers, unscanned, shots, registered, lockVars, dispVars,
                 dataVars, wireVars, pc, state, pending, observers>>

InitDone ==
  /\ pc[Main] = "load" /\ loading = {}
  /\ Goto(Main, "unpark")
  /\ UNCHANGED <<mainVars, lockVars, dispVars, dataVars, wireVars, state,
                 pending, observers>>

(* CruncherManager::run opens the gates one by one, then polls. *)

Unpark(c) ==
  /\ pc[Main] = "unpark" /\ c \in crunchers /\ mtx[c] = Main
  /\ mtx' = [mtx EXCEPT ![c] = None]
  /\ UNCHANGED <<mainVars, managerMtx, dispVars, dataVars, wireVars, pc,
                 state, pending, observers>>

UnparkDone ==
  /\ pc[Main] = "unpark" /\ \A c \in crunchers : mtx[c] # Main
  /\ Goto(Main, "poll")
  /\ UNCHANGED <<mainVars, lockVars, dispVars, dataVars, wireVars, state,
                 pending, observers>>

-----------------------------------------------------------------------------
(* handle_msg for a plain event: every observer's msg() is called with      *)
(* manager_mtx held, by the thread that sends, be it main or a plugin.      *)

BeginDispatch(t, e) ==
  /\ managerMtx = None
  /\ managerMtx' = t
  /\ event' = [event EXCEPT ![t] = e]
  /\ todo' = [todo EXCEPT ![t] = observers[e]]
  /\ announced' = [announced EXCEPT ![e] = version[e]]
  /\ Goto(t, "dispatch")

(* Faulty variant: the counter is raised and nobody is woken.               *)
MsgNoBroadcast(t, d) ==
  /\ Alive /\ pc[t] = "dispatch" /\ d \in todo[t]
  /\ todo' = [todo EXCEPT ![t] = @ \ {d}]
  /\ IF Accepts[d] = event[t]
       THEN mtx[d] = None /\ pending' = [pending EXCEPT ![d] = @ + 1]
       ELSE UNCHANGED pending
  /\ UNCHANGED <<mainVars, lockVars, event, dataVars, wireVars, pc, state,
                 observers>>

(* msg(): counts the event and broadcasts when it is the one the plugin     *)
(* accepts, and ignores any other.                                          *)
Msg(t, d) ==
  /\ Alive /\ pc[t] = "dispatch" /\ d \in todo[t]
  /\ todo' = [todo EXCEPT ![t] = @ \ {d}]
  /\ IF Accepts[d] = event[t]
       THEN /\ mtx[d] = None
            /\ pending' = [pending EXCEPT ![d] = @ + 1]
            /\ pc' = [pc EXCEPT ![d] = IF @ = "cond" THEN "woken" ELSE @]
       ELSE UNCHANGED <<pending, pc>>
  /\ UNCHANGED <<mainVars, lockVars, event, dataVars, wireVars, state, observers>>

EndDispatch(t) ==
  /\ Alive /\ pc[t] = "dispatch" /\ todo[t] = {}
  /\ managerMtx' = None
  /\ event' = [event EXCEPT ![t] = None]
  /\ Goto(t, IF t = Main THEN "poll" ELSE "enter")
  /\ UNCHANGED <<mainVars, mtx, todo, dataVars, wireVars, state, pending,
                 observers>>

-----------------------------------------------------------------------------
(* A plugin's thread: cruncher_fn and the run() all plugins share.          *)

Start(c) ==
  /\ Alive /\ pc[c] = "parked" /\ mtx[c] = None
  /\ Goto(c, "observe")
  /\ UNCHANGED <<mainVars, lockVars, dispVars, dataVars, wireVars, state,
                 pending, observers>>

Observe(c) ==
  /\ Alive /\ pc[c] = "observe" /\ managerMtx = None
  /\ observers' = [observers EXCEPT ![Observes[c]] = @ \cup {c}]
  /\ Goto(c, "enter")
  /\ UNCHANGED <<mainVars, lockVars, dispVars, dataVars, wireVars, state, pending>>

Enter(c) ==
  /\ Alive /\ pc[c] = "enter" /\ mtx[c] = None
  /\ mtx' = [mtx EXCEPT ![c] = c]
  /\ state' = [state EXCEPT ![c] = "WAITING"]
  /\ Goto(c, "check")
  /\ UNCHANGED <<mainVars, managerMtx, dispVars, dataVars, wireVars, pending,
                 observers>>

Sleep(c) ==
  /\ Alive /\ pc[c] = "check" /\ pending[c] = 0
  /\ mtx' = [mtx EXCEPT ![c] = None]
  /\ Goto(c, "cond")
  /\ UNCHANGED <<mainVars, managerMtx, dispVars, dataVars, wireVars, state,
                 pending, observers>>

SpuriousWakeup(c) ==
  /\ Alive /\ pc[c] = "cond"
  /\ Goto(c, "woken")
  /\ UNCHANGED <<mainVars, lockVars, dispVars, dataVars, wireVars, state,
                 pending, observers>>

Relock(c) ==
  /\ Alive /\ pc[c] = "woken" /\ mtx[c] = None
  /\ mtx' = [mtx EXCEPT ![c] = c]
  /\ Goto(c, "check")
  /\ UNCHANGED <<mainVars, managerMtx, dispVars, dataVars, wireVars, state,
                 pending, observers>>

(* Faulty variant: goes on without testing the counter and counts one down. *)
TakeUntested(c) ==
  /\ Alive /\ pc[c] = "check"
  /\ state' = [state EXCEPT ![c] = "RUNNING"]
  /\ pending' = [pending EXCEPT ![c] = @ - 1]
  /\ mtx' = [mtx EXCEPT ![c] = None]
  /\ Goto(c, "read")
  /\ UNCHANGED <<mainVars, managerMtx, dispVars, dataVars, wireVars, observers>>

Take(c) ==
  /\ Alive /\ pc[c] = "check" /\ pending[c] > 0
  /\ state' = [state EXCEPT ![c] = "RUNNING"]
  /\ pending' = [pending EXCEPT ![c] = 0]
  /\ mtx' = [mtx EXCEPT ![c] = None]
  /\ Goto(c, "read")
  /\ UNCHANGED <<mainVars, managerMtx, dispVars, dataVars, wireVars, observers>>

Read(c) ==
  /\ Alive /\ pc[c] = "read"
  /\ seen' = [seen EXCEPT ![c] = version[Observes[c]]]
  /\ Goto(c, "write")
  /\ UNCHANGED <<mainVars, lockVars, dispVars, version, announced, wireVars,
                 state, pending, observers>>

(* Faulty variant: the counter is cleared after the work instead of before. *)
WriteClears(c) ==
  /\ Alive /\ pc[c] = "write"
  /\ pending' = [pending EXCEPT ![c] = 0]
  /\ IF Emits[c] = None
       THEN Goto(c, "enter") /\ UNCHANGED version
       ELSE version' = [version EXCEPT ![Emits[c]] = seen[c]] /\ Goto(c, "send")
  /\ UNCHANGED <<mainVars, lockVars, dispVars, announced, seen, wireVars, state,
                 observers>>

Write(c) ==
  /\ Alive /\ pc[c] = "write"
  /\ IF Emits[c] = None
       THEN /\ Goto(c, "enter")
            /\ UNCHANGED version
       ELSE /\ version' = [version EXCEPT ![Emits[c]] = seen[c]]
            /\ Goto(c, "send")
  /\ UNCHANGED <<mainVars, lockVars, dispVars, announced, seen, wireVars,
                 state, pending, observers>>

Send(c) ==
  /\ Alive /\ pc[c] = "send"
  /\ BeginDispatch(c, Emits[c])
  /\ UNCHANGED <<mainVars, mtx, version, seen, wireVars, state, pending, observers>>

-----------------------------------------------------------------------------
(* The manager's loop: a datagram, or 500 s of silence.                     *)

ReceiveEvent ==
  /\ pc[Main] = "poll" /\ inbox # <<>> /\ Head(inbox) \in Event
  /\ inbox' = Tail(inbox)
  /\ BeginDispatch(Main, Head(inbox))
  /\ UNCHANGED <<mainVars, mtx, version, seen, sends, state, pending, observers>>

ReceiveStop ==
  /\ pc[Main] = "poll" /\ inbox # <<>> /\ Head(inbox) = Stop
  /\ inbox' = Tail(inbox)
  /\ Goto(Main, "exited")
  /\ UNCHANGED <<mainVars, lockVars, dispVars, dataVars, sends, state, pending,
                 observers>>

Timeout ==
  /\ pc[Main] = "poll" /\ inbox = <<>>
  /\ unscanned' = crunchers
  /\ Goto(Main, "scan")
  /\ UNCHANGED <<loading, crunchers, shots, registered, lockVars, dispVars,
                 dataVars, wireVars, state, pending, observers>>

(* The scan reads one plugin's state at a time, with no lock.               *)
ScanWaiting(c) ==
  /\ pc[Main] = "scan" /\ c \in unscanned /\ state[c] = "WAITING"
  /\ unscanned' = unscanned \ {c}
  /\ UNCHANGED <<loading, crunchers, shots, registered, lockVars, dispVars,
                 dataVars, wireVars, pc, state, pending, observers>>

Register == registered' = (registered \/ observers[NewFeed] # {})

ScanRunning(c) ==
  /\ pc[Main] = "scan" /\ c \in unscanned /\ state[c] = "RUNNING"
  /\ unscanned' = {}
  /\ Register
  /\ Goto(Main, "poll")
  /\ UNCHANGED <<loading, crunchers, shots, lockVars, dispVars, dataVars,
                 wireVars, state, pending, observers>>

(* All plugins were seen waiting: the last shot ends the process, an        *)
(* earlier one is counted off.                                              *)
AllDoneExit ==
  /\ pc[Main] = "scan" /\ unscanned = {} /\ shots = 1
  /\ Goto(Main, "exited")
  /\ UNCHANGED <<mainVars, lockVars, dispVars, dataVars, wireVars, state,
                 pending, observers>>

(* Faulty variant: the shot is not counted off.                             *)
AllDoneUncounted ==
  /\ pc[Main] = "scan" /\ unscanned = {} /\ shots # 1
  /\ Register
  /\ Goto(Main, "poll")
  /\ UNCHANGED <<loading, crunchers, unscanned, shots, lockVars, dispVars,
                 dataVars, wireVars, state, pending, observers>>

AllDone ==
  /\ pc[Main] = "scan" /\ unscanned = {} /\ shots # 1
  /\ shots' = IF shots > 1 THEN shots - 1 ELSE shots
  /\ Register
  /\ Goto(Main, "poll")
  /\ UNCHANGED <<loading, crunchers, unscanned, lockVars, dispVars, dataVars,
                 wireVars, state, pending, observers>>

-----------------------------------------------------------------------------
(* The other processes: feeders store a generation and may notify it to a   *)
(* registered manager; ccltor_control sends its events at any time.         *)

Feed ==
  /\ Alive /\ version[NewFeed] < MaxFeeds
  /\ version' = [version EXCEPT ![NewFeed] = @ + 1]
  /\ UNCHANGED <<mainVars, lockVars, dispVars, announced, seen, wireVars, pc,
                 state, pending, observers>>

Deliver(m) ==
  /\ Alive /\ sends < MaxSends
  /\ sends' = sends + 1
  /\ inbox' = Append(inbox, m)
  /\ UNCHANGED <<mainVars, lockVars, dispVars, dataVars, pc, state, pending,
                 observers>>

FeederNotifies == registered /\ Deliver(NewFeed)
ControlSends(m) == Deliver(m)

-----------------------------------------------------------------------------
(* exit(0): the process is gone and nothing moves any more.                 *)
Exited == ~Alive /\ UNCHANGED vars

CruncherStep(c) ==
  \/ Start(c) \/ Observe(c) \/ Enter(c) \/ Sleep(c) \/ Relock(c) \/ Take(c)
  \/ Read(c) \/ Write(c) \/ Send(c)

DispatchStep(t) == EndDispatch(t) \/ \E d \in Crunchers : Msg(t, d)

MainStep ==
  \/ \E c \in Crunchers : Load(c) \/ LoadFails(c) \/ Unpark(c)
                          \/ ScanWaiting(c) \/ ScanRunning(c)
  \/ InitDone \/ UnparkDone \/ ReceiveEvent \/ ReceiveStop \/ Timeout
  \/ AllDoneExit \/ AllDone

Environment ==
  \/ Feed \/ FeederNotifies
  \/ \E m \in FromControl : ControlSends(m)
  \/ \E c \in Crunchers : SpuriousWakeup(c)

Next ==
  \/ MainStep
  \/ \E c \in Crunchers : CruncherStep(c)
  \/ \E t \in Thread : DispatchStep(t)
  \/ Environment
  \/ Exited

Spec == Init /\ [][Next]_vars

(* Each thread runs: the operating system schedules it, and the time-out of *)
(* poll does fire.  A dispatcher that finds a plugin's mutex free again and *)
(* again gets it in the end (strong fairness: spurious wake-ups could keep  *)
(* taking the mutex).  Nothing is assumed of the other processes.           *)
Fairness ==
  /\ WF_vars(MainStep)
  /\ \A c \in Crunchers : WF_vars(CruncherStep(c))
  /\ \A t \in Thread : SF_vars(DispatchStep(t))

FairSpec == Spec /\ Fairness

-----------------------------------------------------------------------------
(* Properties.                                                              *)

TypeOK ==
  /\ loading \subseteq Crunchers /\ crunchers \subseteq Crunchers
  /\ pc \in [Thread -> CruncherPC \cup MainPC]
  /\ pc[Main] \in MainPC /\ \A c \in Crunchers : pc[c] \in CruncherPC
  /\ \A c \in Crunchers : pc[c] = "send" => Emits[c] # None
  /\ state \in [Crunchers -> {"RUNNING", "WAITING"}]
  /\ pending \in [Crunchers -> Nat]
  /\ mtx \in [Crunchers -> Thread \cup {None}]
  /\ managerMtx \in Thread \cup {None}
  /\ observers \in [Event -> SUBSET Crunchers]
  /\ event \in [Thread -> Event \cup {None}]
  /\ todo \in [Thread -> SUBSET Crunchers]
  /\ inbox \in Seq(Event \cup {Stop})
  /\ unscanned \subseteq Crunchers
  /\ shots \in Nat /\ registered \in BOOLEAN
  /\ version \in [Event -> Nat] /\ announced \in [Event -> Nat]
  /\ seen \in [Crunchers -> Nat]
  /\ sends \in Nat

(* The plugins whose msg() accepts the event their run() observes:          *)
(* Statistics, Trends and Wealth, not Interpolator and Regression.          *)
Matched == {c \in Crunchers : Observes[c] = Accepts[c]}

BeingTold(c) ==
  \E t \in Thread : /\ pc[t] = "dispatch" /\ event[t] = Observes[c]
                    /\ c \in todo[t]

(* No wake-up is lost: a generation announced to a loaded plugin has been   *)
(* read by it, or it has still to read it: its counter is raised, it is on  *)
(* its way to the data, or the dispatching thread has not come to it yet.   *)
(* An event that comes before the plugin observes is "unhandled" (140-143); *)
(* what covers it is the counter that starts at 1.                          *)
NoLostUpdate ==
  \A c \in Matched \cap crunchers :
    \/ seen[c] >= announced[Observes[c]]
    \/ pending[c] > 0
    \/ pc[c] = "read"
    \/ BeingTold(c)

Idle == \A c \in crunchers : pc[c] = "cond" /\ ~BeingTold(c)

(* Whenever all plugins sleep, every plugin's input is as new as what was   *)
(* last announced to it, and what it derived from that input has itself     *)
(* been announced: the whole pipeline reflects the announced feed.          *)
IdleMeansCurrent ==
  Idle => \A c \in Matched \cap crunchers :
            /\ seen[c] >= announced[Observes[c]]
            /\ Emits[c] # None => announced[Emits[c]] = seen[c]

(* No plugin runs, and so none sends an event to another, while the init    *)
(* loop still adds plugins to the map handle_msg reads without a lock.      *)
NoRunWhileLoading ==
  loading # {} => \A c \in Crunchers : pc[c] \in {"none", "parked"}

(* Every generation announced to a plugin whose msg() accepts its event is  *)
(* eventually read by it, whatever the other threads do, unless the manager *)
(* exits on the way: no plugin sleeps to the end over what it was told.     *)
Told(c, v) == c \in crunchers /\ announced[Observes[c]] = v
Overtaken(c) == ~Alive /\ (pc[c] # "cond" \/ BeingTold(c))
UpdatesAreSeen ==
  \A c \in Matched, v \in 1..MaxFeeds :
    Told(c, v) ~> (seen[c] >= v \/ Overtaken(c))

(* The same for one plugin that observes one event and accepts another.     *)
EveryObserverSeesUpdates ==
  \A c \in Crunchers, v \in 1..MaxFeeds :
    Told(c, v) ~> (seen[c] >= v \/ ~Alive)

(* With the -s option the process ends, once the feeders fall silent.       *)
ShotsTerminate == Shots > 0 => <>(~Alive)

-----------------------------------------------------------------------------
(* The inductive invariant behind the safety properties, part by part.      *)

(* manager_mtx is held exactly by the thread that dispatches.               *)
LockInv ==
  /\ \A t \in Thread : pc[t] = "dispatch" <=> managerMtx = t
  /\ \A t \in Thread : pc[t] = "dispatch" => event[t] \in Event

(* The gates hold the plugins back while the init loop runs.                *)
GateInv ==
  /\ loading # {} => pc[Main] = "load"
  /\ \A c \in loading : pc[c] = "none"
  /\ pc[Main] = "load" =>
       \A c \in Crunchers : \/ pc[c] = "none"
                            \/ pc[c] = "parked" /\ mtx[c] = Main

(* A plugin that has not observed yet has its first wake-up in the counter, *)
(* and none sleeps with a wake-up in it.                                    *)
ObserveInv ==
  \A c \in Crunchers :
    /\ pc[c] \in {"none", "parked", "observe"} => pending[c] > 0
    /\ pc[c] \notin {"none", "parked", "observe"} => c \in observers[Observes[c]]
    /\ pc[c] = "cond" => pending[c] = 0

(* Generations only flow downstream: what a plugin has read is no newer     *)
(* than its source, what it announces is what it read last.                 *)
DataInv ==
  /\ \A e \in Event : announced[e] <= version[e]
  /\ \A c \in Crunchers :
       /\ seen[c] <= version[Observes[c]]
       /\ Emits[c] # None =>
            /\ version[Emits[c]] <= seen[c]
            /\ pc[c] # "write" => version[Emits[c]] = seen[c]
            /\ pc[c] # "send" => announced[Emits[c]] = version[Emits[c]]

IInv == TypeOK /\ LockInv /\ GateInv /\ ObserveInv /\ DataInv /\ NoLostUpdate

=============================================================================
