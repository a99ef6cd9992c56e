----------------------------- MODULE Notification -----------------------------
(***************************************************************************)
(* How crunchers learn of new feeds: a cruncher's manager registers with   *)
(* the feeder whenever its socket has been silent, the feeder keeps the    *)
(* registration for the seconds it names and sends ICEVENT_FEEDER_NEWFEED  *)
(* after each feed, both over UDP, which loses, reorders and duplicates.   *)
(* Source: src/feeder/Feeder.cc, src/ccltor/ic/CcltorObservers.cc,         *)
(* src/cruncher/CruncherManager.cc.                                        *)
(*                                                                         *)
(* Managers here have a plugin that observes NEWFEED.  A registration's    *)
(* expiry is kept as the ticks left until it.                              *)
(***************************************************************************)
EXTENDS Integers, FiniteSets

CONSTANTS
  Managers,
  Wait,          \* ticks of silence before a manager registers (500000 ms)
  Seconds,       \* ticks a registration names (500000 s)
  FeedEvery,     \* ticks between feeds at most: sdelay, a night, a weekend
  MaxRestarts,   \* bound: restarts of the feeder and of managers
  MaxDuplicates, \* bound: datagrams delivered twice
  MaxPings       \* bound: other messages to managers

CONSTANTS Unknown   \* not registered

ASSUME NotificationAssumption ==
  /\ FeedEvery \in Nat \ {0} /\ FeedEvery <= Seconds
  /\ Wait \in Nat \ {0} /\ Seconds \in Nat \ {0} /\ Unknown \notin Int
  /\ {MaxRestarts, MaxDuplicates, MaxPings} \subseteq Nat

VARIABLES
  observers,  \* the feeder's: ticks each registration has left, or Unknown
  net,        \* datagrams on their way
  up, quiet,  \* per manager: running, and ticks since its poll began
  stale,      \* per manager: has feeds its plugins do not know of
  heard,      \* per manager: ticks since the feeder took a registration
  unfed,      \* ticks since the last feed
  restarts, duplicates, pings

noticeBounds == <<restarts, duplicates, pings>>
notificationVars == <<observers, net, up, quiet, stale, heard, unfed, noticeBounds>>

Registration(m) == [type |-> "registration", of |-> m]
NewFeed(m) == [type |-> "newfeed", of |-> m]
Datagram == [type : {"registration", "newfeed"}, of : Managers]

(* A datagram is delivered, perhaps not for the last time.                  *)
Deliver(d) ==
  /\ d \in net
  /\ \/ net' = net \ {d} /\ UNCHANGED duplicates
     \/ /\ duplicates < MaxDuplicates /\ duplicates' = duplicates + 1
        /\ UNCHANGED net

NotificationInit ==
  /\ observers = [m \in Managers |-> Unknown]
  /\ net = {}
  /\ up = [m \in Managers |-> TRUE] /\ quiet = [m \in Managers |-> 0]
  /\ stale = [m \in Managers |-> FALSE]
  /\ heard = [m \in Managers |-> Unknown]
  /\ unfed = 0 /\ restarts = 0 /\ duplicates = 0 /\ pings = 0

-----------------------------------------------------------------------------
(* The feeder.                                                              *)

Expired(m) == observers[m] # Unknown /\ observers[m] < 0

(* Faulty variant: observers are notified whether or not they expired.      *)
FeedNotifiesAll ==
  /\ stale' = [m \in Managers |-> TRUE] /\ unfed' = 0
  /\ net' = net \cup {NewFeed(m) : m \in {n \in Managers : observers[n] # Unknown}}
  /\ UNCHANGED <<observers, up, quiet, heard, noticeBounds>>

(* A feed that read values, then CcltorObservers::notify: expired observers *)
(* are dropped, the others are sent the event.                              *)
Announce ==
  /\ stale' = [m \in Managers |-> TRUE] /\ unfed' = 0
  /\ observers' = [m \in Managers |-> IF Expired(m) THEN Unknown ELSE observers[m]]
  /\ net' = net \cup {NewFeed(m) : m \in {n \in Managers : observers'[n] # Unknown}}
  /\ UNCHANGED <<up, quiet, heard, noticeBounds>>

(* Faulty variant: a new registration is added to what the old one has left.*)
AddMore(m) ==
  /\ Deliver(Registration(m))
  /\ observers' = [observers EXCEPT ![m] =
                     IF @ = Unknown THEN Seconds ELSE @ + Seconds]
  /\ heard' = [heard EXCEPT ![m] = 0]
  /\ UNCHANGED <<up, quiet, stale, unfed, restarts, pings>>

(* Feeder::handleIC, CcltorObservers::add.                                  *)
Add(m) ==
  /\ Deliver(Registration(m))
  /\ observers' = [observers EXCEPT ![m] = Seconds]
  /\ heard' = [heard EXCEPT ![m] = 0]
  /\ UNCHANGED <<up, quiet, stale, unfed, restarts, pings>>

(* The feeder is stopped or dies, and is started again: observers is empty. *)
FeederRestarts ==
  /\ restarts < MaxRestarts /\ restarts' = restarts + 1
  /\ observers' = [m \in Managers |-> Unknown]
  /\ heard' = [m \in Managers |-> Unknown]
  /\ UNCHANGED <<net, up, quiet, stale, unfed, duplicates, pings>>

-----------------------------------------------------------------------------
(* A manager.                                                               *)

(* Faulty variant: the silence passes without a registration.               *)
IdleUnregistered(m) ==
  /\ up[m] /\ quiet[m] = Wait
  /\ quiet' = [quiet EXCEPT ![m] = 0]
  /\ UNCHANGED <<observers, net, up, stale, unfed, heard, noticeBounds>>

(* The poll times out: register.                                            *)
Idle(m) ==
  /\ up[m] /\ quiet[m] = Wait
  /\ quiet' = [quiet EXCEPT ![m] = 0]
  /\ net' = net \cup {Registration(m)}
  /\ UNCHANGED <<observers, up, stale, unfed, heard, noticeBounds>>

(* handle_ic, handle_msg: the event is given to the plugins.                *)
Receive(m) ==
  /\ up[m] /\ Deliver(NewFeed(m))
  /\ stale' = [stale EXCEPT ![m] = FALSE]
  /\ quiet' = [quiet EXCEPT ![m] = 0]
  /\ UNCHANGED <<observers, up, unfed, heard, restarts, pings>>

(* Any other message ends the silence too.                                  *)
Ping(m) ==
  /\ up[m] /\ pings < MaxPings /\ pings' = pings + 1
  /\ quiet' = [quiet EXCEPT ![m] = 0]
  /\ UNCHANGED <<observers, net, up, stale, unfed, heard, restarts, duplicates>>

ManagerStops(m) ==
  /\ up[m] /\ restarts < MaxRestarts /\ restarts' = restarts + 1
  /\ up' = [up EXCEPT ![m] = FALSE]
  /\ UNCHANGED <<observers, net, quiet, stale, unfed, heard, duplicates, pings>>

ManagerStarts(m) ==
  /\ ~up[m]
  /\ up' = [up EXCEPT ![m] = TRUE] /\ quiet' = [quiet EXCEPT ![m] = 0]
  /\ UNCHANGED <<observers, net, stale, unfed, heard, noticeBounds>>

-----------------------------------------------------------------------------
(* The network, and time.                                                   *)

Lose(d) ==
  /\ d \in net /\ net' = net \ {d}
  /\ UNCHANGED <<observers, up, quiet, stale, unfed, heard, noticeBounds>>

SecondPasses ==
  /\ unfed < FeedEvery /\ unfed' = unfed + 1
  /\ quiet' = [m \in Managers |->
                 IF up[m] /\ quiet[m] < Wait THEN quiet[m] + 1 ELSE quiet[m]]
  /\ observers' = [m \in Managers |->
       IF observers[m] # Unknown /\ observers[m] >= 0 THEN observers[m] - 1
       ELSE observers[m]]
  /\ heard' = [m \in Managers |->
       IF heard[m] # Unknown /\ heard[m] <= Seconds THEN heard[m] + 1 ELSE heard[m]]
  /\ UNCHANGED <<net, up, stale, noticeBounds>>

NotificationNext ==
  \/ Announce \/ FeederRestarts \/ SecondPasses
  \/ \E m \in Managers : Add(m) \/ Idle(m) \/ Receive(m) \/ Ping(m)
                          \/ ManagerStops(m) \/ ManagerStarts(m)
  \/ \E d \in Datagram : Lose(d)

NotificationSpec == NotificationInit /\ [][NotificationNext]_notificationVars

(* The feeder goes on feeding, and reads values; time passes; a manager     *)
(* whose poll timed out goes on; and of the datagrams that are sent again   *)
(* and again some arrive.                                                   *)
NotificationFairness ==
  /\ WF_notificationVars(Announce) /\ WF_notificationVars(SecondPasses)
  /\ \A m \in Managers :
       /\ WF_notificationVars(Idle(m)) /\ WF_notificationVars(ManagerStarts(m))
       /\ SF_notificationVars(Add(m)) /\ SF_notificationVars(Receive(m))

NotificationFairSpec == NotificationSpec /\ NotificationFairness

-----------------------------------------------------------------------------
(* Properties.                                                              *)

NotificationTypeOK ==
  /\ observers \in [Managers -> -1..Seconds \cup {Unknown}]
  /\ net \subseteq Datagram
  /\ up \in [Managers -> BOOLEAN] /\ quiet \in [Managers -> 0..Wait]
  /\ stale \in [Managers -> BOOLEAN]
  /\ heard \in [Managers -> 0..(Seconds + 1) \cup {Unknown}]
  /\ unfed \in 0..FeedEvery /\ restarts \in 0..MaxRestarts /\ duplicates \in 0..MaxDuplicates
  /\ pings \in 0..MaxPings

(* What a registration has left is what it named less its age, so it ends   *)
(* when it said, however registrations are repeated, delayed or duplicated. *)
LeftIsAge ==
  \A m \in Managers :
    observers[m] # Unknown => heard[m] # Unknown /\ observers[m] = Seconds - heard[m]

(* notify sends the event to no one whose last registration ended: a        *)
(* cruncher that is gone is forgotten.                                      *)
OnlyTheRegistered ==
  [][\A m \in Managers :
       NewFeed(m) \in net' \ net
         => heard[m] # Unknown /\ heard[m] <= Seconds]_notificationVars

(* Every feed comes to the knowledge of every cruncher that runs, though    *)
(* datagrams are lost, the feeder forgets its observers when it restarts,   *)
(* and registrations are not acknowledged.                                  *)
Informed == \A m \in Managers : stale[m] ~> ~stale[m]
=============================================================================
