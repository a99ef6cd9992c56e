------------------------------ MODULE ICMessages ------------------------------
(***************************************************************************)
(* The messages daemons exchange: how a message becomes a datagram of      *)
(* 32-bit words in network order, what the receiver makes of the datagram, *)
(* and how each daemon's handler reacts to the object it got.              *)
(* Source: src/ccltor/ic, src/control/ccltor_control.cc and the handlers   *)
(* of Feeder, Scheduler and CruncherManager.                               *)
(*                                                                         *)
(* An int has 2 * Half values, so one word.  A packet also says which      *)
(* message its sender meant, which no daemon reads.  Datagrams may be lost,*)
(* delivered twice and overtaken: that is module Notification's subject.   *)
(***************************************************************************)
EXTENDS Integers, Sequences, FiniteSets

CONSTANTS
  Feeders, Schedulers, Managers, Control,   \* the processes
  Half,          \* half the values of a word (2^31)
  Events, Subs,  \* what ccltor_control is asked to send (-e event:subevent)
  Seconds,       \* what a manager's registration names
  Null,          \* no object
  MaxSent        \* bound: messages sent

Daemons == Feeders \cup Schedulers \cup Managers
Int32 == -Half..(Half - 1)

(* The enumerations of ICMsg.h, ICEvent.h and ICEvent2.h.                   *)
ClassEvent == 1
ClassRegistration == 2
EVENT == 0
NEWFEED == 1
STATISTICS_UPDATED == 2
TRENDS_UPDATED == 3
EVENT2 == 4
RUNNING == 5
LOGLEVEL == 6
PING == 0
ACK == 1
STOP == 2

ASSUME ICAssumption ==
  /\ Half \in Nat /\ Half >= 8 /\ MaxSent \in Nat
  /\ Events \subseteq Int32 /\ Subs \subseteq Int32 /\ Seconds \in Int32
  /\ Control \notin Daemons

VARIABLES
  net,        \* packets on their way
  running,    \* the daemons that run
  level,      \* each daemon's log level
  observers,  \* <<feeder, manager>>: who is registered where
  fed,        \* <<manager, event>>: what its plugins were given
  sent        \* messages sent

vars == <<net, running, level, observers, fed, sent>>

Event(e) == [type |-> "event", event |-> e]
Event2(e, s) == [type |-> "event2", event |-> e, sub |-> s]
Registration(s) == [type |-> "registration", seconds |-> s]

-----------------------------------------------------------------------------
(* Encoding and decoding.                                                   *)

(* htonl of an int, and ntohl into one.                                     *)
Htonl(i) == IF i < 0 THEN i + 2 * Half ELSE i
Ntohl(w) == IF w >= Half THEN w - 2 * Half ELSE w

(* The datagram of a message: send, putEvent, putSubEvent, send_msg.        *)
Encode(m) ==
  IF m.type = "event" THEN <<ClassEvent, Htonl(m.event)>>
  ELSE IF m.type = "event2" THEN <<ClassEvent, Htonl(m.event), Htonl(m.sub)>>
  ELSE <<ClassRegistration, Htonl(m.seconds)>>

(* ICEvent2::create: the subevent follows the event.                        *)
CreateEvent2(e, words) ==
  IF Len(words) >= 3 THEN Event2(e, Ntohl(words[3])) ELSE Null

(* Faulty variant: the word read as subevent is the event's.                *)
CreateEventSame(words) ==
  IF Len(words) < 2 THEN Null
  ELSE LET event == Ntohl(words[2])
       IN IF event >= EVENT2 THEN CreateEvent2(event, <<words[1]>> \o words)
          ELSE Event(event)

(* ICEvent::create.                                                         *)
CreateEvent(words) ==
  IF Len(words) < 2 THEN Null
  ELSE LET event == Ntohl(words[2])
       IN IF event >= EVENT2 THEN CreateEvent2(event, words) ELSE Event(event)

CreateRegistration(words) ==
  IF Len(words) >= 2 THEN Registration(Ntohl(words[2])) ELSE Null

(* ICMsg::create, for the classes the daemons send.                         *)
Create(words) ==
  CASE words[1] = ClassEvent -> CreateEvent(words)
    [] words[1] = ClassRegistration -> CreateRegistration(words)
    [] OTHER -> Null

Packet(from, to, m) == [from |-> from, to |-> to, words |-> Encode(m), msg |-> m]

-----------------------------------------------------------------------------
(* The senders.                                                             *)

Init ==
  /\ net = {} /\ running = Daemons /\ level = [d \in Daemons |-> 0]
  /\ observers = {} /\ fed = {} /\ sent = 0

Send(packets) ==
  /\ sent < MaxSent /\ sent' = sent + 1
  /\ net' = net \cup packets

(* What ccltor_control makes of -e event:subevent: it sends nothing for an  *)
(* event up to ICEVENT_EVENT.                                               *)
Asked(e, s) ==
  IF e > EVENT2 THEN {Event2(e, s)} ELSE IF e > EVENT THEN {Event(e)} ELSE {}

ControlSends(e, s, peers) ==
  /\ Send({Packet(Control, d, m) : d \in peers, m \in Asked(e, s)})
  /\ UNCHANGED <<running, level, observers, fed>>

(* CcltorObservers::notify after a feed; no observer is dropped here.       *)
Notify(f) ==
  /\ f \in running
  /\ Send({Packet(f, o[2], Event(NEWFEED)) : o \in {p \in observers : p[1] = f}})
  /\ UNCHANGED <<running, level, observers, fed>>

(* A manager whose poll timed out registers with every feeder.              *)
Register(m) ==
  /\ m \in running
  /\ Send({Packet(m, f, Registration(Seconds)) : f \in Feeders})
  /\ UNCHANGED <<running, level, observers, fed>>

-----------------------------------------------------------------------------
(* The receivers.                                                           *)

Take(p) == p \in net /\ p.to \in running
Ack(p) == Packet(p.to, p.from, Event2(RUNNING, ACK))

(* The guard of the handlers' cast of an ICEvent to an ICEvent2.            *)
Casts(o) == o.event > EVENT2

(* An object could not be made of the datagram.                             *)
Drop(p) ==
  /\ Take(p) /\ Create(p.words) = Null
  /\ net' = net \ {p}
  /\ UNCHANGED <<running, level, observers, fed, sent>>

(* ICEVENT_CONTROL_RUNNING.                                                 *)
HandleRunning(p) ==
  LET o == Create(p.words)
  IN /\ Take(p) /\ o # Null /\ o.type # "registration" /\ o.event = RUNNING
     /\ net' = IF o.sub = PING THEN (net \ {p}) \cup {Ack(p)} ELSE net \ {p}
     /\ running' = IF o.sub = STOP THEN running \ {p.to} ELSE running
     /\ UNCHANGED <<level, observers, fed, sent>>

(* ICEVENT_CONTROL_LOGLEVEL.                                                *)
HandleLoglevel(p) ==
  LET o == Create(p.words)
  IN /\ Take(p) /\ o # Null /\ o.type # "registration" /\ o.event = LOGLEVEL
     /\ net' = net \ {p}
     /\ level' = [level EXCEPT ![p.to] = o.sub]
     /\ UNCHANGED <<running, observers, fed, sent>>

(* The events some plugin of a manager observes: observers[] of the manager.*)
Observed == {NEWFEED, STATISTICS_UPDATED, TRENDS_UPDATED}

(* Any other event: managers give it to the plugins that observe it, if any *)
(* does, the others only log it.                                            *)
HandleEvent(p) ==
  LET o == Create(p.words)
  IN /\ Take(p) /\ o # Null /\ o.type # "registration"
     /\ o.event \notin {RUNNING, LOGLEVEL}
     /\ net' = net \ {p}
     /\ fed' = IF p.to \in Managers /\ o.event \in Observed
                 THEN fed \cup {<<p.to, o>>} ELSE fed
     /\ UNCHANGED <<running, level, observers, sent>>

(* A registration: feeders add the observer, the others only log it.        *)
HandleRegistration(p) ==
  LET o == Create(p.words)
  IN /\ Take(p) /\ o # Null /\ o.type = "registration"
     /\ net' = net \ {p}
     /\ observers' = IF p.to \in Feeders THEN observers \cup {<<p.to, p.from>>} ELSE observers
     /\ UNCHANGED <<running, level, fed, sent>>

Next ==
  \/ \E e \in Events, s \in Subs, peers \in SUBSET Daemons : ControlSends(e, s, peers)
  \/ \E f \in Feeders : Notify(f)
  \/ \E m \in Managers : Register(m)
  \/ \E p \in net : \/ Drop(p) \/ HandleRunning(p) \/ HandleLoglevel(p)
                    \/ HandleEvent(p) \/ HandleRegistration(p)

Spec == Init /\ [][Next]_vars

-----------------------------------------------------------------------------
(* Properties.                                                              *)

Address == Daemons \cup {Control}

(* The messages the program's processes send.                               *)
Sendable ==
  {Event(e) : e \in {x \in Int32 : EVENT < x /\ x <= EVENT2}}
    \cup {Event2(e, s) : e \in {x \in Int32 : x > EVENT2}, s \in Int32}
    \cup {Registration(s) : s \in Int32}

(* The null pointer is none of them.                                        *)
ASSUME NullAssumption == Null \notin Sendable

(* A packet that may be on its way: the datagram of a message some process  *)
(* sends, a registration's from a manager, a command's from a control.      *)
Fit(p) ==
  /\ p.from \in Address /\ p.to \in Address /\ p.msg \in Sendable
  /\ p = Packet(p.from, p.to, p.msg)
  /\ p.msg.type = "registration" => p.from \in Managers
  /\ p.msg.type = "event2" /\ p.msg.sub # ACK => p.from = Control

TypeOK ==
  /\ \A p \in net : Fit(p)
  /\ running \subseteq Daemons
  /\ level \in [Daemons -> Int32]
  /\ observers \subseteq Feeders \X Managers
  /\ fed \subseteq Managers \X {Event(e) : e \in Observed}
  /\ sent \in 0..MaxSent

(* The receiver makes of a datagram the very message that was sent, but for *)
(* ICEVENT_EVENT2 itself, which sender and receiver disagree about.         *)
AsSent ==
  \A p \in net : Create(p.words) = p.msg \/ (p.msg = Event(EVENT2) /\ Create(p.words) = Null)

(* handle_msg and handleEvent only cast to ICEvent2 what is one: the        *)
(* subevent they read is there.                                             *)
CastsAreSafe ==
  \A p \in net :
    LET o == Create(p.words)
    IN o # Null => (o.type # "registration" /\ Casts(o) => o.type = "event2")

(* A daemon stops only when a control asked that daemon to.                 *)
StopsWhenAsked ==
  [][\A d \in running \ running' :
       Packet(Control, d, Event2(RUNNING, STOP)) \in net \ net']_vars

(* The words, the classes and the objects that are made of them make no     *)
(* difference: each message has the effect its sender meant, on the daemon  *)
(* it was sent to, or none.                                                 *)
Commands == UNION {Asked(e, s) : e \in Events, s \in Subs}

Meaning(p) == [from |-> p.from, to |-> p.to, msg |-> p.msg]

LevelOf(m) == m.sub

Abstract == INSTANCE Bus WITH
              packets <- {Meaning(p) : p \in net},
              Pings <- {Event2(RUNNING, PING)}, Stops <- {Event2(RUNNING, STOP)},
              Levels <- {Event2(LOGLEVEL, s) : s \in Int32},
              Acknowledgement <- Event2(RUNNING, ACK), NewFeed <- Event(NEWFEED),
              Observed <- {Event(e) : e \in Observed},
              Registrations <- {Registration(s) : s \in Int32}, NoLevel <- 0

ImplementsBus == Abstract!Spec
=============================================================================
