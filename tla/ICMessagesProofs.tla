--------------------------- MODULE ICMessagesProofs ---------------------------
(***************************************************************************)
(* Messages arrive as they were sent, for every width of a word, every set *)
(* of daemons and everything a control may be asked to send.               *)
(***************************************************************************)
EXTENDS ICMessages, TLAPS

USE ICAssumption

(* What a receiver makes of a sendable message, ICEVENT_EVENT2 aside, is    *)
(* the message: ntohl undoes htonl and the lengths are the ones create asks.*)
LEMMA RoundTrip ==
  ASSUME NEW m \in Sendable
  PROVE Create(Encode(m)) = m \/ (m = Event(EVENT2) /\ Create(Encode(m)) = Null)
<1>1. \A i \in Int32 : Ntohl(Htonl(i)) = i
  BY DEF Ntohl, Htonl, Int32
<1>2. CASE \E e \in Int32 : EVENT < e /\ e <= EVENT2 /\ m = Event(e)
  <2>1. PICK e \in Int32 : EVENT < e /\ e <= EVENT2 /\ m = Event(e)  BY <1>2
  <2>2. Encode(m) = <<ClassEvent, Htonl(e)>>
    <3>1. m.type = "event" /\ m.event = e  BY <2>1 DEF Event
    <3> QED  BY <3>1 DEF Encode
  <2>3. Create(Encode(m)) = CreateEvent(Encode(m))  BY <2>2 DEF Create, ClassEvent, ClassRegistration
  <2>4. CASE e < EVENT2
    BY <1>1, <2>1, <2>2, <2>3, <2>4 DEF CreateEvent, EVENT2, Int32
  <2>5. CASE e = EVENT2
    BY <1>1, <2>1, <2>2, <2>3, <2>5 DEF CreateEvent, CreateEvent2, EVENT2, Int32
  <2> QED  BY <2>1, <2>4, <2>5 DEF EVENT2, Int32
<1>3. CASE \E e, s \in Int32 : e > EVENT2 /\ m = Event2(e, s)
  <2>1. PICK e \in Int32, s \in Int32 : e > EVENT2 /\ m = Event2(e, s)  BY <1>3
  <2>2. Encode(m) = <<ClassEvent, Htonl(e), Htonl(s)>>
    <3>1. m.type = "event2" /\ m.event = e /\ m.sub = s  BY <2>1 DEF Event2
    <3> QED  BY <3>1 DEF Encode
  <2>3. Create(Encode(m)) = CreateEvent(Encode(m))  BY <2>2 DEF Create, ClassEvent, ClassRegistration
  <2> QED
    BY <1>1, <2>1, <2>2, <2>3 DEF CreateEvent, CreateEvent2, EVENT2, Int32
<1>4. CASE \E s \in Int32 : m = Registration(s)
  <2>1. PICK s \in Int32 : m = Registration(s)  BY <1>4
  <2>2. Encode(m) = <<ClassRegistration, Htonl(s)>>  BY <2>1 DEF Encode, Registration
  <2>3. Create(Encode(m)) = CreateRegistration(Encode(m))
    BY <2>2 DEF Create, ClassEvent, ClassRegistration
  <2> QED  BY <1>1, <2>1, <2>2, <2>3 DEF CreateRegistration
<1> QED  BY <1>2, <1>3, <1>4 DEF Sendable

(* An object with an event past ICEVENT_EVENT2 is an ICEvent2.              *)
LEMMA CastIsSafe ==
  ASSUME NEW m \in Sendable
  PROVE LET o == Create(Encode(m))
        IN o # Null => (o.type # "registration" /\ Casts(o) => o.type = "event2")
<1>1. CASE m = Event(EVENT2) /\ Create(Encode(m)) = Null  BY <1>1
<1>2. CASE Create(Encode(m)) = m
  <2>1. m.type # "registration" /\ m.event > EVENT2 => m.type = "event2"
    BY DEF Sendable, Event, Event2, Registration, Int32, EVENT2, EVENT
  <2> QED  BY <1>2, <2>1 DEF Casts
<1> QED  BY <1>1, <1>2, RoundTrip

-----------------------------------------------------------------------------
(* Only sendable messages are on their way.                                 *)

LEMMA ControlMeans ==
  ASSUME NEW e \in Events, NEW s \in Subs, NEW m \in Asked(e, s)
  PROVE m \in Sendable /\ m.type # "registration"
<1>1. e \in Int32 /\ s \in Int32  OBVIOUS
<1>2. CASE e > EVENT2
  <2>1. m = Event2(e, s)  BY <1>2 DEF Asked
  <2> QED  BY <1>1, <1>2, <2>1 DEF Sendable, Event2
<1>3. CASE ~(e > EVENT2)
  <2>1. e > EVENT /\ m = Event(e)  BY <1>3 DEF Asked
  <2>2. e <= EVENT2  BY <1>1, <1>3 DEF Int32, EVENT2
  <2> QED  BY <1>1, <2>1, <2>2 DEF Sendable, Event
<1> QED  BY <1>2, <1>3

LEMMA OthersMean ==
  /\ Event(NEWFEED) \in Sendable /\ Event(NEWFEED).type = "event"
  /\ Event2(RUNNING, ACK) \in Sendable
  /\ Event2(RUNNING, ACK).type = "event2" /\ Event2(RUNNING, ACK).sub = ACK
  /\ Registration(Seconds) \in Sendable /\ Registration(Seconds).type = "registration"
<1>1. NEWFEED \in Int32 /\ RUNNING \in Int32 /\ ACK \in Int32
  BY DEF NEWFEED, RUNNING, ACK, Int32
<1> QED  BY <1>1 DEF Sendable, Event, Event2, Registration, NEWFEED, RUNNING, EVENT, EVENT2

(* A message that may be on its way makes a packet that may.                *)
LEMMA PacketsFit ==
  ASSUME NEW f \in Address, NEW t \in Address, NEW m \in Sendable,
         m.type = "registration" => f \in Managers,
         m.type = "event2" /\ m.sub # ACK => f = Control
  PROVE Fit(Packet(f, t, m))
BY DEF Fit, Packet

(* What a handler reads of a packet is the int the sender wrote.            *)
LEMMA Received ==
  ASSUME NEW p, Fit(p), NEW o, o = Create(p.words), o # Null
  PROVE /\ o = p.msg
        /\ o.type = "registration" => p.from \in Managers
        /\ o.type = "event2" /\ o.sub # ACK => p.from = Control
        /\ o.type # "registration" => o.event \in Int32 /\ (o.event > EVENT2 => o.sub \in Int32)
<1>1. p.words = Encode(p.msg)  BY DEF Fit, Packet
<1>2. o = p.msg  BY <1>1, RoundTrip DEF Fit
<1>3. o.type # "registration" => o.event \in Int32 /\ (o.event > EVENT2 => o.sub \in Int32)
  BY <1>2 DEF Fit, Sendable, Event, Event2, Registration, EVENT2, EVENT, Int32
<1> QED  BY <1>2, <1>3 DEF Fit

LEMMA Fields ==
  /\ \A e : Event(e).type = "event" /\ Event(e).event = e
  /\ \A e, s : Event2(e, s).type = "event2" /\ Event2(e, s).event = e /\ Event2(e, s).sub = s
  /\ \A s : Registration(s).type = "registration"
BY DEF Event, Event2, Registration

(* The handlers tell the messages apart by class, event and subevent, which *)
(* is as the sender meant them.                                             *)
LEMMA KindsOfMessages ==
  ASSUME NEW m \in Sendable
  PROVE /\ m = Event2(RUNNING, PING) <=> m.type # "registration" /\ m.event = RUNNING /\ m.sub = PING
        /\ m = Event2(RUNNING, STOP) <=> m.type # "registration" /\ m.event = RUNNING /\ m.sub = STOP
        /\ (\E s \in Int32 : m = Event2(LOGLEVEL, s)) <=> m.type # "registration" /\ m.event = LOGLEVEL
        /\ (\E s \in Int32 : m = Registration(s)) <=> m.type = "registration"
        /\ (\E e \in Observed : m = Event(e)) <=> m.type # "registration" /\ m.event \in Observed
<1> USE DEF EVENT, EVENT2, NEWFEED, STATISTICS_UPDATED, TRENDS_UPDATED, Observed, RUNNING, LOGLEVEL, PING, STOP
<1>1. CASE \E e \in Int32 : EVENT < e /\ e <= EVENT2 /\ m = Event(e)
  <2>1. PICK e \in Int32 : e <= EVENT2 /\ m = Event(e)  BY <1>1
  <2>2. m.type = "event" /\ m.event = e /\ e # RUNNING /\ e # LOGLEVEL
    BY <2>1, Fields DEF Int32
  <2> QED  BY <2>1, <2>2, Fields
<1>2. CASE \E e, s \in Int32 : e > EVENT2 /\ m = Event2(e, s)
  <2>1. PICK e \in Int32, s \in Int32 : e > EVENT2 /\ m = Event2(e, s)  BY <1>2
  <2>2. m.type = "event2" /\ m.event = e /\ m.sub = s /\ e \notin Observed
    BY <2>1, Fields DEF Int32
  <2> QED  BY <2>1, <2>2, Fields
<1>3. CASE \E s \in Int32 : m = Registration(s)
  <2>1. m.type = "registration"  BY <1>3, Fields
  <2> QED  BY <1>3, <2>1, Fields
<1> QED  BY <1>1, <1>2, <1>3 DEF Sendable

(* Every datagram on its way is that of a message the program sends, and    *)
(* levels, observers and the told are what handlers make of such messages.  *)
THEOREM TypeCorrect == Spec => []TypeOK
<1>1. Init => TypeOK
  BY DEF Init, TypeOK, Daemons, Int32
<1>2. TypeOK /\ [Next]_vars => TypeOK'
  <2> SUFFICES ASSUME TypeOK, [Next]_vars PROVE TypeOK'  OBVIOUS
  <2>1. \A p \in net : Fit(p)  BY DEF TypeOK
  <2>2. /\ running \subseteq Daemons /\ level \in [Daemons -> Int32]
        /\ observers \subseteq Feeders \X Managers
        /\ fed \subseteq Managers \X {Event(e) : e \in Observed}
        /\ sent \in 0..MaxSent
    BY DEF TypeOK
  <2>3. Daemons \subseteq Address /\ Control \in Address /\ Feeders \subseteq Address
        /\ Managers \subseteq Address
    BY DEF Address, Daemons
  <2>4. ASSUME \A p \in net' : Fit(p),
               running' \subseteq Daemons, level' \in [Daemons -> Int32],
               observers' \subseteq Feeders \X Managers,
               fed' \subseteq Managers \X {Event(e) : e \in Observed},
               sent' \in 0..MaxSent
        PROVE TypeOK'
    BY <2>4 DEF TypeOK
  <2>5. ASSUME NEW e \in Events, NEW s \in Subs, NEW peers \in SUBSET Daemons,
               ControlSends(e, s, peers)
        PROVE TypeOK'
    <3>1. Send({Packet(Control, d, m) : d \in peers, m \in Asked(e, s)})
      BY <2>5 DEF ControlSends
    <3>2. \A d \in peers, m \in Asked(e, s) : Fit(Packet(Control, d, m))
      BY <2>3, ControlMeans, PacketsFit
    <3>3. \A p \in net' : Fit(p)  BY <2>1, <3>1, <3>2 DEF Send
    <3>4. sent' \in 0..MaxSent  BY <2>2, <3>1 DEF Send
    <3> QED  BY <2>2, <2>4, <2>5, <3>3, <3>4 DEF ControlSends
  <2>6. ASSUME NEW f \in Feeders, Notify(f)  PROVE TypeOK'
    <3>1. \A o \in observers : o[2] \in Managers  BY <2>2
    <3>2. \A o \in observers : Fit(Packet(f, o[2], Event(NEWFEED)))
      BY <2>3, <3>1, OthersMean, PacketsFit
    <3>3. \A p \in net' : Fit(p)  BY <2>1, <2>6, <3>2 DEF Notify, Send
    <3>4. sent' \in 0..MaxSent  BY <2>2, <2>6 DEF Notify, Send
    <3> QED  BY <2>2, <2>4, <2>6, <3>3, <3>4 DEF Notify
  <2>7. ASSUME NEW m \in Managers, Register(m)  PROVE TypeOK'
    <3>1. \A f \in Feeders : Fit(Packet(m, f, Registration(Seconds)))
      BY <2>3, OthersMean, PacketsFit
    <3>2. \A p \in net' : Fit(p)  BY <2>1, <2>7, <3>1 DEF Register, Send
    <3>3. sent' \in 0..MaxSent  BY <2>2, <2>7 DEF Register, Send
    <3> QED  BY <2>2, <2>4, <2>7, <3>2, <3>3 DEF Register
  <2>8. ASSUME NEW p \in net, Drop(p)  PROVE TypeOK'
    <3>1. \A q \in net' : Fit(q)  BY <2>1, <2>8 DEF Drop
    <3> QED  BY <2>2, <2>4, <2>8, <3>1 DEF Drop
  <2>9. ASSUME NEW p \in net, HandleRunning(p)  PROVE TypeOK'
    <3>1. Fit(Ack(p))
      <4>1. p.to \in Address /\ p.from \in Address  BY <2>1 DEF Fit
      <4> QED  BY <4>1, OthersMean, PacketsFit DEF Ack
    <3>2. net' \subseteq net \cup {Ack(p)}  BY <2>9 DEF HandleRunning
    <3>3. \A q \in net' : Fit(q)  BY <2>1, <3>1, <3>2
    <3>4. running' \subseteq Daemons  BY <2>2, <2>9 DEF HandleRunning
    <3> QED  BY <2>2, <2>4, <2>9, <3>3, <3>4 DEF HandleRunning
  <2>10. ASSUME NEW p \in net, HandleLoglevel(p)  PROVE TypeOK'
    <3> DEFINE o == Create(p.words)
    <3>1. o # Null /\ o.type # "registration" /\ o.event = LOGLEVEL
      BY <2>10 DEF HandleLoglevel
    <3>2. o.sub \in Int32
      BY <2>1, <3>1, Received DEF LOGLEVEL, EVENT2
    <3>3. level' = [level EXCEPT ![p.to] = o.sub]  BY <2>10 DEF HandleLoglevel
    <3>4. level' \in [Daemons -> Int32]  BY <2>2, <3>2, <3>3
    <3>5. \A q \in net' : Fit(q)  BY <2>1, <2>10 DEF HandleLoglevel
    <3> QED  BY <2>2, <2>4, <2>10, <3>4, <3>5 DEF HandleLoglevel
  <2>11. ASSUME NEW p \in net, HandleEvent(p)  PROVE TypeOK'
    <3>1. \A q \in net' : Fit(q)  BY <2>1, <2>11 DEF HandleEvent
    <3>2. fed' \subseteq Managers \X {Event(e) : e \in Observed}
      <4> DEFINE o == Create(p.words)
      <4>1. p.to \in Managers /\ o.event \in Observed
              => \E e \in Observed : o = Event(e)
        <5>1. Fit(p) /\ o # Null /\ o.type # "registration"  BY <2>1, <2>11 DEF HandleEvent
        <5>2. o \in Sendable  BY <5>1, Received DEF Fit
        <5> QED  BY <5>1, <5>2, KindsOfMessages
      <4> QED  BY <2>2, <2>11, <4>1 DEF HandleEvent
    <3> QED  BY <2>2, <2>4, <2>11, <3>1, <3>2 DEF HandleEvent
  <2>12. ASSUME NEW p \in net, HandleRegistration(p)  PROVE TypeOK'
    <3>1. \A q \in net' : Fit(q)  BY <2>1, <2>12 DEF HandleRegistration
    <3>2. p.from \in Managers
      BY <2>1, <2>12, Received DEF HandleRegistration
    <3>3. observers' \subseteq Feeders \X Managers
      BY <2>2, <2>12, <3>2 DEF HandleRegistration
    <3> QED  BY <2>2, <2>4, <2>12, <3>1, <3>3 DEF HandleRegistration
  <2>13. CASE UNCHANGED vars
    BY <2>13 DEF vars, TypeOK
  <2> QED
    BY <2>5, <2>6, <2>7, <2>8, <2>9, <2>10, <2>11, <2>12, <2>13 DEF Next
<1> QED  BY <1>1, <1>2, PTL DEF Spec

(* A daemon gets the very message that was sent to it, unless it gets none: *)
(* what the wire does to an int, a subevent or a length changes nothing.    *)
THEOREM ArrivesAsSent == Spec => []AsSent
<1>1. TypeOK => AsSent
  BY RoundTrip DEF TypeOK, AsSent, Fit, Packet
<1> QED  BY <1>1, TypeCorrect, PTL

(* No handler reads the subevent of an object that has none.                *)
THEOREM CastsAlwaysSafe == Spec => []CastsAreSafe
<1>1. TypeOK => CastsAreSafe
  <2> SUFFICES ASSUME TypeOK, NEW p \in net
               PROVE LET o == Create(p.words)
                     IN o # Null => (o.type # "registration" /\ Casts(o) => o.type = "event2")
    BY DEF CastsAreSafe
  <2>1. p.msg \in Sendable /\ p.words = Encode(p.msg)  BY DEF TypeOK, Fit, Packet
  <2> QED  BY <2>1, CastIsSafe
<1> QED  BY <1>1, TypeCorrect, PTL

(* A daemon that stops was sent the stop by a control: no other message,    *)
(* and no other sender, makes one exit.                                     *)
THEOREM StopsOnlyWhenAsked == Spec => StopsWhenAsked
<1>1. TypeOK /\ [Next]_vars =>
        \A d \in running \ running' :
           Packet(Control, d, Event2(RUNNING, STOP)) \in net \ net'
  <2> SUFFICES ASSUME TypeOK, [Next]_vars, NEW d \in running \ running'
               PROVE Packet(Control, d, Event2(RUNNING, STOP)) \in net \ net'
    OBVIOUS
  <2>1. ~ UNCHANGED running  OBVIOUS
  <2>2. \E p \in net : HandleRunning(p)
    <3>1. ASSUME NEW e \in Events, NEW s \in Subs, NEW peers \in SUBSET Daemons,
                 ControlSends(e, s, peers)
          PROVE FALSE
      BY <2>1, <3>1 DEF ControlSends
    <3>2. ASSUME NEW f \in Feeders, Notify(f)  PROVE FALSE  BY <2>1, <3>2 DEF Notify
    <3>3. ASSUME NEW m \in Managers, Register(m)  PROVE FALSE  BY <2>1, <3>3 DEF Register
    <3>4. ASSUME NEW p \in net,
                 Drop(p) \/ HandleLoglevel(p) \/ HandleEvent(p) \/ HandleRegistration(p)
          PROVE FALSE
      BY <2>1, <3>4 DEF Drop, HandleLoglevel, HandleEvent, HandleRegistration
    <3>5. ~ UNCHANGED vars  BY <2>1 DEF vars
    <3> QED  BY <3>1, <3>2, <3>3, <3>4, <3>5 DEF Next
  <2>0. PICK p \in net : HandleRunning(p)  BY <2>2
  <2> DEFINE o == Create(p.words)
  <2>3. /\ o # Null /\ o.type # "registration" /\ o.event = RUNNING
        /\ o.sub = STOP /\ p.to = d /\ net' = net \ {p}
    BY <2>0 DEF HandleRunning, PING, STOP
  <2>4. Fit(p)  BY DEF TypeOK
  <2>5. o = p.msg /\ (o.type = "event2" /\ o.sub # ACK => p.from = Control)
    BY <2>3, <2>4, Received
  <2>6. o = Event2(RUNNING, STOP)
    <3>1. o \in Sendable  BY <2>4, <2>5 DEF Fit
    <3>2. \A e \in Int32 : e <= EVENT2 => o # Event(e)
      BY <2>3 DEF Event, RUNNING, EVENT2
    <3>3. \A n \in Int32 : o # Registration(n)
      BY <2>3 DEF Registration
    <3>4. PICK e \in Int32, n \in Int32 : o = Event2(e, n)
      BY <3>1, <3>2, <3>3 DEF Sendable
    <3> QED  BY <2>3, <3>4 DEF Event2
  <2>7. p.from = Control  BY <2>3, <2>5, <2>6 DEF Event2, STOP, ACK
  <2>8. p = Packet(Control, d, Event2(RUNNING, STOP))
    BY <2>3, <2>4, <2>5, <2>6, <2>7 DEF Fit
  <2> QED  BY <2>3, <2>8
<1> QED  BY <1>1, TypeCorrect, PTL DEF Spec, StopsWhenAsked

-----------------------------------------------------------------------------
(* The messages implement the abstract bus.                                 *)

(* A packet is known by its meaning.                                        *)
LEMMA MeaningIsUnique ==
  ASSUME TypeOK, NEW p \in net
  PROVE {Meaning(q) : q \in net \ {p}} = {Meaning(q) : q \in net} \ {Meaning(p)}
<1>1. \A q \in net : q = Packet(q.from, q.to, q.msg)  BY DEF TypeOK, Fit
<1>2. \A q \in net : Meaning(q) = Meaning(p) => q = p
  <2> SUFFICES ASSUME NEW q \in net, Meaning(q) = Meaning(p)  PROVE q = p  OBVIOUS
  <2>1. q.from = p.from /\ q.to = p.to /\ q.msg = p.msg  BY DEF Meaning
  <2> QED  BY <1>1, <2>1
<1> QED  BY <1>2

(* A packet's meaning has its sender, its receiver and its message.         *)
LEMMA MeaningOfPacket ==
  ASSUME NEW f, NEW t, NEW m
  PROVE Meaning(Packet(f, t, m)) = Abstract!Mail(f, t, m)
BY DEF Meaning, Packet, Abstract!Mail

(* Sending packets posts what they mean.                                    *)
LEMMA SendPosts ==
  ASSUME NEW P, Send(P), UNCHANGED <<running, level, observers, fed>>
  PROVE Abstract!Post({Meaning(p) : p \in P})
BY DEF Send, Abstract!Post

(* What a packet does when its message alone decides it.                    *)
ActsAsMeant(p) ==
  /\ p.to \in running
  /\ net' = (net \ {p}) \cup (IF p.msg = Event2(RUNNING, PING) THEN {Ack(p)} ELSE {})
  /\ running' = IF p.msg = Event2(RUNNING, STOP) THEN running \ {p.to} ELSE running
  /\ level' = IF \E s \in Int32 : p.msg = Event2(LOGLEVEL, s)
                THEN [level EXCEPT ![p.to] = p.msg.sub] ELSE level
  /\ observers' = IF (\E s \in Int32 : p.msg = Registration(s)) /\ p.to \in Feeders
                    THEN observers \cup {<<p.to, p.from>>} ELSE observers
  /\ fed' = IF (\E e \in Observed : p.msg = Event(e)) /\ p.to \in Managers
              THEN fed \cup {<<p.to, p.msg>>} ELSE fed

(* Such a packet is received as the bus receives its meaning.               *)
LEMMA ReceivesTheMeaning ==
  ASSUME TypeOK, NEW p \in net, ActsAsMeant(p)
  PROVE Abstract!Receive(Meaning(p))
<1>1. Meaning(p).from = p.from /\ Meaning(p).to = p.to /\ Meaning(p).msg = p.msg
  BY DEF Meaning
<1>2. {Meaning(q) : q \in net'}
        = ({Meaning(q) : q \in net} \ {Meaning(p)})
            \cup (IF p.msg = Event2(RUNNING, PING)
                    THEN {Abstract!Mail(p.to, p.from, Event2(RUNNING, ACK))} ELSE {})
  <2>1. CASE p.msg = Event2(RUNNING, PING)
    <3>1. net' = (net \ {p}) \cup {Ack(p)}  BY <2>1 DEF ActsAsMeant
    <3>2. Meaning(Ack(p)) = Abstract!Mail(p.to, p.from, Event2(RUNNING, ACK))
      BY MeaningOfPacket DEF Ack
    <3> QED  BY <2>1, <3>1, <3>2, MeaningIsUnique
  <2>2. CASE p.msg # Event2(RUNNING, PING)
    BY <2>2, MeaningIsUnique DEF ActsAsMeant
  <2> QED  BY <2>1, <2>2
<1>3. /\ p.msg \in {Event2(RUNNING, PING)} <=> p.msg = Event2(RUNNING, PING)
      /\ p.msg \in {Event2(RUNNING, STOP)} <=> p.msg = Event2(RUNNING, STOP)
      /\ p.msg \in {Event2(LOGLEVEL, s) : s \in Int32}
           <=> \E s \in Int32 : p.msg = Event2(LOGLEVEL, s)
      /\ p.msg \in {Registration(s) : s \in Int32}
           <=> \E s \in Int32 : p.msg = Registration(s)
      /\ p.msg \in {Event(e) : e \in Observed} <=> \E e \in Observed : p.msg = Event(e)
  OBVIOUS
<1> QED  BY <1>1, <1>2, <1>3 DEF Abstract!Receive, ActsAsMeant, LevelOf

(* Every handler makes of a packet what its message means.                  *)
LEMMA HandlersActAsMeant ==
  ASSUME TypeOK, NEW p \in net,
         Drop(p) \/ HandleRunning(p) \/ HandleLoglevel(p) \/ HandleEvent(p)
           \/ HandleRegistration(p)
  PROVE ActsAsMeant(p)
<1> DEFINE o == Create(p.words)
<1>1. Fit(p) /\ p.msg \in Sendable /\ p.words = Encode(p.msg)  BY DEF TypeOK, Fit, Packet
<1>2. o # Null => o = p.msg  BY <1>1, Received
<1>3. /\ p.msg = Event2(RUNNING, PING)
           <=> p.msg.type # "registration" /\ p.msg.event = RUNNING /\ p.msg.sub = PING
      /\ p.msg = Event2(RUNNING, STOP)
           <=> p.msg.type # "registration" /\ p.msg.event = RUNNING /\ p.msg.sub = STOP
      /\ (\E s \in Int32 : p.msg = Event2(LOGLEVEL, s))
           <=> p.msg.type # "registration" /\ p.msg.event = LOGLEVEL
      /\ (\E s \in Int32 : p.msg = Registration(s)) <=> p.msg.type = "registration"
      /\ (\E e \in Observed : p.msg = Event(e))
           <=> p.msg.type # "registration" /\ p.msg.event \in Observed
  BY <1>1, KindsOfMessages
<1>4. CASE Drop(p)
  <2>1. o = Null /\ p.to \in running /\ net' = net \ {p}
        /\ UNCHANGED <<running, level, observers, fed>>
    BY <1>4 DEF Drop, Take
  <2>2. CASE p.msg = Event(EVENT2)
    <3>1. p.msg.type = "event" /\ p.msg.event = EVENT2  BY <2>2, Fields
    <3> QED  BY <1>3, <2>1, <3>1 DEF ActsAsMeant, EVENT2, RUNNING, LOGLEVEL, Observed, NEWFEED, STATISTICS_UPDATED, TRENDS_UPDATED
  <2>3. CASE o = p.msg
    <3>1. p.msg = Null  BY <2>1, <2>3
    <3> QED  BY <1>1, <3>1, NullAssumption
  <2> QED  BY <1>1, <2>2, <2>3, RoundTrip
<1>5. CASE HandleRunning(p)
  BY <1>2, <1>3, <1>5
     DEF HandleRunning, Take, ActsAsMeant, PING, STOP, RUNNING, LOGLEVEL, Observed, NEWFEED, STATISTICS_UPDATED, TRENDS_UPDATED
<1>6. CASE HandleLoglevel(p)
  <2>0. /\ o # Null /\ o.type # "registration" /\ o.event = LOGLEVEL
        /\ p.to \in running /\ net' = net \ {p}
        /\ level' = [level EXCEPT ![p.to] = o.sub]
        /\ UNCHANGED <<running, observers, fed>>
    BY <1>6 DEF HandleLoglevel, Take
  <2>1. /\ o = p.msg /\ p.msg.type # "registration" /\ p.msg.event = LOGLEVEL
        /\ level' = [level EXCEPT ![p.to] = p.msg.sub]
    <3>1. o = p.msg  BY <1>2, <2>0
    <3>2. p.msg.type # "registration" /\ p.msg.event = LOGLEVEL  BY <3>1, <2>0
    <3>3. o.sub = p.msg.sub  BY <3>1
    <3>4. level' = [level EXCEPT ![p.to] = o.sub]  BY <2>0
    <3>5. level' = [level EXCEPT ![p.to] = p.msg.sub]  BY <3>3, <3>4
    <3> QED  BY <3>1, <3>2, <3>5
  <2>2. /\ p.msg # Event2(RUNNING, PING) /\ p.msg # Event2(RUNNING, STOP)
        /\ \E s \in Int32 : p.msg = Event2(LOGLEVEL, s)
        /\ ~ \E s \in Int32 : p.msg = Registration(s)
        /\ ~ \E e \in Observed : p.msg = Event(e)
    BY <1>3, <2>1 DEF RUNNING, LOGLEVEL, Observed, NEWFEED, STATISTICS_UPDATED, TRENDS_UPDATED
  <2> QED  BY <2>0, <2>1, <2>2 DEF ActsAsMeant
<1>7. CASE HandleEvent(p)
  BY <1>2, <1>3, <1>7 DEF HandleEvent, Take, ActsAsMeant
<1>8. CASE HandleRegistration(p)
  BY <1>2, <1>3, <1>8 DEF HandleRegistration, Take, ActsAsMeant
<1> QED  BY <1>4, <1>5, <1>6, <1>7, <1>8

(* The messages implement the bus: whatever the width of a word, what is    *)
(* sent has on its receiver the effect it was meant to have, or none.       *)
THEOREM Implements == Spec => ImplementsBus
<1>1. Init => Abstract!Init
  BY DEF Init, Abstract!Init, Daemons, Abstract!Daemons
<1>2. TypeOK /\ [Next]_vars => [Abstract!Next]_(Abstract!vars)
  <2> SUFFICES ASSUME TypeOK, [Next]_vars PROVE [Abstract!Next]_(Abstract!vars)  OBVIOUS
  <2>1. ASSUME NEW e \in Events, NEW s \in Subs, NEW peers \in SUBSET Daemons,
               ControlSends(e, s, peers)
        PROVE [Abstract!Next]_(Abstract!vars)
    <3>1. Abstract!Post({Meaning(p) : p \in {Packet(Control, d, m) : d \in peers, m \in Asked(e, s)}})
      BY <2>1, SendPosts DEF ControlSends
    <3>2. CASE Asked(e, s) = {}
      BY <3>1, <3>2 DEF Abstract!Post, Abstract!vars
    <3>3. CASE Asked(e, s) # {}
      <4>1. PICK m : Asked(e, s) = {m}  BY <3>3 DEF Asked
      <4>2. m \in Commands  BY <4>1 DEF Commands
      <4>3. {Meaning(p) : p \in {Packet(Control, d, n) : d \in peers, n \in Asked(e, s)}}
              = {Abstract!Mail(Control, d, m) : d \in peers}
        BY <4>1, MeaningOfPacket
      <4>4. Abstract!Ask(m, peers)  BY <3>1, <4>3 DEF Abstract!Ask
      <4>5. peers \in SUBSET Abstract!Daemons  BY DEF Daemons, Abstract!Daemons
      <4> QED  BY <4>2, <4>4, <4>5 DEF Abstract!Next
    <3> QED  BY <3>2, <3>3
  <2>2. ASSUME NEW f \in Feeders, Notify(f)  PROVE [Abstract!Next]_(Abstract!vars)
    <3> DEFINE mine == {p \in observers : p[1] = f}
    <3>1. Abstract!Post({Meaning(p) : p \in {Packet(f, o[2], Event(NEWFEED)) : o \in mine}})
      BY <2>2, SendPosts DEF Notify
    <3>2. {Meaning(p) : p \in {Packet(f, o[2], Event(NEWFEED)) : o \in mine}}
            = {Abstract!Mail(f, o[2], Event(NEWFEED)) : o \in mine}
      BY MeaningOfPacket
    <3>3. Abstract!Announce(f)  BY <2>2, <3>1, <3>2 DEF Abstract!Announce, Notify
    <3> QED  BY <3>3 DEF Abstract!Next
  <2>3. ASSUME NEW m \in Managers, Register(m)  PROVE [Abstract!Next]_(Abstract!vars)
    <3>1. Abstract!Post({Meaning(p) : p \in {Packet(m, f, Registration(Seconds)) : f \in Feeders}})
      BY <2>3, SendPosts DEF Register
    <3>2. {Meaning(p) : p \in {Packet(m, f, Registration(Seconds)) : f \in Feeders}}
            = {Abstract!Mail(m, f, Registration(Seconds)) : f \in Feeders}
      BY MeaningOfPacket
    <3>3. Abstract!Register(m, Registration(Seconds))
      BY <2>3, <3>1, <3>2 DEF Abstract!Register, Register
    <3> QED  BY <3>3 DEF Abstract!Next
  <2>4. ASSUME NEW p \in net,
               Drop(p) \/ HandleRunning(p) \/ HandleLoglevel(p) \/ HandleEvent(p)
                 \/ HandleRegistration(p)
        PROVE [Abstract!Next]_(Abstract!vars)
    <3>1. Abstract!Receive(Meaning(p))  BY <2>4, HandlersActAsMeant, ReceivesTheMeaning
    <3> QED  BY <3>1 DEF Abstract!Next
  <2>5. CASE UNCHANGED vars
    BY <2>5 DEF vars, Abstract!vars
  <2> QED  BY <2>1, <2>2, <2>3, <2>4, <2>5 DEF Next
<1> QED  BY <1>1, <1>2, TypeCorrect, PTL DEF Spec, ImplementsBus, Abstract!Spec
=============================================================================
