---------------------------------- MODULE Bus ----------------------------------
(***************************************************************************)
(* What the messages between the daemons promise: what is sent arrives as  *)
(* it was meant, or not at all, and each message has its one effect.       *)
(* A ping is acknowledged, a stop ends the daemon, a level is set, an      *)
(* event that is observed is told to a manager's plugins, a registration   *)
(* makes an observer of a feeder, and all others do nothing.               *)
(***************************************************************************)

CONSTANTS
  Feeders, Schedulers, Managers, Control,   \* the processes
  Commands,                  \* what a control may be asked to send
  Pings, Stops, Levels,      \* those of them that have an effect
  LevelOf(_),                \* the level of one of Levels
  Acknowledgement, NewFeed,
  Observed,                  \* what a manager's plugins are told of
  Registrations,             \* what managers send
  NoLevel                    \* the level of a daemon that was told of none

VARIABLES
  packets,    \* on their way
  running,    \* the daemons that run
  level,
  observers,  \* <<feeder, manager>>
  fed         \* <<manager, message>>: what its plugins were told of

vars == <<packets, running, level, observers, fed>>

Daemons == Feeders \cup Schedulers \cup Managers

Mail(from, to, m) == [from |-> from, to |-> to, msg |-> m]

Init ==
  /\ packets = {} /\ running = Daemons /\ level = [d \in Daemons |-> NoLevel]
  /\ observers = {} /\ fed = {}

Post(mail) == packets' = packets \cup mail /\ UNCHANGED <<running, level, observers, fed>>

Ask(m, peers) == Post({Mail(Control, d, m) : d \in peers})

Announce(f) ==
  /\ f \in running
  /\ Post({Mail(f, o[2], NewFeed) : o \in {p \in observers : p[1] = f}})

Register(m, r) == m \in running /\ Post({Mail(m, f, r) : f \in Feeders})

(* A packet is taken, once, by a daemon that runs.                          *)
Receive(p) ==
  /\ p.to \in running
  /\ packets' = (packets \ {p}) \cup
       (IF p.msg \in Pings THEN {Mail(p.to, p.from, Acknowledgement)} ELSE {})
  /\ running' = IF p.msg \in Stops THEN running \ {p.to} ELSE running
  /\ level' = IF p.msg \in Levels THEN [level EXCEPT ![p.to] = LevelOf(p.msg)] ELSE level
  /\ observers' = IF p.msg \in Registrations /\ p.to \in Feeders
                    THEN observers \cup {<<p.to, p.from>>} ELSE observers
  /\ fed' = IF p.msg \in Observed /\ p.to \in Managers
              THEN fed \cup {<<p.to, p.msg>>} ELSE fed

Next ==
  \/ \E m \in Commands, peers \in SUBSET Daemons : Ask(m, peers)
  \/ \E f \in Feeders : Announce(f)
  \/ \E m \in Managers, r \in Registrations : Register(m, r)
  \/ \E p \in packets : Receive(p)

Spec == Init /\ [][Next]_vars
=============================================================================
