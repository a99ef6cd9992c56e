------------------------------- MODULE Children -------------------------------
(***************************************************************************)
(* The children of the feeder (wget and the parser of each feed) and of    *)
(* the scheduler (the commands), and how they are reaped: a handler of     *)
(* SIGCHLD that calls wait once, and, in the feeder, a wait of main when   *)
(* the parser cannot be forked.  A signal that is raised while it is       *)
(* pending is lost, and the handler runs with the signal blocked.          *)
(* Source: src/feeder/Feeder.cc, src/scheduler/Scheduler.cc.               *)
(***************************************************************************)
EXTENDS Integers

CONSTANT MaxForks    \* bound: children

ASSUME ChildrenAssumption == MaxForks \in Nat

VARIABLES
  feeds,     \* TRUE: the feeder; FALSE: the scheduler
  main,      \* where main is: idle, wget forked, reading, waiting
  alive, zombies,   \* children that run, that ended and were not reaped
  parser,    \* the running feed's parser is alive
  pending,   \* SIGCHLD is
  handler,   \* the handler is at its wait
  merged,    \* exits whose signal found one pending
  byMain,    \* exits reaped by main
  idled,     \* handlers whose wait found no child
  forks

childrenVars == <<feeds, main, alive, zombies, parser, pending, handler, merged, byMain, idled, forks>>

ChildrenInit ==
  /\ feeds \in BOOLEAN
  /\ main = "idle" /\ alive = 0 /\ zombies = 0 /\ parser = FALSE
  /\ pending = FALSE /\ handler = FALSE
  /\ merged = 0 /\ byMain = 0 /\ idled = 0 /\ forks = 0

-----------------------------------------------------------------------------
(* main, which does nothing while the handler runs.                         *)

Fork ==
  /\ forks < MaxForks /\ forks' = forks + 1 /\ alive' = alive + 1
  /\ UNCHANGED <<feeds, zombies, pending, handler, merged, byMain, idled>>

(* Scheduler::exec.                                                         *)
Exec ==
  /\ ~feeds /\ ~handler /\ main = "idle"
  /\ Fork
  /\ UNCHANGED <<feeds, main, parser>>

(* Feeder::feed: wget, whose failure to fork ends the feed.                 *)
ForkWget ==
  /\ feeds /\ ~handler /\ main = "idle"
  /\ Fork
  /\ main' = "wget" /\ UNCHANGED parser

ForkParser ==
  /\ ~handler /\ main = "wget"
  /\ Fork
  /\ main' = "reading" /\ parser' = TRUE

(* The feed goes on to m without a step of the children.                    *)
MainGoes(m) ==
  /\ ~handler /\ main' = m
  /\ UNCHANGED <<feeds, alive, zombies, parser, pending, handler, merged, byMain, idled, forks>>

(* The parser's pipe cannot be made: the feed ends.  The parser cannot be   *)
(* forked: main waits for a child, wget as it supposes.                     *)
PipeFails == main = "wget" /\ MainGoes("idle")
ForkParserFails == main = "wget" /\ MainGoes("waiting")

(* Faulty variant: main kept the parser's end of the pipe open.             *)
ReadEndsNever == main = "reading" /\ ~parser /\ MainGoes("reading")

(* read returns 0 when the parser, the one that has the pipe, is gone.      *)
ReadEnds == main = "reading" /\ ~parser /\ MainGoes("idle")

(* read fails: the feed ends, its children do as they will.                 *)
ReadFails ==
  /\ main = "reading" /\ ~handler
  /\ main' = "idle" /\ parser' = FALSE
  /\ UNCHANGED <<feeds, alive, zombies, pending, handler, merged, byMain, idled, forks>>

(* main's wait returns with a child, or there is none.                      *)
MainReaps ==
  /\ main = "waiting" /\ ~handler /\ zombies > 0
  /\ zombies' = zombies - 1 /\ byMain' = byMain + 1
  /\ main' = "idle"
  /\ UNCHANGED <<feeds, alive, parser, pending, handler, merged, idled, forks>>

MainHasNone == main = "waiting" /\ alive = 0 /\ zombies = 0 /\ MainGoes("idle")

-----------------------------------------------------------------------------
(* The children, and the signal.                                            *)

Exit ==
  /\ alive' = alive - 1 /\ zombies' = zombies + 1
  /\ pending' = TRUE
  /\ merged' = IF pending THEN merged + 1 ELSE merged
  /\ UNCHANGED <<feeds, main, handler, byMain, idled, forks>>

ParserExits == parser /\ Exit /\ parser' = FALSE

(* A wget or a command: whoever is not the feed's parser.                   *)
ChildExits ==
  /\ alive > (IF parser THEN 1 ELSE 0)
  /\ Exit /\ UNCHANGED parser

HandlerStarts ==
  /\ pending /\ ~handler
  /\ pending' = FALSE /\ handler' = TRUE
  /\ UNCHANGED <<feeds, main, alive, zombies, parser, merged, byMain, idled, forks>>

(* Faulty variant: the handler waits until there are no children left.      *)
HandlerReapsAll ==
  /\ handler /\ zombies > 0
  /\ zombies' = zombies - 1 /\ handler' = (alive + zombies > 1)
  /\ UNCHANGED <<feeds, main, alive, parser, pending, merged, byMain, idled, forks>>

(* The handler's wait returns with a child, or there is none.               *)
HandlerReaps ==
  /\ handler /\ zombies > 0
  /\ zombies' = zombies - 1 /\ handler' = FALSE
  /\ UNCHANGED <<feeds, main, alive, parser, pending, merged, byMain, idled, forks>>

HandlerHasNone ==
  /\ handler /\ zombies = 0 /\ alive = 0
  /\ handler' = FALSE /\ idled' = idled + 1
  /\ UNCHANGED <<feeds, main, alive, zombies, parser, pending, merged, byMain, forks>>

FeedSteps == ForkWget \/ ForkParser \/ PipeFails \/ ForkParserFails \/ ReadEnds \/ ReadFails
        \/ MainReaps \/ MainHasNone
Handler == HandlerStarts \/ HandlerReaps \/ HandlerHasNone
Child == ParserExits \/ ChildExits

ChildrenNext == Exec \/ FeedSteps \/ Handler \/ Child

ChildrenSpec == ChildrenInit /\ [][ChildrenNext]_childrenVars

-----------------------------------------------------------------------------
(* Properties.                                                              *)

ChildrenTypeOK ==
  /\ main \in {"idle", "wget", "reading", "waiting"}
  /\ alive \in Nat /\ zombies \in Nat /\ merged \in Nat /\ byMain \in Nat
  /\ idled \in Nat /\ forks \in 0..MaxForks
  /\ parser \in BOOLEAN /\ pending \in BOOLEAN /\ handler \in BOOLEAN
  /\ parser => alive > 0
  /\ feeds \in BOOLEAN /\ (~feeds => main = "idle")

Pendings == IF pending THEN 1 ELSE 0
Handlers == IF handler THEN 1 ELSE 0

(* No exit is lost track of: what is neither reaped nor about to be is what *)
(* signals merged, so one zombie stays for each of those, and none else.    *)
EveryExitIsCounted ==
  zombies + byMain = merged + Pendings + Handlers + idled

(* The handler, and with it the daemon, blocks for no child: its wait finds *)
(* one that ended, always in the scheduler, and in the feeder unless a wait *)
(* of main took one.                                                        *)
WaitFindsAChild == handler /\ (byMain = 0 \/ ~feeds) => zombies > 0

(* What the feed, or the handler that interrupts it, may have to wait for:  *)
(* the parser it reads from, and a child, where none has ended.             *)
Held ==
  \/ main = "reading" /\ parser
  \/ (main = "waiting" \/ handler) /\ alive > 0 /\ zombies = 0

(* A feed ends, or is held up for ever by a child that does not: read has   *)
(* no timeout, and neither has wait.  No other child, no signal that is     *)
(* merged and no exit that is reaped by the wrong one makes it hang.        *)
FeedsEnd == (main # "idle") ~> (main = "idle" \/ []Held)
=============================================================================
