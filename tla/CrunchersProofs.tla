---------------------------- MODULE CrunchersProofs ----------------------------
(***************************************************************************)
(* Proofs about the cruncher process for any set of plugins, any events    *)
(* they observe, accept and send, and any bounds.                          *)
(***************************************************************************)
EXTENDS Crunchers, TLAPS

USE ThreadsAssumption, EventsAssumption, BoundsAssumption
    DEF ThreadsAssumption, EventsAssumption, BoundsAssumption, Thread


(* A step keeps every variable's type.                                      *)
LEMMA TypeStep == TypeOK /\ [Next]_vars => TypeOK'
<1> SUFFICES ASSUME TypeOK, [Next]_vars PROVE TypeOK'
  OBVIOUS
<1> USE DEF TypeOK, Thread, CruncherPC, MainPC, Goto, vars, mainVars, lockVars,
            dispVars, dataVars, wireVars
<1> QED
  <2>1. ASSUME NEW c \in Crunchers, Load(c)
         PROVE  TypeOK'
    BY <2>1 DEF Load
  <2>2. ASSUME NEW c \in Crunchers, LoadFails(c)
         PROVE  TypeOK'
    BY <2>2 DEF LoadFails
  <2>3. ASSUME InitDone
         PROVE  TypeOK'
    BY <2>3 DEF InitDone
  <2>4. ASSUME NEW c \in Crunchers, Unpark(c)
         PROVE  TypeOK'
    BY <2>4 DEF Unpark
  <2>5. ASSUME UnparkDone
         PROVE  TypeOK'
    BY <2>5 DEF UnparkDone
  <2>6. ASSUME NEW t \in Thread, NEW d \in Crunchers, Msg(t, d)
         PROVE  TypeOK'
    <3>1. todo' \in [Thread -> SUBSET Crunchers]
      BY <2>6 DEF Msg
    <3>2. UNCHANGED <<mainVars, lockVars, event, dataVars, wireVars, state,
                      observers>>
      BY <2>6 DEF Msg
    <3>3. CASE Accepts[d] = event[t]
      <4>1. /\ pending' = [pending EXCEPT ![d] = pending[d] + 1]
            /\ pc' = [pc EXCEPT ![d] = IF pc[d] = "cond" THEN "woken" ELSE pc[d]]
        BY <2>6, <3>3 DEF Msg
      <4>2. pending' \in [Crunchers -> Nat]
        BY <4>1
      <4>3. pc' \in [Thread -> CruncherPC \cup MainPC]
        BY <4>1
      <4>4. /\ pc'[Main] \in MainPC
            /\ \A c \in Crunchers : pc'[c] \in CruncherPC
            /\ \A c \in Crunchers : pc'[c] = "send" => Emits[c] # None
        BY <4>1
      <4>. QED
        BY <3>1, <3>2, <4>2, <4>3, <4>4
    <3>4. CASE Accepts[d] # event[t]
      <4>1. UNCHANGED <<pending, pc>>
        BY <2>6, <3>4 DEF Msg
      <4>. QED
        BY <3>1, <3>2, <4>1
    <3>. QED
      BY <3>3, <3>4
  <2>7. ASSUME NEW t \in Thread, EndDispatch(t)
         PROVE  TypeOK'
    BY <2>7 DEF EndDispatch
  <2>8. ASSUME NEW c \in Crunchers, Start(c)
         PROVE  TypeOK'
    BY <2>8 DEF Start
  <2>9. ASSUME NEW c \in Crunchers, Observe(c)
         PROVE  TypeOK'
    BY <2>9 DEF Observe
  <2>10. ASSUME NEW c \in Crunchers, Enter(c)
         PROVE  TypeOK'
    BY <2>10 DEF Enter
  <2>11. ASSUME NEW c \in Crunchers, Sleep(c)
         PROVE  TypeOK'
    BY <2>11 DEF Sleep
  <2>12. ASSUME NEW c \in Crunchers, SpuriousWakeup(c)
         PROVE  TypeOK'
    BY <2>12 DEF SpuriousWakeup
  <2>13. ASSUME NEW c \in Crunchers, Relock(c)
         PROVE  TypeOK'
    BY <2>13 DEF Relock
  <2>14. ASSUME NEW c \in Crunchers, Take(c)
         PROVE  TypeOK'
    BY <2>14 DEF Take
  <2>15. ASSUME NEW c \in Crunchers, Read(c)
         PROVE  TypeOK'
    BY <2>15 DEF Read
  <2>16. ASSUME NEW c \in Crunchers, Write(c)
         PROVE  TypeOK'
    <3>1. UNCHANGED <<mainVars, lockVars, dispVars, announced, seen, wireVars,
                      state, pending, observers>>
      BY <2>16 DEF Write
    <3>2. version' \in [Event -> Nat]
      <4>1. CASE Emits[c] = None
        BY <2>16, <4>1 DEF Write
      <4>2. CASE Emits[c] # None
        <5>1. version' = [version EXCEPT ![Emits[c]] = seen[c]]
          BY <2>16, <4>2 DEF Write
        <5>. QED
          BY <5>1
      <4>. QED
        BY <4>1, <4>2
    <3>3. pc' = [pc EXCEPT ![c] = IF Emits[c] = None THEN "enter" ELSE "send"]
      BY <2>16 DEF Write
    <3>4. /\ pc' \in [Thread -> CruncherPC \cup MainPC]
          /\ pc'[Main] \in MainPC /\ \A d \in Crunchers : pc'[d] \in CruncherPC
          /\ \A d \in Crunchers : pc'[d] = "send" => Emits[d] # None
      BY <3>3
    <3>. QED
      BY <3>1, <3>2, <3>4
  <2>17. ASSUME NEW c \in Crunchers, Send(c)
         PROVE  TypeOK'
    BY <2>17 DEF Send, BeginDispatch
  <2>18. ASSUME ReceiveEvent
         PROVE  TypeOK'
    BY <2>18 DEF ReceiveEvent, BeginDispatch
  <2>19. ASSUME ReceiveStop
         PROVE  TypeOK'
    BY <2>19 DEF ReceiveStop
  <2>20. ASSUME Timeout
         PROVE  TypeOK'
    BY <2>20 DEF Timeout
  <2>21. ASSUME NEW c \in Crunchers, ScanWaiting(c)
         PROVE  TypeOK'
    BY <2>21 DEF ScanWaiting
  <2>22. ASSUME NEW c \in Crunchers, ScanRunning(c)
         PROVE  TypeOK'
    BY <2>22 DEF ScanRunning, Register
  <2>23. ASSUME AllDoneExit
         PROVE  TypeOK'
    BY <2>23 DEF AllDoneExit
  <2>24. ASSUME AllDone
         PROVE  TypeOK'
    <3>1. registered' \in BOOLEAN
      BY <2>24, Zenon DEF AllDone, Register
    <3>2. shots' \in Nat
      BY <2>24 DEF AllDone
    <3>3. pc' = [pc EXCEPT ![Main] = "poll"]
      BY <2>24 DEF AllDone
    <3>4. UNCHANGED <<loading, crunchers, unscanned, lockVars, dispVars,
                      dataVars, wireVars, state, pending, observers>>
      BY <2>24 DEF AllDone
    <3>. QED
      BY <3>1, <3>2, <3>3, <3>4
  <2>25. ASSUME Feed
         PROVE  TypeOK'
    <3>1. version' \in [Event -> Nat]
      BY <2>25 DEF Feed
    <3>2. UNCHANGED <<mainVars, lockVars, dispVars, announced, seen, wireVars, pc,
                      state, pending, observers>>
      BY <2>25 DEF Feed
    <3>. QED
      BY <3>1, <3>2
  <2>26. ASSUME FeederNotifies
         PROVE  TypeOK'
    BY <2>26 DEF FeederNotifies, Deliver
  <2>27. ASSUME NEW m \in FromControl, ControlSends(m)
         PROVE  TypeOK'
    BY <2>27 DEF ControlSends, Deliver
  <2>28. CASE UNCHANGED vars
    BY <2>28
  <2>29. QED
    BY <2>1, <2>2, <2>3, <2>4, <2>5, <2>6, <2>7, <2>8, <2>9, <2>10, <2>11, <2>12, <2>13, <2>14, <2>15, <2>16, <2>17, <2>18, <2>19, <2>20, <2>21, <2>22, <2>23, <2>24, <2>25, <2>26, <2>27, <2>28
    DEF Next, MainStep, CruncherStep, DispatchStep, Environment, Exited

-----------------------------------------------------------------------------
(* Every variable starts with its type.                                     *)
LEMMA TypeInit == Init => TypeOK
<1> SUFFICES ASSUME Init PROVE TypeOK
  OBVIOUS
<1>1. /\ pc \in [Thread -> CruncherPC \cup MainPC]
      /\ pc[Main] \in MainPC
      /\ \A c \in Crunchers : pc[c] \in CruncherPC /\ pc[c] # "send"
  BY DEF Init, CruncherPC, MainPC
<1>2. inbox \in Seq(Event \cup {Stop})
  BY DEF Init
<1>3. /\ observers \in [Event -> SUBSET Crunchers]
      /\ event \in [Thread -> Event \cup {None}]
      /\ todo \in [Thread -> SUBSET Crunchers]
  BY DEF Init
<1>. QED
  BY <1>1, <1>2, <1>3 DEF Init, TypeOK

(* Type correctness of the cruncher process, for every configuration.       *)
THEOREM TypeCorrect == Spec => []TypeOK
<1>. QED
  BY TypeInit, TypeStep, PTL DEF Spec

(* No plugin passes its gate before the init loop is over.                  *)
LEMMA GateStep == TypeOK /\ GateInv /\ [Next]_vars => GateInv'
<1> SUFFICES ASSUME TypeOK, GateInv, [Next]_vars PROVE GateInv'
  OBVIOUS
<1> USE DEF TypeOK, GateInv, Goto, vars, mainVars, lockVars
<1>1. ASSUME NEW c \in Crunchers,
             \/ Load(c) \/ LoadFails(c) \/ Unpark(c) \/ ScanWaiting(c)
             \/ ScanRunning(c)
      PROVE  GateInv'
  <2>1. CASE Load(c)
    BY <2>1 DEF Load
  <2>2. CASE ScanRunning(c)
    BY <2>2 DEF ScanRunning
  <2>. QED
    BY <1>1, <2>1, <2>2 DEF LoadFails, Unpark, ScanWaiting
<1>2. ASSUME \/ InitDone \/ UnparkDone \/ ReceiveStop \/ Timeout \/ AllDoneExit
             \/ AllDone
      PROVE  GateInv'
  BY <1>2 DEF InitDone, UnparkDone, ReceiveStop, Timeout, AllDoneExit, AllDone
<1>3. CASE ReceiveEvent
  BY <1>3 DEF ReceiveEvent, BeginDispatch
<1>4. ASSUME NEW c \in Crunchers,
             \/ Start(c) \/ Observe(c) \/ Enter(c) \/ Sleep(c) \/ Relock(c)
             \/ Take(c) \/ Read(c) \/ SpuriousWakeup(c)
      PROVE  GateInv'
  BY <1>4 DEF Start, Observe, Enter, Sleep, Relock, Take, Read, SpuriousWakeup
<1>5. ASSUME NEW c \in Crunchers, Write(c) PROVE GateInv'
  BY <1>5 DEF Write
<1>6. ASSUME NEW c \in Crunchers, Send(c) PROVE GateInv'
  BY <1>6 DEF Send, BeginDispatch
<1>7. ASSUME NEW t \in Thread, EndDispatch(t) PROVE GateInv'
  BY <1>7 DEF EndDispatch
<1>8. ASSUME NEW t \in Thread, NEW d \in Crunchers, Msg(t, d) PROVE GateInv'
  <2>1. UNCHANGED <<mainVars, lockVars>>
    BY <1>8 DEF Msg
  <2>2. \/ pc' = pc
        \/ pc[d] = "cond" /\ pc' = [pc EXCEPT ![d] = "woken"]
    BY <1>8 DEF Msg
  <2>. QED
    BY <2>1, <2>2
<1>9. CASE Environment
  BY <1>4, <1>9 DEF Environment, Feed, FeederNotifies, ControlSends, Deliver
<1>10. CASE UNCHANGED vars
  BY <1>10
<1>. QED
  BY <1>1, <1>2, <1>3, <1>4, <1>5, <1>6, <1>7, <1>8, <1>9, <1>10
  DEF Next, MainStep, CruncherStep, DispatchStep, Exited

(* manager_mtx is owned exactly by the dispatching thread.                  *)
LEMMA LockStep == TypeOK /\ GateInv /\ LockInv /\ [Next]_vars => LockInv'
<1> SUFFICES ASSUME TypeOK, GateInv, LockInv, [Next]_vars PROVE LockInv'
  OBVIOUS
<1> USE DEF TypeOK, LockInv, Goto, vars, lockVars, dispVars
<1>1. ASSUME NEW c \in Crunchers,
             \/ Load(c) \/ LoadFails(c) \/ Unpark(c) \/ ScanWaiting(c)
             \/ ScanRunning(c)
      PROVE  LockInv'
  <2>1. CASE Load(c)
    BY <2>1 DEF Load, GateInv
  <2>2. CASE ScanRunning(c)
    BY <2>2 DEF ScanRunning
  <2>. QED
    BY <1>1, <2>1, <2>2 DEF LoadFails, Unpark, ScanWaiting
<1>2. ASSUME \/ InitDone \/ UnparkDone \/ ReceiveStop \/ Timeout \/ AllDoneExit
             \/ AllDone
      PROVE  LockInv'
  BY <1>2 DEF InitDone, UnparkDone, ReceiveStop, Timeout, AllDoneExit, AllDone
<1>3. CASE ReceiveEvent
  BY <1>3 DEF ReceiveEvent, BeginDispatch
<1>4. ASSUME NEW c \in Crunchers,
             \/ Start(c) \/ Observe(c) \/ Enter(c) \/ Sleep(c) \/ Relock(c)
             \/ Take(c) \/ Read(c) \/ SpuriousWakeup(c)
      PROVE  LockInv'
  BY <1>4 DEF Start, Observe, Enter, Sleep, Relock, Take, Read, SpuriousWakeup
<1>5. ASSUME NEW c \in Crunchers, Write(c) PROVE LockInv'
  <2>1. pc' = [pc EXCEPT ![c] = IF Emits[c] = None THEN "enter" ELSE "send"]
    BY <1>5 DEF Write
  <2>2. UNCHANGED <<lockVars, dispVars>> /\ pc[c] = "write"
    BY <1>5 DEF Write
  <2>. QED
    BY <2>1, <2>2
<1>6. ASSUME NEW c \in Crunchers, Send(c) PROVE LockInv'
  BY <1>6 DEF Send, BeginDispatch
<1>7. ASSUME NEW t \in Thread, EndDispatch(t) PROVE LockInv'
  BY <1>7 DEF EndDispatch
<1>8. ASSUME NEW t \in Thread, NEW d \in Crunchers, Msg(t, d) PROVE LockInv'
  <2>1. UNCHANGED <<lockVars, event>>
    BY <1>8 DEF Msg
  <2>2. \/ pc' = pc
        \/ pc[d] = "cond" /\ pc' = [pc EXCEPT ![d] = "woken"]
    BY <1>8 DEF Msg
  <2>. QED
    BY <2>1, <2>2
<1>9. CASE Environment
  BY <1>4, <1>9 DEF Environment, Feed, FeederNotifies, ControlSends, Deliver
<1>10. CASE UNCHANGED vars
  BY <1>10
<1>. QED
  BY <1>1, <1>2, <1>3, <1>4, <1>5, <1>6, <1>7, <1>8, <1>9, <1>10
  DEF Next, MainStep, CruncherStep, DispatchStep, Exited

(* Before a plugin observes, its counter still holds the initial wake-up.   *)
LEMMA ObserveStep == TypeOK /\ GateInv /\ ObserveInv /\ [Next]_vars => ObserveInv'
<1> SUFFICES ASSUME TypeOK, GateInv, ObserveInv, [Next]_vars PROVE ObserveInv'
  OBVIOUS
<1> USE DEF TypeOK, ObserveInv, Goto, vars, mainVars, lockVars
<1>1. ASSUME NEW c \in Crunchers,
             \/ Load(c) \/ LoadFails(c) \/ Unpark(c) \/ ScanWaiting(c)
             \/ ScanRunning(c)
      PROVE  ObserveInv'
  <2>1. CASE Load(c)
    BY <2>1 DEF Load, GateInv
  <2>2. CASE ScanRunning(c)
    BY <2>2 DEF ScanRunning
  <2>. QED
    BY <1>1, <2>1, <2>2 DEF LoadFails, Unpark, ScanWaiting
<1>2. ASSUME \/ InitDone \/ UnparkDone \/ ReceiveStop \/ Timeout \/ AllDoneExit
             \/ AllDone
      PROVE  ObserveInv'
  BY <1>2 DEF InitDone, UnparkDone, ReceiveStop, Timeout, AllDoneExit, AllDone
<1>3. CASE ReceiveEvent
  BY <1>3 DEF ReceiveEvent, BeginDispatch
<1>4. ASSUME NEW c \in Crunchers,
             \/ Start(c) \/ Observe(c) \/ Enter(c) \/ Sleep(c) \/ Relock(c)
             \/ Take(c) \/ Read(c) \/ SpuriousWakeup(c)
      PROVE  ObserveInv'
  <2>1. CASE Observe(c)
    BY <2>1 DEF Observe
  <2>2. CASE Take(c)
    BY <2>2 DEF Take
  <2>3. CASE Start(c) \/ Enter(c) \/ Sleep(c)
    BY <2>3 DEF Start, Enter, Sleep
  <2>4. CASE Relock(c) \/ Read(c) \/ SpuriousWakeup(c)
    BY <2>4 DEF Relock, Read, SpuriousWakeup
  <2>. QED
    BY <1>4, <2>1, <2>2, <2>3, <2>4
<1>5. ASSUME NEW c \in Crunchers, Write(c) PROVE ObserveInv'
  <2>1. pc' = [pc EXCEPT ![c] = IF Emits[c] = None THEN "enter" ELSE "send"]
    BY <1>5 DEF Write
  <2>2. UNCHANGED <<observers, pending>> /\ pc[c] = "write"
    BY <1>5 DEF Write
  <2>. QED
    BY <2>1, <2>2
<1>6. ASSUME NEW c \in Crunchers, Send(c) PROVE ObserveInv'
  BY <1>6 DEF Send, BeginDispatch
<1>7. ASSUME NEW t \in Thread, EndDispatch(t) PROVE ObserveInv'
  BY <1>7 DEF EndDispatch
<1>8. ASSUME NEW t \in Thread, NEW d \in Crunchers, Msg(t, d) PROVE ObserveInv'
  <2>1. observers' = observers
    BY <1>8 DEF Msg
  <2>2. \/ UNCHANGED <<pending, pc>>
        \/ /\ pending' = [pending EXCEPT ![d] = pending[d] + 1]
           /\ pc' = [pc EXCEPT ![d] = IF pc[d] = "cond" THEN "woken" ELSE pc[d]]
    BY <1>8 DEF Msg
  <2>3. \A c \in Crunchers : pending[c] > 0 => pending'[c] > 0
    <3>1. CASE pending' = pending
      BY <3>1
    <3>2. CASE pending' = [pending EXCEPT ![d] = pending[d] + 1]
      BY <3>2
    <3>. QED
      BY <2>2, <3>1, <3>2
  <2>4. \A c \in Crunchers :
          pc'[c] = pc[c] \/ (pc[c] = "cond" /\ pc'[c] = "woken")
    BY <2>2
  <2>5. ASSUME NEW c \in Crunchers, pc'[c] = "cond" PROVE pending'[c] = 0
    <3>1. CASE UNCHANGED <<pending, pc>>
      BY <2>5, <3>1
    <3>2. CASE /\ pending' = [pending EXCEPT ![d] = pending[d] + 1]
               /\ pc' = [pc EXCEPT ![d] = IF pc[d] = "cond" THEN "woken" ELSE pc[d]]
      BY <2>5, <3>2
    <3>. QED
      BY <2>2, <3>1, <3>2
  <2>. QED
    BY <2>1, <2>3, <2>4, <2>5
<1>9. CASE Environment
  BY <1>4, <1>9 DEF Environment, Feed, FeederNotifies, ControlSends, Deliver
<1>10. CASE UNCHANGED vars
  BY <1>10
<1>. QED
  BY <1>1, <1>2, <1>3, <1>4, <1>5, <1>6, <1>7, <1>8, <1>9, <1>10
  DEF Next, MainStep, CruncherStep, DispatchStep, Exited

(* What a plugin announces is what it last read, never newer than its source. *)
LEMMA DataStep == TypeOK /\ GateInv /\ DataInv /\ [Next]_vars => DataInv'
<1> SUFFICES ASSUME TypeOK, GateInv, DataInv, [Next]_vars PROVE DataInv'
  OBVIOUS
<1> DEFINE Quiet == /\ UNCHANGED dataVars
                    /\ \A c \in Crunchers :
                         pc[c] \in {"write", "send"} => pc'[c] = pc[c]
<1> USE DEF dataVars, Goto
<1>1. Quiet => DataInv'
  BY DEF DataInv
<1> HIDE DEF Quiet
<1>2. ASSUME NEW c \in Crunchers, Load(c) PROVE Quiet
  BY <1>2 DEF Load, GateInv, Quiet, TypeOK
<1>3. ASSUME NEW c \in Crunchers, ScanRunning(c) PROVE Quiet
  BY <1>3 DEF ScanRunning, Quiet, TypeOK
<1>4. ASSUME NEW c \in Crunchers, LoadFails(c) \/ Unpark(c) \/ ScanWaiting(c)
      PROVE  Quiet
  BY <1>4 DEF LoadFails, Unpark, ScanWaiting, Quiet
<1>5. ASSUME InitDone \/ UnparkDone \/ ReceiveStop \/ Timeout \/ AllDoneExit \/ AllDone
      PROVE  Quiet
  BY <1>5 DEF InitDone, UnparkDone, ReceiveStop, Timeout, AllDoneExit, AllDone,
              Quiet, TypeOK
<1>6. ASSUME NEW c \in Crunchers,
             \/ Start(c) \/ Observe(c) \/ Enter(c) \/ Sleep(c) \/ Relock(c)
             \/ Take(c) \/ SpuriousWakeup(c)
      PROVE  Quiet
  BY <1>6 DEF Start, Observe, Enter, Sleep, Relock, Take, SpuriousWakeup, Quiet,
              TypeOK
<1>7. ASSUME NEW t \in Thread, EndDispatch(t) PROVE Quiet
  BY <1>7 DEF EndDispatch, Quiet, TypeOK
<1>8. ASSUME NEW t \in Thread, NEW d \in Crunchers, Msg(t, d) PROVE Quiet
  <2>1. \/ pc' = pc
        \/ pc[d] = "cond" /\ pc' = [pc EXCEPT ![d] = "woken"]
    BY <1>8 DEF Msg, TypeOK
  <2>2. UNCHANGED dataVars
    BY <1>8 DEF Msg
  <2>. QED
    BY <2>1, <2>2 DEF Quiet, TypeOK
<1>9. ASSUME NEW m, Deliver(m) PROVE Quiet
  BY <1>9 DEF Deliver, Quiet
<1>10. CASE UNCHANGED vars
  BY <1>10, <1>1 DEF vars, Quiet
<1> USE DEF TypeOK
<1>11. CASE Feed
  BY <1>11, ProducersAssumption DEF Feed, DataInv, ProducersAssumption
<1>12. ASSUME NEW c \in Crunchers, Read(c) PROVE DataInv'
  <2>1. /\ pc[c] = "read" /\ pc' = [pc EXCEPT ![c] = "write"]
        /\ seen' = [seen EXCEPT ![c] = version[Observes[c]]]
        /\ UNCHANGED <<version, announced>>
    BY <1>12 DEF Read
  <2>2. ASSUME NEW e \in Event PROVE announced'[e] <= version'[e]
    BY <2>1 DEF DataInv
  <2>3. ASSUME NEW d \in Crunchers
        PROVE  /\ seen'[d] <= version'[Observes[d]]
               /\ Emits[d] # None =>
                    /\ version'[Emits[d]] <= seen'[d]
                    /\ pc'[d] # "write" => version'[Emits[d]] = seen'[d]
                    /\ pc'[d] # "send" => announced'[Emits[d]] = version'[Emits[d]]
    <3>1. CASE d = c
      <4>1. /\ seen'[c] = version[Observes[c]] /\ pc'[c] = "write"
            /\ version[Observes[c]] \in Nat
        BY <2>1
      <4>2. /\ seen[c] <= version[Observes[c]]
            /\ Emits[c] # None => /\ version[Emits[c]] <= seen[c]
                                 /\ announced[Emits[c]] = version[Emits[c]]
        BY <2>1 DEF DataInv
      <4>3. seen[c] \in Nat /\ (Emits[c] # None => version[Emits[c]] \in Nat)
        OBVIOUS
      <4>. QED
        BY <2>1, <3>1, <4>1, <4>2, <4>3
    <3>2. CASE d # c
      <4>1. seen'[d] = seen[d] /\ pc'[d] = pc[d]
        BY <2>1, <3>2
      <4>. QED
        BY <2>1, <4>1 DEF DataInv
    <3>. QED
      BY <3>1, <3>2
  <2>. QED
    BY <2>2, <2>3 DEF DataInv
<1>13. ASSUME NEW c \in Crunchers, Write(c) PROVE DataInv'
  <2>1. CASE Emits[c] = None
    BY <1>13, <2>1 DEF Write, DataInv
  <2>2. CASE Emits[c] # None
    <3>1. /\ pc[c] = "write" /\ pc' = [pc EXCEPT ![c] = "send"]
          /\ version' = [version EXCEPT ![Emits[c]] = seen[c]]
          /\ UNCHANGED <<announced, seen>>
      BY <1>13, <2>2 DEF Write
    <3>2. ASSUME NEW e \in Event PROVE version'[e] >= version[e]
      <4>1. version[Emits[c]] <= seen[c]
        BY <2>2 DEF DataInv
      <4>2. version'[e] = IF e = Emits[c] THEN seen[c] ELSE version[e]
        BY <3>1
      <4>. QED
        BY <4>1, <4>2
    <3>3. \A e \in Event : announced'[e] <= version'[e]
      BY <3>1, <3>2 DEF DataInv
    <3>4. ASSUME NEW d \in Crunchers PROVE seen'[d] <= version'[Observes[d]]
      BY <3>1, <3>2 DEF DataInv
    <3>5. ASSUME NEW d \in Crunchers, Emits[d] # None
          PROVE  /\ version'[Emits[d]] <= seen'[d]
                 /\ pc'[d] # "write" => version'[Emits[d]] = seen'[d]
                 /\ pc'[d] # "send" => announced'[Emits[d]] = version'[Emits[d]]
      <4>1. CASE d = c
        BY <2>2, <3>1, <4>1
      <4>2. CASE d # c
        <5>1. Emits[d] # Emits[c]
          BY <3>5, <4>2, ProducersAssumption DEF ProducersAssumption
        <5>2. version'[Emits[d]] = version[Emits[d]] /\ pc'[d] = pc[d]
          BY <3>1, <3>5, <4>2, <5>1
        <5>. QED
          BY <3>1, <3>5, <5>2 DEF DataInv
      <4>. QED
        BY <4>1, <4>2
    <3>. QED
      BY <3>3, <3>4, <3>5 DEF DataInv
  <2>. QED
    BY <2>1, <2>2
<1>14. ASSUME NEW c \in Crunchers, Send(c) PROVE DataInv'
  BY <1>14, ProducersAssumption DEF Send, BeginDispatch, DataInv, ProducersAssumption
<1>15. CASE ReceiveEvent
  BY <1>15 DEF ReceiveEvent, BeginDispatch, DataInv
<1>. QED
  BY <1>1, <1>2, <1>3, <1>4, <1>5, <1>6, <1>7, <1>8, <1>9, <1>10, <1>11, <1>12,
     <1>13, <1>14, <1>15
  DEF Next, MainStep, CruncherStep, DispatchStep, Environment, Exited,
      FeederNotifies, ControlSends

-----------------------------------------------------------------------------
(* No step loses a wake-up.                                                 *)
LEMMA LossStep == IInv /\ [Next]_vars => NoLostUpdate'
<1> SUFFICES ASSUME TypeOK, LockInv, GateInv, ObserveInv, DataInv, NoLostUpdate,
                    [Next]_vars,
                    NEW c \in Matched \cap crunchers'
             PROVE  \/ seen'[c] >= announced'[Observes[c]]
                    \/ pending'[c] > 0
                    \/ pc'[c] = "read"
                    \/ BeingTold(c)'
  BY DEF IInv, NoLostUpdate, Matched
<1> DEFINE Goal == \/ seen'[c] >= announced'[Observes[c]]
                   \/ pending'[c] > 0
                   \/ pc'[c] = "read"
                   \/ BeingTold(c)'
<1> SUFFICES Goal
  OBVIOUS
<1>c. c \in Crunchers /\ Observes[c] = Accepts[c]
  BY DEF Matched
<1> DEFINE Keeps == /\ UNCHANGED <<announced, seen, event, todo>>
                    /\ pending[c] > 0 => pending'[c] > 0
                    /\ pc[c] = "read" => pc'[c] = "read"
                    /\ \A t \in Thread : pc[t] = "dispatch" => pc'[t] = "dispatch"
(* Most steps keep every disjunct that held.                                *)
<1>1. ASSUME Keeps, c \in crunchers PROVE Goal
  <2>1. BeingTold(c) => BeingTold(c)'
    BY <1>1 DEF BeingTold
  <2>. QED
    BY <1>1, <2>1 DEF NoLostUpdate
<1> HIDE DEF Keeps, Goal
<1> USE DEF Goto
<1>2. ASSUME NEW d \in Crunchers, Load(d) PROVE Goal
  <2>1. CASE c = d
    <3>1. pc[d] = "none" /\ UNCHANGED pending
      BY <1>2 DEF Load, GateInv
    <3>. QED
      BY <2>1, <3>1 DEF ObserveInv, Goal
  <2>2. CASE c # d
    <3>1. c \in crunchers
      BY <1>2, <2>2 DEF Load
    <3>2. Keeps
      BY <1>2, <1>c, <2>2 DEF Load, GateInv, Keeps, TypeOK, dispVars, dataVars
    <3>. QED
      BY <1>1, <3>1, <3>2
  <2>. QED
    BY <2>1, <2>2
<1>3. ASSUME NEW d \in Crunchers,
             \/ LoadFails(d) \/ Unpark(d) \/ ScanWaiting(d) \/ ScanRunning(d)
      PROVE  Keeps /\ c \in crunchers
  <2>1. CASE ScanRunning(d)
    BY <2>1, <1>c DEF ScanRunning, Keeps, TypeOK, dispVars, dataVars
  <2>. QED
    BY <1>3, <2>1 DEF LoadFails, Unpark, ScanWaiting, Keeps, mainVars,
                    dispVars, dataVars
<1>4. ASSUME InitDone \/ UnparkDone \/ ReceiveStop \/ Timeout \/ AllDoneExit \/ AllDone
      PROVE  Keeps /\ c \in crunchers
  BY <1>4, <1>c DEF InitDone, UnparkDone, ReceiveStop, Timeout, AllDoneExit, AllDone,
                    Keeps, TypeOK, mainVars, dispVars, dataVars
<1>5. ASSUME NEW d \in Crunchers,
             \/ Start(d) \/ Observe(d) \/ Enter(d) \/ Sleep(d) \/ Relock(d)
             \/ SpuriousWakeup(d)
      PROVE  Keeps /\ c \in crunchers
  BY <1>5, <1>c DEF Start, Observe, Enter, Sleep, Relock, SpuriousWakeup, Keeps,
                    TypeOK, mainVars, dispVars, dataVars
<1>6. ASSUME NEW d \in Crunchers, Take(d) PROVE Goal
  <2>1. CASE c = d
    BY <1>6, <2>1 DEF Take, Goal, TypeOK
  <2>2. CASE c # d
    <3>1. Keeps /\ c \in crunchers
      BY <1>6, <1>c, <2>2 DEF Take, Keeps, TypeOK, mainVars, dispVars, dataVars
    <3>. QED
      BY <1>1, <3>1
  <2>. QED
    BY <2>1, <2>2
<1>7. ASSUME NEW d \in Crunchers, Read(d) PROVE Goal
  <2>1. CASE c = d
    <3>1. seen'[c] = version[Observes[c]] /\ announced' = announced
      BY <1>7, <2>1 DEF Read, TypeOK
    <3>. QED
      BY <1>c, <3>1 DEF DataInv, Goal, TypeOK
  <2>2. CASE c # d
    <3>1. /\ UNCHANGED <<crunchers, announced, event, todo, pending>>
          /\ seen'[c] = seen[c] /\ pc'[c] = pc[c]
          /\ \A t \in Thread : pc[t] = "dispatch" => pc'[t] = "dispatch"
      BY <1>7, <1>c, <2>2 DEF Read, TypeOK, mainVars, dispVars
    <3>2. BeingTold(c) => BeingTold(c)'
      BY <3>1 DEF BeingTold
    <3>. QED
      BY <3>1, <3>2 DEF NoLostUpdate, Goal
  <2>. QED
    BY <2>1, <2>2
<1>8. ASSUME NEW d \in Crunchers, Write(d) PROVE Keeps /\ c \in crunchers
  <2>1. pc[d] = "write" /\ \E l \in {"enter", "send"} : pc' = [pc EXCEPT ![d] = l]
    BY <1>8 DEF Write
  <2>2. UNCHANGED <<crunchers, announced, seen, event, todo, pending>>
    BY <1>8 DEF Write, mainVars, dispVars
  <2>. QED
    BY <1>c, <2>1, <2>2 DEF Keeps, TypeOK
(* A dispatch starts with every plugin that has observed the event on its   *)
(* list; the others still hold their first wake-up.                         *)
<1>9. ASSUME NEW t \in Thread, NEW e \in Event, BeginDispatch(t, e),
             UNCHANGED <<crunchers, pending, seen>>,
             pc[t] \in {"send", "poll"}
      PROVE  Goal
  <2>1. /\ pc' = [pc EXCEPT ![t] = "dispatch"]
        /\ todo' = [todo EXCEPT ![t] = observers[e]]
        /\ event' = [event EXCEPT ![t] = e]
        /\ announced' = [announced EXCEPT ![e] = version[e]]
    BY <1>9 DEF BeginDispatch
  <2>2. CASE Observes[c] = e /\ c \in observers[e]
    <3>1. BeingTold(c)'
      BY <2>1, <2>2 DEF BeingTold, TypeOK
    <3>. QED
      BY <3>1 DEF Goal
  <2>3. CASE Observes[c] = e /\ c \notin observers[e]
    BY <1>9, <1>c, <2>3 DEF ObserveInv, Goal
  <2>4. CASE Observes[c] # e
    <3>1. announced'[Observes[c]] = announced[Observes[c]]
      BY <1>c, <2>1, <2>4 DEF TypeOK
    <3>2. pc[c] = "read" => pc'[c] = "read"
      BY <1>9, <1>c, <2>1 DEF TypeOK
    <3>3. BeingTold(c) => BeingTold(c)'
      <4> SUFFICES ASSUME BeingTold(c) PROVE BeingTold(c)'
        OBVIOUS
      <4>1. PICK u \in Thread : /\ pc[u] = "dispatch" /\ event[u] = Observes[c]
                                /\ c \in todo[u]
        BY DEF BeingTold
      <4>2. u # t
        BY <1>9, <4>1
      <4>3. pc'[u] = pc[u] /\ event'[u] = event[u] /\ todo'[u] = todo[u]
        BY <2>1, <4>2 DEF TypeOK
      <4>. QED
        BY <4>1, <4>3 DEF BeingTold
    <3>. QED
      BY <1>9, <3>1, <3>2, <3>3 DEF NoLostUpdate, Goal
  <2>. QED
    BY <2>2, <2>3, <2>4
<1>10. ASSUME NEW d \in Crunchers, Send(d) PROVE Goal
  <2>1. Emits[d] \in Event /\ pc[d] = "send" /\ BeginDispatch(d, Emits[d])
    BY <1>10 DEF Send, TypeOK
  <2>2. UNCHANGED <<crunchers, pending, seen>>
    BY <1>10 DEF Send, mainVars
  <2>. QED
    BY <1>9, <2>1, <2>2
<1>11. CASE ReceiveEvent
  <2>1. PICK e \in Event : pc[Main] = "poll" /\ BeginDispatch(Main, e)
    BY <1>11 DEF ReceiveEvent
  <2>2. UNCHANGED <<crunchers, pending, seen>>
    BY <1>11 DEF ReceiveEvent, mainVars
  <2>. QED
    BY <1>9, <2>1, <2>2
<1>12. ASSUME NEW t \in Thread, EndDispatch(t) PROVE Goal
  <2>1. /\ UNCHANGED <<crunchers, announced, seen, todo, pending>>
        /\ todo[t] = {} /\ pc[t] = "dispatch"
        /\ event' = [event EXCEPT ![t] = None]
        /\ \A u \in Thread : u # t => pc'[u] = pc[u]
    BY <1>12 DEF EndDispatch, TypeOK, mainVars, dataVars
  <2>2. BeingTold(c) => BeingTold(c)'
    BY <2>1 DEF BeingTold, TypeOK
  <2>3. pc[c] = "read" => pc'[c] = "read"
    BY <1>c, <2>1
  <2>. QED
    BY <2>1, <2>2, <2>3 DEF NoLostUpdate, Goal
<1>13. ASSUME NEW t \in Thread, NEW d \in Crunchers, Msg(t, d) PROVE Goal
  <2>1. /\ UNCHANGED <<crunchers, announced, seen, event>>
        /\ todo' = [todo EXCEPT ![t] = todo[t] \ {d}]
    BY <1>13 DEF Msg, mainVars, dataVars
  <2>2. \/ UNCHANGED <<pending, pc>> /\ Accepts[d] # event[t]
        \/ /\ pending' = [pending EXCEPT ![d] = pending[d] + 1]
           /\ pc' = [pc EXCEPT ![d] = IF pc[d] = "cond" THEN "woken" ELSE pc[d]]
    BY <1>13 DEF Msg
  <2>3. pending[c] > 0 => pending'[c] > 0
    <3>1. CASE UNCHANGED pending
      BY <3>1
    <3>2. CASE pending' = [pending EXCEPT ![d] = pending[d] + 1]
      BY <1>c, <3>2 DEF TypeOK
    <3>. QED
      BY <2>2, <3>1, <3>2
  <2>4. \A u \in Thread : pc[u] \in {"read", "dispatch"} => pc'[u] = pc[u]
    BY <2>2 DEF TypeOK
  <2>5. BeingTold(c) => BeingTold(c)' \/ pending'[c] > 0
    <3> SUFFICES ASSUME BeingTold(c) PROVE BeingTold(c)' \/ pending'[c] > 0
      OBVIOUS
    <3>1. PICK u \in Thread : /\ pc[u] = "dispatch" /\ event[u] = Observes[c]
                              /\ c \in todo[u]
      BY DEF BeingTold
    <3>2. CASE u = t /\ c = d
      <4>1. pending' = [pending EXCEPT ![d] = pending[d] + 1]
        BY <1>c, <2>2, <3>1, <3>2
      <4>. QED
        BY <1>c, <3>2, <4>1 DEF TypeOK
    <3>3. CASE u # t \/ c # d
      <4>1. c \in todo'[u]
        BY <2>1, <3>1, <3>3 DEF TypeOK
      <4>. QED
        BY <2>1, <2>4, <3>1, <4>1 DEF BeingTold
    <3>. QED
      BY <3>2, <3>3
  <2>6. pc[c] = "read" => pc'[c] = "read"
    BY <1>c, <2>4
  <2>. QED
    BY <2>1, <2>3, <2>5, <2>6 DEF NoLostUpdate, Goal
<1>14. ASSUME NEW m, Deliver(m) PROVE Keeps /\ c \in crunchers
  BY <1>14 DEF Deliver, Keeps, mainVars, dispVars, dataVars
<1>15. ASSUME Feed PROVE Keeps /\ c \in crunchers
  BY <1>15 DEF Feed, Keeps, mainVars, dispVars
<1>16. ASSUME UNCHANGED vars PROVE Keeps /\ c \in crunchers
  BY <1>16 DEF Keeps, vars, mainVars, dispVars, dataVars
<1>17. CASE MainStep
  <2>1. CASE \E d \in Crunchers : \/ Load(d) \/ LoadFails(d) \/ Unpark(d)
                                  \/ ScanWaiting(d) \/ ScanRunning(d)
    <3>1. PICK d \in Crunchers : \/ Load(d) \/ LoadFails(d) \/ Unpark(d)
                                 \/ ScanWaiting(d) \/ ScanRunning(d)
      BY <2>1
    <3>. QED
      BY <1>1, <1>2, <1>3, <3>1
  <2>2. CASE InitDone \/ UnparkDone \/ ReceiveStop \/ Timeout \/ AllDoneExit \/ AllDone
    BY <1>1, <1>4, <2>2
  <2>. QED
    BY <1>11, <1>17, <2>1, <2>2 DEF MainStep
<1>18. ASSUME NEW d \in Crunchers, CruncherStep(d) PROVE Goal
  BY <1>1, <1>5, <1>6, <1>7, <1>8, <1>10, <1>18 DEF CruncherStep
<1>19. ASSUME NEW t \in Thread, DispatchStep(t) PROVE Goal
  BY <1>12, <1>13, <1>19 DEF DispatchStep
<1>20. CASE Environment
  <2>1. CASE \E d \in Crunchers : SpuriousWakeup(d)
    BY <1>1, <1>5, <2>1
  <2>2. CASE Feed
    BY <1>1, <1>15, <2>2
  <2>3. CASE \E m : Deliver(m)
    BY <1>1, <1>14, <2>3
  <2>. QED
    BY <1>20, <2>1, <2>2, <2>3 DEF Environment, FeederNotifies, ControlSends
<1>. QED
  BY <1>1, <1>16, <1>17, <1>18, <1>19, <1>20 DEF Next, Exited

(* The initial state satisfies every part of the inductive invariant.       *)
LEMMA InitInv == Init => IInv
<1> SUFFICES ASSUME Init PROVE IInv
  OBVIOUS
<1>1. TypeOK
  BY TypeInit
<1>2. LockInv /\ GateInv
  BY DEF Init, LockInv, GateInv
<1>3. ObserveInv /\ DataInv
  BY DEF Init, ObserveInv, DataInv
<1>4. NoLostUpdate
  BY DEF Init, NoLostUpdate
<1>. QED
  BY <1>1, <1>2, <1>3, <1>4 DEF IInv

(* The inductive invariant holds in every configuration.                    *)
THEOREM InductiveInvariant == Spec => []IInv
<1>1. IInv /\ [Next]_vars => IInv'
  BY TypeStep, LockStep, GateStep, ObserveStep, DataStep, LossStep DEF IInv
<1>. QED
  BY InitInv, <1>1, PTL DEF Spec

(* No update announced to a plugin is ever lost, whatever the plugins, the  *)
(* events and the interleaving of the threads.                              *)
THEOREM UpdatesAreNotLost == Spec => []NoLostUpdate
<1>1. IInv => NoLostUpdate
  BY DEF IInv
<1>. QED
  BY InductiveInvariant, <1>1, PTL

(* No plugin runs while the manager still loads plugins.                    *)
THEOREM PluginsWaitForInit == Spec => []NoRunWhileLoading
<1>1. IInv => NoRunWhileLoading
  BY DEF IInv, GateInv, NoRunWhileLoading
<1>. QED
  BY InductiveInvariant, <1>1, PTL

(* When all plugins sleep every table is current with what was announced.   *)
THEOREM IdleIsCurrent == Spec => []IdleMeansCurrent
<1>1. IInv => IdleMeansCurrent
  <2> SUFFICES ASSUME IInv, Idle, NEW c \in Matched \cap crunchers
               PROVE  /\ seen[c] >= announced[Observes[c]]
                      /\ Emits[c] # None => announced[Emits[c]] = seen[c]
    BY DEF IdleMeansCurrent
  <2>1. c \in Crunchers /\ pc[c] = "cond" /\ pending[c] = 0 /\ ~BeingTold(c)
    BY DEF Idle, Matched, IInv, ObserveInv
  <2>2. seen[c] >= announced[Observes[c]]
    BY <2>1 DEF IInv, NoLostUpdate
  <2>3. Emits[c] # None => announced[Emits[c]] = seen[c]
    BY <2>1 DEF IInv, DataInv
  <2>. QED
    BY <2>2, <2>3
<1>. QED
  BY InductiveInvariant, <1>1, PTL
=============================================================================
