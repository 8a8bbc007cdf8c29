------------------------- MODULE SafetyGatewayProofs -------------------------
(***************************************************************************)
(* Proofs about SafetyGateway, for any sets of threads, any timeouts and   *)
(* any bound of the clock: GatewayInv and what follows from it, and, for a *)
(* gateway that is never reset, FirstRunInv and what follows from that.    *)
(***************************************************************************)
EXTENDS SafetyGateway, TLAPS

-----------------------------------------------------------------------------
(* The inductive invariants.                                               *)

\* The threads that stop a run only because it is running.
RunStoppers == Threads \ Estops

\* Nothing runs, or is about to, on a channel that was not verified; a thread
\* that stops a run therefore misses with none of its callbacks.
VerifiedInv ==
    /\ state \in {"VALIDATED", "ARMED", "RUNNING"} => verified
    /\ \A t \in RunStoppers :
          pc[t] = "burst" => verified /\ (sent[t] > 0 => worst[t].reached)

\* A thread that has made stop callbacks is still in its burst, and any of them
\* that reached the sequencer has set the latch.
BurstInv == \A t \in Threads : /\ sent[t] > 0 => pc[t] = "burst"
                               /\ worst[t].reached => latched

\* A burst that has quiesced so far saw no command in flight, and behind the
\* latch none can start.
StillInv == \A t \in Threads :
               sent[t] > 0 /\ worst[t].quiesced => latched /\ ~driving

EndInv == /\ lastStop.reached => latched
          /\ state \in {"STOPPED", "FAULTED"} => lastStop.reached
          /\ state \in Ended /\ lastStop.quiesced => latched /\ ~driving

\* What the watchdog compares with the clock is a deadline.
SeenInv == pc[Watchdog] = "read" => seen \in Nat

StopInv == VerifiedInv /\ BurstInv /\ StillInv /\ EndInv /\ SeenInv

GatewayInv == TypeOK /\ StopInv

\* Without a reset such a thread can only be stopping the one run there is,
\* and its callbacks all belong to that run.
StoppersInv == \A t \in RunStoppers :
                  pc[t] = "burst" => /\ state \in {"RUNNING"} \cup Ended
                                     /\ sent[t] <= stopsInRun

\* A heartbeat thread or the watchdog stops a run that is overdue, or has no
\* deadline; the latter exactly when its profile has no timeout.
JustifiedInv == state = "RUNNING" =>
    /\ deadline = None <=> profile.timeout = None
    /\ \A t \in Beats \cup {Watchdog} : pc[t] = "burst" => Expired \/ deadline = None

FirstRunInv == /\ resets = 0
               /\ StoppersInv
               /\ JustifiedInv
               /\ EndedRunWasStopped

-----------------------------------------------------------------------------
(* Type correctness.                                                       *)

\* The timeout of a profile is a number or None.
LEMMA TimeoutType ==
  ASSUME profile \in Profiles
  PROVE  profile.timeout \in Nat \cup {None}
BY ProfileAssumption DEF Profiles

\* The end of a run keeps the types of what it assigns.
LEMMA EndRunType ==
  ASSUME TypeOK, NEW t \in Threads, NEW final \in Ended,
         EndRun(t, final) \/ UNCHANGED gateway
  PROVE  /\ state' \in States
         /\ deadline' \in Nat \cup {None}
         /\ lastStop' \in StopResults
         /\ stopEvent' \in BOOLEAN
<1>1. CASE EndRun(t, final)
  BY <1>1 DEF EndRun, TypeOK, States, Ended
<1>2. CASE UNCHANGED gateway
  BY <1>2 DEF gateway, TypeOK
<1>3. QED BY <1>1, <1>2

\* The end of a burst keeps the types of what it assigns.
LEMMA EndBurstType ==
  ASSUME TypeOK, NEW t \in Threads, NEW place \in Places, EndBurst(t, place)
  PROVE  /\ pc' \in [Threads -> Places]
         /\ sent' \in [Threads -> 0..BurstCount]
         /\ worst' \in [Threads -> StopResults]
BY DEF TypeOK, EndBurst, Move, BurstCount, StopResults, NothingSent

\* What a stop callback adds to the result of its burst.
LEMMA CallbackResult ==
  ASSUME TypeOK, NEW t \in Threads, StopCallback(t)
  PROVE  \E result \in StopResults :
            /\ worst' = [worst EXCEPT ![t] = result]
            /\ verified => result.reached /\ latched'
            /\ ~verified => ~result.quiesced /\ (result.reached => worst[t].reached)
            /\ result.quiesced => ~driving
<1>1. worst[t] \in StopResults /\ driving \in BOOLEAN
  BY DEF TypeOK
<1>2. CASE Reach(t)
  <2> DEFINE result == [reached |-> TRUE, quiesced |-> worst[t].quiesced /\ ~driving]
  <2>1. result \in StopResults /\ result.reached /\ (result.quiesced => ~driving)
    BY <1>1 DEF StopResults
  <2>2. worst' = [worst EXCEPT ![t] = result]
    BY <1>2 DEF Reach, Combine, AllOf
  <2>3. verified /\ latched'
    BY <1>2 DEF Reach
  <2> HIDE DEF result
  <2>4. QED
    BY <2>1, <2>2, <2>3
<1>3. CASE Miss(t)
  <2> DEFINE result == [reached |-> worst[t].reached, quiesced |-> FALSE]
  <2>1. /\ result \in StopResults
        /\ ~result.quiesced
        /\ result.reached => worst[t].reached
    BY <1>1 DEF StopResults
  <2>2. worst' = [worst EXCEPT ![t] = result]
    <3>1. Combine(worst[t], FALSE, FALSE) = result
      BY <1>1 DEF Combine, AllOf, StopResults
    <3>2. QED
      BY <1>3, <3>1 DEF Miss
  <2>3. ~verified
    BY <1>3 DEF Miss
  <2> HIDE DEF result
  <2>4. QED
    BY <2>1, <2>2, <2>3
<1>4. QED
  BY <1>2, <1>3 DEF StopCallback

\* Every step keeps every variable in its type.
LEMMA TypeStep == TypeOK /\ [Next]_vars => TypeOK'
<1> SUFFICES ASSUME TypeOK, [Next]_vars PROVE TypeOK'
  OBVIOUS
<1> USE BoundsAssumption, ProfileAssumption
<1> USE DEF TypeOK, gateway, burst, environment, Threads, Places, States, Ended, StopResults,
            BurstCount, Watchdog
<1>1. CASE Discover
  BY <1>1 DEF Discover
<1>2. CASE Validate
  BY <1>2 DEF Validate
<1>3. CASE Arm
  BY <1>3 DEF Arm
<1>4. CASE StartTask
  <2>1. deadline' \in Nat \cup {None}
    BY <1>4, TimeoutType DEF StartTask
  <2>2. stopEvent' \in BOOLEAN /\ granted' \in BOOLEAN /\ pc' \in [Threads -> Places]
    BY <1>4 DEF StartTask, SupervisorStart, Move
  <2>3. QED
    BY <1>4, <2>1, <2>2 DEF StartTask
<1>5. CASE OperatorReset
  BY <1>5 DEF OperatorReset
<1>6. CASE WatchdogExit
  BY <1>6 DEF WatchdogExit, Move
<1>7. CASE WatchdogRead
  BY <1>7 DEF WatchdogRead, Move
<1>8. CASE WatchdogCompare
  BY <1>8 DEF WatchdogCompare, Move
<1>9. CASE WatchdogConfirm
  BY <1>9 DEF WatchdogConfirm, StartBurst, Move
<1>10. CASE Tick
  BY <1>10 DEF Tick
<1>11. CASE Activate
  BY <1>11 DEF Activate, PermitCurrent
<1>12. CASE CommandReturns
  <2>1. driving' \in BOOLEAN
    BY <1>12 DEF CommandReturns
  <2>2. QED
    BY <1>12, <2>1 DEF CommandReturns
<1>13. ASSUME NEW b \in Beats, HeartbeatRenew(b) PROVE TypeOK'
  <2>1. deadline' \in Nat
    BY <1>13, TimeoutType DEF HeartbeatRenew, Renewable
  <2>2. QED
    BY <1>13, <2>1 DEF HeartbeatRenew
<1>14. ASSUME NEW b \in Beats, HeartbeatFault(b) PROVE TypeOK'
  BY <1>14 DEF HeartbeatFault, StartBurst, Move
<1>15. ASSUME NEW c \in Cancels, Cancel(c) PROVE TypeOK'
  BY <1>15 DEF Cancel, StartBurst, Move
<1>16. ASSUME NEW e \in Estops, Estop(e) PROVE TypeOK'
  BY <1>16 DEF Estop, StartBurst, Move
<1>17. ASSUME NEW x \in Closers, Close(x) PROVE TypeOK'
  BY <1>17 DEF Close, StartBurst, Move
<1>18. ASSUME NEW x \in Closers, CloseStop(x) PROVE TypeOK'
  BY <1>18 DEF CloseStop, Move
<1>19. ASSUME NEW x \in Closers, CloseReturn(x) PROVE TypeOK'
  BY <1>19 DEF CloseReturn, Move
<1>20. ASSUME NEW t \in Threads, StopCallback(t) PROVE TypeOK'
  <2>1. PICK result \in StopResults : worst' = [worst EXCEPT ![t] = result]
    BY <1>20, CallbackResult
  <2>2. latched' = TRUE \/ latched' = latched
    BY <1>20 DEF StopCallback, Reach, Miss
  <2>3. latched' \in BOOLEAN
    BY <2>2
  <2>4. \/ stopsInRun' = stopsInRun
        \/ stopsInRun' = IF stopsInRun < BurstCount THEN stopsInRun + 1 ELSE stopsInRun
    BY <1>20 DEF StopCallback, Reach, Miss
  <2>5. stopsInRun' \in 0..BurstCount
    BY <2>4
  <2>6. worst' \in [Threads -> StopResults]
    BY <2>1
  <2>7. QED
    BY <1>20, <2>3, <2>5, <2>6 DEF StopCallback, BurstUnfinished
<1>21. ASSUME NEW c \in Cancels, CancelRecord(c) PROVE TypeOK'
  <2>1. EndBurst(c, "done")
    BY <1>21 DEF CancelRecord
  <2>2. /\ pc' \in [Threads -> Places]
        /\ sent' \in [Threads -> 0..BurstCount]
        /\ worst' \in [Threads -> StopResults]
    BY <2>1, EndBurstType
  <2>3. EndRun(c, "STOPPED") \/ UNCHANGED gateway
    BY <1>21 DEF CancelRecord
  <2>4. /\ state' \in States
        /\ deadline' \in Nat \cup {None}
        /\ lastStop' \in StopResults
        /\ stopEvent' \in BOOLEAN
    BY <2>3, EndRunType
  <2>5. QED
    BY <1>21, <2>2, <2>4 DEF CancelRecord
<1>22. ASSUME NEW e \in Estops, EstopRecord(e) PROVE TypeOK'
  <2>1. EndBurst(e, "done")
    BY <1>22 DEF EstopRecord
  <2>2. /\ pc' \in [Threads -> Places]
        /\ sent' \in [Threads -> 0..BurstCount]
        /\ worst' \in [Threads -> StopResults]
    BY <2>1, EndBurstType
  <2>3. EndRun(e, "ESTOPPED") \/ UNCHANGED gateway
    BY <1>22 DEF EstopRecord
  <2>4. /\ state' \in States
        /\ deadline' \in Nat \cup {None}
        /\ lastStop' \in StopResults
        /\ stopEvent' \in BOOLEAN
    BY <2>3, EndRunType
  <2>5. QED
    BY <1>22, <2>2, <2>4 DEF EstopRecord
<1>23. ASSUME NEW t \in Beats \cup Closers \cup {Watchdog}, FaultRecord(t) PROVE TypeOK'
  <2>1. PICK place \in Places : EndBurst(t, place)
    BY <1>23 DEF FaultRecord
  <2>2. /\ pc' \in [Threads -> Places]
        /\ sent' \in [Threads -> 0..BurstCount]
        /\ worst' \in [Threads -> StopResults]
    BY <2>1, EndBurstType
  <2>3. EndRun(t, "FAULTED") \/ UNCHANGED gateway
    BY <1>23 DEF FaultRecord
  <2>4. /\ state' \in States
        /\ deadline' \in Nat \cup {None}
        /\ lastStop' \in StopResults
        /\ stopEvent' \in BOOLEAN
    BY <2>3, EndRunType
  <2>5. QED
    BY <1>23, <2>2, <2>4 DEF FaultRecord
<1>24. CASE Verify
  BY <1>24 DEF Verify
<1>25. CASE UNCHANGED vars
  BY <1>25 DEF vars
<1>26. QED
  BY <1>1, <1>2, <1>3, <1>4, <1>5, <1>6, <1>7, <1>8, <1>9, <1>10, <1>11, <1>12, <1>13, <1>14, <1>15, <1>16, <1>17, <1>18, <1>19, <1>20, <1>21, <1>22, <1>23, <1>24, <1>25 DEF Next, WatchdogStep, CloseStep, Record

\* The initial states are well typed.
LEMMA InitTyped == Init => TypeOK
<1> SUFFICES ASSUME Init PROVE TypeOK
  OBVIOUS
<1>1. pc \in [Threads -> Places]
  BY DEF Init, Places
<1>2. sent \in [Threads -> 0..BurstCount] /\ worst \in [Threads -> StopResults]
  BY DEF Init, BurstCount, StopResults, NothingSent
<1>3. /\ profile \in Profiles /\ state \in States
      /\ deadline \in Nat \cup {None} /\ seen \in Nat \cup {None}
      /\ lastStop \in StopResults
  BY DEF Init, States, StopResults, NothingSent
<1>4. now \in Nat /\ resets \in Nat /\ stopsInRun \in 0..BurstCount
  BY DEF Init, BurstCount
<1>5. /\ stopEvent \in BOOLEAN /\ verified \in BOOLEAN /\ granted \in BOOLEAN
      /\ latched \in BOOLEAN /\ driving \in BOOLEAN
  BY DEF Init
<1>6. QED BY <1>1, <1>2, <1>3, <1>4, <1>5 DEF TypeOK

\* Type correctness of the gateway and the watchdog.
THEOREM GatewayTypeCorrect == Spec => []TypeOK
<1>1. Init => TypeOK
  BY InitTyped
<1>2. QED
  BY <1>1, TypeStep, PTL DEF Spec

-----------------------------------------------------------------------------
(* The latch, the burst and the end of a run.                              *)

\* GatewayInv is inductive.
LEMMA GatewayInvStep ==
  GatewayInv /\ [Next]_vars => StopInv'
<1> SUFFICES ASSUME GatewayInv, [Next]_vars
             PROVE  StopInv'
  OBVIOUS
<1> USE ThreadsAssumption, ProfileAssumption
<1> USE DEF GatewayInv, StopInv, TypeOK, VerifiedInv, BurstInv, StillInv, EndInv, SeenInv,
            gateway, burst, environment, Threads, Ended, StopResults, NothingSent, RunStoppers,
            BurstCount, Watchdog
<1>1. CASE Discover
  BY <1>1 DEF Discover
<1>2. CASE Validate
  BY <1>2 DEF Validate
<1>3. CASE Arm
  BY <1>3 DEF Arm
<1>4. CASE StartTask
  <2>1. VerifiedInv' /\ BurstInv' /\ SeenInv'
    BY <1>4 DEF StartTask, SupervisorStart, Move, Alive
  <2>2. StillInv' /\ EndInv'
    BY <1>4 DEF StartTask
  <2>3. QED
    BY <2>1, <2>2
<1>5. CASE OperatorReset
  BY <1>5 DEF OperatorReset
<1>6. CASE WatchdogExit
  BY <1>6 DEF WatchdogExit, Move
<1>7. CASE WatchdogRead
  BY <1>7 DEF WatchdogRead, Move
<1>8. CASE WatchdogCompare
  BY <1>8 DEF WatchdogCompare, Move
<1>9. CASE WatchdogConfirm
  BY <1>9 DEF WatchdogConfirm, StartBurst, Move
<1>10. CASE Tick
  BY <1>10 DEF Tick
<1>11. CASE Activate
  BY <1>11 DEF Activate, PermitCurrent
<1>12. CASE CommandReturns
  BY <1>12 DEF CommandReturns
<1>13. ASSUME NEW b \in Beats, HeartbeatRenew(b) PROVE StopInv'
  BY <1>13 DEF HeartbeatRenew, Renewable, Profiles
<1>14. ASSUME NEW b \in Beats, HeartbeatFault(b) PROVE StopInv'
  BY <1>14 DEF HeartbeatFault, StartBurst, Move
<1>15. ASSUME NEW c \in Cancels, Cancel(c) PROVE StopInv'
  BY <1>15 DEF Cancel, Cancellable, StartBurst, Move
<1>16. ASSUME NEW e \in Estops, Estop(e) PROVE StopInv'
  BY <1>16 DEF Estop, StartBurst, Move
<1>17. ASSUME NEW x \in Closers, Close(x) PROVE StopInv'
  BY <1>17 DEF Close, StartBurst, Move
<1>18. ASSUME NEW x \in Closers, CloseStop(x) PROVE StopInv'
  BY <1>18 DEF CloseStop, Move
<1>19. ASSUME NEW x \in Closers, CloseReturn(x) PROVE StopInv'
  BY <1>19 DEF CloseReturn, Move
<1>20. ASSUME NEW t \in Threads, StopCallback(t) PROVE StopInv'
  <2>1. PICK result \in StopResults :
              /\ worst' = [worst EXCEPT ![t] = result]
              /\ verified => result.reached /\ latched'
              /\ ~verified => ~result.quiesced /\ (result.reached => worst[t].reached)
              /\ result.quiesced => ~driving
    BY <1>20, CallbackResult
  <2>2. latched => latched'
    BY <1>20 DEF StopCallback, Reach, Miss
  <2>3. /\ sent' = [sent EXCEPT ![t] = @ + 1]
        /\ pc[t] = "burst"
        /\ UNCHANGED <<state, lastStop, pc, seen, verified, driving>>
    BY <1>20 DEF StopCallback
  <2>4. VerifiedInv'
    BY <2>1, <2>3
  <2>5. SeenInv'
    BY <2>3
  <2>6. BurstInv'
    BY <2>1, <2>2, <2>3
  <2>7. StillInv'
    BY <2>1, <2>2, <2>3
  <2>8. EndInv'
    BY <2>2, <2>3
  <2>9. QED
    BY <2>4, <2>5, <2>6, <2>7, <2>8
<1>21. ASSUME NEW c \in Cancels, CancelRecord(c) PROVE StopInv'
  BY <1>21 DEF CancelRecord, EndBurst, Move, EndRun, StillRunning, BurstDone
<1>22. ASSUME NEW e \in Estops, EstopRecord(e) PROVE StopInv'
  BY <1>22 DEF EstopRecord, EndBurst, Move, EndRun, BurstDone
<1>23. ASSUME NEW t \in Beats \cup Closers \cup {Watchdog}, FaultRecord(t) PROVE StopInv'
  BY <1>23 DEF FaultRecord, EndBurst, Move, EndRun, StillRunning, BurstDone
<1>24. CASE Verify
  BY <1>24 DEF Verify
<1>25. CASE UNCHANGED vars
  BY <1>25 DEF vars
<1>26. QED
  BY <1>1, <1>2, <1>3, <1>4, <1>5, <1>6, <1>7, <1>8, <1>9, <1>10, <1>11, <1>12, <1>13, <1>14, <1>15, <1>16, <1>17, <1>18, <1>19, <1>20, <1>21, <1>22, <1>23, <1>24, <1>25 DEF Next, WatchdogStep, CloseStep, Record

\* The inductive invariant of the gateway, resets included.
THEOREM GatewayInvariant == Spec => []GatewayInv
<1>1. ASSUME Init PROVE GatewayInv
  <2>1. VerifiedInv
    BY <1>1 DEF Init, VerifiedInv, RunStoppers, Threads
  <2>4. BurstInv
    BY <1>1 DEF Init, BurstInv, NothingSent
  <2>5. StillInv
    BY <1>1 DEF Init, StillInv
  <2>2. EndInv
    BY <1>1 DEF Init, EndInv, NothingSent, Ended
  <2>3. SeenInv
    BY <1>1 DEF Init, SeenInv, Threads
  <2>6. QED
    BY <1>1, <2>1, <2>2, <2>3, <2>4, <2>5, InitTyped DEF GatewayInv, StopInv
<1>2. GatewayInv /\ [Next]_vars => GatewayInv'
  BY TypeStep, GatewayInvStep DEF GatewayInv
<1>3. QED
  BY <1>1, <1>2, PTL DEF Spec

\* An end recorded with a quiesced result leaves nothing in flight.
THEOREM QuiescedEndsAreStill == Spec => []QuiescedEndIsStill
<1>1. GatewayInv => QuiescedEndIsStill
  BY DEF GatewayInv, StopInv, EndInv, QuiescedEndIsStill
<1>2. QED
  BY <1>1, GatewayInvariant, PTL

\* Behind the latch no command starts.
LEMMA LatchIsSilence ==
  ASSUME latched, [Next]_vars
  PROVE  driving' => driving
<1>1. ~Activate
  BY DEF Activate, PermitCurrent
<1>2. driving' = driving \/ driving' = FALSE
  BY <1>1 DEF Next, vars, environment, Discover, Verify, Validate, Arm, StartTask,
     OperatorReset, HeartbeatRenew, HeartbeatFault, Cancel, Estop, Close, CloseStep,
     CloseStop, CloseReturn, StopCallback, Record, CancelRecord, EstopRecord, FaultRecord,
     WatchdogStep, WatchdogExit, WatchdogRead, WatchdogCompare, WatchdogConfirm, Tick,
     CommandReturns
<1>3. QED
  BY <1>2

\* After the gateway recorded a cancel, a fault, or an emergency stop that reached
\* the sequencer, no activation command starts.
THEOREM NothingStartsAfterEnd == Spec => NoCommandAfterEnd
<1>1. GatewayInv /\ [Next]_vars => (Silenced => (driving' => driving))
  <2> SUFFICES ASSUME GatewayInv, [Next]_vars, Silenced PROVE driving' => driving
    OBVIOUS
  <2>1. latched
    BY DEF GatewayInv, StopInv, EndInv, Silenced, Ended
  <2>2. QED
    BY <2>1, LatchIsSilence
<1>2. QED
  BY <1>1, GatewayInvariant, PTL DEF Spec, NoCommandAfterEnd

-----------------------------------------------------------------------------
(* Resets.                                                                 *)

\* However often the operator resets the gateway and whoever stops, heartbeats or
\* closes meanwhile, a run that is started again moves nothing after an end whose
\* stop reached the sequencer (gateway.py operator_reset).
THEOREM ResetsNeverRevive == Spec => ResetNeverRevives
<1>1. GatewayInv /\ [Next]_vars =>
         ((resets > 0 /\ lastStop.reached) => (driving' => driving))
  BY LatchIsSilence DEF GatewayInv, StopInv, EndInv
<1>2. QED
  BY <1>1, GatewayInvariant, PTL DEF Spec, ResetNeverRevives

\* Only an operator reset leaves ESTOPPED.
THEOREM EstopStaysLatched == Spec => EstopIsLatched
<1>1. TypeOK /\ [Next]_vars =>
         (state = "ESTOPPED" => state' = "ESTOPPED" \/ resets' # resets)
  <2> SUFFICES ASSUME TypeOK, [Next]_vars, state = "ESTOPPED", ~OperatorReset
               PROVE  state' = "ESTOPPED"
    BY DEF OperatorReset, TypeOK
  <2>1. QED
    BY DEF Next, vars, gateway, Discover, Verify, Validate, Arm, StartTask,
       HeartbeatRenew, HeartbeatFault, Cancel, Estop, Close, CloseStep, CloseStop,
       CloseReturn, StopCallback, Record, CancelRecord, EstopRecord, FaultRecord,
       StillRunning, WatchdogStep, WatchdogExit, WatchdogRead, WatchdogCompare,
       WatchdogConfirm, Tick, Activate, CommandReturns
<1>2. QED
  BY <1>1, GatewayTypeCorrect, PTL DEF Spec, EstopIsLatched

-----------------------------------------------------------------------------
(* The first run: a gateway that is never reset, as the runtime uses it.   *)

\* FirstRunInv is inductive.
LEMMA FirstRunStep ==
  ASSUME MaxResets = 0, GatewayInv, FirstRunInv, [Next]_vars
  PROVE  FirstRunInv'
<1> USE ThreadsAssumption, ProfileAssumption
<1> USE DEF GatewayInv, StopInv, VerifiedInv, TypeOK, BurstInv, FirstRunInv, StoppersInv, JustifiedInv,
            EndedRunWasStopped, Expired, RunStoppers, gateway, burst, environment,
            Threads, Ended, BurstCount, Watchdog
<1>1. CASE Discover
  BY <1>1 DEF Discover
<1>2. CASE Validate
  BY <1>2 DEF Validate
<1>3. CASE Arm
  BY <1>3 DEF Arm
<1>4. CASE StartTask
  <2>1. \A t \in RunStoppers : pc'[t] # "burst"
    BY <1>4 DEF StartTask, SupervisorStart, Move
  <2>2. deadline' = None <=> profile.timeout = None
    BY <1>4, TimeoutType DEF StartTask
  <2>3. state' = "RUNNING" /\ resets' = 0 /\ profile' = profile
    BY <1>4 DEF StartTask
  <2>4. Beats \cup {Watchdog} \subseteq RunStoppers
    OBVIOUS
  <2>5. JustifiedInv'
    BY <2>1, <2>2, <2>3, <2>4
  <2>6. QED
    BY <2>1, <2>3, <2>5
<1>5. CASE OperatorReset
  BY <1>5 DEF OperatorReset
<1>6. CASE WatchdogExit
  BY <1>6 DEF WatchdogExit, Move
<1>7. CASE WatchdogRead
  BY <1>7 DEF WatchdogRead, Move
<1>8. CASE WatchdogCompare
  BY <1>8 DEF WatchdogCompare, Move
<1>9. CASE WatchdogConfirm
  BY <1>9 DEF WatchdogConfirm, StartBurst, Move
<1>10. CASE Tick
  BY <1>10 DEF Tick
<1>11. CASE Activate
  BY <1>11 DEF Activate, PermitCurrent
<1>12. CASE CommandReturns
  BY <1>12 DEF CommandReturns
<1>13. ASSUME NEW b \in Beats, HeartbeatRenew(b) PROVE FirstRunInv'
  BY <1>13 DEF HeartbeatRenew, Renewable
<1>14. ASSUME NEW b \in Beats, HeartbeatFault(b) PROVE FirstRunInv'
  BY <1>14 DEF HeartbeatFault, StartBurst, Renewable, Move
<1>15. ASSUME NEW c \in Cancels, Cancel(c) PROVE FirstRunInv'
  BY <1>15 DEF Cancel, StartBurst, Cancellable, Move
<1>16. ASSUME NEW e \in Estops, Estop(e) PROVE FirstRunInv'
  BY <1>16 DEF Estop, StartBurst, Move
<1>17. ASSUME NEW x \in Closers, Close(x) PROVE FirstRunInv'
  BY <1>17 DEF Close, StartBurst, Move
<1>18. ASSUME NEW x \in Closers, CloseStop(x) PROVE FirstRunInv'
  BY <1>18 DEF CloseStop, Move
<1>19. ASSUME NEW x \in Closers, CloseReturn(x) PROVE FirstRunInv'
  BY <1>19 DEF CloseReturn, Move
<1>20. ASSUME NEW t \in Threads, StopCallback(t) PROVE FirstRunInv'
  <2>1. /\ sent' = [sent EXCEPT ![t] = @ + 1]
        /\ sent[t] < BurstCount
        /\ pc[t] = "burst"
        /\ UNCHANGED <<profile, state, deadline, pc, now, resets>>
    BY <1>20 DEF StopCallback, BurstUnfinished
  <2>2. JustifiedInv'
    BY <2>1
  <2>3. CASE Reach(t)
    <3>1. stopsInRun' = IF stopsInRun < BurstCount THEN stopsInRun + 1 ELSE stopsInRun
      BY <2>3 DEF Reach
    <3>2. StoppersInv' /\ EndedRunWasStopped'
      BY <2>1, <3>1
    <3>3. QED
      BY <2>1, <2>2, <3>2
  <2>4. CASE Miss(t)
    <3>1. t \notin RunStoppers
      BY <2>1, <2>4 DEF Miss
    <3>2. stopsInRun' = stopsInRun
      BY <2>4 DEF Miss
    <3>3. StoppersInv' /\ EndedRunWasStopped'
      BY <2>1, <3>1, <3>2
    <3>4. QED
      BY <2>1, <2>2, <3>3
  <2>5. QED
    BY <1>20, <2>3, <2>4 DEF StopCallback
<1>21. ASSUME NEW c \in Cancels, CancelRecord(c) PROVE FirstRunInv'
  BY <1>21 DEF CancelRecord, EndBurst, Move, EndRun, StillRunning, BurstDone
<1>22. ASSUME NEW e \in Estops, EstopRecord(e) PROVE FirstRunInv'
  BY <1>22 DEF EstopRecord, EndBurst, Move, EndRun, BurstDone
<1>23. ASSUME NEW t \in Beats \cup Closers \cup {Watchdog}, FaultRecord(t) PROVE FirstRunInv'
  BY <1>23 DEF FaultRecord, EndBurst, Move, EndRun, StillRunning, BurstDone
<1>24. CASE Verify
  BY <1>24 DEF Verify
<1>25. CASE UNCHANGED vars
  BY <1>25 DEF vars
<1>26. QED
  BY <1>1, <1>2, <1>3, <1>4, <1>5, <1>6, <1>7, <1>8, <1>9, <1>10, <1>11, <1>12, <1>13, <1>14, <1>15, <1>16, <1>17, <1>18, <1>19, <1>20, <1>21, <1>22, <1>23, <1>24, <1>25 DEF Next, WatchdogStep, CloseStep, Record

\* The inductive invariant of a gateway that is never reset.
THEOREM FirstRunInvariant ==
  ASSUME MaxResets = 0
  PROVE  Spec => []FirstRunInv
<1>1. Init => FirstRunInv
  BY DEF Init, FirstRunInv, StoppersInv, JustifiedInv, EndedRunWasStopped, RunStoppers,
         Threads
<1>2. GatewayInv /\ FirstRunInv /\ [Next]_vars => FirstRunInv'
  BY FirstRunStep
<1>3. QED
  BY <1>1, <1>2, GatewayInvariant, PTL DEF Spec

\* A run that ended on cancel or fault was stopped by a full burst of its own.
THEOREM EndedRunsWereStopped ==
  ASSUME MaxResets = 0
  PROVE  Spec => []EndedRunWasStopped
<1>1. FirstRunInv => EndedRunWasStopped
  BY DEF FirstRunInv
<1>2. QED
  BY <1>1, FirstRunInvariant, PTL

\* A run is faulted only while its deadline has passed, it has none, or the
\* gateway is being closed.
THEOREM FaultsAreJustified ==
  ASSUME MaxResets = 0
  PROVE  Spec => FaultIsJustified
<1>1. GatewayInv /\ FirstRunInv /\ [Next]_vars =>
        (state = "RUNNING" /\ state' = "FAULTED" =>
            Expired \/ deadline = None \/ \E x \in Closers : pc[x] = "burst")
  <2> SUFFICES ASSUME FirstRunInv, [Next]_vars, state = "RUNNING", state' = "FAULTED"
               PROVE  Expired \/ deadline = None \/ \E x \in Closers : pc[x] = "burst"
    OBVIOUS
  <2>1. PICK t \in Beats \cup Closers \cup {Watchdog} : FaultRecord(t)
    BY DEF Next, vars, gateway, Discover, Verify, Validate, Arm, StartTask, OperatorReset,
       HeartbeatRenew, HeartbeatFault, Cancel, Estop, Close, CloseStep, CloseStop,
       CloseReturn, StopCallback, Record, CancelRecord, EstopRecord, EndRun,
       WatchdogStep, WatchdogExit, WatchdogRead, WatchdogCompare,
       WatchdogConfirm, Tick, Activate, CommandReturns
  <2>2. pc[t] = "burst"
    BY <2>1 DEF FaultRecord, BurstDone
  <2>3. QED
    BY <2>2 DEF FirstRunInv, JustifiedInv
<1>2. QED
  BY <1>1, GatewayInvariant, FirstRunInvariant, PTL DEF Spec, FaultIsJustified
=============================================================================
