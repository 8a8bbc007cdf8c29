---------------------------- MODULE SafetyGateway ----------------------------
(***************************************************************************)
(* agent_ros/safety/gateway.py and supervisor.py: the lifecycle of a run,  *)
(* its heartbeat deadline, and the watchdog thread that enforces it.       *)
(*                                                                         *)
(* The gateway's lock is never held across a stop: cancel, estop, close    *)
(* and the two ways a heartbeat is found expired decide in one locked      *)
(* region, call the stop callback three times unlocked, and record the     *)
(* outcome in another region. An action is one such region, one callback,  *)
(* or one unlocked read of the clock.                                      *)
(*                                                                         *)
(* The stop callback is the emergency channel. Once validate_profile has   *)
(* verified the channel it latches the sequencer and reports whether the   *)
(* command in flight has ended; before that it raises, which the gateway   *)
(* takes for a stop that did not quiesce. What the sequencer guarantees is *)
(* ActivationGate; here it is reduced to latched and driving.              *)
(***************************************************************************)
EXTENDS Integers

CONSTANTS Cancels,    \* threads that call cancel, once each
          Estops,     \* threads that call estop_attempt or observe a physical stop
          Beats,      \* threads that call heartbeat, again and again
          Closers,    \* threads that call close, once each
          Modes,      \* the profile modes considered
          Timeouts,   \* the heartbeat timeouts considered, None among them or not
          MaxTime,    \* bound of the clock
          MaxResets,  \* bound of the operator resets
          ThreadStartFails, \* may starting the watchdog thread raise
          None

Watchdog == "watchdog"

ASSUME BoundsAssumption == MaxTime \in Nat /\ MaxResets \in Nat
ASSUME ProfileAssumption == /\ Modes \subseteq {"simulation", "hardware"}
                            /\ Timeouts \subseteq Nat \cup {None}
                            /\ None \notin Int
                            /\ ThreadStartFails \in BOOLEAN
ASSUME ThreadsAssumption ==
    /\ Cancels \cap Estops = {}
    /\ (Cancels \cup Estops) \cap (Beats \cup Closers) = {}
    /\ Beats \cap Closers = {}
    /\ Watchdog \notin Cancels \cup Estops \cup Beats \cup Closers

VARIABLES
  profile,    \* the reviewed profile: its mode and heartbeat timeout
  state,      \* _state
  deadline,   \* _deadline
  lastStop,   \* the stop result of the latest transition that has one
  stopEvent,  \* the supervisor's _stop_event
  seen,       \* the deadline the watchdog last read
  pc,         \* where each thread is
  sent,       \* how many stop callbacks of its burst a thread has made
  worst,      \* the combined result of those callbacks
  now,        \* the clock
  resets,     \* operator resets so far
  verified,   \* the emergency channel is bound and verified
  granted,    \* a task was started with an activation permit
  latched,    \* the sequencer's latch
  driving,    \* an activation command is in flight
  stopsInRun  \* stop callbacks since the task started, up to a full burst

gateway == <<state, deadline, lastStop, stopEvent>>
burst == <<sent, worst>>
environment == <<now, resets, verified, granted, latched, driving, stopsInRun>>
vars == <<profile, gateway, seen, pc, burst, environment>>

Threads == Cancels \cup Estops \cup Beats \cup Closers \cup {Watchdog}
States == {"NEW", "DISCOVERED", "VALIDATED", "ARMED", "RUNNING",
           "STOPPED", "FAULTED", "ESTOPPED"}
Ended == {"STOPPED", "FAULTED", "ESTOPPED"}
\* The combined result of a burst: did any of its callbacks reach the sequencer
\* (no result of the code tells this), and did all of them find it quiesced (the
\* code is not TRANSPORT_UNQUIESCED). Whether the zero commands were accepted is
\* left out.
StopResults == [reached : BOOLEAN, quiesced : BOOLEAN]
NothingSent == [reached |-> FALSE, quiesced |-> TRUE]

BurstCount == 3 \* _STOP_BURST_COUNT

\* A hardware profile is rejected without a heartbeat timeout.
Profiles == {p \in [mode : Modes, timeout : Timeouts] :
                p.mode = "hardware" => p.timeout # None}

Init == /\ profile \in Profiles
        /\ state = "NEW"
        /\ deadline = None
        /\ lastStop = NothingSent
        /\ stopEvent = FALSE
        /\ seen = None
        /\ pc = [t \in Threads |-> IF t = Watchdog THEN "none" ELSE "new"]
        /\ sent = [t \in Threads |-> 0]
        /\ worst = [t \in Threads |-> NothingSent]
        /\ now = 0
        /\ resets = 0
        /\ verified = FALSE
        /\ granted = FALSE
        /\ latched = FALSE
        /\ driving = FALSE
        /\ stopsInRun = 0

Move(t, place) == pc' = [pc EXCEPT ![t] = place]

Expired == deadline # None /\ now > deadline

-----------------------------------------------------------------------------
(* The lifecycle up to a running task.                                     *)

\* A report with blocking warnings, an unsupported profile and a rejected
\* operator challenge raise and change nothing.
Discover == /\ state = "NEW"
            /\ state' = "DISCOVERED"
            /\ UNCHANGED <<profile, deadline, lastStop, stopEvent, seen, pc, burst,
                           environment>>

\* validate_profile() first binds a started worker to the channel and verifies
\* it, whatever state the gateway is in; no reset takes that back.
Verify == /\ ~verified
          /\ verified' = TRUE
          /\ UNCHANGED <<profile, gateway, seen, pc, burst, now, resets, granted,
                         latched, driving, stopsInRun>>

Validate == /\ verified
            /\ state = "DISCOVERED"
            /\ state' = IF profile.mode = "simulation" THEN "ARMED" ELSE "VALIDATED"
            /\ UNCHANGED <<profile, deadline, lastStop, stopEvent, seen, pc, burst,
                           environment>>

Arm == /\ state = "VALIDATED"
       /\ profile.mode = "hardware"
       /\ state' = "ARMED"
       /\ UNCHANGED <<profile, deadline, lastStop, stopEvent, seen, pc, burst,
                      environment>>

Alive == pc[Watchdog] \notin {"none", "dead"}

\* SafetySupervisor.start(): nothing while the thread lives, not even clearing
\* the stop event; a thread that cannot be started raises through start_task.
SupervisorStart ==
    \/ /\ Alive
       /\ granted' = TRUE
       /\ UNCHANGED <<stopEvent, pc>>
    \/ /\ ~Alive
       /\ stopEvent' = FALSE
       /\ Move(Watchdog, "waiting")
       /\ granted' = TRUE
    \/ /\ ~Alive
       /\ ThreadStartFails
       /\ stopEvent' = FALSE
       /\ UNCHANGED <<granted, pc>>

\* start_task(): a motion limit that is exceeded raises and changes nothing.
StartTask ==
    /\ state = "ARMED"
    /\ state' = "RUNNING"
    /\ deadline' = IF profile.timeout = None THEN None ELSE now + profile.timeout
    /\ stopsInRun' = 0
    /\ SupervisorStart
    /\ UNCHANGED <<profile, lastStop, seen, burst, now, resets, verified, latched,
                   driving>>

-----------------------------------------------------------------------------
(* Deciding to stop: the first region of each stopping operation.          *)

StartBurst(t) == Move(t, "burst") /\ UNCHANGED burst

\* (fault) A heartbeat renews whatever deadline there is.
RenewAnyway == profile.timeout # None

\* A heartbeat renews a deadline that has not passed.
Renewable == profile.timeout # None /\ ~Expired

HeartbeatRenew(b) ==
    /\ pc[b] = "new"
    /\ state = "RUNNING"
    /\ Renewable
    /\ deadline' = now + profile.timeout
    /\ UNCHANGED <<profile, state, lastStop, stopEvent, seen, pc, burst, environment>>

\* A heartbeat that comes too late, or to a run without a timeout, is a fault.
HeartbeatFault(b) ==
    /\ pc[b] = "new"
    /\ state = "RUNNING"
    /\ ~Renewable
    /\ StartBurst(b)
    /\ UNCHANGED <<profile, gateway, seen, environment>>

\* (fault) cancel does not look at the state before it stops.
CancelAnyway == TRUE

Cancellable == state = "RUNNING"

Cancel(c) ==
    /\ pc[c] = "new"
    /\ Cancellable
    /\ StartBurst(c)
    /\ UNCHANGED <<profile, gateway, seen, environment>>

\* An emergency stop asks nobody.
Estop(e) ==
    /\ pc[e] = "new"
    /\ StartBurst(e)
    /\ UNCHANGED <<profile, gateway, seen, environment>>

\* close(): a run that is active is faulted first.
Close(x) ==
    /\ pc[x] = "new"
    /\ IF state = "RUNNING"
       THEN StartBurst(x)
       ELSE Move(x, "stopping") /\ UNCHANGED burst
    /\ UNCHANGED <<profile, gateway, seen, environment>>

-----------------------------------------------------------------------------
(* The burst of stop callbacks, outside the lock.                          *)

\* (fault) Callbacks that did not quiesce are forgiven.
AnyOf(a, b) == a \/ b

\* Every callback of the burst must have quiesced.
AllOf(a, b) == a /\ b

BurstUnfinished(t) == sent[t] < BurstCount

Combine(r, reached, quiesced) ==
    [reached |-> r.reached \/ reached, quiesced |-> AllOf(r.quiesced, quiesced)]

\* A callback of a verified channel latches the sequencer and reports a command
\* still in flight.
Reach(t) ==
    /\ verified
    /\ worst' = [worst EXCEPT ![t] = Combine(@, TRUE, ~driving)]
    /\ latched' = TRUE
    /\ stopsInRun' = IF stopsInRun < BurstCount THEN stopsInRun + 1 ELSE stopsInRun

\* A channel that is not bound or not verified yet raises and stops nothing.
Miss(t) ==
    /\ ~verified
    /\ worst' = [worst EXCEPT ![t] = Combine(@, FALSE, FALSE)]
    /\ UNCHANGED <<latched, stopsInRun>>

StopCallback(t) ==
    /\ pc[t] = "burst"
    /\ BurstUnfinished(t)
    /\ sent' = [sent EXCEPT ![t] = @ + 1]
    /\ Reach(t) \/ Miss(t)
    /\ UNCHANGED <<profile, gateway, seen, pc, now, resets, verified, granted, driving>>

\* (fault) The outcome is recorded while the burst is under way.
BurstBegun(t) == pc[t] = "burst"

\* (fault) The outcome is recorded only when the transport has quiesced.
BurstAccepted(t) == /\ pc[t] = "burst"
                    /\ sent[t] = BurstCount
                    /\ worst[t].quiesced

BurstDone(t) == pc[t] = "burst" /\ sent[t] = BurstCount

-----------------------------------------------------------------------------
(* Recording the outcome: the second region of each stopping operation.    *)

StillRunning == state = "RUNNING"

\* A burst's counter and combined result are local to the call that made it.
EndBurst(t, place) == /\ Move(t, place)
                      /\ sent' = [sent EXCEPT ![t] = 0]
                      /\ worst' = [worst EXCEPT ![t] = NothingSent]

EndRun(t, final) == /\ state' = final
                    /\ lastStop' = worst[t]
                    /\ deadline' = None
                    /\ stopEvent' = TRUE

\* A cancel that lost the race to another end of the run raises.
CancelRecord(c) ==
    /\ BurstDone(c)
    /\ EndBurst(c, "done")
    /\ IF StillRunning THEN EndRun(c, "STOPPED") ELSE UNCHANGED gateway
    /\ UNCHANGED <<profile, seen, environment>>

\* The first emergency stop latches, from any state; later ones find it so.
EstopRecord(e) ==
    /\ BurstDone(e)
    /\ EndBurst(e, "done")
    /\ IF state # "ESTOPPED" THEN EndRun(e, "ESTOPPED") ELSE UNCHANGED gateway
    /\ UNCHANGED <<profile, seen, environment>>

\* _fault(), for a heartbeat thread, the watchdog or close.
FaultRecord(t) ==
    /\ BurstDone(t)
    /\ EndBurst(t, CASE t = Watchdog -> "dead"
                     [] t \in Closers -> "stopping"
                     [] OTHER -> "done")
    /\ IF StillRunning THEN EndRun(t, "FAULTED") ELSE UNCHANGED gateway
    /\ UNCHANGED <<profile, seen, environment>>

\* close() stops the supervisor and looks which thread there is to join.
CloseStop(x) ==
    /\ pc[x] = "stopping"
    /\ stopEvent' = TRUE
    /\ Move(x, IF pc[Watchdog] = "none" THEN "closed" ELSE "joining")
    /\ UNCHANGED <<profile, state, deadline, lastStop, seen, burst, environment>>

\* The join ends with the thread, or by its timeout.
CloseReturn(x) ==
    /\ pc[x] = "joining"
    /\ Move(x, IF Alive THEN "unjoined" ELSE "closed")
    /\ UNCHANGED <<profile, gateway, seen, burst, environment>>

\* operator_reset(): only simulation, only after an emergency stop. The
\* sequencer's latch, the watchdog and stops under way are left as they are.
OperatorReset ==
    /\ resets < MaxResets
    /\ state = "ESTOPPED"
    /\ profile.mode = "simulation"
    /\ state' = "NEW"
    /\ deadline' = None
    /\ resets' = resets + 1
    /\ UNCHANGED <<profile, lastStop, stopEvent, seen, pc, burst, now, verified,
                   granted, latched, driving, stopsInRun>>

-----------------------------------------------------------------------------
(* The watchdog thread: wait, read the deadline, compare it with the clock,*)
(* confirm the expiry under the lock.                                      *)

WatchdogExit ==
    /\ pc[Watchdog] = "waiting"
    /\ stopEvent
    /\ Move(Watchdog, "dead")
    /\ UNCHANGED <<profile, gateway, seen, burst, environment>>

\* A poll that finds no active deadline changes nothing.
WatchdogRead ==
    /\ pc[Watchdog] = "waiting"
    /\ ~stopEvent
    /\ state = "RUNNING"
    /\ deadline # None
    /\ seen' = deadline
    /\ Move(Watchdog, "read")
    /\ UNCHANGED <<profile, gateway, burst, environment>>

WatchdogCompare ==
    /\ pc[Watchdog] = "read"
    /\ IF now <= seen
       THEN Move(Watchdog, "waiting") /\ seen' = None
       ELSE Move(Watchdog, "late") /\ UNCHANGED seen
    /\ UNCHANGED <<profile, gateway, burst, environment>>

\* evaluate() answers True once the callback was called, whatever it found, and
\* the loop ends on that answer.
WatchdogConfirm ==
    /\ pc[Watchdog] = "late"
    /\ IF state = "RUNNING" /\ Expired
       THEN StartBurst(Watchdog)
       ELSE Move(Watchdog, "dead") /\ UNCHANGED burst
    /\ seen' = None
    /\ UNCHANGED <<profile, gateway, environment>>

-----------------------------------------------------------------------------
(* The environment: time, and the activation commands of the run.          *)

Tick == /\ now < MaxTime
        /\ now' = now + 1
        /\ UNCHANGED <<profile, gateway, seen, pc, burst, resets, verified,
                       granted, latched, driving, stopsInRun>>

\* (fault) The adapter trusts a permit it was once given.
PermitGiven == granted

PermitCurrent == granted /\ ~latched

\* The adapter starts a command under its permit. It never looks at the
\* gateway's state: what stops it is the latch.
Activate ==
    /\ PermitCurrent
    /\ ~driving
    /\ driving' = TRUE
    /\ UNCHANGED <<profile, gateway, seen, pc, burst, now, resets, verified, granted,
                   latched, stopsInRun>>

CommandReturns ==
    /\ driving
    /\ driving' = FALSE
    /\ UNCHANGED <<profile, gateway, seen, pc, burst, now, resets, verified, granted,
                   latched, stopsInRun>>

Record(t) == \/ t \in Cancels /\ CancelRecord(t)
             \/ t \in Estops /\ EstopRecord(t)
             \/ t \in Beats \cup Closers \cup {Watchdog} /\ FaultRecord(t)

WatchdogStep == WatchdogExit \/ WatchdogRead \/ WatchdogCompare \/ WatchdogConfirm

CloseStep(x) == CloseStop(x) \/ CloseReturn(x)

Next == \/ Discover \/ Verify \/ Validate \/ Arm \/ StartTask \/ OperatorReset
        \/ \E b \in Beats : HeartbeatRenew(b) \/ HeartbeatFault(b)
        \/ \E c \in Cancels : Cancel(c)
        \/ \E e \in Estops : Estop(e)
        \/ \E x \in Closers : Close(x) \/ CloseStep(x)
        \/ \E t \in Threads : StopCallback(t) \/ Record(t)
        \/ WatchdogStep
        \/ Tick \/ Activate \/ CommandReturns

Spec == Init /\ [][Next]_vars

\* Threads run, callbacks return (they have a deadline of their own), joins end.
\* Nobody is obliged to send heartbeats, to stop, or to let time pass.
Fairness == /\ WF_vars(WatchdogStep)
            /\ \A t \in Threads : WF_vars(StopCallback(t) \/ Record(t))
            /\ \A x \in Closers : WF_vars(CloseStep(x))

FairSpec == Spec /\ Fairness

-----------------------------------------------------------------------------
(* Properties                                                              *)

Places == {"none", "new", "burst", "done", "waiting", "read", "late", "dead",
           "stopping", "joining", "closed", "unjoined"}

TypeOK ==
    /\ profile \in Profiles
    /\ state \in States
    /\ deadline \in Nat \cup {None}
    /\ lastStop \in StopResults
    /\ stopEvent \in BOOLEAN
    /\ seen \in Nat \cup {None}
    /\ pc \in [Threads -> Places]
    /\ sent \in [Threads -> 0..BurstCount]
    /\ worst \in [Threads -> StopResults]
    /\ now \in Nat
    /\ resets \in Nat
    /\ verified \in BOOLEAN /\ granted \in BOOLEAN
    /\ latched \in BOOLEAN /\ driving \in BOOLEAN
    /\ stopsInRun \in 0..BurstCount

\* An emergency stop is a latch: no fault, cancel or late record of another
\* thread's stop replaces ESTOPPED; only an operator reset leaves it.
EstopIsLatched ==
    [][state = "ESTOPPED" => state' = "ESTOPPED" \/ resets' # resets]_vars

\* A run is faulted for a reason that holds at that moment: its deadline has
\* passed, it has none to keep, or the gateway is being closed. In particular
\* no heartbeat that succeeded in between is ignored.
FaultIsJustified ==
    [][state = "RUNNING" /\ state' = "FAULTED" =>
          \/ Expired
          \/ deadline = None
          \/ \E x \in Closers : pc[x] = "burst"]_vars

\* A run that ended on cancel or fault was stopped by a full burst made during
\* that run, not by callbacks that ran before its task was started.
EndedRunWasStopped == state \in {"STOPPED", "FAULTED"} => stopsInRun = BurstCount

\* Once the gateway has recorded an end no activation command starts, although
\* adapters never ask the gateway. One end is no such promise: an emergency stop
\* all of whose callbacks raised, since the robot was not validated yet. It may be
\* recorded after a run was started, and that run goes on.
Silenced == /\ state \in Ended
            /\ state = "ESTOPPED" => lastStop.reached
NoCommandAfterEnd == [][Silenced => (driving' => driving)]_vars

\* An end recorded with a quiesced result means nothing is in flight.
QuiescedEndIsStill ==
    state \in Ended /\ lastStop.quiesced => ~driving

\* After an operator reset a new run may be started, but it never moves if the
\* end recorded last, before the reset or after it, is one whose stop reached the
\* sequencer: the latch outlives resets and the stops still under way.
ResetNeverRevives ==
    [][(resets > 0 /\ lastStop.reached) => (driving' => driving)]_vars

\* The watchdog is on its way to fault this run if the run is overdue. (A run
\* started again before the last one's watchdog has left is not supervised:
\* start() finds that thread alive and leaves its stop event set.)
Supervising == \/ pc[Watchdog] = "waiting" /\ ~stopEvent
               \/ pc[Watchdog] = "burst"
               \/ pc[Watchdog] \in {"read", "late"} /\ seen = deadline

\* An overdue run that the watchdog still supervises ends, with no heartbeat or
\* operator needed.
SupervisedLossEndsRun ==
    state = "RUNNING" /\ Expired /\ Supervising ~> state # "RUNNING"

\* tests/test_safety_gateway.py: the "independent watchdog faults after deadline
\* without an agent heartbeat call".
HeartbeatLossEndsRun == state = "RUNNING" /\ Expired ~> state # "RUNNING"
=============================================================================
