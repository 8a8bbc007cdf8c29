--------------------------- MODULE TwistTransport ---------------------------
(***************************************************************************)
(* agent_ros/adapters/twist.py with the threads that drive it: a timer     *)
(* computes velocity commands, the sequencer's worker publishes them, and  *)
(* three kinds of threads stop the robot: the emergency worker, whoever    *)
(* calls stop_waypoint, and the timer itself.                              *)
(*                                                                         *)
(* Python's assignments are steps where another thread can see or undo     *)
(* them; "generation += 1" without the state lock is a read and a write.   *)
(* Of the sequencer (module SafetySequencer) and the gateway (module         *)
(* SafetyGateway) only what these threads share is kept: the queue, the     *)
(* latch and the command in flight; the burst and its combined result. A   *)
(* permit is current exactly while the latch is open.                      *)
(***************************************************************************)
EXTENDS Naturals, Sequences, Functions

CONSTANTS Cancellers,   \* threads that call cancel_task
          Estoppers,    \* threads that stop the gateway in an emergency
          Stages,       \* how many stages the task has
          BurstCount,   \* how many stop callbacks a burst makes (_STOP_BURST_COUNT)
          ZeroCapacity, \* how many zero commands the emergency worker queues
          PublishFails, \* may the publisher raise on the emergency worker
          None

ASSUME StagesAssumption == {Stages, BurstCount, ZeroCapacity} \subseteq Nat \ {0}
ASSUME TwistThreadsAssumption ==
    /\ Cancellers \cap Estoppers = {}
    /\ {"runtime", "timer", "cleanup", "watchdog"} \cap (Cancellers \cup Estoppers) = {}
    /\ PublishFails \in BOOLEAN
    /\ None \notin {"runtime", "timer", "ESTOP_LATCHED"}

VARIABLES
  generation, stageGen, \* _generation and _stage_generation
  stage,       \* is _stage set
  status,      \* _state
  motion,      \* the last message published
  latched, queue, inFlight, \* of the sequencer
  receipt,     \* of each submitter's latest submission
  worker,      \* where the activation worker is in its command
  zeros,       \* how many zero commands wait for the emergency worker
  emergency,   \* where the emergency worker is
  failed,      \* it accepts no more: a command raised, or its queue was full
  sent, worst, \* per thread: stop callbacks of its burst, their worst result
  result,      \* and the result its gateway call recorded
  ended,       \* the gateway has left RUNNING
  captured,    \* the stage generation the timer has read
  commandGen,  \* the one its command in the queue or in flight was computed for
  verdict,     \* the status the timer sets after its stop_waypoint
  read,        \* what each worker has read of _generation
  stagesLeft,  \* stages not yet reached, the current one included
  pc           \* where every other thread is

adapter == <<generation, stageGen, stage, status, motion>>
sequencer == <<latched, queue, inFlight, receipt, worker>>
zeroing == <<zeros, emergency, failed>>
burst == <<sent, worst, result, ended>>
locals == <<captured, commandGen, verdict, read, stagesLeft>>
vars == <<adapter, sequencer, zeroing, burst, locals, pc>>

Submitters == {"runtime", "timer"}
Threads == Submitters \cup {"cleanup", "watchdog"} \cup Cancellers \cup Estoppers

Init == /\ generation = 0 /\ stageGen = 0 /\ stage = FALSE
        /\ status = "idle" /\ motion = "zero"
        /\ latched = FALSE /\ queue = <<>> /\ inFlight = None
        /\ receipt = [s \in Submitters |-> None]
        /\ worker = "idle"
        /\ zeros = 0 /\ emergency = "idle" /\ failed = FALSE
        /\ sent = [t \in Threads |-> 0]
        /\ worst = [t \in Threads |-> "ESTOP_LATCHED"]
        /\ result = [t \in Threads |-> None]
        /\ ended = FALSE
        /\ captured = 0 /\ commandGen = 0 /\ verdict = None
        /\ read = [w \in {"worker", "emergency"} |-> 0]
        /\ stagesLeft = Stages
        /\ pc = [t \in Threads |-> IF t = "runtime" THEN "start" ELSE "idle"]

Move(t, place) == pc' = [pc EXCEPT ![t] = place]

-----------------------------------------------------------------------------
(* Submitting to the sequencer.                                            *)

\* Receipts of a drained queue, and of a caller that gave up, are rejected.
Rejecting(S) ==
    [s \in Submitters |-> IF s \in S \cup Range(queue) THEN "rejected" ELSE receipt[s]]

\* Latching drains the queue.
LatchRejecting(S) == /\ latched' = TRUE
                     /\ queue' = <<>>
                     /\ receipt' = Rejecting(S)
                     /\ UNCHANGED <<inFlight, worker>>

\* (fault) The sequencer does not look at its latch.
SubmitAnyway(s) == /\ receipt' = [receipt EXCEPT ![s] = "queued"]
                   /\ queue' = Append(queue, s)
                   /\ UNCHANGED <<latched, inFlight, worker>>

Submit(s) ==
    /\ IF latched
       THEN /\ receipt' = [receipt EXCEPT ![s] = "rejected"]
            /\ UNCHANGED queue
       ELSE /\ receipt' = [receipt EXCEPT ![s] = "queued"]
            /\ queue' = Append(queue, s)
    /\ UNCHANGED <<latched, inFlight, worker>>

\* A submitter that has its answer drops the receipt.
Forget(s) == /\ receipt' = [receipt EXCEPT ![s] = None]
             /\ UNCHANGED <<latched, queue, inFlight, worker>>

\* The submitter's wait ends by its timeout, which latches.
SubmitTimeout(s) ==
    /\ pc[s] = "submitted"
    /\ receipt[s] \in {"queued", "running"}
    /\ LatchRejecting({s})
    /\ UNCHANGED <<adapter, zeroing, burst, locals, pc>>

-----------------------------------------------------------------------------
(* The activation worker and its two commands.                             *)

WorkerTake ==
    /\ worker = "idle"
    /\ queue # <<>>
    /\ inFlight' = Head(queue)
    /\ queue' = Tail(queue)
    /\ receipt' = [receipt EXCEPT ![Head(queue)] = "running"]
    /\ worker' = IF Head(queue) = "runtime" THEN "read" ELSE "check"
    /\ UNCHANGED <<adapter, zeroing, burst, latched, locals, pc>>

\* start_waypoint(), assignment by assignment.
StartStep(from, to) ==
    /\ worker = from
    /\ worker' = to
    /\ UNCHANGED <<latched, queue, inFlight, receipt, motion, zeroing, burst,
                   captured, commandGen, verdict, stagesLeft, pc>>

StartRead == /\ StartStep("read", "write")
             /\ read' = [read EXCEPT !["worker"] = generation]
             /\ UNCHANGED <<generation, stageGen, stage, status>>

StartWrite == /\ StartStep("write", "adopt")
              /\ generation' = read["worker"] + 1
              /\ read' = [read EXCEPT !["worker"] = 0]
              /\ UNCHANGED <<stageGen, stage, status>>

StartAdopt == /\ StartStep("adopt", "set")
              /\ stageGen' = generation
              /\ UNCHANGED <<generation, stage, status, read>>

StartSet == /\ StartStep("set", "announce")
            /\ stage' = TRUE
            /\ UNCHANGED <<generation, stageGen, status, read>>

\* The command ends: a receipt its submitter gave up on keeps its rejection.
CommandEnds(s) == /\ worker' = "idle"
                  /\ inFlight' = None
                  /\ receipt' = [receipt EXCEPT ![s] = IF @ = "running" THEN "done" ELSE @]
                  /\ UNCHANGED <<latched, queue>>

StartAnnounce == /\ worker = "announce"
                 /\ status' = "running"
                 /\ CommandEnds("runtime")
                 /\ UNCHANGED <<generation, stageGen, stage, motion, zeroing, burst,
                                locals, pc>>

CommandCurrent == commandGen = generation /\ stage

\* The timer's command looks whether it is still wanted, then publishes; it
\* holds no lock in between.
CommandCheck == /\ worker = "check"
                /\ IF CommandCurrent
                   THEN worker' = "publish" /\ UNCHANGED <<latched, queue, inFlight, receipt>>
                   ELSE CommandEnds("timer")
                /\ UNCHANGED <<adapter, zeroing, burst, locals, pc>>

CommandPublish == /\ worker = "publish"
                  /\ motion' = "moving"
                  /\ CommandEnds("timer")
                  /\ UNCHANGED <<generation, stageGen, stage, status, zeroing, burst,
                                 locals, pc>>

WorkerStep == \/ WorkerTake
              \/ StartRead \/ StartWrite \/ StartAdopt \/ StartSet \/ StartAnnounce
              \/ CommandCheck \/ CommandPublish

-----------------------------------------------------------------------------
(* stop_waypoint(): the stage is disabled under the state lock, then zeros *)
(* are published, then the caller goes on.                                 *)

Disable(state) == /\ generation' = generation + 1
                  /\ stage' = FALSE
                  /\ status' = state
                  /\ UNCHANGED stageGen

\* A call from the place "from", and the place it returns to.
StopDisable(t, from) == /\ pc[t] = from
                        /\ Disable("stopped")
                        /\ Move(t, "zero")
                        /\ UNCHANGED <<motion, sequencer, zeroing, burst>>

AfterStop(t) == CASE t = "runtime" -> "burst"
                  [] t = "cleanup" -> "over"
                  [] OTHER -> "stopped"

StopZero(t) == /\ pc[t] = "zero"
               /\ motion' = "zero"
               /\ Move(t, AfterStop(t))
               /\ UNCHANGED <<generation, stageGen, stage, status, sequencer, zeroing,
                              burst, locals>>

-----------------------------------------------------------------------------
(* The emergency worker: _enqueue_emergency_zero(), which takes no lock.   *)

EmergencyRead == /\ emergency = "idle"
                 /\ zeros > 0
                 /\ zeros' = zeros - 1
                 /\ emergency' = "disable"
                 /\ read' = [read EXCEPT !["emergency"] = generation]
                 /\ UNCHANGED <<adapter, sequencer, failed, burst, captured, commandGen,
                                verdict, stagesLeft, pc>>

EmergencyDisable == /\ emergency = "disable"
                    /\ emergency' = "publish"
                    /\ generation' = read["emergency"] + 1
                    /\ read' = [read EXCEPT !["emergency"] = 0]
                    /\ stage' = FALSE
                    /\ status' = "estopped"
                    /\ UNCHANGED <<stageGen, motion, sequencer, zeros, failed, burst,
                                   captured, commandGen, verdict, stagesLeft, pc>>

\* A publisher that raises fails the worker for every later submission.
EmergencyPublish == /\ emergency = "publish"
                    /\ emergency' = "idle"
                    /\ \/ motion' = "zero" /\ UNCHANGED failed
                       \/ PublishFails /\ failed' = TRUE /\ UNCHANGED motion
                    /\ UNCHANGED <<generation, stageGen, stage, status, sequencer, zeros,
                                   burst, locals, pc>>

EmergencyStep == EmergencyRead \/ EmergencyDisable \/ EmergencyPublish

-----------------------------------------------------------------------------
(* The burst of stop callbacks every way of ending a run makes.            *)

Severity(code) == CASE code = "ESTOP_LATCHED" -> 0
                    [] code = "SAFETY_COMMAND_REJECTED" -> 1
                    [] code = "TRANSPORT_UNQUIESCED" -> 2
WorseOf(a, b) == IF Severity(a) >= Severity(b) THEN a ELSE b

\* (fault) A burst is one call.
CallbackReturnsOnce(t, code) ==
    /\ worst' = [worst EXCEPT ![t] = WorseOf(@, code)]
    /\ sent' = [sent EXCEPT ![t] = @ + 1]
    /\ Move(t, "record")

\* What a callback that returns adds to its thread's burst.
CallbackReturns(t, code) ==
    /\ worst' = [worst EXCEPT ![t] = WorseOf(@, code)]
    /\ sent' = [sent EXCEPT ![t] = @ + 1]
    /\ Move(t, IF sent[t] + 1 = BurstCount THEN "record" ELSE "burst")

\* latch_and_quiesce() latches, hands the emergency worker a zero and, if no
\* command is in flight, returns, all under the sequencer's lock.
BurstCall(t, from) ==
    /\ pc[t] = from
    /\ LatchRejecting({})
    /\ LET accepted == ~failed /\ zeros < ZeroCapacity
           code == IF accepted THEN "ESTOP_LATCHED" ELSE "SAFETY_COMMAND_REJECTED"
       IN  /\ failed' = ~accepted
           /\ zeros' = IF accepted THEN zeros + 1 ELSE zeros
           /\ IF inFlight = None
              THEN CallbackReturns(t, code)
              ELSE /\ worst' = [worst EXCEPT ![t] = WorseOf(@, code)]
                   /\ Move(t, "quiesce")
                   /\ UNCHANGED sent
    /\ UNCHANGED <<adapter, emergency, result, ended, locals>>

\* Otherwise it waits, no longer than the deadline, for that command.
BurstReturn(t) ==
    /\ pc[t] = "quiesce"
    /\ CallbackReturns(t, IF inFlight = None THEN "ESTOP_LATCHED" ELSE "TRANSPORT_UNQUIESCED")
    /\ UNCHANGED <<adapter, sequencer, zeroing, result, ended, locals>>

Record(t) == /\ pc[t] = "record"
             /\ ended' = TRUE
             /\ result' = [result EXCEPT ![t] = worst[t]]
             /\ sent' = [sent EXCEPT ![t] = 0]
             /\ worst' = [worst EXCEPT ![t] = "ESTOP_LATCHED"]
             /\ Move(t, "over")
             /\ UNCHANGED <<adapter, sequencer, zeroing, locals>>

Burst(t) == BurstCall(t, "burst") \/ BurstReturn(t) \/ Record(t)

-----------------------------------------------------------------------------
(* The control timer.                                                      *)

ControlRead == /\ pc["timer"] = "idle"
               /\ stage
               /\ captured' = stageGen
               /\ Move("timer", "decide")
               /\ UNCHANGED <<adapter, sequencer, zeroing, burst, commandGen, verdict, read,
                              stagesLeft>>

\* The odometry is stale, or the goal is reached.
ControlConcludes == /\ StopDisable("timer", "decide")
                    /\ \E v \in {"faulted", "succeeded"} : verdict' = v
                    /\ captured' = 0
                    /\ UNCHANGED <<commandGen, read, stagesLeft>>

ControlVerdict == /\ pc["timer"] = "stopped"
                  /\ status' = verdict
                  /\ verdict' = None
                  /\ Move("timer", "idle")
                  /\ UNCHANGED <<generation, stageGen, stage, motion, sequencer, zeroing,
                                 burst, captured, commandGen, read, stagesLeft>>

ControlSubmit == /\ pc["timer"] = "decide"
                 /\ Submit("timer")
                 /\ commandGen' = IF latched THEN commandGen ELSE captured
                 /\ captured' = 0
                 /\ Move("timer", "submitted")
                 /\ UNCHANGED <<adapter, zeroing, burst, verdict, read, stagesLeft>>

\* (fault) A refused command leaves its stage on.
ControlIgnoresRefusal ==
    /\ pc["timer"] = "submitted"
    /\ receipt["timer"] \in {"done", "rejected"}
    /\ Move("timer", "idle")
    /\ Forget("timer")
    /\ UNCHANGED <<adapter, zeroing, burst, locals>>

ControlAnswered ==
    /\ pc["timer"] = "submitted"
    /\ \/ receipt["timer"] = "done" /\ UNCHANGED adapter
       \/ receipt["timer"] = "rejected" /\ Disable("faulted") /\ UNCHANGED motion
    /\ Move("timer", "idle")
    /\ Forget("timer")
    /\ UNCHANGED <<zeroing, burst, locals>>

TimerStep == \/ ControlRead \/ ControlConcludes \/ ControlVerdict
             \/ ControlSubmit \/ ControlAnswered
             \/ StopZero("timer")

-----------------------------------------------------------------------------
(* The runtime: run_task, then the task monitor.                           *)

Running == ~latched /\ ~ended

\* adapter.start() with fresh odometry.
RuntimeStart == /\ pc["runtime"] = "start"
                /\ Submit("runtime")
                /\ Move("runtime", "submitted")
                /\ UNCHANGED <<adapter, zeroing, burst, locals>>

\* ... and with stale odometry.
RuntimeStale == /\ StopDisable("runtime", "start")
                /\ UNCHANGED locals

\* One cleanup thread per task stops the adapter beside what the runtime does.
StartCleanup(place) == pc' = [pc EXCEPT !["runtime"] = place,
                                        !["cleanup"] = IF @ = "idle" THEN "stop" ELSE @]

\* run_task checks twice that the start was not overtaken by a stop, and
\* bursts if the first check fails; for a later stage the monitor checks
\* once, and returns without a burst.
RuntimeStarted == /\ pc["runtime"] = "submitted"
                  /\ receipt["runtime"] = "done"
                  /\ \/ Running /\ Move("runtime", "watch")
                     \/ ~Running /\ StartCleanup("over")
                     \/ ~Running /\ stagesLeft = Stages /\ StartCleanup("burst")
                  /\ Forget("runtime")
                  /\ UNCHANGED <<adapter, zeroing, burst, locals>>

RuntimeRejected == /\ pc["runtime"] = "submitted"
                   /\ receipt["runtime"] = "rejected"
                   /\ Move("runtime", "burst")
                   /\ Forget("runtime")
                   /\ UNCHANGED <<adapter, zeroing, burst, locals>>

\* A stage succeeded: the next one needs a permit, the last one ends the run.
WatchSucceeded ==
    /\ pc["runtime"] = "watch"
    /\ ~ended
    /\ status = "succeeded"
    /\ IF stagesLeft = 1
       THEN StartCleanup("burst") /\ UNCHANGED stagesLeft
       ELSE /\ Move("runtime", IF latched THEN "over" ELSE "start")
            /\ stagesLeft' = stagesLeft - 1
    /\ UNCHANGED <<adapter, sequencer, zeroing, burst, captured, commandGen,
                   verdict, read>>

WatchFailed == /\ pc["runtime"] = "watch"
               /\ ~ended
               /\ status \in {"faulted", "cancelled"}
               /\ Move("runtime", "burst")
               /\ UNCHANGED <<adapter, sequencer, zeroing, burst, locals>>

\* The stage's deadline passes.
WatchTimeout == /\ pc["runtime"] = "watch"
                /\ Move("runtime", "burst")
                /\ UNCHANGED <<adapter, sequencer, zeroing, burst, locals>>

WatchEnded == /\ pc["runtime"] = "watch"
              /\ ended
              /\ Move("runtime", "over")
              /\ UNCHANGED <<adapter, sequencer, zeroing, burst, locals>>

RuntimeStep == \/ RuntimeStart \/ RuntimeStale \/ RuntimeStarted \/ RuntimeRejected
               \/ WatchSucceeded \/ WatchFailed \/ WatchEnded
               \/ StopZero("runtime") \/ Burst("runtime")

\* (fault) The watchdog leaves a latched sequencer alone.
WatchdogTrustsLatch == /\ ~ended
                       /\ ~latched
                       /\ pc["runtime"] = "over"
                       /\ BurstCall("watchdog", "idle")

\* Without the monitor's heartbeats the gateway's watchdog ends the run, if it
\* is still there. (An expiry under a live monitor is the stop of one of
\* Estoppers.)
WatchdogExpires == /\ ~ended
                   /\ pc["runtime"] = "over"
                   /\ BurstCall("watchdog", "idle")

WatchdogStep == WatchdogExpires \/ Burst("watchdog")

\* A heartbeat, which the monitor sends while it polls and run_task sends
\* before, renewed the deadline the watchdog had just found expired: it stopped
\* nothing and its thread ended (module SafetyGateway). Nobody can tell before
\* the monitor is gone.
WatchdogLeaves == /\ ~ended
                  /\ pc["watchdog"] = "idle"
                  /\ pc["runtime"] = "over"
                  /\ Move("watchdog", "gone")
                  /\ UNCHANGED <<adapter, sequencer, zeroing, burst, locals>>

CleanupDisable == StopDisable("cleanup", "stop") /\ UNCHANGED locals

CleanupStep == CleanupDisable \/ StopZero("cleanup")

-----------------------------------------------------------------------------
(* cancel_task(): the adapter's cancel, then the gateway's. An emergency   *)
(* stop only makes the burst.                                              *)

CancelBegin(t) == /\ ~ended
                  /\ StopDisable(t, "idle")
                  /\ UNCHANGED locals

CancelAnnounce(t) == /\ pc[t] = "stopped"
                     /\ status' = "cancelled"
                     /\ Move(t, IF ended THEN "over" ELSE "burst")
                     /\ UNCHANGED <<generation, stageGen, stage, motion, sequencer, zeroing,
                                    burst, locals>>

CancelStep(t) == StopZero(t) \/ CancelAnnounce(t) \/ Burst(t)

EstopBegin(t) == BurstCall(t, "idle")

Next == \/ WorkerStep \/ EmergencyStep \/ TimerStep \/ RuntimeStep \/ CleanupStep
        \/ WatchTimeout \/ WatchdogStep \/ WatchdogLeaves
        \/ \E s \in Submitters : SubmitTimeout(s)
        \/ \E t \in Cancellers : CancelBegin(t) \/ CancelStep(t)
        \/ \E t \in Estoppers : EstopBegin(t) \/ Burst(t)

Spec == Init /\ [][Next]_vars

\* The workers, the timer and the monitor run; a started call goes on; a
\* stage's deadline passes, and the gateway's is seen by the watchdog while
\* its thread is there. Nobody has to cancel or to press the button, and no
\* submission has to time out.
Fairness == /\ WF_vars(WorkerStep) /\ WF_vars(EmergencyStep) /\ WF_vars(TimerStep)
            /\ WF_vars(RuntimeStep) /\ WF_vars(CleanupStep) /\ WF_vars(WatchTimeout)
            /\ WF_vars(WatchdogStep)
            /\ \A t \in Cancellers : WF_vars(CancelStep(t))
            /\ \A t \in Estoppers : WF_vars(Burst(t))

LiveSpec == Spec /\ Fairness

-----------------------------------------------------------------------------
(* Properties.                                                             *)

\* Every variable has its type, and the queue holds each submitter's
\* command at most once.
TypeOK ==
    /\ generation \in Nat /\ stageGen \in Nat /\ captured \in Nat /\ commandGen \in Nat
    /\ stage \in BOOLEAN /\ latched \in BOOLEAN /\ failed \in BOOLEAN /\ ended \in BOOLEAN
    /\ status \in {"idle", "running", "stopped", "cancelled", "estopped", "faulted", "succeeded"}
    /\ motion \in {"zero", "moving"}
    /\ queue \in {<<>>, <<"runtime">>, <<"timer">>, <<"runtime", "timer">>, <<"timer", "runtime">>}
    /\ inFlight \in Submitters \cup {None}
    /\ worker = "idle" <=> inFlight = None
    /\ receipt \in [Submitters -> {None, "queued", "running", "done", "rejected"}]
    /\ zeros \in 0..ZeroCapacity
    /\ sent \in [Threads -> 0..BurstCount]
    /\ stagesLeft \in 1..Stages

\* A stop whose result is successful leaves the robot commanded to stand
\* still once the emergency worker has nothing left to do: no command that
\* was in flight when the stop began is the last one published
\* (safety/gateway.py _stop_repeatedly over adapters/twist.py).
SuccessfulStopIsZero ==
    \A t \in Threads : (/\ result[t] = "ESTOP_LATCHED"
                         /\ zeros = 0
                         /\ emergency = "idle"
                         /\ ~failed) => motion = "zero"

\* A successful stop is for good: the robot comes to rest and is never moved
\* again, unless the publisher of the zero commands fails.
SuccessfulStopsForGood ==
    \A t \in Threads : result[t] = "ESTOP_LATCHED" ~> (failed \/ [](motion = "zero"))

\* Nobody is left who ends the run by himself: run_task or the monitor found
\* the start overtaken by a latch and left without a burst, and the watchdog's
\* thread had ended before.
Unwatched == /\ ~ended
             /\ pc["runtime"] = "over" /\ result["runtime"] = None
             /\ pc["watchdog"] = "gone"

\* A robot that moves without a stage is stopped, unless the transport hangs
\* past a stop's deadline, the publisher fails or the run is left unwatched: a
\* command published after its stage was disabled does not stay the last one.
UnattendedMotionStops ==
    (motion = "moving" /\ ~stage) ~>
        (motion = "zero" \/ failed \/ Unwatched
         \/ \E t \in Threads : result[t] = "TRANSPORT_UNQUIESCED")

\* Every run ends, however its stages succeed, fail, hang or are refused, and
\* whoever stops it, or it comes to be left unwatched: the monitor goes without
\* a burst (runtime/controller.py _poll_running, run_task) and the watchdog is
\* no longer there to do what is left (safety/supervisor.py _run).
RunEventuallyEnds == <>(ended \/ Unwatched)

\* No stage outlives the run: one whose start was in flight when the
\* emergency worker cleared the stage is disabled by the timer, whose
\* commands are refused.
NoStageSurvives == ended ~> []~stage

=============================================================================
