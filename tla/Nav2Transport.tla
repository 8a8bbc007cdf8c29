--------------------------- MODULE Nav2Transport ---------------------------
(***************************************************************************)
(* agent_ros/adapters/nav2.py with the threads that drive it: the          *)
(* sequencer's worker sends a goal to the Nav2 action server, the ROS      *)
(* executor runs the callbacks of its answers, the emergency worker        *)
(* cancels without the transport's lock, and the runtime, a canceller and  *)
(* the cleanup thread call the adapter.                                    *)
(*                                                                         *)
(* Assignments of the regions that take no lock are steps; a region under  *)
(* the lock is one step, except the goal response, which the unlocked      *)
(* regions run into. A deadline may have passed whenever it is looked at.  *)
(***************************************************************************)
EXTENDS Naturals

CONSTANTS Cancellers,  \* threads that call cancel_task
          Stages,      \* navigation goals of the task
          BurstCount,  \* stop callbacks of one gateway call (_STOP_BURST_COUNT)
          MayTimeOut,  \* may a submission outlive its submitter's patience
          CallsFail    \* may a call of the publisher or the action client raise

ASSUME Nav2Assumption ==
    /\ {Stages, BurstCount} \subseteq Nat \ {0}
    /\ MayTimeOut \in BOOLEAN /\ CallsFail \in BOOLEAN
    /\ {"runtime", "cleanup", "stopper"} \cap Cancellers = {}

VARIABLES
  goal,        \* of each goal, what the action server makes of it
  cancels,     \* cancel requests under way to the server
  answers,     \* its answers under way to the client
  asked,       \* goals a cancel was ever requested for
  tracked,     \* goals with a response callback
  answered,    \* those whose response callback has run
  watched,     \* goals with a result callback
  resulted,    \* those whose result callback has run
  handle,      \* _goal_handle: a goal, 0 is None
  goalState,   \* _state of the transport
  sent,        \* _goal_generation
  cancelRequested, emergencyLatched, \* _cancel_requested, _emergency_latched
  enqueuedFor, \* _cancel_enqueued_for
  cancelGen,   \* _cancel_generation
  deadline,    \* is there a _cancel_deadline
  executor,    \* where the goal response is that holds the lock, or "idle"
  latched, submission, worker, \* the sequencer: latch, the receipt, the command in flight
  zeros, emergency, local, failed, \* the emergency worker: queue, place, what it has read
  raised,      \* a call of the publisher or the client has raised
  cancelSent,  \* _cancel_sent of the adapter
  runEnded,    \* the gateway has left RUNNING
  calls,       \* of each thread, the calls of its burst so far
  where        \* where every other thread is

server == <<goal, cancels, answers>>
callbacks == <<tracked, answered, watched, resulted>>
cancelling == <<asked, enqueuedFor, cancelGen>>
flags == <<cancelRequested, emergencyLatched>>
sequencer == <<latched, submission, worker>>
zeroing == <<zeros, emergency, local, failed>>
burst == <<calls, runEnded>>
client == <<handle, goalState, sent, flags, cancelling, deadline>>
controlling == <<cancelSent, burst, where>>
nav2 == <<server, callbacks, handle, goalState, sent, flags, cancelling, deadline, executor,
          sequencer, zeroing, raised, cancelSent, burst, where>>

Goals == 1..Stages
RunThreads == {"runtime", "cleanup", "stopper"} \cup Cancellers
Terminal == {"rejected", "succeeded", "aborted", "canceled"}

Nav2Init == /\ goal = [g \in Goals |-> "unsent"]
            /\ cancels = {} /\ answers = {} /\ asked = {}
            /\ tracked = {} /\ answered = {} /\ watched = {} /\ resulted = {}
            /\ handle = 0 /\ goalState = "idle" /\ sent = 0
            /\ cancelRequested = FALSE /\ emergencyLatched = FALSE
            /\ enqueuedFor = <<0, 0>> /\ cancelGen = 0 /\ deadline = FALSE
            /\ executor = "idle"
            /\ latched = FALSE /\ submission = "none" /\ worker = "idle"
            /\ zeros = 0 /\ emergency = "idle" /\ local = <<0, 0, 0>> /\ failed = FALSE
            /\ raised = FALSE
            /\ cancelSent = FALSE
            /\ calls = [t \in RunThreads |-> 0]
            /\ runEnded = FALSE
            /\ where = [t \in RunThreads |-> IF t = "runtime" THEN "start" ELSE "idle"]

Move(t, place) == where' = [where EXCEPT ![t] = place]

-----------------------------------------------------------------------------
(* The action server, which the client reaches by messages.                *)

ServerDecides(g) == /\ goal[g] = "sent"
                    /\ \E d \in {"executing", "rejected"} : goal' = [goal EXCEPT ![g] = d]
                    /\ UNCHANGED <<cancels, answers>>

ServerFinishes(g) == /\ \/ /\ goal[g] = "executing"
                           /\ \E d \in {"succeeded", "aborted"} : goal' = [goal EXCEPT ![g] = d]
                        \/ /\ goal[g] = "canceling"
                           /\ \E d \in {"succeeded", "aborted", "canceled"} :
                                 goal' = [goal EXCEPT ![g] = d]
                     /\ UNCHANGED <<cancels, answers>>

\* A server may refuse a cancel, and refuses it once the goal is over.
ServerCancels(r) == /\ cancels' = cancels \ {r}
                    /\ \E ok \in {FALSE, goal[r.goal] = "executing"} :
                          /\ answers' = answers \cup {[gen |-> r.gen, by |-> r.by, ok |-> ok]}
                          /\ goal' = IF ok THEN [goal EXCEPT ![r.goal] = "canceling"] ELSE goal

Server == /\ \/ \E g \in Goals : ServerDecides(g) \/ ServerFinishes(g)
             \/ \E r \in cancels : ServerCancels(r)
          /\ UNCHANGED <<asked, enqueuedFor, cancelGen, callbacks, handle, goalState, sent, flags,
                         deadline, executor, sequencer, zeroing, raised, controlling>>

-----------------------------------------------------------------------------
(* _begin_cancel() under the lock. Whoever comes second for a goal leaves. *)

RequestCancel(g, gen, by) == /\ cancels' = cancels \cup {[goal |-> g, gen |-> gen, by |-> by]}
                             /\ asked' = asked \cup {g}

\* Asking the server may raise, which is a fault.
BeginCancel(g, generation, by, otherwise) ==
    IF enqueuedFor = <<g, generation>>
    THEN goalState' = otherwise /\ UNCHANGED <<cancelling, cancels, raised>>
    ELSE /\ enqueuedFor' = <<g, generation>>
         /\ cancelGen' = cancelGen + 1
         /\ \/ RequestCancel(g, cancelGen + 1, by) /\ goalState' = otherwise /\ UNCHANGED raised
            \/ CallsFail /\ raised' = TRUE /\ goalState' = "faulted" /\ UNCHANGED <<cancels, asked>>

-----------------------------------------------------------------------------
(* The executor: one callback at a time, each under the transport's lock.  *)

LockFree == executor = "idle"

\* _goal_response(): the handle is stored and the result asked for ...
ResponseStore(g) ==
    /\ LockFree
    /\ g \in tracked \ answered
    /\ goal[g] \notin {"unsent", "sent"}
    /\ answered' = answered \cup {g}
    /\ \/ /\ handle' = g
          /\ watched' = IF goal[g] = "rejected" THEN watched ELSE watched \cup {g}
          /\ executor' = "judge"
          /\ UNCHANGED <<goalState, raised>>
       \/ /\ CallsFail
          /\ handle' \in {h \in {handle, g} : h = g => goal[g] # "rejected"}
          /\ goalState' = "faulted"
          /\ raised' = TRUE
          /\ UNCHANGED <<watched, executor>>
    /\ UNCHANGED <<server, tracked, resulted, sent, flags, cancelling, deadline, sequencer,
                   zeroing, controlling>>

\* (fault) The response takes no notice of a stop.
StopIgnored == FALSE

\* ... and unless somebody has asked for a stop meanwhile, the goal is
\* running. A permit is current exactly while the latch is open.
StopWanted == cancelRequested \/ emergencyLatched \/ latched

ResponseJudge ==
    /\ executor = "judge"
    /\ executor' = IF StopWanted THEN "cancel" ELSE "run"
    /\ UNCHANGED <<server, callbacks, client, sequencer, zeroing, raised, controlling>>

ResponseGoal == CHOOSE g \in answered : \A h \in answered : h <= g
Accepted == goal[ResponseGoal] # "rejected"

ResponseRun ==
    /\ executor = "run"
    /\ goalState' = IF Accepted THEN "running" ELSE "rejected"
    /\ executor' = "idle"
    /\ UNCHANGED <<server, callbacks, handle, sent, flags, cancelling, deadline, sequencer,
                   zeroing, raised, controlling>>

ResponseCancel ==
    /\ executor = "cancel"
    /\ executor' = "idle"
    /\ IF Accepted
       THEN /\ cancelRequested' = TRUE
            /\ deadline' = TRUE
            /\ BeginCancel(ResponseGoal, ResponseGoal, "executor", "cancelling")
       ELSE /\ goalState' = "cancelled"
            /\ UNCHANGED <<cancelRequested, deadline, cancelling, cancels, raised>>
    /\ UNCHANGED <<goal, answers, callbacks, handle, sent, emergencyLatched, sequencer, zeroing,
                   controlling>>

\* (fault) Every result of a goal that was to be cancelled is a cancellation.
AnyResultCancels(g) == IF cancelRequested THEN "cancelled"
                       ELSE IF goal[g] = "succeeded" THEN "succeeded" ELSE "failed"
ResultState(g) == IF cancelRequested
                  THEN IF goal[g] = "canceled" THEN "cancelled" ELSE "faulted"
                  ELSE IF goal[g] = "succeeded" THEN "succeeded" ELSE "failed"

GoalResult(g) ==
    /\ LockFree
    /\ g \in watched \ resulted
    /\ goal[g] \in Terminal
    /\ resulted' = resulted \cup {g}
    /\ \/ goalState' = ResultState(g) /\ deadline' = FALSE /\ UNCHANGED raised
       \/ CallsFail /\ goalState' = "faulted" /\ raised' = TRUE /\ UNCHANGED deadline
    /\ UNCHANGED <<server, tracked, answered, watched, handle, sent, flags, cancelling,
                   executor, sequencer, zeroing, controlling>>

\* Only the answer to the latest request counts.
CancelResponse(a) ==
    /\ LockFree
    /\ answers' = answers \ {a}
    /\ IF a.gen # cancelGen THEN UNCHANGED <<goalState, deadline>>
       ELSE IF a.ok THEN goalState' = "cancelling" /\ UNCHANGED deadline
       ELSE goalState' = "faulted" /\ deadline' = FALSE
    /\ UNCHANGED <<goal, cancels, callbacks, handle, sent, flags, cancelling, executor,
                   sequencer, zeroing, raised, controlling>>

Executor == \/ ResponseJudge \/ ResponseRun \/ ResponseCancel
            \/ \E g \in Goals : ResponseStore(g) \/ GoalResult(g)
            \/ \E a \in answers : CancelResponse(a)

-----------------------------------------------------------------------------
(* The activation worker: send_goal(), which takes no lock.                *)

WorkerTake == /\ submission = "queued"
              /\ worker = "idle"
              /\ submission' = "running"
              /\ worker' = "reset"
              /\ UNCHANGED <<flags, handle, sent, enqueuedFor, goalState, goal, latched, raised>>

SendReset == /\ worker = "reset"
             /\ cancelRequested' = FALSE
             /\ emergencyLatched' = FALSE
             /\ worker' = "forget"
             /\ UNCHANGED <<handle, sent, enqueuedFor, goalState, goal, latched, submission,
                            raised>>

SendForget == /\ worker = "forget"
              /\ sent' = sent + 1
              /\ handle' = 0
              /\ enqueuedFor' = <<0, 0>>
              /\ worker' = "send"
              /\ UNCHANGED <<flags, goalState, goal, latched, submission, raised>>

\* A receipt its submitter gave up on keeps its rejection; a command that
\* raises latches the sequencer.
SendGoal == /\ worker = "send"
            /\ worker' = "idle"
            /\ \/ /\ goal' = [goal EXCEPT ![sent] = "sent"]
                  /\ goalState' = "pending"
                  /\ submission' = IF submission = "running" THEN "done" ELSE submission
                  /\ UNCHANGED <<latched, raised>>
               \/ /\ CallsFail
                  /\ latched' = TRUE /\ submission' = "rejected" /\ raised' = TRUE
                  /\ UNCHANGED <<goal, goalState>>
            /\ UNCHANGED <<flags, handle, sent, enqueuedFor>>

Worker == /\ WorkerTake \/ SendReset \/ SendForget \/ SendGoal
          /\ UNCHANGED <<cancels, answers, callbacks, asked, cancelGen, deadline, executor,
                         zeroing, controlling>>

-----------------------------------------------------------------------------
(* The emergency worker: _enqueue_emergency_zero(), which takes no lock.   *)

\* The zero is taken and published; nobody sees that before the flags are set.
EmergencyZero == /\ emergency = "idle"
                 /\ zeros > 0
                 /\ zeros' = zeros - 1
                 /\ \/ /\ cancelRequested' = TRUE
                       /\ emergencyLatched' = TRUE
                       /\ emergency' = "read"
                       /\ UNCHANGED <<failed, raised>>
                    \/ /\ CallsFail
                       /\ failed' = TRUE /\ raised' = TRUE
                       /\ UNCHANGED <<flags, emergency>>
                 /\ UNCHANGED <<goalState, deadline, local, cancelling, cancels>>

EmergencyRead == /\ emergency = "read"
                 /\ goalState' = "cancelling"
                 /\ deadline' = TRUE
                 /\ IF handle = 0
                    THEN emergency' = "idle" /\ UNCHANGED local
                    ELSE emergency' = "key" /\ local' = <<handle, sent, 0>>
                 /\ UNCHANGED <<flags, cancelling, cancels, zeros, failed, raised>>

\* _begin_cancel() without the lock: the key, the generation, the request.
EmergencyKey == /\ emergency = "key"
                /\ IF enqueuedFor = <<local[1], local[2]>>
                   THEN /\ emergency' = "idle"
                        /\ local' = <<0, 0, 0>>
                   ELSE emergency' = "mark" /\ UNCHANGED local
                /\ UNCHANGED <<flags, goalState, deadline, cancelling, cancels, zeros, failed,
                               raised>>

EmergencyMark == /\ emergency = "mark"
                 /\ enqueuedFor' = <<local[1], local[2]>>
                 /\ local' = [local EXCEPT ![3] = cancelGen]
                 /\ emergency' = "cancel"
                 /\ UNCHANGED <<flags, goalState, deadline, asked, cancelGen, cancels, zeros,
                                failed, raised>>

EmergencyCancel == /\ emergency = "cancel"
                   /\ cancelGen' = local[3] + 1
                   /\ \/ /\ RequestCancel(local[1], local[3] + 1, "emergency")
                         /\ UNCHANGED <<goalState, raised>>
                      \/ /\ CallsFail
                         /\ goalState' = "faulted" /\ raised' = TRUE
                         /\ UNCHANGED <<cancels, asked>>
                   /\ emergency' = "idle"
                   /\ local' = <<0, 0, 0>>
                   /\ UNCHANGED <<flags, deadline, enqueuedFor, zeros, failed>>

Emergency == /\ \/ EmergencyZero \/ EmergencyRead
                \/ EmergencyKey \/ EmergencyMark \/ EmergencyCancel
             /\ UNCHANGED <<goal, answers, callbacks, handle, sent, executor, sequencer,
                            controlling>>

-----------------------------------------------------------------------------
(* The adapter: status() and stop().                                       *)

\* What goal_status() may answer, under the lock: an overdue cancel, and any
\* cancel with a deadline may be, is a fault.
Statuses == {goalState} \cup IF goalState = "cancelling" /\ deadline THEN {"faulted"} ELSE {}

ReadStatus(status) == /\ LockFree
                      /\ goalState' = status
                      /\ cancelSent' = (cancelSent /\ status # "faulted")

\* cancel_goal(), under the lock, unless a cancel was sent before. The zeros
\* the adapter publishes after it do not change what is modelled here.
CancelGoal(t, from) ==
    /\ where[t] = from
    /\ Move(t, "stopped")
    /\ IF cancelSent
       THEN UNCHANGED <<cancelSent, cancelRequested, goalState, deadline, cancelling, cancels,
                        raised>>
       ELSE /\ LockFree
            /\ cancelSent' = TRUE
            /\ cancelRequested' = TRUE
            /\ deadline' = TRUE
            /\ IF handle = 0
               THEN goalState' = "cancelling" /\ UNCHANGED <<cancelling, cancels, raised>>
               ELSE BeginCancel(handle, sent, t, "cancelling")
    /\ UNCHANGED <<goal, answers, callbacks, handle, sent, emergencyLatched, executor,
                   sequencer, zeroing, burst>>

\* stop() reads the status too; cancel() reads it again.
StopStatus(t, to) ==
    /\ where[t] = "stopped"
    /\ Move(t, to)
    /\ \E status \in Statuses : ReadStatus(status)
    /\ UNCHANGED <<server, callbacks, handle, sent, flags, cancelling, deadline, executor,
                   sequencer, zeroing, raised, burst>>

-----------------------------------------------------------------------------
(* A gateway call that ends the run: a burst of stop callbacks. Each       *)
(* latches and hands the emergency worker a zero. It then waits for a      *)
(* command in flight, no longer than its deadline, which ends nothing      *)
(* here: any time may pass before the thread's next step.                  *)

StopCall(t, from) ==
    /\ where[t] = from
    /\ latched' = TRUE
    /\ submission' = IF submission = "queued" THEN "rejected" ELSE submission
    /\ zeros' = IF failed THEN zeros ELSE zeros + 1
    /\ calls' = [calls EXCEPT ![t] = @ + 1]
    /\ Move(t, IF calls[t] + 1 = BurstCount THEN "record" ELSE "burst")
    /\ UNCHANGED <<server, callbacks, client, executor, worker, emergency, local, failed,
                   raised, cancelSent, runEnded>>

RecordEnd(t) ==
    /\ where[t] = "record"
    /\ runEnded' = TRUE
    /\ Move(t, "over")
    /\ UNCHANGED <<server, callbacks, client, executor, sequencer, zeroing, raised, cancelSent,
                   calls>>

Burst(t) == StopCall(t, "burst") \/ RecordEnd(t)

-----------------------------------------------------------------------------
(* The runtime: adapter.start() in run_task, then the task monitor.        *)

RuntimeOnly(v) == UNCHANGED <<server, callbacks, client, executor, zeroing, raised, burst, v>>

Submit == /\ where["runtime"] = "start"
          /\ submission' = IF latched THEN "rejected" ELSE "queued"
          /\ Move("runtime", "submitted")
          /\ UNCHANGED <<latched, worker>>
          /\ RuntimeOnly(cancelSent)

\* The submitter's patience ends, which latches. The command it gave up on
\* may still be in flight.
SubmitTimeout == /\ MayTimeOut
                 /\ where["runtime"] = "submitted"
                 /\ submission \in {"queued", "running"}
                 /\ latched' = TRUE
                 /\ submission' = "rejected"
                 /\ UNCHANGED <<worker, where>>
                 /\ RuntimeOnly(cancelSent)

Refused == /\ where["runtime"] = "submitted"
           /\ submission = "rejected"
           /\ Move("runtime", "burst")
           /\ UNCHANGED sequencer
           /\ RuntimeOnly(cancelSent)

\* track_goal() registers the response callback of the goal just sent.
TrackGoal == /\ where["runtime"] = "submitted"
             /\ submission = "done"
             /\ tracked' = tracked \cup {sent}
             /\ Move("runtime", "check")
             /\ UNCHANGED <<server, answered, watched, resulted, client, executor, sequencer,
                            zeroing, raised, cancelSent, burst>>

StartCurrent == /\ where["runtime"] = "check"
                /\ IF latched
                   THEN Move("runtime", "burst") /\ UNCHANGED cancelSent
                   ELSE Move("runtime", "started") /\ cancelSent' = FALSE
                /\ UNCHANGED <<sequencer>>
                /\ RuntimeOnly(<<>>)

\* One cleanup thread per task stops the adapter beside what the runtime does.
BeginCleanup(place) == where' = [where EXCEPT !["runtime"] = place,
                                        !["cleanup"] = IF @ = "idle" THEN "stop" ELSE @]

\* run_task, for the first stage, and the monitor, for a later one, look
\* again whether the start was overtaken; only run_task bursts then.
Started == /\ where["runtime"] = "started"
           /\ IF ~latched /\ ~runEnded
              THEN Move("runtime", "watch")
              ELSE BeginCleanup(IF sent = 1 THEN "burst" ELSE "over")
           /\ UNCHANGED <<sequencer, cancelSent>>
           /\ RuntimeOnly(<<>>)

\* The monitor reads the status and acts on it. A cancellation ends the run
\* through gateway.cancel() if the controller asked for it and as a fault
\* otherwise: a burst in either case.
Poll == /\ where["runtime"] = "watch"
        /\ ~runEnded
        /\ \E status \in Statuses :
              /\ ReadStatus(status)
              /\ \/ /\ status \in {"failed", "faulted", "rejected", "cancelled"}
                    /\ Move("runtime", "burst")
                 \/ status = "succeeded" /\ sent = Stages /\ BeginCleanup("burst")
                 \/ /\ status = "succeeded" /\ sent # Stages
                    /\ Move("runtime", IF latched THEN "over" ELSE "start")
                 \/ status \in {"idle", "pending", "running", "cancelling"} /\ UNCHANGED where
        /\ UNCHANGED <<server, callbacks, handle, sent, flags, cancelling, deadline, executor,
                       sequencer, zeroing, raised, burst>>

WatchEnded == /\ where["runtime"] = "watch"
              /\ runEnded
              /\ Move("runtime", "over")
              /\ UNCHANGED sequencer
              /\ RuntimeOnly(cancelSent)

Runtime == \/ Submit \/ Refused \/ TrackGoal \/ StartCurrent \/ Started
           \/ Poll \/ WatchEnded
           \/ Burst("runtime")

\* An emergency stop at any time, by the operator, the stage's deadline or the
\* gateway's watchdog.
EstopBegin == StopCall("stopper", "idle")
Cleanup == CancelGoal("cleanup", "stop") \/ StopStatus("cleanup", "over")

-----------------------------------------------------------------------------
(* cancel_task(): the adapter's cancel(), then what its answer says.       *)

CancelBegin(t) == ~runEnded /\ CancelGoal(t, "idle")

CancelAnswer(t) ==
    /\ where[t] = "polling"
    /\ \E status \in Statuses :
          /\ ReadStatus(status)
          /\ \/ runEnded /\ Move(t, "over")
             \/ /\ ~runEnded /\ status \in {"faulted", "cancelled"}
                /\ Move(t, "burst")
             \/ /\ ~runEnded /\ status \notin {"faulted", "cancelled"}
                /\ Move(t, "over")
    /\ UNCHANGED <<server, callbacks, handle, sent, flags, cancelling, deadline, executor,
                   sequencer, zeroing, raised, burst>>

CancelStep(t) == StopStatus(t, "polling") \/ CancelAnswer(t) \/ Burst(t)

Nav2Next == \/ Server \/ Executor \/ Worker \/ Emergency
            \/ SubmitTimeout
            \/ Runtime \/ EstopBegin \/ Burst("stopper") \/ Cleanup
            \/ \E t \in Cancellers : CancelBegin(t) \/ CancelStep(t)

Nav2Spec == Nav2Init /\ [][Nav2Next]_nav2

-----------------------------------------------------------------------------
(* Properties.                                                             *)

\* Every variable that is not a set of messages has its type.
Nav2TypeOK ==
    /\ goal \in [Goals -> {"unsent", "sent", "executing", "canceling"} \cup Terminal]
    /\ resulted \subseteq watched /\ watched \subseteq answered
    /\ answered \subseteq tracked /\ tracked \subseteq Goals
    /\ asked \subseteq Goals
    /\ handle \in 0..Stages /\ sent \in 0..Stages
    /\ calls \in [RunThreads -> 0..BurstCount]

\* A transport that says "cancelled" or "succeeded" has no goal at work: the
\* answer of cancel_task, the end of the run and the start of the next stage
\* rest on it (nav2.py _goal_result and _goal_response, beside a send_goal
\* and an emergency zero that take no lock).
StateIsTruthful == /\ goalState = "cancelled" => goal[sent] \in {"rejected", "canceled"}
                   /\ goalState = "succeeded" => \A g \in 1..sent : goal[g] \in {"unsent", "succeeded"}

\* Nobody has anything left to do about the goals.
Quiet == /\ zeros = 0 /\ emergency = "idle" /\ worker = "idle" /\ executor = "idle"
         /\ \A g \in tracked \ answered : goal[g] = "sent"
         /\ \A t \in RunThreads : where[t] \in {"idle", "over"}

\* The last goal was sent for a submitter that had stopped waiting: its future
\* reaches nobody, so no callback stores a handle and no stop can cancel it.
GivenUp(g) == g = sent /\ g \notin tracked /\ submission = "rejected"

\* Once the run has ended, the server has been asked to cancel every goal it
\* works on, whether it accepted it before the stop, beside it or after it,
\* unless the publisher or the client fails. The one goal it is never asked
\* about is one whose submitter timed out while send_goal was under way
\* (nav2.py _goal_response against _enqueue_emergency_zero and a send_goal
\* still under way, and start(), which then never comes to track_goal).
EndedRunCancelsGoal ==
    (runEnded /\ Quiet) =>
        \A g \in Goals : goal[g] = "executing" => g \in asked \/ raised \/ GivenUp(g)

=============================================================================
