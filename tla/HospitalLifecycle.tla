-------------------------- MODULE HospitalLifecycle --------------------------
(***************************************************************************)
(* The hospital adapter (agent_ros/adapters/hospital.py): its lifecycle    *)
(* client, the command workers of _safety.py, its emergency channel, and   *)
(* the part of the runtime controller that ends a task and closes the      *)
(* runtime around them.                                                    *)
(*                                                                         *)
(* Three workers run commands one at a time from a queue: the lifecycle    *)
(* worker (start, cancel, status, stop), the client's emergency worker     *)
(* (the emergency-stop service), and the channel's worker, whose command   *)
(* waits for the emergency worker.  A command that raises fails its worker *)
(* for good: what is queued still runs, and everything later is refused.   *)
(* A caller that times out leaves its command in the queue.                *)
(*                                                                         *)
(* The launch and the mission node are the world: ProjectLifecycle and     *)
(* MissionController model them, here a launch is up or down and a service *)
(* call is served, refused, lost or served late.                           *)
(***************************************************************************)
EXTENDS Naturals, Sequences, FiniteSets

CONSTANTS None,
          MayTimeOut,   \* a caller may give up on a receipt
          CallsFail     \* a command or a service call may fail

Workers == {"lifecycle", "emergency", "channel"}

(* start: the task's start command.  task: whoever ends the task (a cancel, *)
(* an emergency stop, a fault, a success).  monitor: the status poll.       *)
(* cleanup: the task cleanup thread.  runtime: stop_runtime.                *)
Callers == {"start", "task", "monitor", "cleanup", "runtime"}

ASSUME Flags == MayTimeOut \in BOOLEAN /\ CallsFail \in BOOLEAN /\ None \notin Callers

VARIABLES worker,     \* per worker: its queue, current job and step, failed, open, running
          receipt,    \* per worker and caller: the receipt of its last command
          pc,         \* where each caller is
          task,       \* the gateway's view of the task; "ended" by a cancel or a fault
          ending,     \* the state the task takes when its stop has been answered
          latched,    \* the safety sequencer is latched
          stopLatched,\* _stop_latched; _cancellation_generation moves with it
          started,    \* _started
          closed,     \* the transport is closed
          chan,       \* holder of the channel's _stop_lock
          bad,        \* stop_runtime has seen a failed step
          launch, mission, lateStart, \* the world; lateStart: a start request not yet served
          stopped     \* an emergency stop has been answered as successful (history)

client == <<stopLatched, started, closed>>
control == <<task, ending, latched, chan, bad, stopped>>
world == <<launch, mission, lateStart>>
vars == <<worker, receipt, pc, control, client, world>>

Results == {"none", "queued", "ok", "error", "cancelled"}

CommandWorkers == [queue : Seq(Callers), job : Callers \cup {None},
                   step : {"idle", "begin", "launching", "ready", "trigger", "check", "undo",
                           "wait"},
                   failed : BOOLEAN, open : BOOLEAN, running : BOOLEAN]

TypeOK ==
    /\ worker \in [Workers -> CommandWorkers]
    /\ receipt \in [Workers -> [Callers -> Results]]
    /\ task \in {"none", "running", "ended", "estopped"}
    /\ chan \in {None, "task", "runtime"}
    /\ latched \in BOOLEAN /\ stopLatched \in BOOLEAN /\ started \in BOOLEAN
    /\ closed \in BOOLEAN /\ bad \in BOOLEAN /\ stopped \in BOOLEAN /\ lateStart \in BOOLEAN
    /\ launch \in {"down", "up"}
    /\ mission \in {"none", "idle", "running", "cancelled", "ended", "estopped"}

Init ==
    /\ worker = [w \in Workers |-> [queue |-> <<>>, job |-> None, step |-> "idle",
                                    failed |-> FALSE, open |-> TRUE, running |-> TRUE]]
    /\ receipt = [w \in Workers |-> [c \in Callers |-> "none"]]
    /\ pc = [c \in Callers |-> "idle"]
    /\ task = "none" /\ ending = None
    /\ latched = FALSE /\ chan = None /\ bad = FALSE /\ stopped = FALSE
    /\ stopLatched = FALSE /\ started = FALSE /\ closed = FALSE
    /\ launch = "down" /\ mission = "none" /\ lateStart = FALSE

-----------------------------------------------------------------------------
(* _BoundedCommandWorker                                                    *)

Accepts(w) == worker[w].open /\ ~worker[w].failed /\ worker[w].running

Enqueue(w, c) ==
    /\ worker' = [worker EXCEPT ![w].queue = Append(@, c)]
    /\ receipt' = [receipt EXCEPT ![w][c] = "queued"]

WorkerTake(w) ==
    /\ worker[w].running /\ worker[w].job = None
    /\ worker[w].queue # <<>>
    /\ worker' = [worker EXCEPT ![w].queue = Tail(@), ![w].job = Head(worker[w].queue),
                                ![w].step = "begin"]
    /\ UNCHANGED <<receipt, pc, control, client, world>>

WorkerExit(w) ==
    /\ worker[w].running /\ worker[w].job = None
    /\ ~worker[w].open /\ worker[w].queue = <<>>
    /\ worker' = [worker EXCEPT ![w].running = FALSE]
    /\ UNCHANGED <<receipt, pc, control, client, world>>

\* (fault) A worker whose command raised goes on accepting.
FinishUnfailed(w, result) ==
    /\ worker' = [worker EXCEPT ![w].job = None, ![w].step = "idle"]
    /\ receipt' = [receipt EXCEPT ![w][worker[w].job] = result]

Finish(w, result) ==
    /\ worker' = [worker EXCEPT ![w].job = None, ![w].step = "idle",
                                ![w].failed = @ \/ result = "error"]
    /\ receipt' = [receipt EXCEPT ![w][worker[w].job] = result]

StepTo(w, s) == worker' = [worker EXCEPT ![w].step = s] /\ UNCHANGED receipt

At(w, c, s) == worker[w].job = c /\ worker[w].step = s

-----------------------------------------------------------------------------
(* The world                                                                *)

Down == launch' = "down" /\ mission' = "none" /\ lateStart' = FALSE

Serve(m) == mission' = m /\ UNCHANGED <<launch, lateStart>>

StartsMission == mission \in {"idle", "cancelled", "ended"}

(* A start request the caller gave up on reaches the node.                  *)
LateStart ==
    /\ lateStart
    /\ lateStart' = FALSE
    /\ mission' = IF StartsMission THEN "running" ELSE mission
    /\ UNCHANGED <<launch, worker, receipt, pc, control, client>>

MissionEnds ==
    /\ mission = "running"
    /\ Serve("ended")
    /\ UNCHANGED <<worker, receipt, pc, control, client>>

-----------------------------------------------------------------------------
(* _execute_start on the lifecycle worker                                   *)

L == "lifecycle"

(* The latch check and the spawn share the client's lock.                   *)
SpawnStart ==
    /\ At(L, "start", "begin")
    /\ StepTo(L, IF stopLatched THEN "undo" ELSE "launching")
    /\ UNCHANGED <<pc, control, client, world>>

LaunchComesUp ==
    /\ At(L, "start", "launching") /\ launch = "down"
    /\ launch' = "up" /\ mission' = "idle" /\ UNCHANGED lateStart
    /\ UNCHANGED <<worker, receipt, pc, control, client>>

(* The start command answers; a stop latched meanwhile turns the answer     *)
(* into a cancelled start.                                                  *)
LaunchAnswers ==
    /\ At(L, "start", "launching") /\ launch = "up"
    /\ StepTo(L, IF stopLatched THEN "undo" ELSE "ready")
    /\ UNCHANGED <<pc, control, client, world>>

(* It fails: the project cleans its own launch up, or keeps its record.     *)
LaunchFails ==
    /\ CallsFail
    /\ At(L, "start", "launching")
    /\ Down \/ UNCHANGED world
    /\ IF stopLatched THEN StepTo(L, "undo") ELSE Finish(L, "error")
    /\ UNCHANGED <<pc, control, client>>

(* It runs out of time: the client latches, stops the project and kills the *)
(* command.                                                                 *)
LaunchTimesOut ==
    /\ MayTimeOut
    /\ At(L, "start", "launching")
    /\ stopLatched' = TRUE
    /\ Down \/ (CallsFail /\ UNCHANGED world)
    /\ Finish(L, "error")
    /\ UNCHANGED <<pc, control, started, closed>>

(* Odometry is ready, a stop was latched, or the wait fails.                *)
WaitReady ==
    /\ At(L, "start", "ready")
    /\ \/ stopLatched /\ StepTo(L, "undo")
       \/ ~stopLatched /\ ~closed /\ StepTo(L, "trigger")
       \/ (CallsFail \/ closed) /\ Finish(L, "error")
    /\ UNCHANGED <<pc, control, client, world>>

(* The service call is past its check of the latch.                         *)
TriggerStart ==
    /\ At(L, "start", "trigger")
    /\ IF StartsMission /\ ~closed
       THEN StepTo(L, "check") /\ Serve("running")
       ELSE Finish(L, "error") /\ UNCHANGED world
    /\ UNCHANGED <<pc, control, client>>

(* The call times out; its request is lost, or served later.                *)
TriggerStartTimesOut ==
    /\ CallsFail
    /\ At(L, "start", "trigger")
    /\ Finish(L, "error")
    /\ lateStart' \in {launch = "up", FALSE}
    /\ UNCHANGED <<launch, mission, pc, control, client>>

CheckStart ==
    /\ At(L, "start", "check")
    /\ IF stopLatched THEN StepTo(L, "undo") ELSE Finish(L, "ok")
    /\ UNCHANGED <<pc, control, client, world>>

\* (fault) A cancelled start is answered without being undone.
CancelOnly ==
    /\ At(L, "start", "undo")
    /\ started' = FALSE
    /\ Finish(L, "cancelled")
    /\ UNCHANGED <<pc, control, stopLatched, closed, world>>

(* _compensate_cancelled_start                                              *)
UndoStart ==
    /\ At(L, "start", "undo")
    /\ started' = FALSE
    /\ \/ Down /\ Finish(L, "cancelled")
       \/ CallsFail /\ UNCHANGED world /\ Finish(L, "error")
    /\ UNCHANGED <<pc, control, stopLatched, closed>>

-----------------------------------------------------------------------------
(* The other commands of the lifecycle worker                               *)

ExecuteCancel ==
    /\ At(L, "task", "begin")
    /\ \/ mission = "running" /\ ~closed /\ Serve("cancelled") /\ Finish(L, "ok")
       \/ (CallsFail \/ closed \/ mission # "running") /\ Finish(L, "error") /\ UNCHANGED world
    /\ UNCHANGED <<pc, control, client>>

(* The last status within its freshness, or an error.                       *)
ExecuteStatus ==
    /\ At(L, "monitor", "begin")
    /\ \/ launch = "up" /\ ~closed /\ Finish(L, "ok")
       \/ (CallsFail \/ closed \/ launch = "down") /\ Finish(L, "error")
    /\ UNCHANGED <<pc, control, client, world>>

(* The project's stop, then the start in flight is interrupted; there is    *)
(* none, for the start runs on this worker too.                             *)
ExecuteStop ==
    /\ \E c \in {"cleanup", "runtime"} : At(L, c, "begin")
    /\ \/ Down /\ Finish(L, "ok")
       \/ CallsFail /\ UNCHANGED world /\ Finish(L, "error")
    /\ UNCHANGED <<pc, control, client>>

-----------------------------------------------------------------------------
(* stop_emergency: the channel's worker waits for the emergency worker      *)

ChannelCalls ==
    /\ worker["channel"].step = "begin"
    /\ LET c == worker["channel"].job
       IN  IF Accepts("emergency")
           THEN /\ worker' = [worker EXCEPT !["emergency"].queue = Append(@, c),
                                            !["channel"].step = "wait"]
                /\ receipt' = [receipt EXCEPT !["emergency"][c] = "queued"]
           ELSE Finish("channel", "error")
    /\ UNCHANGED <<pc, control, client, world>>

TriggerStop ==
    /\ worker["emergency"].step = "begin"
    /\ \/ launch = "up" /\ ~closed /\ Serve("estopped") /\ Finish("emergency", "ok")
       \/ /\ CallsFail \/ closed \/ launch = "down"
          /\ Serve(mission) \/ (launch = "up" /\ ~closed /\ Serve("estopped"))
          /\ Finish("emergency", "error")
    /\ UNCHANGED <<pc, control, client>>

ChannelReceives ==
    /\ worker["channel"].step = "wait"
    /\ LET r == receipt["emergency"][worker["channel"].job]
       IN  /\ r = "queued" => MayTimeOut
           /\ Finish("channel", IF r = "ok" THEN "ok" ELSE "error")
           /\ started' = IF r = "ok" THEN FALSE ELSE started
    /\ UNCHANGED <<pc, control, stopLatched, closed, world>>

-----------------------------------------------------------------------------
(* _HospitalCaseEmergencyChannel._stop, on behalf of c                      *)

Goto(c, l) == pc' = [pc EXCEPT ![c] = l]

ChannelStop(c) ==
    /\ pc[c] \in {"stop", "fault"} /\ chan = None
    /\ chan' = c /\ latched' = TRUE
    /\ stopLatched' = TRUE
    /\ IF Accepts("channel") THEN Enqueue("channel", c)
       ELSE /\ receipt' = [receipt EXCEPT !["channel"][c] = "none"] /\ UNCHANGED worker
    /\ Goto(c, IF pc[c] = "stop" THEN "stopping" ELSE "faulting")
    /\ UNCHANGED <<task, ending, bad, stopped, started, closed, world>>

StopAnswered(c) ==
    /\ pc[c] \in {"stopping", "faulting"}
    /\ receipt["channel"][c] = "queued" => MayTimeOut
    /\ chan' = None

\* (fault) A command that was accepted counts as done.
AcceptedIsDone(c) == receipt["channel"][c] # "none"
StopSucceeded(c) == receipt["channel"][c] = "ok"

-----------------------------------------------------------------------------
(* The task                                                                 *)

(* start_nowait inside the sequencer's lock. A run_task that found the      *)
(* gateway armed may come to it whatever a stop_runtime has done meanwhile. *)
StartTask ==
    /\ task = "none"
    /\ ~latched /\ ~stopLatched
    /\ Accepts(L)
    /\ Enqueue(L, "start")
    /\ started' = TRUE
    /\ task' = "running"
    /\ UNCHANGED <<pc, ending, latched, chan, bad, stopped, stopLatched, closed, world>>

(* A status poll after the start has been answered; one at a time.          *)
PollStatus ==
    /\ task = "running" /\ receipt[L]["start"] = "ok"
    /\ receipt[L]["monitor"] # "queued"
    /\ Accepts(L)
    /\ Enqueue(L, "monitor")
    /\ UNCHANGED <<pc, control, client, world>>

EndTask(l, e) ==
    /\ pc["task"] = "idle" /\ task = "running"
    /\ Goto("task", l)
    /\ ending' = e

CancelTask ==
    /\ IF Accepts(L) THEN EndTask("cancelling", "ended") /\ Enqueue(L, "task")
       ELSE EndTask("stop", "estopped") /\ UNCHANGED <<worker, receipt>>
    /\ UNCHANGED <<task, latched, chan, bad, stopped, client, world>>

(* A cancel that fails or times out becomes an emergency stop.              *)
CancelAnswered ==
    /\ pc["task"] = "cancelling"
    /\ receipt[L]["task"] = "queued" => MayTimeOut
    /\ ending' = IF receipt[L]["task"] = "ok" THEN ending ELSE "estopped"
    /\ Goto("task", "stop")
    /\ UNCHANGED <<worker, receipt, task, latched, chan, bad, stopped, client, world>>

(* The operator's stop and a failed poll; the supervisor's fault.           *)
StopTask ==
    /\ \E e \in {"estopped", "ended"} : EndTask("stop", e)
    /\ UNCHANGED <<worker, receipt, task, latched, chan, bad, stopped, client, world>>

(* The cleanup thread starts before the stop of a mission that succeeded.   *)
TaskSucceeds ==
    /\ mission = "ended" /\ receipt[L]["start"] = "ok"
    /\ pc["task"] = "idle" /\ task = "running"
    /\ ending' = "ended"
    /\ pc' = [pc EXCEPT !["task"] = "stop",
                        !["cleanup"] = IF @ = "idle" THEN "run" ELSE @]
    /\ UNCHANGED <<worker, receipt, task, latched, chan, bad, stopped, client, world>>

TaskEnds ==
    /\ StopAnswered("task")
    /\ task' = IF task = "running" THEN ending ELSE task
    /\ ending' = None
    /\ stopped' = (stopped \/ StopSucceeded("task"))
    /\ Goto("task", "done")
    /\ UNCHANGED <<worker, receipt, latched, bad, client, world>>

(* The cleanup thread: adapter.stop(), whose errors it drops.               *)
CleanupStop ==
    /\ pc["cleanup"] = "run"
    /\ stopLatched' = TRUE
    /\ IF Accepts(L) THEN Enqueue(L, "cleanup") /\ Goto("cleanup", "wait")
       ELSE Goto("cleanup", "done") /\ UNCHANGED <<worker, receipt>>
    /\ UNCHANGED <<control, started, closed, world>>

CleanupDone ==
    /\ pc["cleanup"] = "wait"
    /\ receipt[L]["cleanup"] = "queued" => MayTimeOut
    /\ started' = IF receipt[L]["cleanup"] = "ok" THEN FALSE ELSE started
    /\ Goto("cleanup", "done")
    /\ UNCHANGED <<worker, receipt, control, stopLatched, closed, world>>

-----------------------------------------------------------------------------
(* stop_runtime, with the adapter's and the client's close()                *)

StopRuntime ==
    /\ pc["runtime"] = "idle"
    /\ Goto("runtime", IF task \in {"running", "estopped"} THEN "stop" ELSE "gateway")
    /\ UNCHANGED <<worker, receipt, control, client, world>>

(* gateway.close() faults a run that has begun in between.                  *)
CloseGateway ==
    /\ pc["runtime"] = "gateway"
    /\ Goto("runtime", IF task = "running" THEN "fault" ELSE "join")
    /\ UNCHANGED <<worker, receipt, control, client, world>>

(* Its own stop counts only if the task was running, and the fault never.   *)
RuntimeStopped ==
    /\ StopAnswered("runtime")
    /\ stopped' = (stopped \/ StopSucceeded("runtime"))
    /\ IF pc["runtime"] = "stopping"
       THEN /\ bad' = (bad \/ (task = "running" /\ ~StopSucceeded("runtime")))
            /\ task' = IF task = "running" THEN "estopped" ELSE task
            /\ pc' = [pc EXCEPT !["runtime"] = "join",
                                !["cleanup"] = IF @ = "idle" THEN "run" ELSE @]
       ELSE /\ task' = IF task = "running" THEN "ended" ELSE task
            /\ Goto("runtime", "join")
            /\ UNCHANGED bad
    /\ UNCHANGED <<worker, receipt, ending, latched, client, world>>

JoinCleanup ==
    /\ pc["runtime"] = "join"
    /\ LET joined == pc["cleanup"] \in {"idle", "done"}
       IN  /\ joined \/ MayTimeOut
           /\ bad' = (bad \/ ~joined)
    /\ Goto("runtime", "close")
    /\ UNCHANGED <<worker, receipt, task, ending, latched, chan, stopped, client, world>>

(* HospitalLifecycleClient.close stops a lifecycle it believes started.     *)
CloseStop ==
    /\ pc["runtime"] = "close"
    /\ IF started
       THEN /\ stopLatched' = TRUE
            /\ IF Accepts(L) THEN Enqueue(L, "runtime") /\ Goto("runtime", "close_wait") /\ UNCHANGED bad
               ELSE bad' = TRUE /\ Goto("runtime", "transport") /\ UNCHANGED <<worker, receipt>>
       ELSE Goto("runtime", "transport") /\ UNCHANGED <<worker, receipt, bad, stopLatched>>
    /\ UNCHANGED <<task, ending, latched, chan, stopped, started, closed, world>>

CloseStopped ==
    /\ pc["runtime"] = "close_wait"
    /\ receipt[L]["runtime"] = "queued" => MayTimeOut
    /\ started' = IF receipt[L]["runtime"] = "ok" THEN FALSE ELSE started
    /\ bad' = (bad \/ receipt[L]["runtime"] # "ok")
    /\ Goto("runtime", "transport")
    /\ UNCHANGED <<worker, receipt, task, ending, latched, chan, stopped, stopLatched, closed, world>>

(* The transport is closed though a part of it cannot be destroyed.         *)
CloseTransport ==
    /\ pc["runtime"] = "transport"
    /\ closed' = TRUE
    /\ bad' \in {bad, bad \/ CallsFail}
    /\ worker' = [worker EXCEPT ![L].open = FALSE]
    /\ Goto("runtime", L)
    /\ UNCHANGED <<receipt, task, ending, latched, chan, stopped, stopLatched, started, world>>

(* Each worker is closed and joined in turn; its close() fails if it has    *)
(* not ended in time or has failed before.                                  *)
NextWorker(w) == IF w = L THEN "emergency" ELSE "channel"

CloseWorker(w) ==
    /\ pc["runtime"] = w
    /\ worker[w].running => MayTimeOut
    /\ bad' = (bad \/ worker[w].running \/ worker[w].failed)
    /\ IF w = "channel"
       THEN Goto("runtime", IF bad' THEN "error" ELSE "ok") /\ UNCHANGED worker
       ELSE Goto("runtime", NextWorker(w)) /\ worker' = [worker EXCEPT ![NextWorker(w)].open = FALSE]
    /\ UNCHANGED <<receipt, task, ending, latched, chan, stopped, client, world>>

-----------------------------------------------------------------------------
WorkerSteps ==
    \/ \E w \in Workers : WorkerTake(w) \/ WorkerExit(w)
    \/ SpawnStart \/ LaunchComesUp \/ LaunchAnswers \/ LaunchFails \/ LaunchTimesOut
    \/ WaitReady \/ TriggerStart \/ TriggerStartTimesOut \/ CheckStart \/ UndoStart
    \/ ExecuteCancel \/ ExecuteStatus \/ ExecuteStop
    \/ ChannelCalls \/ TriggerStop \/ ChannelReceives

CallerSteps ==
    \/ StartTask \/ PollStatus \/ CancelTask \/ CancelAnswered \/ StopTask \/ TaskSucceeds
    \/ TaskEnds \/ CleanupStop \/ CleanupDone
    \/ \E c \in {"task", "runtime"} : ChannelStop(c)
    \/ StopRuntime \/ CloseGateway \/ RuntimeStopped \/ JoinCleanup \/ CloseStop \/ CloseStopped
    \/ CloseTransport
    \/ \E w \in Workers : CloseWorker(w)

Next == WorkerSteps \/ CallerSteps \/ LateStart \/ MissionEnds

Spec == Init /\ [][Next]_vars

-----------------------------------------------------------------------------
(* Properties                                                               *)

(* Once an emergency stop has been answered as successful no mission runs,  *)
(* whatever start was in flight, queued, or still on its way to the node.   *)
StopHoldsMission == stopped => mission # "running"

(* A start that is answered as cancelled has left no launch and no mission  *)
(* behind, at whichever step the stop overtook it.                          *)
CancelledStartIsUndone == receipt[L]["start"] = "cancelled" => launch = "down"

(* A stop_runtime that answers without an error leaves nothing that moves   *)
(* or still may: no start queued, in flight or on its way, and no mission   *)
(* running.  The one mission it can miss is that of a run_task which found  *)
(* the gateway armed, and whose start was accepted after close() had looked *)
(* for one (started is set again) and was through before the transport was  *)
(* closed.                                                                  *)
CleanStopIsStill ==
    pc["runtime"] = "ok" =>
        /\ mission = "running" => started
        /\ ~lateStart
        /\ \A w \in Workers : worker[w].job = None /\ worker[w].queue = <<>>
=============================================================================
