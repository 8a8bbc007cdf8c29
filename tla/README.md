# Verification of agent_ros

This directory holds a TLA+ development of the safety core of the ROS 2 agent
workflow in this repository: specifications of its components, TLC
configurations that check them on small instances, and TLAPS proofs of the
properties that matter most, for every size of the system.

## 1. The system

An MCP client (a language-model agent) calls tools of `mcp_server/ros2_mcp_server.py`.
The tools reach one `RuntimeController`, which discovers a robot, validates a
profile, arms, starts a task through an adapter, watches it, and stops it. Every
physical effect passes a *safety sequencer*; every lifecycle step passes a
*safety gateway*; everything is written to an audit log that decides whether the
next process may start at all.

| component | source | state it keeps | operations |
|---|---|---|---|
| Safety sequencer | `agent_ros/safety/sequencer.py` | flags (accepting, closed, failed, latched), generation, bounded queue of receipts, command in flight, worker thread | `start`, `issue`, `submit`, `submit_owned`, `latch_and_quiesce`, `begin_close`, `close`, `is_current`, `require_current`, worker loop |
| Safety gateway | `agent_ros/safety/gateway.py` | lifecycle state, heartbeat deadline, fault, stop error, transition history | `discover`, `validate`, `arm`, `start_task`, `heartbeat`, `cancel`, `estop_attempt`, `operator_reset`, `close`, heartbeat-expiry fault |
| Safety supervisor | `agent_ros/safety/supervisor.py` | watchdog thread, stop event | `start`, `evaluate`, `stop`, `join`, thread loop |
| Operator challenge | `agent_ros/safety/challenge.py` | challenge files under a directory lock | `create`, `consume`, expiry |
| Emergency channel | `agent_ros/adapters/_safety.py` | bounded command queue, worker thread, failure flag | `start`, `submit`, `close`, `stop_attempt`, worker loop |
| Twist adapter | `agent_ros/adapters/twist.py` | publisher, in-flight publish, navigation state | `navigate`, control step, `stop`, `close` |
| Nav2 adapter | `agent_ros/adapters/nav2.py` | goal handles, generation of cancellation, pending zero | `navigate`, goal response, result, cancel, `stop`, `close` |
| Hospital adapter | `agent_ros/adapters/hospital.py`, `hospital_process.py` | lifecycle worker, stop latch, fixed processes, cancellation generation | `prepare`, `start_case`, `status`, `cancel`, `stop`, `close` |
| Adapter base and factory | `agent_ros/adapters/base.py`, `factory.py` | ownership of the node, executor and channel | staged construction and teardown with retry |
| Runtime controller | `agent_ros/runtime/controller.py` | current gateway, adapter and task, monitor thread, quarantine, pending audit transitions | `discover_robot`, `validate_profile`, `arm_robot`, `run_task`, `task_status`, `cancel_task`, `emergency_stop`, `stop_runtime`, monitor loop |
| Audit log | `agent_ros/runtime/audit.py` | append-only JSONL file, append worker, transition sequence | `append`, coordinator, `validate_audit_history` |
| Evidence | `agent_ros/runtime/evidence.py`, `terminal_evidence.py` | evidence snapshots, terminal freeze | `record`, `freeze`, `get_evidence` |
| Discovery and profiles | `agent_ros/discovery/`, `agent_ros/profiles/` | none (pure functions and a graph read) | inference, schema validation |
| MCP server | `mcp_server/ros2_mcp_server.py` | controller singleton and its condition | `get_controller`, `close_controller`, tool bodies |
| Mission core | `examples/hospital_delivery/src/smartcar_bringup/smartcar_bringup/controller_core.py`, `mission_controller.py` | mission state, goal index, timers, stop-publish budget | `start`, `cancel`, `emergency_stop`, `reset`, `update_*`, `step` |
| Project lifecycle | `examples/hospital_delivery/scripts/codex_project.py` | run-state file, startup reservation, child processes | `start`, `stop`, `status` |
| Acceptance scripts, CLI, resources, world files | `examples/.../verify_acceptance.py`, `run_via_mcp.py`, `agent_ros/cli.py`, ... | none | one-shot scripts and data |

### How the parts interact

* The **controller** owns one gateway and one adapter per run. `run_task`
  obtains a permit (`sequencer.issue`) before `gateway.start_task`, and the
  adapter presents that permit with each command, so a latch between the two
  kills the command whatever the gateway's state says.
* **Adapters** send activations through the sequencer's worker (`submit`) or, for
  in-memory work, inside its lock (`submit_owned`). Stops never use that queue:
  the emergency channel, once `validate_profile` has verified it, latches the sequencer
  first, then hands a zero command to its own worker; before that it raises.
* The **gateway** calls back into the stop channel *outside* its lock, three
  times per stop, and re-takes the lock to record what came of it. The
  **supervisor** thread of the gateway polls the deadline and triggers the same
  burst; the controller's **monitor** thread renews it.
* Every gateway transition is registered with the controller, drained to the
  **audit** worker, and appended under a file lock. A history that does not end
  in `STOPPED` or `ESTOPPED` quarantines the next start.
* The hospital adapter drives the **project lifecycle** script as a subprocess,
  which in turn launches the **mission controller** node.

### What is hard

* Two-step operations: a decision under the lock, an unlocked stop burst or
  publish, a second region that records the result. Anything may run between.
* One condition variable shared by a worker and by stops, with `notify()`.
* Deadlines racing late answers: receipts, heartbeats, goal responses.
* Latches that must be permanent, and permits that must die with them.
* Threads that end because of their own or another's failure, and nobody joins.
* A crash or an audit failure between an effect and its record.
* Bounded queues whose overflow is itself a safety event.
* Callbacks of the ROS executor (goal responses, results, answers to cancels)
  beside an emergency worker that takes no lock.
* Commands of the project lifecycle that run in processes of their own and may
  be killed between two writes of files others read.

### What makes each component correct

| component | what has to be true | where it is stated |
|---|---|---|
| Sequencer | callers are told the truth about their command; a positive answer of a stop or a close is followed by silence; nobody waits for ever on a command that hangs | `SafetySequencer` |
| Gateway, supervisor | an end has a reason, was preceded by a whole burst of stops and is followed by silence, unless it is an emergency stop no callback of which reached the sequencer; a supervised loss of heartbeats ends the run | `SafetyGateway` |
| Twist adapter | a stop reported successful leaves the robot at rest for good; every run ends as long as its monitor or its watchdog is there; no stage outlives its run | `TwistTransport` |
| Audit worker | the file is a prefix of what was accepted; every answer is true of it; its thread ends and its callers are answered | `AuditWorker` |
| Controller and audit | the file is the gateway's history; motion and successful answers are recorded; a failed audit stops the robot; a death in motion is noticed at the next start | `AuditTrail` |
| Challenge | a token arms at most once, whoever presents it and whatever fails meanwhile | `OperatorChallenge` |
| Nav2 adapter | every goal at work after its run ended was asked to cancel, but for one whose submitter gave up on it while it was being sent; a transport that says "cancelled" or "succeeded" has no goal at work | `Nav2Transport` |
| Hospital adapter | a stop holds a start at whichever step it overtakes it; a shutdown without an error leaves nothing that moves or still may, unless a start was accepted while it was closing | `HospitalLifecycle` |
| Server, factory, discovery | one runtime owns ROS resources at a time; a stopped one owns nothing and issues no permit, or can at least record no start; discoveries install one gateway | `RuntimeOwner` |
| Mission core | the route is run in order; motion follows a stop only after a whole burst of zeros and never on stale odometry | `MissionController` |
| Project lifecycle | one launch runs at a time and the files know it, whichever command dies where; a stop ends every start under way | `ProjectLifecycle` |

## 2. The modules

```
ActivationGate  <--implements--  SafetySequencer  <--proofs--  SafetySequencerProofs
                                       |  (latch, in flight)
                                 SafetyGateway    <--proofs--  SafetyGatewayProofs
                                       |  (bursts, end of the run)
                                 TwistTransport   <--proofs--  TwistTransportProofs
AuditWorker  --(one record at a time)-->  AuditTrail  <--(history)--  SafetyGateway
     ^--proofs-- AuditWorkerProofs             ^--proofs-- AuditTrailProofs

RuntimeOwner, OperatorChallenge        <--proofs--  RuntimeOwnerProofs
Nav2Transport, ProjectLifecycle        <--proofs--  ProcessesProofs
HospitalLifecycle, MissionController   <--proofs--  HospitalExampleProofs
```

`HospitalLifecycle` sees the launch of `ProjectLifecycle` and the services of
`MissionController` as what its fixed commands answer.

The modules are layered by abstraction: each takes of the one below it what its
code can observe, and no module assumes of another what that other does not
state as a property. `MC...` modules only name the model values of the runs.
Operators whose comment starts with *(fault)* are not part of any
specification: each is a plausible mistake in the code, kept beside the
definition it would replace to show that the properties notice it.

### `ActivationGate`

What the sequencer promises to whoever holds a permit, without queue, condition
or threads: a gate that is open until it is latched, at most one command inside,
no command enters after the latch, none runs twice, and a promise of silence is
given only when the gate is shut and empty.

### `SafetySequencer` - `agent_ros/safety/sequencer.py`

State: the object's flags, generation, queue and command in flight, one for one;
`worker` is the program counter of the activation thread, `waitSet` the wait set
of the condition. Every call of `submit`, `submit_owned`, `latch_and_quiesce`
and `start` is a constant, so a thread that calls twice is two calls.

Each action is one region under the lock (`Submit`, `SubmitOwned`, `StopLatch`,
`BeginClose`, `WorkerDequeue`, `WorkerFinally`, ...) or one step outside it that
others can see (`RunCommand`, `CompleteValue`, `SubmitReturn`). `notify()` wakes
one arbitrary waiter and `notify_all()` every one, as the code has it at each
place; a wait that times out (`SubmitExpire`, `StopExpire`) may do so at any
moment. `NoteDeadWorker` is what `_worker_alive` does to the flags, in every
operation that asks it.

### `SafetyGateway` - `agent_ros/safety/gateway.py`, `supervisor.py`

State: lifecycle state, deadline, stop event; per thread its place and its burst
(`sent`, `worst`); the emergency channel
as `verified`, the sequencer as `latched`, `driving`. `cancel`,
`estop_attempt`, `close` and the two ways an overdue heartbeat is found are
each a decision under the lock, three calls of the stop callback without it
(`StopCallback`) and a record under it (`CancelRecord`, `EstopRecord`,
`FaultRecord`, `CloseStop`), and everything else may come between. The watchdog
reads the deadline (`WatchdogRead`), then the clock (`WatchdogCompare`), then
takes the lock (`WatchdogConfirm`).

The stop callback is the emergency channel's. `validate_profile` verifies the channel
(`Verify`) before it makes its transition; from then on a callback reaches the sequencer
and latches it (`Reach`), before that it raises and stops nothing (`Miss`), which the gateway
takes for a stop that did not quiesce (gateway.py:278). An emergency stop asks for no state, so its
callbacks may be of either kind, and even of both. The combined result of a burst says, besides
what the code's result says (`quiesced`), whether any callback has reached the sequencer (`reached`).

Abstractions: a stop callback is one step at its return, and whether its zero was
accepted is left out of its result; calls the gateway rejects (interfaces, limits,
challenge) change nothing; a channel that is not bound yet, while `discover_robot` is under way, and
one that is not verified yet both raise, and are one case.

### `TwistTransport` - `agent_ros/adapters/twist.py`

Who moves and who stops: the activation worker (`start`, the velocity
commands), the timer (`ControlRead`, `ControlSubmit`, `ControlConcludes`), the emergency
worker, the controller's task thread with its monitor and cleanup, the
gateway's watchdog, and callers of cancel and of the emergency stop. Assignments
that race are steps of their own: `generation += 1` without the state lock is a
read and a write, and a `start` in flight is `StartRead`, `StartWrite`,
`StartAdopt`, `StartSet`, `StartAnnounce`. A published command is `"moving"` or
`"zero"`; the ramp's arithmetic does not matter to who publishes last.

The watchdog ends a run that is left without a monitor (`WatchdogExpires`), or is no longer there
to do so: finding 1 is a step of this model too (`WatchdogLeaves`), and nothing makes it
happen or not.

Abstractions: a stop callback that finds nothing in flight is one step, as the sequencer's lock
is held for it; clearing the stage of a stop or of a timer that gave up (`Disable`) is one step,
although `start_waypoint` and the emergency worker take no lock and may come between its
assignments: no property tells these apart, since whichever of the two comes last decides about
the stage, and a stage set again is turned off by the timer's next refused command; the
emergency worker's clearing of generation, stage and status is one step; the publisher may raise
on the emergency worker but not on the activation worker; the expiry of a deadline under a live
monitor is an emergency stop.

### `AuditWorker` - the append worker of `agent_ros/runtime/audit.py`

A queue of receipts with one reserved slot for the terminal marker, a thread
that takes from it *before* it takes the lock, callers that wait with a timeout,
closers, and the writer's append with its rollback. `accepted` is a history
variable: the order in which calls entered the queue. Initially the
controller has called `start()`: the thread lives, or could not be started and
the worker has failed.

### `AuditTrail` - `agent_ros/runtime/controller.py`

The gateway's transitions as the list `history` of the states they lead to; the
threads that make them (task, monitor, cancel, emergency stop, physical stop,
shutdown, watchdog); `pending` and `next` for `_pending_audit` and
`_next_audit_sequence`; the drain with its single owner; the flags of a failed
audit, the quarantine file, and a restart that has only the disk. `Restart` may
come at any moment and leave a record in the worker's hand lost, written or
torn.

Abstractions: discovery, validation and arming are one transition (they are
made in that order by one thread); an operation of the gateway is one step; the
flags and the file of a quarantine are one step; the worker holds the record of
the drain's owner and, after a timeout, one it was given up on; validating the
history looks at the end of the file only: the controller also refuses a file
whose records do not continue one another, and `SessionsJoin`
(`AuditTrailProofs`) says that no file this system writes is of that kind.

### `Nav2Transport` - `agent_ros/adapters/nav2.py`

A goal is on the sequencer's worker (`send_goal`: clear the flags, send, keep the response
future), at the action server, and in the callbacks of the ROS executor. State: the transport's
fields one for one; `goal`, `cancels` and `answers` for the server and the two directions of the
network, from which any element may be taken next; the emergency worker with what it has read
(`local`), because it decides without the transport's lock. The regions that take no lock are
one assignment a step, and so is the goal response, which they run into. Two things are one step
that are two in the code: the worker's zero is published with the flags that say so, and the
emergency stop counts its call as it hands it over. Around it the task thread with its stages,
cancellers, the gateway's stop burst and the cleanup call the adapter. A receipt may be given up
on at any moment, and a call of the publisher or the client may raise (`CallsFail`). A submitter
that gives up while its goal is being sent never tracks it: `tracked` is what the callbacks were
put on, `sent` what the server got.

### `RuntimeOwner` - `mcp_server/ros2_mcp_server.py`, `agent_ros/runtime/controller.py`, `agent_ros/adapters/factory.py`

Tool calls on threads of their own get the singleton, then use what they got while others stop
it or close it. `singleton`, `closing` and `cleanupFailed` are the server's globals;
`controller[k]` what a controller keeps (gateway, tentative and installed adapter, permit
issuer, quarantine, audit worker); `factory[k]` the parts its factory owns. A discovery is: make
a tentative adapter (`Make`), judge the graph, which may close it again (`Reject`), install the
gateway and the adapter (`Install`), bind the adapter, which starts the permit issuer (`Bind`),
and announce the gateway's transition (`Announce`), each a region of its own. A stop looks once,
at its start, for an adapter (`met`), and closes the issuer through it or itself
(`CloseIssuer`); an adapter that is not bound yet closes none. The factory's close ends the
parts in order, and each may fail and is then tried again by the next close. A kill leaves the
audit file and the quarantine.

### `OperatorChallenge` - `agent_ros/safety/challenge.py`

`record` is the file, `draft` the record an operator's command is about to
write without the lock, `read[c]` what a consumer took into memory. `consume` is:
take the lock, read, judge, mark, release. A consumer may be killed or fail at
each, and the machine may reboot (the monotonic clock starts again).

### `HospitalLifecycle` - `agent_ros/adapters/hospital.py`, `_safety.py`

Three command workers as one record each (queue, job, step, failed, open): the lifecycle worker,
the client's emergency worker and the channel's worker. A worker that fails runs what is queued
and refuses what comes later; a caller that times out leaves its command behind. `start` is
spawn, build, readiness, trigger and the two checks of the cancellation generation; callers are
the task's start command, whoever ends the task, the status poll, the cleanup thread and
`stop_runtime`, which may begin before a `run_task` that has found the gateway armed comes to
its start (`StartTask` asks for no place of the shutdown; `CloseGateway` faults a run that has
begun in between). The launch is up or down, and a service request may be served after its
caller has gone (`LateStart`).

### `ProjectLifecycle` - `examples/hospital_delivery/scripts/codex_project.py`

Every `start` and `stop` is a process with a program counter; the files
`state.json`, `startup.json` and `startup-cleanup-failed.json` are variables;
`launch[s]` is the process group a start spawned, whose leader is a zombie until
that start reaps it or dies. A command may be killed between any two steps, a
write may raise, a termination may fail. The flock is held across the steps of a
region and dropped by a kill.

### `MissionController` - `smartcar_bringup/controller_core.py`, `mission_controller.py`

One thread, one step per callback: the services, odometry, scan, and the timer's
control step with its four limits. The mission's times follow the simulated
clock, the age of the odometry the wall clock. A pose is abstracted to the
waypoints within tolerance, the distance and the heading error in units of the
progress epsilons.

## 3. The runs

| run | instance | what it shows |
|---|---|---|
| `sequencer` | 2 queued calls, 1 owned, 1 stop, 2 starts, 1 close, queue of 1; 599k states | the safety and liveness of the sequencer, its wake-ups included, and that it implements the gate |
| `gateway_safety` | 1 cancel, 1 emergency stop, 1 heartbeat thread, 1 close, both modes, with and without timeout, the stop before or after validation; 1.8M states | ends are justified, stopped and silent |
| `gateway_live` | the same lifecycle with one operator reset; 159k states | the latch outlives the reset, and the end of a supervised run |
| `gateway_heartbeat_race` | a heartbeat thread and the watchdog | finding 1 |
| `twist_cancel` | 1 canceller, 1 stage, full burst of 3; 4.1M states | a successful stop is a zero |
| `twist_live` | 2 stages, publisher may fail, submissions may time out; 121k states | a successful stop is for good, motion nobody attends stops |
| `twist_estop` | 2 stages and at most 1 emergency stop, at any moment, with a watchdog that may be gone; 470k states | every run ends unless it is left unwatched, and no stage outlives it |
| `audit_worker` | 3 callers, 2 closers, queue of 2; 273k states | every answer is true, every caller is answered, the thread ends |
| `trail_safety` | 1 canceller, shutdown, 2 sessions, any write may fail; 2.3M states | the file is the history, and what a restart concludes from it |
| `trail_live` | 1 emergency stop, 1 physical stop, the watchdog, 1 heartbeat; 63k states | a failed audit stops the robot; every drain ends |
| `processes` | the Nav2 transport (2 stages, 1 canceller, bursts of 1, timeouts and raising calls), the project (2 starts, 2 stops, kills), the owner (2 tool threads, 1 closer, 2 controllers) and the challenge (2 consumers, 2 tokens, 2 boots); 2.2M states | nine safety properties of the four components |
| `hospital` | the adapter with timeouts and failing calls; the mission with 2 stages of 1 waypoint and its limits; 2.6M states | what a stop and a shutdown leave behind, and that the mission's route and stops hold |

`processes` and `hospital` are sums: their specification (`MCProcesses`,
`MCHospitalExample`) lets one of the components take every step of a behaviour
while the others stay in their initial states. The components share no
variable (the adapter and the mission node see each other only as their
surroundings), so each property is decided by the behaviours of its own
component and nothing is gained by interleaving them.

### Bounds, and why they are enough

* *Threads*: one of each kind, two where two of a kind meet: two calls around a
  queue of one (one running, one queued, one refused), two closers of the audit
  worker, three callers (written, in hand, queued). The safety of the sequencer
  and the gateway is proved for any number of them.
* *Clock* (`MaxTime` 3): a timeout of 1 lets a deadline be set, renewed and
  missed, with a tick to spare before and after the read of the watchdog.
* *Resets* (`MaxResets` 1 in the live run): the second run meets the threads the
  first has left behind; a third would meet no others.
* *Bursts*: the burst of three is kept wherever a property depends on it
  (`SuccessfulStopIsZero` is proved for any burst of two or more). One
  callback is not enough for `SuccessfulStopsForGood`; the two properties of
  `twist_estop` do not depend on the count, so that run uses one.
* *Stages* (2): the moment between two stages is the interesting one.
* *Zeros*: at most 15 zero commands exist in an instance, below the queue's 16,
  so the emergency queue never fills; its overflow is not modelled.
* *Sessions* (2) and *beats* (`MaxBeats`): a session learns of those before it
  through the file alone; a heartbeat is one more transition like the others.
* *Nav2* (2 stages, burst of 1, 1 canceller): the answers of an older goal meet a
  newer one. `OneIntruder`: of the three that may interfere with a task - the
  canceller, the gateway's stop and a receipt that is given up on - one does
  in a behaviour; each order of one of them with responses, results and answers
  of two goals is there. Proved without it, for any number.
* *Project* (2 starts, 2 stops): a start meets an older one that is alive, dead
  or still building, and a stop meets both; tokens are the starts themselves.
  Proved for any number.
* *Owner* (2 tool threads, 1 closer, 2 controllers): the old and the new runtime,
  each with a late user. `TwoCalls`: of the three calls at most two are under way at a
  time, which the proofs do without. The two threads are symmetric (`Permutations(Callers)`).
* *Challenge* (2 of each) and *owner*: proved for any number.
* *Hospital*: one task from start to shutdown. `OneUnhappy`: one of the five callers
  may time out or meet an error in a behaviour, whichever it is; the proofs do
  without it. *Mission*: ages are counted up to
  just past the limit that reads them; a limit of 0 is run out at the first
  look, so every limit can run out in the same tick.

Runs state `CHECK_DEADLOCK FALSE` where the system may stop: the clock or the
sessions reach their bound, or every call has returned.

### Fairness

Threads that the code keeps running are weakly fair: the activation worker, the audit and
emergency workers, the watchdog while its thread is there, and a call that has begun. A watchdog
that has left (`WatchdogLeaves`, finding 1) takes no step, and the liveness of `TwistTransport`
says so (`Unwatched`). Nothing obliges a client to call, a heartbeat to come, a command to
return, a timeout to pass late rather than early, or a record to be written. In `AuditTrail` not
even a drain's deadline has to pass: `DrainsReturn` holds without.

### Findings

1. **A renewed deadline ends the watchdog** (`gateway_heartbeat_race`).
   `SafetySupervisor.evaluate` (supervisor.py:47) answers true after it has
   called `on_expired`, although that call may find under the lock that a
   heartbeat has renewed the deadline; the watchdog's loop ends on that answer
   while the task runs, and the next loss of heartbeats is not noticed.
   `SupervisedLossEndsRun` is what does hold.

Observed while modelling and not stated as findings, since no document promises
otherwise; the models contain each of them:

* *Gateway.* An emergency stop begun before `validate_profile` has verified the channel makes
  callbacks that raise (_safety.py:155) and latches nothing; its caller is told that the
  transport did not quiesce. If validation, arming and `run_task` fall between its callbacks and
  its record, the run is recorded as ESTOPPED and its commands go on starting; and an operator
  reset after such a stop opens a gateway whose sequencer never was latched. `NoCommandAfterEnd`
  and `ResetNeverRevives` hold for every end whose burst has reached the sequencer, and TLC
  finds them violated without that condition. After an operator reset a run started while the
  previous watchdog thread is still alive keeps that thread's stop event and is unsupervised.
* *Audit worker.* Between the worker's last clearing of `_sentinel_queued`
  (audit.py:384) and the end of its thread a second `close()` queues a marker
  nobody takes (audit.py:427), and every close from then on answers false.
* *Trail.* The drain of `stop_runtime` returns when `_pending_audit` is empty
  (controller.py:920), also when the gateway has made a transition its thread is
  about to register; the file then ends in `RUNNING` and the next start is
  quarantined. A session that is shut down in DISCOVERED, ARMED or FAULTED
  quarantines the next start as well (`validate_audit_history` accepts STOPPED
  and ESTOPPED only). A shutdown after a failed audit is abandoned when its own
  emergency stop is to be registered (controller.py:512).
* *Owner.* A discovery that is rejected after its adapter was made closes the factory for good,
  so the retry the server recommends (ros2_mcp_server.py:82) is refused for the life of the
  process. A stop that meets an adapter installed and not yet bound (between controller.py:186
  and 189) closes neither the adapter's sequencer (base.py:205) nor the issuer
  (controller.py:542); it answers success and the discovery then starts the issuer. The audit
  worker is closed by then, so no start can be recorded and none is made (`missed` in
  `StoppedStaysDown`). The tool `stop_runtime` keeps the stopped controller as singleton, and a
  late call on it may still write the persistent quarantine; a late `arm_robot` consumes its
  challenge first. A validation that races a stop can leave the emergency worker running.
* *Challenge.* A consumer's mark may overwrite a newer challenge, which is then
  lost; the operator has to create another one.
* *Nav2.* A `cancel_task` during a `send_goal` in flight is forgotten when the goal is sent, and
  a successful stop may leave a goal that is sent later. The goal's own response then cancels it
  (nav2.py:283, tests/test_adapters.py:1224 and 1320), if the submitter was still waiting for
  it. A submitter that gave up while `send_goal` was running never hands the goal's future to
  `track_goal` (nav2.py:104): no response callback is put on it, the handle stays unknown, and
  neither the stop of the run nor any later one cancels the goal. It is the exception `GivenUp`
  of `EndedRunCancelsGoal`, without which TLC finds that property violated.
* *Twist.* `run_task`'s check after the start of its first stage (controller.py:366) and the
  monitor's after a later one (controller.py:778) leave the run without a stop burst. The
  gateway's watchdog would end it; if that thread has ended before on a renewed deadline
  (finding 1), nobody does (`Unwatched`, the exception of `RunEventuallyEnds` and
  `UnattendedMotionStops`, which TLC finds violated without it).
* *Hospital.* After a successful emergency stop `_started` is false (hospital.py:437) and the
  gateway is not in RUNNING, so neither the cleanup nor `close()` (hospital.py:444) runs the
  project's stop, and the launch stays up at rest although the tool is described as "safely stop
  and close the managed ROS runtime" (ros2_mcp_server.py:566). A `stop_runtime` begun in ARMED
  finds no task to stop; a `run_task` that had passed its check may start one afterwards. If its
  start is accepted after `close()` has looked at `_started` (hospital.py:444) and is through
  before the transport is closed, the shutdown answers success although the mission runs (the
  exception of `CleanStopIsStill`); in every other order it ends in CLEANUP_FAILED or leaves
  nothing.
* *Project.* The cleanup of a start that fails waits for a group whose dead
  leader it does not reap itself, so it reports an incomplete cleanup; a start that is
  killed in the handoff leaves a reservation that blocks every later start until someone
  removes the file.
* *Mission.* The timer follows the simulated clock, so the wall-clock limit on the
  odometry is not looked at while `/clock` stands still (the limit itself is
  tested in tests/test_controller_core.py:373).

## 4. The proofs

`tlapm` checks every theorem for every value of the constants that satisfies the named
assumptions of the modules (`CapacityAssumption`, `NamesAssumption`, `InvocationsAssumption`;
`BoundsAssumption`, `ProfileAssumption`, `ThreadsAssumption`; `AuditCapacityAssumption`,
`AuditNamesAssumption`; `ChallengeAssumption`; `OwnerAssumption`; `RouteAssumption`,
`LimitAssumption`, `UnsetAssumption`; `TrailAssumption`; `SomeCommands`, `NoFile`;
`StagesAssumption`, `TwistThreadsAssumption`; `Nav2Assumption`; `Flags`). They say that the sets
of threads are disjoint and do not hold the value that stands for nobody, that `None` is neither
an event, a file's contents nor an answer, and that counts and limits are numbers.

**Sequencer** (`SafetySequencerProofs`).
`SequencerInv == TypeOK /\ WorkerInv /\ LatchInv /\ ReceiptInv` is inductive:

* `WorkerInv` ties the command in flight to the worker's place and says when the
  worker may be in the wait set. `NoLostWakeup` is not inductive without it:
  the notification of `Submit` goes to one waiter, and that is the worker only
  because no stop waits while the latch is open.
* `LatchInv` says that a latched sequencer has an empty queue and that a stop or
  a close that answered positively found nothing in flight. With it the two
  silences (`QuiescedMeansSilent`, `ClosedMeansSilent`) follow step by step.
* `ReceiptInv` relates receipts, answers and `ran`: an unanswered receipt is
  queued or in flight exactly once, and what is neither has run as its answer says.

`SequencerImplementsGate` uses the same invariant: every step maps to a step of
`ActivationGate` or leaves its variables alone.

**Gateway** (`SafetyGatewayProofs`).
`GatewayInv == TypeOK /\ VerifiedInv /\ BurstInv /\ StillInv /\ EndInv /\ SeenInv` is inductive for
any number of threads, clock bound and resets:

* `VerifiedInv`: no run starts on a channel that is not verified, so a cancel, a fault or a
  close, which stop a run only because it is running, reaches the sequencer with every callback.
* `BurstInv`: a callback that reached the sequencer has latched it; `StillInv`: a burst that
  has quiesced so far excludes a command in flight; `EndInv` says both of the end
  recorded last, and that one other than an emergency stop has reached the sequencer.

`QuiescedEndsAreStill`, `NothingStartsAfterEnd`, `EstopStaysLatched` and `ResetsNeverRevive`
follow: what was reached is latched, only an end opens the way to a reset, and no reset opens
the latch. `EndedRunsWereStopped` and `FaultsAreJustified` need `FirstRunInv` (who is in a burst
has made as many callbacks in this run as it counted), which a reset breaks; they are stated
under `MaxResets = 0`, and that is how the runs check them.

**Audit worker** (`AuditWorkerProofs`), for any callers, closers and capacity.
`AuditInv == TypeOK /\ MarkerInv /\ SegmentInv /\ ReceiptInv /\ ThreadInv` is inductive:

* `MarkerInv` says that the marker is the last item of the queue and is there
  only once the worker accepts no more; the queue's bound (the capacity and one
  reserved slot) needs it.
* `SegmentInv` says that the file, the record in the worker's hand and the queue,
  in this order, are consecutive segments of `accepted`, except between a write
  that raised and the draining of the queue. `FileIsPrefix` alone is not
  inductive: nothing in it says that the next record to be written is the next
  one that was accepted.
* `ReceiptInv` says that a receipt nobody has answered is queued or in hand, and
  that a positive one is in the file; `ThreadInv` that a dead thread has passed
  the marker. `AnsweredIsDurable` and `ClosedMeansDone` follow.

**Challenge** (`RuntimeOwnerProofs`), for any consumers, tokens, boots and
lifetimes. `ChallengeInv` adds to `SingleUse` that only the holder of the lock
is between reading and releasing (`Exclusive`), that a used token is marked in
every copy that exists, on disk, in a draft or in memory, except in the holder's that is about
to mark it (`CopiesFresh`), and that a draft's token has been read by nobody
(`DraftUnseen`, `Unissued`). `SingleUse` alone is not inductive: nothing in it keeps an unmarked copy
of a used token from being written back.

**Owner** (`RuntimeOwnerProofs`), for any tool calls, closers and controllers.
`OwnerInv == OwnerTyped /\ OneCloser /\ OldIsDead /\ StopReaches /\ JudgeIsAlone`:

* `OldIsDead` says that a controller that is not the singleton owns nothing, and
  that whoever still uses it finds its factory closed. `OneRuntime` alone is not
  inductive: nothing in it keeps a late discovery from making the old runtime
  live again. It rests on `OneCloser`: what is closed is the singleton.
* `StopReaches` follows a stop through the audit worker, the issuer and the factory: past the
  issuer it is `Down` - no more records, and an issuer that is closed or was `missed` by an
  unbound adapter -, and every step of every thread keeps it so (`KeepsDown`); `JudgeIsAlone`
  says that whoever judges a graph is alone with the one adapter its factory will ever make, so
  that no other discovery can be past the check of the gateway.

All steps of one thread are proved through one lemma (`ThreadStep`), which says
what a step must not do; the lemmas of the operations establish it.

**Trail** (`AuditTrailProofs`), for any threads, beats and sessions.
`AuditInv == TypingInv /\ DrainInv /\ MonitorInv` is inductive:

* `DrainInv` says that only the owner of the drain has a record in hand, that it is
  the next one, and that this session's records are the transitions below it, and
  it too once it is written. `TrailIsHistory` alone is not inductive: nothing in it keeps a
  worker that was given up on from writing a record a second time.
* `MonitorInv` says that a runner that is done has nothing more to start, so that
  the monitor's thread begins once.

`MotionIsRecorded` needs `MotionInv`, which follows the runner from the
transition of its start through its drain: it reaches the adapter only with that
record on disk, and an audit that fails sends it elsewhere. The restarts rest
on `RestInv`: a file that does not end at rest (`BadEnd`) makes the next
session *cold* - quarantined, without a gateway and with nothing to record -, a cold
session leaves the file as it was, and a session that dies in motion leaves such a file
by `MotionInv` and `HistoryInv`. `RestartAfterMotionIsRefused` and `SessionsJoin` follow.

**Project** (`ProcessesProofs`), for any number of starts and stops, killed or not.
`LifecycleInv == FilesInv /\ StartInv /\ StopInv /\ EndedInv` is about `Up`, the launches
that have members, a zombie included, because members are what a start looks for:

* `FilesInv`: at most one launch is up, and a record, a failure file or a reservation in
  its handoff knows it; while a reservation is building none is up. `OneLaunch` alone is
  not inductive: nothing in it keeps a start from spawning beside a launch no file names.
* `StartInv` says what a start has left in the files at each of its steps,
  `StopInv` that what a stop has read is still true while it holds the lock,
  `EndedInv` that a start a stop has answered for holds no reservation and is not
  where it could spawn.

The steps are proved through two frames (`StartMoves`, `StopMoves`), which say what a step of a
start or a stop does to everybody else.

**Mission** (`HospitalExampleProofs`), for any route and limits.
`BurstIsOwed` says that the zeros still owed and those published since the last
stop add up to the burst; `MissionStopBeforeMotion` follows. `MissionRouteInOrder` adds to
`RouteInOrder` the types of what a tick computes from (`RouteInv`) and that
`NextAfter` is the first waypoint out of tolerance, the least element of a set of numbers
(from the library's well-founded induction).

**Hospital** (`HospitalExampleProofs`), with or without timeouts and failing calls.
`LifecycleInv == TypingInv /\ FirstInv /\ FreshInv /\ ThreadInv /\ WorldInv /\ LatchInv /\
StillInv /\ CloseInv` is inductive:

* `Still` is the state a stop promises: the mission is stopped with its latch set, or
  there is no launch and no command is making one. Whoever has been told that all is
  stopped was told so in such a state, and no step leaves it. `StopHoldsMission`
  alone is not inductive: nothing in it says that a start which is queued or on
  its way, or whose service call comes late, no longer sets the mission going.
* `FirstInv`: the start is the first command of the lifecycle worker and is given to it once,
  so that no second one brings back the launch a cancelled start has undone
  (`CancelledStartIsUndone`).
* `CloseInv` follows the shutdown worker by worker: each that it has passed without an error has
  ended, and by `ThreadInv` has left nothing behind, so that after the last one nothing is on
  its way any more (`CleanStopIsStill`). Nothing is assumed about the task when the shutdown
  begins: a start may still come.

**Nav2** (`ProcessesProofs`), for any number of stages, cancellers and stop callbacks.
`Nav2Inv == TypingInv /\ CountInv /\ GoalsInv /\ StageInv /\ StateInv /\ KeyInv /\ LatchedInv`:

* `StageInv` and `GoalsInv` say that there is one goal to speak of: one is sent only
  `Between` two stages, when every goal before it has succeeded and the callbacks of
  its answer and its result have run. An answer, a result or a cancel response that
  comes late is therefore about the last goal sent, and the transport's one state
  is about it too (`StateInv`, `StateIsTruthful`).
* `KeyInv` says that the key which keeps a goal from being cancelled twice is set by whoever
  asks: a goal whose key is set was asked to cancel, or the emergency worker is about to ask.
* `LatchedInv` says that once the sequencer is latched and the goal has been answered,
  somebody is `Underway` to ask for its cancellation: the callbacks, a zero in the emergency
  queue, or the emergency worker with the handle in its hand. `EndedRunCancelsGoal`
  alone is not inductive: it speaks of the moment when all of them are done. `StageInv` adds which goals
  are tracked: once the runtime has its answer, all that were sent but the last, and that one too
  unless its submitter gave up.

**Twist** (`TwistTransportProofs`), for any threads and stages.
`TwistInv == TypingInv /\ WorkerInv /\ BurstInv`. A burst whose callbacks have all
found the transport quiet leaves, after the first, nothing in flight and a latch
(`Silent`: no command will be published any more), and after the second a zero that is the
last message or is about to be (`Owed`). The zero of the first callback may be published
before the command it waits for, so a burst of one is not enough: the theorem assumes
`BurstCount > 1`, and the code makes three. `SuccessfulStopIsZero` alone is not
inductive: nothing in it says that a command is not still on its way. The same invariant
gives `SuccessfulStopIsForGood`, the safety half of `SuccessfulStopsForGood`. The types
(`TwistTyped`) need to know that a submitter in the queue waits for its answer, and that
only a thread in a burst has counted callbacks.

**Left to the model checker.** The liveness properties: fairness and ENABLED are outside the
prover's reach. Every other property a run checks - each invariant, action property and the
refinement - is stated by a theorem, and no run repeats a type invariant that is proved.

## 5. What is not modelled

Of the modelled components: the ramp's arithmetic, `observe` and `validate` of the adapters, the
conversion of poses; the schema of audit records; of the controller the hospital's budget and
evidence; the pipes and deadlines of a child process (`hospital_process.py`); the command
worker's bound of 16; corrupt files, the reuse of process numbers, and an interrupt in the
project lifecycle: a Ctrl-C between the spawn and the write of the run state
(codex_project.py:664) passes the handler by (`except Exception`, 667), and the outermost
`finally` removes the reservation, so that a launch may be left which no file names. The kills
the model has leave the reservation where it is. A thread that cannot be started inside the
gateway's `start_task` with an error other than `SafetyError` (controller.py:338 would leave the
transition unregistered) is not modelled.

Evidence, discovery, profiles, the command line and the scripts keep no state
another component decides on between two calls: they are formatting, schema checks and
one-shot sequences of calls, and are left out.

## 6. What could come next

1. Liveness of `Nav2Transport` (a cancelled goal's run ends) on an instance small enough
   for it, and of `HospitalLifecycle`.
2. The bound of the command worker, with a burst from more threads than one run has.
3. The sequencer inside `TwistTransport` and `SafetyGateway` as refinements of `ActivationGate`.
