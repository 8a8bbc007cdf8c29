------------------------------ MODULE AuditTrail ------------------------------
(***************************************************************************)
(* agent_ros/runtime/controller.py: how the transitions of the gateway     *)
(* reach the audit file, and what a restarted runtime concludes from it.   *)
(*                                                                         *)
(* The gateway numbers its transitions; many threads make them, each       *)
(* registers its own, and whichever thread finds the next number           *)
(* registered becomes the one that drains, for everybody. A fault of the   *)
(* watchdog is registered by nobody and inferred by who drains. A failure  *)
(* quarantines the runtime and stops the robot.                            *)
(*                                                                         *)
(* An operation of the gateway is one step here (module SafetyGateway);    *)
(* the audit worker (module AuditWorker) holds at most the record of the   *)
(* draining thread, and one it was given up on. Discovery, validation and  *)
(* arming are recorded one after the other and count as one transition.    *)
(***************************************************************************)
EXTENDS Naturals, SequencesExt

CONSTANTS Cancellers,  \* threads that call cancel_task
          Estoppers,   \* threads that call emergency_stop
          Physicals,   \* callbacks of the physical emergency stop
          MaxBeats,    \* bound of the monitor's heartbeats in a session
          MaxSessions, \* bound of the starts of the runtime
          WriteFails,  \* may a record or the quarantine file fail to be written
          MayShutDown, \* is stop_runtime called
          None

\* What the gateway's transitions lead to; what leads to ARMED counts as one.
Events == {"ARMED", "RUNNING", "STOPPED", "FAULTED", "ESTOPPED"}

ASSUME TrailAssumption ==
    /\ MaxBeats \in Nat /\ MaxSessions \in Nat \ {0}
    /\ WriteFails \in BOOLEAN /\ MayShutDown \in BOOLEAN
    /\ {"runner", "monitor", "shutdown"} \cap (Cancellers \cup Estoppers \cup Physicals) = {}
    /\ Cancellers \cap Estoppers = {}
    /\ (Cancellers \cup Estoppers) \cap Physicals = {}
    /\ None \notin Cancellers \cup Estoppers \cup Physicals \cup {"runner", "monitor", "shutdown"}
    /\ None \notin Events

VARIABLES
  trail,          \* the states this session's records on disk lead to
  earlier,        \* the last state on disk of the sessions before, if any
  torn,           \* the file ends inside a record
  quarantineFile, \* audit.quarantine exists
  session,        \* which start of the process this is
  history,        \* the gateway's transitions, by the state each leads to
  started,        \* adapter.start() has returned in this session
  beats,          \* heartbeats of the monitor so far
  pending, next,  \* _pending_audit's keys; the numbers below _next_audit_sequence
  draining,       \* who drains, if _audit_draining
  auditFailed, quarantined, \* _audit_failure and _quarantined
  told,           \* _monitor_stop
  accepting,      \* the audit worker takes records
  late,           \* the record it still holds though its caller gave up, or 0
  mine,           \* the transition a thread waits for, 0 for any
  after,          \* where it goes on once the drain returned
  pc,
  diedMoving      \* a session before ended with the robot moving

disk == <<trail, earlier, torn, quarantineFile>>
process == <<session, diedMoving>>
motion == <<history, started, beats>>
queue == <<pending, next, draining>>
failure == <<auditFailed, quarantined>>
worker == <<accepting, late>>
control == <<told, mine, after, pc>>
vars == <<disk, process, motion, queue, failure, worker, control>>

Threads == {"runner", "monitor", "shutdown"} \cup Cancellers \cup Estoppers \cup Physicals
Terminal == {"STOPPED", "ESTOPPED"}

State == IF history = <<>> THEN "NEW" ELSE Last(history)
Running == State = "RUNNING"
Moving == started /\ Running

LastOnDisk == IF trail = <<>> THEN earlier ELSE Last(trail)

Everywhere(value) == [t \in Threads |-> value]

Init == /\ trail = <<>> /\ earlier = None /\ torn = FALSE /\ quarantineFile = FALSE
        /\ session = 1 /\ diedMoving = FALSE
        /\ history = <<>> /\ started = FALSE /\ beats = 0
        /\ pending = {} /\ next = 0 /\ draining = None
        /\ auditFailed = FALSE /\ quarantined = FALSE
        /\ accepting = TRUE /\ late = 0
        /\ told = FALSE
        /\ mine = Everywhere(0) /\ after = Everywhere("idle") /\ pc = Everywhere("idle")

Go(t, place) == pc' = [pc EXCEPT ![t] = place]

-----------------------------------------------------------------------------
(* A thread makes a transition, registers it and drains.                   *)

\* _ensure_available()
Available == ~quarantined /\ ~quarantineFile

\* The thread's own transition, recorded before it goes on to "place".
Transition(t, state, place) ==
    /\ history' = Append(history, state)
    /\ mine' = [mine EXCEPT ![t] = Len(history) + 1]
    /\ after' = [after EXCEPT ![t] = place]
    /\ Go(t, "register")

\* A drain without a transition of the thread's own.
DrainAll(t, place) ==
    /\ mine' = [mine EXCEPT ![t] = 0]
    /\ after' = [after EXCEPT ![t] = place]
    /\ Go(t, "drain")

\* The physical stop and the shutdown leave the draining to others, or for later.
RegistersOnly(t) == t \in Physicals \cup {"shutdown"}

\* What a caller does when its append raises: the start of a task that has
\* reached the adapter latches, a shutdown goes on, the others give up.
Raised(t) == Go(t, CASE after[t] = "begun" -> "latch"
                     [] t = "shutdown" /\ after[t] # "close" -> after[t]
                     [] OTHER -> "failed")

Unrecorded(t) == {mine[t]} \ 1..next

\* (fault) The drain is left without giving it up.
StillDraining(t) == UNCHANGED draining

Release(t) == draining' = IF draining = t THEN None ELSE draining

Register(t) ==
    /\ pc[t] = "register"
    /\ IF auditFailed
       THEN Raised(t) /\ UNCHANGED pending
       ELSE /\ pending' = pending \cup Unrecorded(t)
            /\ Go(t, IF RegistersOnly(t) THEN after[t] ELSE "drain")
    /\ UNCHANGED <<disk, process, motion, next, draining, failure, worker, told, mine, after>>

\* The next transition is registered, or a fault nobody registers.
Drainable == \/ next + 1 \in pending
             \/ next < Len(history) /\ history[next + 1] = "FAULTED"

\* (fault) Two threads drain at a time.
MayDrainBeside(t) == TRUE

MayDrain(t) == draining \in {None, t}

Recorded(t) == mine[t] <= next

\* The owner of the drain goes on as long as there is something to drain.
Drained(t) == IF mine[t] = 0
              THEN pending = {} /\ MayDrain(t) /\ ~Drainable
              ELSE Recorded(t) /\ (draining # t \/ ~Drainable)

DrainRaise(t) ==
    /\ pc[t] = "drain"
    /\ auditFailed
    /\ Raised(t)
    /\ Release(t)
    /\ UNCHANGED <<disk, process, motion, pending, next, failure, worker, told, mine, after>>

DrainReturn(t) ==
    /\ pc[t] = "drain"
    /\ ~auditFailed
    /\ Drained(t)
    /\ Go(t, after[t])
    /\ Release(t)
    /\ UNCHANGED <<disk, process, motion, pending, next, failure, worker, told, mine,
                   after>>

\* The record is handed to the audit worker, if that still takes any.
DrainTake(t) ==
    /\ pc[t] = "drain"
    /\ ~auditFailed
    /\ ~Drained(t)
    /\ Drainable
    /\ MayDrain(t)
    /\ draining' = t
    /\ Go(t, IF accepting THEN "appending" ELSE "fail")
    /\ UNCHANGED <<disk, process, motion, pending, next, failure, worker, told, mine,
                   after>>

\* The deadline of the drain passes before the thread's own transition, or
\* another's that comes first, is registered or recorded.
DrainExpire(t) ==
    /\ pc[t] = "drain"
    /\ ~auditFailed
    /\ ~Drained(t)
    /\ ~(Drainable /\ MayDrain(t))
    /\ Release(t)
    /\ Go(t, "fail")
    /\ UNCHANGED <<disk, process, motion, pending, next, failure, worker, told, mine,
                   after>>

-----------------------------------------------------------------------------
(* The audit worker writes the record, or fails, or is given up on.        *)

WorkerWrites(t) ==
    /\ pc[t] = "appending"
    /\ trail' = Append(trail, history[next + 1])
    /\ Go(t, "written")
    /\ UNCHANGED <<earlier, torn, quarantineFile, process, motion, queue, failure, worker,
                   told, mine, after>>

WorkerFails(t) ==
    /\ WriteFails
    /\ pc[t] = "appending"
    /\ accepting' = FALSE
    /\ Go(t, "fail")
    /\ UNCHANGED <<disk, process, motion, queue, failure, late, told, mine, after>>

\* The owner of the drain gives up on a record; it has no time left for any,
\* once its own deadline has passed.
AppendExpire(t) ==
    /\ pc[t] = "appending"
    /\ accepting' = FALSE
    /\ late' = next + 1
    /\ Go(t, "fail")
    /\ UNCHANGED <<disk, process, motion, queue, failure, told, mine, after>>

LateWrite ==
    /\ late # 0
    /\ late' = 0
    /\ \/ trail' = Append(trail, history[late])
       \/ WriteFails /\ UNCHANGED trail
    /\ UNCHANGED <<earlier, torn, quarantineFile, process, motion, queue, failure, accepting,
                   control>>

\* The drain goes on; it returns only from the top of its loop.
AppendReturn(t) ==
    /\ pc[t] = "written"
    /\ pending' = pending \ {next + 1}
    /\ next' = next + 1
    /\ Go(t, "drain")
    /\ UNCHANGED <<disk, process, motion, draining, failure, worker, told, mine, after>>

\* _record_audit_failure(): the flags and the quarantine file, then the emergency
\* stop. A file that cannot be written is ignored.
FailRecord(t) ==
    /\ pc[t] = "fail"
    /\ auditFailed' = TRUE
    /\ quarantined' = TRUE
    /\ quarantineFile' \in IF WriteFails THEN {TRUE, quarantineFile} ELSE {TRUE}
    /\ Go(t, "halt")
    /\ UNCHANGED <<trail, earlier, torn, process, motion, queue, worker, told, mine,
                   after>>

\* (fault) The failure of the audit is reported and the robot left alone.
HaltNothing == UNCHANGED history

\* The transition of this stop is registered by nobody.
HaltRobot == IF State # "ESTOPPED" THEN history' = Append(history, "ESTOPPED")
                                   ELSE UNCHANGED history

FailHalt(t) ==
    /\ pc[t] = "halt"
    /\ HaltRobot
    /\ Release(t)
    /\ Raised(t)
    /\ UNCHANGED <<disk, process, started, beats, pending, next, failure, worker, told, mine,
                   after>>

-----------------------------------------------------------------------------
(* An emergency stop, and the latch of a failed operation.                 *)

\* A stop that finds the gateway stopped has no transition to record.
StopAt(t, from, place) ==
    /\ pc[t] = from
    /\ IF State # "ESTOPPED"
       THEN Transition(t, "ESTOPPED", place)
       ELSE /\ mine' = [mine EXCEPT ![t] = 0]
            /\ Go(t, place)
            /\ UNCHANGED <<history, after>>
    /\ UNCHANGED <<disk, process, started, beats, queue, failure, worker, told>>

\* _latch_adapter_fault()
Latch(t) == StopAt(t, "latch", "latched")

\* _append_latest_gateway_fault(), by a thread that meets the fault.
AppendFault(t) ==
    /\ pc[t] = "fault"
    /\ \/ \E i \in (next + 1)..Len(history) : /\ history[i] = "FAULTED"
                                              /\ mine' = [mine EXCEPT ![t] = i]
                                              /\ Go(t, "register")
       \/ /\ \A i \in (next + 1)..Len(history) : history[i] # "FAULTED"
          /\ Go(t, after[t])
          /\ UNCHANGED mine
    /\ UNCHANGED <<disk, process, motion, queue, failure, worker, told, after>>

MeetFault(t, place) == /\ after' = [after EXCEPT ![t] = place]
                       /\ Go(t, "fault")

EstopBegin(t) ==
    /\ pc[t] = "idle"
    /\ Available
    /\ Go(t, "estop")
    /\ UNCHANGED <<disk, process, motion, queue, failure, worker, told, mine, after>>

Estop(t) == StopAt(t, "estop", "stopped")

\* Who has stopped the gateway tells the monitor.
TellMonitor(t) ==
    /\ pc[t] \in {"stopped", "latched"}
    /\ told' = TRUE
    /\ Go(t, IF pc[t] = "stopped" THEN "done" ELSE "failed")
    /\ UNCHANGED <<disk, process, motion, queue, failure, worker, mine, after>>

\* An emergency stop whose result is not successful raises.
EstopUnsafe(t) ==
    /\ pc[t] = "stopped"
    /\ Go(t, "failed")
    /\ UNCHANGED <<disk, process, motion, queue, failure, worker, told, mine, after>>

\* The gateway it acts on is made by a discovery, which asks for an available
\* runtime.
PhysicalBegin(t) == (State = "NEW" => Available) /\ StopAt(t, "idle", "judge")

\* A physical stop that did not succeed quarantines the runtime by itself.
PhysicalJudge(t) ==
    /\ pc[t] = "judge"
    /\ \/ UNCHANGED <<quarantined, quarantineFile>>
       \/ /\ quarantined' = TRUE
          /\ quarantineFile' \in IF WriteFails THEN {TRUE, quarantineFile} ELSE {TRUE}
    /\ Go(t, "done")
    /\ UNCHANGED <<trail, earlier, torn, process, motion, queue, auditFailed, worker, told,
                   mine, after>>

-----------------------------------------------------------------------------
(* run_task                                                                *)

\* Discovery, validation and arming.
Prepare ==
    /\ pc["runner"] = "idle"
    /\ Available
    /\ State = "NEW"
    /\ Transition("runner", "ARMED", "armed")
    /\ UNCHANGED <<disk, process, started, beats, queue, failure, worker, told>>

StartTask ==
    /\ pc["runner"] = "armed"
    /\ Available
    /\ State = "ARMED"
    /\ Transition("runner", "RUNNING", "start")
    /\ UNCHANGED <<disk, process, started, beats, queue, failure, worker, told>>

\* (fault) The adapter is started while the start is being recorded.
StartPlaces == {"start", "drain"}

StartPlace == {"start"}

\* adapter.start(): the permit of a run that was stopped is not current, and
\* one that is may still be refused.
AdapterStart ==
    /\ pc["runner"] \in StartPlace
    /\ after["runner"] = "start"
    /\ \/ /\ Running
          /\ pc["shutdown"] # "over"
          /\ started' = TRUE
          /\ Go("runner", "beat")
       \/ UNCHANGED started /\ Go("runner", "latch")
    /\ UNCHANGED <<disk, process, history, beats, queue, failure, worker, told, mine,
                   after>>

\* A start that was overtaken by a stop latches; so does a heartbeat the gateway
\* refuses because the run has ended meanwhile.
FirstBeat ==
    /\ pc["runner"] = "beat"
    /\ \/ Running /\ Transition("runner", "RUNNING", "begun")
       \/ Go("runner", "latch") /\ UNCHANGED <<history, mine, after>>
       \/ ~Running /\ MeetFault("runner", "latch") /\ UNCHANGED <<history, mine>>
    /\ UNCHANGED <<disk, process, started, beats, queue, failure, worker, told>>

\* _start_monitor(), unless the run was stopped or the thread cannot be started:
\* whatever the monitor was told before is forgotten.
Begun ==
    /\ pc["runner"] = "begun"
    /\ \/ /\ Running
          /\ pc' = [pc EXCEPT !["runner"] = "done", !["monitor"] = "watch"]
          /\ told' = FALSE
       \/ Go("runner", "failed") /\ UNCHANGED told
       \/ Running /\ Go("runner", "latch") /\ UNCHANGED told
    /\ UNCHANGED <<disk, process, motion, queue, failure, worker, mine, after>>

-----------------------------------------------------------------------------
(* The monitor.                                                            *)

Watching == pc["monitor"] = "watch"

MonitorTold ==
    /\ Watching
    /\ told
    /\ Go("monitor", "over")
    /\ UNCHANGED <<disk, process, motion, queue, failure, worker, told, mine, after>>

\* A run that ended is recorded on the way out, a fault by its own name. (A fault
\* between run_task's last look at the state and its copy is left to others.)
MonitorEnded ==
    /\ Watching
    /\ ~Running
    /\ IF State = "FAULTED"
       THEN MeetFault("monitor", "over") /\ UNCHANGED mine
       ELSE DrainAll("monitor", "over")
    /\ UNCHANGED <<disk, process, motion, queue, failure, worker, told>>

MonitorPoll ==
    /\ Watching
    /\ Running
    /\ Go("monitor", "poll")
    /\ UNCHANGED <<disk, process, motion, queue, failure, worker, told, mine, after>>

\* The task goes on, or succeeds, or fails or times out; the run may have ended
\* meanwhile, and the gateway's refusal latches.
MonitorActs ==
    /\ pc["monitor"] = "poll"
    /\ \/ /\ Running
          /\ beats < MaxBeats
          /\ beats' = beats + 1
          /\ Transition("monitor", "RUNNING", "watch")
       \/ /\ Running
          /\ Transition("monitor", "STOPPED", "over")
          /\ UNCHANGED beats
       \/ /\ Go("monitor", "latch")
          /\ UNCHANGED <<history, mine, after, beats>>
       \/ /\ ~Running
          /\ Go("monitor", "watch")
          /\ UNCHANGED <<history, mine, after, beats>>
       \/ /\ ~Running
          /\ MeetFault("monitor", "latch")
          /\ UNCHANGED <<history, mine, beats>>
    /\ UNCHANGED <<disk, process, started, queue, failure, worker, told>>

-----------------------------------------------------------------------------
(* cancel_task, the watchdog, and stop_runtime.                            *)

CancelBegin(t) ==
    /\ pc[t] = "idle"
    /\ Available
    /\ Running
    /\ Go(t, "cancel")
    /\ UNCHANGED <<disk, process, motion, queue, failure, worker, told, mine, after>>

\* The monitor is told before the cancel is recorded. An adapter that fails to
\* cancel latches; one that needs time leaves the end to the monitor.
Cancel(t) ==
    /\ pc[t] = "cancel"
    /\ \/ Running /\ Transition(t, "STOPPED", "done") /\ told' = TRUE
       \/ /\ \/ Go(t, "latch")
             \/ ~Running /\ Go(t, "failed")
             \/ Running /\ Go(t, "done")
          /\ UNCHANGED <<history, mine, after, told>>
    /\ UNCHANGED <<disk, process, started, beats, queue, failure, worker>>

Watchdog ==
    /\ Running
    /\ history' = Append(history, "FAULTED")
    /\ UNCHANGED <<disk, process, started, beats, queue, failure, worker, control>>

ShutdownBegin ==
    /\ MayShutDown
    /\ pc["shutdown"] = "idle"
    /\ told' = TRUE
    /\ Go("shutdown", IF State \in {"RUNNING", "ESTOPPED"} THEN "estop" ELSE "close")
    /\ UNCHANGED <<disk, process, motion, queue, failure, worker, mine, after>>

\* Its transition is registered; if that raises, the shutdown is abandoned.
ShutdownEstop == StopAt("shutdown", "estop", "close")

\* The gateway faults a run that is active all the same.
ShutdownClose ==
    /\ pc["shutdown"] = "close"
    /\ history' = IF Running THEN Append(history, "FAULTED") ELSE history
    /\ DrainAll("shutdown", "join")
    /\ UNCHANGED <<disk, process, started, beats, queue, failure, worker, told>>

\* The monitor and the cleanup thread are joined, or the time for it is over.
ShutdownJoin ==
    /\ pc["shutdown"] = "join"
    /\ DrainAll("shutdown", "retire")
    /\ UNCHANGED <<disk, process, motion, queue, failure, worker, told>>

ShutdownRetire ==
    /\ pc["shutdown"] = "retire"
    /\ accepting' = FALSE
    /\ Go("shutdown", "retired")
    /\ UNCHANGED <<disk, process, motion, queue, failure, late, told, mine, after>>

\* The worker is joined, or not; then the adapter is closed, or fails to.
ShutdownOver ==
    /\ pc["shutdown"] = "retired"
    /\ Go("shutdown", "over")
    /\ UNCHANGED <<disk, process, motion, queue, failure, worker, told, mine, after>>

-----------------------------------------------------------------------------
(* The process ends at any moment, and is started again.                   *)

\* (fault) The history need not end in a terminal state.
HistoryContinuous(end, half) == ~half

\* _existing_audit_is_valid(): by TrailIsHistory the records of a session continue
\* each other, and a session whose file had another end is quarantined and writes
\* nothing; so what is left to validate is the end of the file.
HistoryValid(end, half) == ~half /\ end \in Terminal \cup {None}

\* What the end of the process can leave of a record being written.
RecordLanding == IF late # 0 \/ \E t \in Threads : pc[t] = "appending"
                 THEN {"lost", "written", "torn"}
                 ELSE {"lost"}

\* The audit worker of the new process may fail to start, which quarantines.
Restart ==
    /\ session < MaxSessions
    /\ session' = session + 1
    /\ diedMoving' = (diedMoving \/ Moving)
    /\ \E landing \in RecordLanding, startFails \in {FALSE, WriteFails} :
          /\ earlier' = IF landing = "written" THEN history[next + 1] ELSE LastOnDisk
          /\ torn' = (torn \/ landing = "torn")
          /\ quarantined' = (quarantineFile \/ startFails \/ ~HistoryValid(earlier', torn'))
          /\ auditFailed' = startFails
    /\ quarantineFile' \in IF WriteFails THEN {quarantined', quarantineFile} ELSE {quarantined'}
    /\ trail' = <<>>
    /\ history' = <<>> /\ started' = FALSE /\ beats' = 0
    /\ pending' = {} /\ next' = 0 /\ draining' = None
    /\ accepting' = TRUE /\ late' = 0
    /\ told' = FALSE
    /\ mine' = Everywhere(0) /\ after' = Everywhere("idle") /\ pc' = Everywhere("idle")

Append_(t) == WorkerWrites(t) \/ WorkerFails(t) \/ AppendReturn(t)

Thread(t) == \/ Register(t) \/ DrainRaise(t) \/ DrainReturn(t) \/ DrainTake(t)
             \/ Append_(t)
             \/ FailRecord(t) \/ FailHalt(t)
             \/ Latch(t) \/ AppendFault(t) \/ TellMonitor(t)

Runner == Prepare \/ StartTask \/ AdapterStart \/ FirstBeat \/ Begun
Monitor == MonitorTold \/ MonitorEnded \/ MonitorPoll \/ MonitorActs
Shutdown == \/ ShutdownBegin \/ ShutdownEstop \/ ShutdownClose \/ ShutdownJoin
            \/ ShutdownRetire \/ ShutdownOver

Work == \/ \E t \in Threads : Thread(t) \/ DrainExpire(t) \/ AppendExpire(t)
        \/ \E t \in Estoppers : EstopBegin(t) \/ Estop(t) \/ EstopUnsafe(t)
        \/ \E t \in Physicals : PhysicalBegin(t) \/ PhysicalJudge(t)
        \/ \E t \in Cancellers : CancelBegin(t) \/ Cancel(t)
        \/ Runner \/ Monitor \/ Shutdown \/ Watchdog \/ LateWrite

Next == Work \/ Restart

Spec == Init /\ [][Next]_vars

\* What every thread has begun goes on; nobody has to begin anything, and no
\* deadline has to pass.
Fairness == \A t \in Threads : WF_vars(Thread(t))

LiveSpec == Spec /\ Fairness

-----------------------------------------------------------------------------
(* Properties.                                                             *)

Places == {"idle", "register", "drain", "appending", "written", "fail", "halt",
           "latch", "latched", "fault", "failed", "done", "over", "estop", "stopped",
           "judge", "armed", "start", "beat", "begun", "watch", "poll", "cancel",
           "close", "join", "retire", "retired"}

TypeOK ==
    /\ \A i \in 1..Len(trail) : trail[i] \in Events
    /\ earlier \in Events \cup {None}
    /\ next \in 0..Len(history)
    /\ pending \subseteq (next + 1)..Len(history)
    /\ draining \in Threads \cup {None}
    /\ late \in 0..Len(history)
    /\ mine \in [Threads -> 0..Len(history)]
    /\ after \in [Threads -> Places]
    /\ pc \in [Threads -> Places]
    /\ session \in 1..MaxSessions

\* Whoever drains, and whatever was given up on, this session's records are the
\* gateway's first transitions in their order, none left out and none twice.
TrailIsHistory == IsPrefix(trail, history) /\ next <= Len(trail)

\* The robot moves only after its start is on disk: run_task records it before it
\* starts the adapter.
MotionIsRecorded == Moving => "RUNNING" \in ToSet(trail)

\* A runtime started after one that died with the robot moving is never available.
RestartAfterMotionIsRefused == diedMoving => quarantined

\* A failed audit brings the robot to rest, in whichever thread it is noticed.
AuditFailureStops == auditFailed ~> ~Moving

\* No drain needs its deadline to end: the gap it waits for is closed.
DrainsReturn == \A t \in Threads : pc[t] = "drain" ~> pc[t] # "drain"
=============================================================================
