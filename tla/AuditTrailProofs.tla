--------------------------- MODULE AuditTrailProofs ---------------------------
(***************************************************************************)
(* Proofs about AuditTrail, for any threads, any number of heartbeats and  *)
(* any number of sessions: AuditInv, MotionInv and RestInv, and what       *)
(* follows from them.                                                      *)
(***************************************************************************)
EXTENDS AuditTrail, SequenceTheorems, TLAPS

-----------------------------------------------------------------------------
(* The inductive invariant.                                                *)

\* Where a thread may go on once its drain has returned.
Onwards == {"idle", "start", "armed", "begun", "watch", "over", "stopped", "latched",
            "done", "close", "join", "retire", "judge", "latch"}

TypingInv ==
    /\ trail \in Seq(Events) /\ history \in Seq(Events)
    /\ earlier \in Events \cup {None}
    /\ next \in 0..Len(history)
    /\ pending \subseteq (next + 1)..Len(history)
    /\ draining \in Threads \cup {None}
    /\ late \in Nat
    /\ mine \in [Threads -> Nat]
    /\ \A t \in Threads : mine[t] <= Len(history)
    /\ after \in [Threads -> Onwards]
    /\ pc \in [Threads -> Places]
    /\ \A t \in Threads : pc[t] = "register" => mine[t] > 0
    /\ session \in 1..MaxSessions

\* Only the owner of the drain has a record in hand, and it is the next one. The
\* records on disk are the transitions below it, and itself once it is written,
\* be it by a worker that had been given up on.
DrainInv ==
    /\ \A t \in Threads : pc[t] \in {"appending", "written"} =>
          draining = t /\ late = 0 /\ next < Len(history)
    /\ \A t \in Threads : pc[t] = "appending" => Len(trail) = next
    /\ \A t \in Threads : pc[t] = "written" => Len(trail) = next + 1
    /\ Len(trail) \in {next, next + 1} /\ Len(trail) <= Len(history)
    /\ accepting => (\E t \in Threads : pc[t] = "written") \/ Len(trail) = next
    /\ late # 0 => ~accepting /\ late = next + 1 /\ late <= Len(history) /\ Len(trail) = next
    /\ \A i \in 1..Len(trail) : trail[i] = history[i]

USE DEF vars, disk, process, motion, queue, failure, worker, control

\* The gateway's transitions only grow, and what there is of them stays.
Grown == /\ history' \in Seq(Events)
         /\ Len(history') \in Nat /\ Len(history) \in Nat
         /\ Len(history) <= Len(history')
         /\ \A i \in 1..Len(history) : history'[i] = history[i]

LEMMA AppendGrows ==
    ASSUME history \in Seq(Events), NEW e \in Events, history' = Append(history, e)
    PROVE  Grown /\ Len(history') = Len(history) + 1 /\ history'[Len(history) + 1] = e
BY AppendProperties DEF Grown

LEMMA StayGrows ==
    ASSUME history \in Seq(Events), history' = history
    PROVE  Grown
BY LenProperties DEF Grown

\* A thread's own transition.
LEMMA TransitionTyping ==
    ASSUME TypingInv, NEW t \in Threads, NEW e \in Events, NEW place \in Onwards,
           Transition(t, e, place)
    PROVE  /\ Grown
           /\ mine' \in [Threads -> Nat] /\ \A u \in Threads : mine'[u] <= Len(history')
           /\ after' \in [Threads -> Onwards]
           /\ pc' \in [Threads -> Places]
           /\ \A u \in Threads : pc'[u] = "register" => mine'[u] > 0
<1>1. Grown /\ Len(history') = Len(history) + 1
  BY AppendGrows DEF TypingInv, Transition
<1> QED
  BY <1>1 DEF TypingInv, Transition, Go, Grown, Places, Onwards

\* What is left of the typing when only the gateway and the threads have moved.
LEMMA GatewayTyping ==
    ASSUME TypingInv, Grown,
           UNCHANGED <<trail, earlier, next, pending, draining, late, session>>,
           mine' \in [Threads -> Nat], \A u \in Threads : mine'[u] <= Len(history'),
           after' \in [Threads -> Onwards], pc' \in [Threads -> Places],
           \A u \in Threads : pc'[u] = "register" => mine'[u] > 0
    PROVE  TypingInv'
BY DEF TypingInv, Grown

LEMMA StopTyping ==
    ASSUME TypingInv, NEW t \in Threads, NEW from, NEW place \in Onwards,
           StopAt(t, from, place)
    PROVE  TypingInv'
<1>1. CASE State # "ESTOPPED"
  <2>1. Transition(t, "ESTOPPED", place)
    BY <1>1 DEF StopAt
  <2> QED
    BY <2>1, TransitionTyping, GatewayTyping DEF StopAt, Events
<1>2. CASE State = "ESTOPPED"
  <2>1. Grown
    BY <1>2, StayGrows DEF StopAt, TypingInv
  <2> QED
    <3>1. /\ mine' = [mine EXCEPT ![t] = 0]
          /\ pc' = [pc EXCEPT ![t] = place]
          /\ history' = history /\ after' = after
      BY <1>2 DEF StopAt, Go
    <3>2. /\ mine' \in [Threads -> Nat] /\ \A u \in Threads : mine'[u] <= Len(history')
          /\ after' \in [Threads -> Onwards] /\ pc' \in [Threads -> Places]
          /\ \A u \in Threads : pc'[u] = "register" => mine'[u] > 0
      BY <3>1 DEF TypingInv, Places, Onwards
    <3> QED
      BY <2>1, <3>2, GatewayTyping DEF StopAt
<1> QED
  BY <1>1, <1>2

LEMMA ThreadTyping ==
    ASSUME TypingInv, DrainInv, NEW t \in Threads,
           Thread(t) \/ DrainExpire(t) \/ AppendExpire(t)
    PROVE  TypingInv'
<1>1. CASE Register(t)
  <2>1. Unrecorded(t) \subseteq (next + 1)..Len(history)
    BY <1>1 DEF TypingInv, Register, Unrecorded
  <2> QED
    BY <1>1, <2>1 DEF TypingInv, Register, Raised, Go, Places, Onwards
<1>2. CASE DrainRaise(t)
  BY <1>2 DEF TypingInv, DrainRaise, Raised, Go, Release, Places, Onwards
<1>3. CASE DrainReturn(t)
  BY <1>3 DEF TypingInv, DrainReturn, Go, Release, Places, Onwards
<1>4. CASE DrainTake(t)
  BY <1>4 DEF TypingInv, DrainTake, Go, Places
<1>5. CASE WorkerWrites(t)
  <2>1. history[next + 1] \in Events
    BY <1>5 DEF TypingInv, DrainInv, WorkerWrites
  <2>2. trail' \in Seq(Events)
    BY <1>5, <2>1, AppendProperties DEF TypingInv, WorkerWrites
  <2> QED
    BY <1>5, <2>2 DEF TypingInv, WorkerWrites, Go, Places
<1>13. CASE WorkerFails(t)
  BY <1>13 DEF TypingInv, WorkerFails, Go, Places
<1>14. CASE AppendReturn(t)
  BY <1>14 DEF TypingInv, DrainInv, AppendReturn, Go, Places
<1>6. CASE FailRecord(t)
  BY <1>6 DEF TypingInv, FailRecord, Go, Places
<1>7. CASE FailHalt(t)
  <2>1. Grown
    BY <1>7, AppendGrows, StayGrows DEF TypingInv, FailHalt, HaltRobot, Events
  <2> QED
    BY <1>7, <2>1 DEF TypingInv, Grown, FailHalt, Release, Raised, Go, Places, Onwards
<1>8. CASE Latch(t)
  BY <1>8, StopTyping DEF Latch, Onwards
<1>9. CASE AppendFault(t)
  <2>1. CASE \E i \in (next + 1)..Len(history) : /\ mine' = [mine EXCEPT ![t] = i]
                                                   /\ Go(t, "register")
    BY <1>9, <2>1 DEF TypingInv, AppendFault, Go, Places
  <2>2. CASE Go(t, after[t]) /\ UNCHANGED mine
    BY <1>9, <2>2 DEF TypingInv, AppendFault, Go, Places, Onwards
  <2> QED
    BY <1>9, <2>1, <2>2 DEF AppendFault
<1>10. CASE TellMonitor(t)
  BY <1>10 DEF TypingInv, TellMonitor, Go, Places
<1>11. CASE DrainExpire(t)
  BY <1>11 DEF TypingInv, DrainExpire, Release, Go, Places
<1>12. CASE AppendExpire(t)
  BY <1>12 DEF TypingInv, AppendExpire, Go, Places
<1> QED
  BY <1>1, <1>2, <1>3, <1>4, <1>5, <1>6, <1>7, <1>8, <1>9, <1>10, <1>11, <1>12, <1>13, <1>14 DEF Thread, Append_

\* A step that moves threads only: neither the gateway nor the audit.
LEMMA MoveTyping ==
    ASSUME TypingInv,
           UNCHANGED <<trail, earlier, next, pending, draining, late, session, history>>,
           mine' \in [Threads -> Nat], \A u \in Threads : mine'[u] <= Len(history),
           after' \in [Threads -> Onwards], pc' \in [Threads -> Places],
           \A u \in Threads : pc'[u] = "register" => mine'[u] > 0
    PROVE  TypingInv'
BY DEF TypingInv

LEMMA EstopTyping ==
    ASSUME TypingInv, NEW t \in Threads,
           EstopBegin(t) \/ Estop(t) \/ EstopUnsafe(t) \/ PhysicalBegin(t) \/ PhysicalJudge(t)
    PROVE  TypingInv'
<1>1. CASE EstopBegin(t)
  BY <1>1 DEF TypingInv, EstopBegin, Go, Places
<1>2. CASE Estop(t)
  BY <1>2, StopTyping DEF Estop, Onwards
<1>3. CASE EstopUnsafe(t)
  BY <1>3 DEF TypingInv, EstopUnsafe, Go, Places
<1>4. CASE PhysicalBegin(t)
  BY <1>4, StopTyping DEF PhysicalBegin, Onwards
<1>5. CASE PhysicalJudge(t)
  BY <1>5 DEF TypingInv, PhysicalJudge, Go, Places
<1> QED
  BY <1>1, <1>2, <1>3, <1>4, <1>5

LEMMA CancelTyping ==
    ASSUME TypingInv, NEW t \in Threads, CancelBegin(t) \/ Cancel(t)
    PROVE  TypingInv'
<1>1. CASE CancelBegin(t)
  BY <1>1 DEF TypingInv, CancelBegin, Go, Places
<1>2. CASE Cancel(t) /\ Transition(t, "STOPPED", "done")
  BY <1>2, TransitionTyping, GatewayTyping DEF Cancel, Events, Onwards
<1>3. CASE Cancel(t) /\ ~Transition(t, "STOPPED", "done")
  BY <1>3 DEF TypingInv, Cancel, Go, Places
<1> QED
  BY <1>1, <1>2, <1>3

LEMMA RunnerTyping ==
    ASSUME TypingInv, Runner
    PROVE  TypingInv'
<1>. "runner" \in Threads
  BY DEF Threads
<1>1. CASE Prepare
  BY <1>1, TransitionTyping, GatewayTyping DEF Prepare, Events, Onwards
<1>2. CASE StartTask
  BY <1>2, TransitionTyping, GatewayTyping DEF StartTask, Events, Onwards
<1>3. CASE AdapterStart
  BY <1>3 DEF TypingInv, AdapterStart, Go, Places
<1>4. CASE FirstBeat /\ Transition("runner", "RUNNING", "begun")
  BY <1>4, TransitionTyping, GatewayTyping DEF FirstBeat, Events, Onwards
<1>5. CASE FirstBeat /\ ~Transition("runner", "RUNNING", "begun")
  BY <1>5 DEF TypingInv, FirstBeat, MeetFault, Go, Places, Onwards
<1>6. CASE Begun
  <2>. "monitor" \in Threads
    BY DEF Threads
  <2> QED
    BY <1>6 DEF TypingInv, Begun, Go, Places
<1> QED
  BY <1>1, <1>2, <1>3, <1>4, <1>5, <1>6 DEF Runner

LEMMA MonitorTyping ==
    ASSUME TypingInv, Monitor
    PROVE  TypingInv'
<1>. "monitor" \in Threads
  BY DEF Threads
<1>1. CASE MonitorTold
  BY <1>1 DEF TypingInv, MonitorTold, Go, Places
<1>2. CASE MonitorEnded
  <2>1. CASE MeetFault("monitor", "over") /\ UNCHANGED mine
    BY <1>2, <2>1 DEF TypingInv, MonitorEnded, MeetFault, Go, Places, Onwards
  <2>2. CASE DrainAll("monitor", "over")
    BY <1>2, <2>2 DEF TypingInv, MonitorEnded, DrainAll, Go, Places, Onwards
  <2> QED
    BY <1>2, <2>1, <2>2 DEF MonitorEnded
<1>3. CASE MonitorPoll
  BY <1>3 DEF TypingInv, MonitorPoll, Go, Places
<1>4. CASE MonitorActs
  <2>. USE <1>4 DEF MonitorActs
  <2>1. CASE Transition("monitor", "RUNNING", "watch")
    BY <2>1, TransitionTyping, GatewayTyping DEF Events, Onwards
  <2>2. CASE Transition("monitor", "STOPPED", "over")
    BY <2>2, TransitionTyping, GatewayTyping DEF Events, Onwards
  <2>3. CASE Go("monitor", "latch") /\ UNCHANGED <<history, mine, after, beats>>
    BY <2>3 DEF TypingInv, Go, Places
  <2>4. CASE Go("monitor", "watch") /\ UNCHANGED <<history, mine, after, beats>>
    BY <2>4 DEF TypingInv, Go, Places
  <2>5. CASE MeetFault("monitor", "latch") /\ UNCHANGED <<history, mine, beats>>
    BY <2>5 DEF TypingInv, MeetFault, Go, Places, Onwards
  <2> QED
    BY <2>1, <2>2, <2>3, <2>4, <2>5
<1> QED
  BY <1>1, <1>2, <1>3, <1>4 DEF Monitor

LEMMA ShutdownTyping ==
    ASSUME TypingInv, Shutdown
    PROVE  TypingInv'
<1>. "shutdown" \in Threads
  BY DEF Threads
<1>1. CASE ShutdownBegin
  BY <1>1 DEF TypingInv, ShutdownBegin, Go, Places
<1>2. CASE ShutdownEstop
  BY <1>2, StopTyping DEF ShutdownEstop, Onwards
<1>3. CASE ShutdownClose
  <2>1. Grown
    <3>1. CASE Running
      BY <1>3, <3>1, AppendGrows DEF TypingInv, ShutdownClose, Events
    <3>2. CASE ~Running
      BY <1>3, <3>2, StayGrows DEF TypingInv, ShutdownClose
    <3> QED
      BY <3>1, <3>2
  <2>2. /\ mine' = [mine EXCEPT !["shutdown"] = 0]
        /\ after' = [after EXCEPT !["shutdown"] = "join"]
        /\ pc' = [pc EXCEPT !["shutdown"] = "drain"]
    BY <1>3 DEF ShutdownClose, DrainAll, Go
  <2>3. /\ mine' \in [Threads -> Nat] /\ \A u \in Threads : mine'[u] <= Len(history')
        /\ after' \in [Threads -> Onwards] /\ pc' \in [Threads -> Places]
        /\ \A u \in Threads : pc'[u] = "register" => mine'[u] > 0
    BY <2>1, <2>2 DEF TypingInv, Grown, Places, Onwards
  <2> QED
    BY <1>3, <2>1, <2>3, GatewayTyping DEF ShutdownClose
<1>4. CASE ShutdownJoin
  BY <1>4 DEF TypingInv, ShutdownJoin, DrainAll, Go, Places, Onwards
<1>5. CASE ShutdownRetire
  BY <1>5 DEF TypingInv, ShutdownRetire, Go, Places
<1>6. CASE ShutdownOver
  BY <1>6 DEF TypingInv, ShutdownOver, Go, Places
<1> QED
  BY <1>1, <1>2, <1>3, <1>4, <1>5, <1>6 DEF Shutdown

LEMMA WatchdogTyping ==
    ASSUME TypingInv, Watchdog
    PROVE  TypingInv'
<1>1. Grown
  BY AppendGrows DEF TypingInv, Watchdog, Events
<1> QED
  BY <1>1, GatewayTyping DEF TypingInv, Grown, Watchdog

LEMMA LateTyping ==
    ASSUME TypingInv, DrainInv, LateWrite
    PROVE  TypingInv'
<1>1. history[late] \in Events
  BY DEF TypingInv, DrainInv, LateWrite
<1>2. trail' \in Seq(Events)
  <2>1. CASE trail' = Append(trail, history[late])
    BY <1>1, <2>1, AppendProperties DEF TypingInv
  <2>2. CASE trail' = trail
    BY <2>2 DEF TypingInv
  <2> QED
    BY <2>1, <2>2 DEF LateWrite
<1> QED
  BY <1>2 DEF TypingInv, LateWrite

LEMMA RestartTyping ==
    ASSUME TypingInv, DrainInv, Restart
    PROVE  TypingInv'
<1>1. LastOnDisk \in Events \cup {None}
  BY LenProperties DEF TypingInv, LastOnDisk, Last
<1>2. earlier' \in Events \cup {None}
  <2>1. CASE earlier' = LastOnDisk
    BY <1>1, <2>1
  <2>2. CASE earlier' = history[next + 1] /\ "written" \in RecordLanding
    BY <2>2 DEF RecordLanding, TypingInv, DrainInv
  <2> QED
    BY <2>1, <2>2 DEF Restart
<1>3. trail' \in Seq(Events) /\ history' \in Seq(Events) /\ Len(history') = 0
  BY EmptySeq DEF Restart
<1>4. session' \in 1..MaxSessions
  BY TrailAssumption DEF TypingInv, Restart
<1> QED
  BY <1>2, <1>3, <1>4 DEF TypingInv, Restart, Everywhere, Places, Onwards

LEMMA NextTyping ==
    ASSUME TypingInv, DrainInv, Next
    PROVE  TypingInv'
<1>1. Cancellers \subseteq Threads /\ Estoppers \subseteq Threads /\ Physicals \subseteq Threads
  BY DEF Threads
<1> QED
  BY <1>1, ThreadTyping, EstopTyping, CancelTyping, RunnerTyping, MonitorTyping, ShutdownTyping,
     WatchdogTyping, LateTyping, RestartTyping DEF Next, Work

-----------------------------------------------------------------------------
(* The drain.                                                              *)

InHand == {"appending", "written"}

\* A step that touches neither the records nor who has one in hand.
Calm == /\ UNCHANGED <<trail, next, late>>
        /\ Grown
        /\ accepting' => accepting
        /\ \A t \in Threads : pc'[t] \in InHand \/ pc[t] \in InHand => pc'[t] = pc[t]
        /\ \A t \in Threads : pc[t] \in InHand => draining' = draining

LEMMA CalmDrain ==
    ASSUME TypingInv, DrainInv, Calm
    PROVE  DrainInv'
BY DEF TypingInv, DrainInv, Calm, Grown, InHand

\* A thread that has no record in hand moves on.
LEMMA CalmMove ==
    ASSUME TypingInv, NEW t \in Threads, pc[t] \notin InHand, NEW place, place \notin InHand,
           pc' = [pc EXCEPT ![t] = place], Grown,
           UNCHANGED <<trail, next, late>>, accepting' => accepting,
           \A u \in Threads : pc[u] \in InHand => draining' = draining
    PROVE  Calm
BY DEF Calm, TypingInv

LEMMA CalmTransition ==
    ASSUME TypingInv, NEW t \in Threads, pc[t] \notin InHand, NEW e \in Events, NEW place,
           Transition(t, e, place), UNCHANGED <<trail, next, late, accepting, draining>>
    PROVE  Calm
<1>1. Grown
  BY AppendGrows DEF TypingInv, Transition
<1> QED
  BY <1>1, CalmMove DEF Transition, Go, InHand

LEMMA CalmStop ==
    ASSUME TypingInv, NEW t \in Threads, NEW from, from \notin InHand,
           NEW place, place \notin InHand, StopAt(t, from, place)
    PROVE  Calm
<1>1. CASE State # "ESTOPPED"
  BY <1>1, CalmTransition DEF StopAt, Events
<1>2. CASE State = "ESTOPPED"
  <2>1. Grown
    BY <1>2, StayGrows DEF StopAt, TypingInv
  <2> QED
    BY <1>2, <2>1, CalmMove DEF StopAt, Go
<1> QED
  BY <1>1, <1>2

\* Giving the drain up is nothing to who has a record in hand.
LEMMA CalmRelease ==
    ASSUME DrainInv, NEW t \in Threads, pc[t] \notin InHand, Release(t)
    PROVE  \A u \in Threads : pc[u] \in InHand => draining' = draining
BY DEF DrainInv, Release, InHand

LEMMA ThreadCalm ==
    ASSUME TypingInv, DrainInv, NEW t \in Threads,
           \/ Register(t) \/ DrainRaise(t) \/ DrainReturn(t) \/ FailRecord(t) \/ FailHalt(t)
           \/ Latch(t) \/ AppendFault(t) \/ TellMonitor(t) \/ DrainExpire(t)
    PROVE  Calm
<1>1. after[t] \notin InHand
  BY DEF TypingInv, Onwards, InHand
<1>2. ASSUME Raised(t) PROVE \E place : place \notin InHand /\ pc' = [pc EXCEPT ![t] = place]
  BY <1>1, <1>2 DEF Raised, Go, InHand
<1>3. ASSUME history' = history PROVE Grown
  BY <1>3, StayGrows DEF TypingInv
<1>4. CASE Register(t)
  BY <1>1, <1>2, <1>3, <1>4, CalmMove DEF Register, Go, InHand
<1>5. CASE DrainRaise(t)
  BY <1>2, <1>3, <1>5, CalmMove, CalmRelease DEF DrainRaise, InHand
<1>6. CASE DrainReturn(t)
  BY <1>1, <1>3, <1>6, CalmMove, CalmRelease DEF DrainReturn, Go, InHand
<1>7. CASE FailRecord(t)
  BY <1>3, <1>7, CalmMove DEF FailRecord, Go, InHand
<1>8. CASE FailHalt(t)
  <2>1. Grown
    BY <1>3, <1>8, AppendGrows DEF TypingInv, FailHalt, HaltRobot, Events
  <2> QED
    BY <1>2, <2>1, <1>8, CalmMove, CalmRelease DEF FailHalt, InHand
<1>9. CASE Latch(t)
  BY <1>9, CalmStop DEF Latch, InHand
<1>10. CASE AppendFault(t)
  BY <1>1, <1>3, <1>10, CalmMove DEF AppendFault, Go, InHand
<1>11. CASE TellMonitor(t)
  BY <1>3, <1>11, CalmMove DEF TellMonitor, Go, InHand
<1>12. CASE DrainExpire(t)
  BY <1>3, <1>12, CalmMove, CalmRelease DEF DrainExpire, Go, InHand
<1> QED
  BY <1>4, <1>5, <1>6, <1>7, <1>8, <1>9, <1>10, <1>11, <1>12

LEMMA RoleCalm ==
    ASSUME TypingInv, NEW t \in Threads,
           \/ EstopBegin(t) \/ Estop(t) \/ EstopUnsafe(t) \/ PhysicalBegin(t) \/ PhysicalJudge(t)
           \/ CancelBegin(t) \/ Cancel(t)
    PROVE  Calm
<1>1. ASSUME history' = history PROVE Grown
  BY <1>1, StayGrows DEF TypingInv
<1>2. CASE EstopBegin(t)
  BY <1>1, <1>2, CalmMove DEF EstopBegin, Go, InHand
<1>3. CASE Estop(t)
  BY <1>3, CalmStop DEF Estop, InHand
<1>4. CASE EstopUnsafe(t)
  BY <1>1, <1>4, CalmMove DEF EstopUnsafe, Go, InHand
<1>5. CASE PhysicalBegin(t)
  BY <1>5, CalmStop DEF PhysicalBegin, InHand
<1>6. CASE PhysicalJudge(t)
  BY <1>1, <1>6, CalmMove DEF PhysicalJudge, Go, InHand
<1>7. CASE CancelBegin(t)
  BY <1>1, <1>7, CalmMove DEF CancelBegin, Go, InHand
<1>8. CASE Cancel(t) /\ Transition(t, "STOPPED", "done")
  BY <1>8, CalmTransition DEF Cancel, Events, InHand
<1>9. CASE Cancel(t) /\ ~Transition(t, "STOPPED", "done")
  BY <1>1, <1>9, CalmMove DEF Cancel, Go, InHand
<1> QED
  BY <1>2, <1>3, <1>4, <1>5, <1>6, <1>7, <1>8, <1>9

\* The monitor's thread is started by a runner that is done with its task.
MonitorInv == pc["runner"] = "done" \/ pc["monitor"] = "idle"

\* Whoever moves has a place to move from, and is neither a monitor that is not
\* started nor a runner that is done.
LEMMA MonitorStays ==
    ASSUME TypingInv, MonitorInv, NEW t \in Threads, NEW place,
           pc' = [pc EXCEPT ![t] = place],
           t = "monitor" => pc[t] # "idle", t = "runner" => pc[t] # "done"
    PROVE  MonitorInv'
BY DEF MonitorInv, TypingInv, Threads

LEMMA MonitorWork ==
    ASSUME TypingInv, MonitorInv, Work
    PROVE  MonitorInv'
<1>. "runner" \in Threads /\ "monitor" \in Threads /\ "shutdown" \in Threads
  BY DEF Threads
<1>1. ASSUME NEW t \in Threads, Thread(t) \/ DrainExpire(t) \/ AppendExpire(t)
      PROVE  MonitorInv'
  <2>1. \E place : pc' = [pc EXCEPT ![t] = place]
    BY <1>1 DEF Thread, Append_, Register, DrainRaise, DrainReturn, DrainTake, WorkerWrites,
                WorkerFails, AppendReturn, FailRecord, FailHalt, Latch, StopAt, Transition,
                AppendFault, TellMonitor, DrainExpire, AppendExpire, Raised, Go
  <2>2. pc[t] \notin {"idle", "done"}
    BY <1>1 DEF Thread, Append_, Register, DrainRaise, DrainReturn, DrainTake, WorkerWrites,
                WorkerFails, AppendReturn, FailRecord, FailHalt, Latch, StopAt,
                AppendFault, TellMonitor, DrainExpire, AppendExpire
  <2> QED
    BY <2>1, <2>2, MonitorStays
<1>2. ASSUME NEW t \in Cancellers \cup Estoppers \cup Physicals,
             \/ EstopBegin(t) \/ Estop(t) \/ EstopUnsafe(t)
             \/ PhysicalBegin(t) \/ PhysicalJudge(t) \/ CancelBegin(t) \/ Cancel(t)
      PROVE  MonitorInv'
  <2>1. t \in Threads /\ t \notin {"runner", "monitor"}
    BY TrailAssumption DEF Threads
  <2>2. \E place : pc' = [pc EXCEPT ![t] = place]
    BY <1>2 DEF EstopBegin, Estop, EstopUnsafe, PhysicalBegin, PhysicalJudge, CancelBegin, Cancel,
                StopAt, Transition, Go
  <2> QED
    BY <2>1, <2>2, MonitorStays
<1>3. CASE Runner
  <2>1. CASE pc' = [pc EXCEPT !["runner"] = "done", !["monitor"] = "watch"]
    BY <2>1 DEF MonitorInv, TypingInv
  <2>2. CASE \E place : pc' = [pc EXCEPT !["runner"] = place] /\ pc["runner"] # "done"
    BY <2>2, MonitorStays
  <2> QED
    BY <1>3, <2>1, <2>2 DEF Runner, Prepare, StartTask, AdapterStart, StartPlace, FirstBeat, Begun,
                            Transition, MeetFault, Go
<1>4. CASE Monitor
  <2>1. \E place : pc' = [pc EXCEPT !["monitor"] = place] /\ pc["monitor"] # "idle"
    BY <1>4 DEF Monitor, MonitorTold, MonitorEnded, MonitorPoll, MonitorActs, Watching,
                Transition, MeetFault, DrainAll, Go
  <2> QED
    BY <2>1, MonitorStays
<1>5. CASE Shutdown
  <2>1. \E place : pc' = [pc EXCEPT !["shutdown"] = place]
    BY <1>5 DEF Shutdown, ShutdownBegin, ShutdownEstop, ShutdownClose, ShutdownJoin,
                ShutdownRetire, ShutdownOver, StopAt, Transition, DrainAll, Go
  <2> QED
    BY <2>1, MonitorStays
<1>6. CASE Watchdog \/ LateWrite
  BY <1>6 DEF MonitorInv, Watchdog, LateWrite
<1> QED
  BY <1>1, <1>2, <1>3, <1>4, <1>5, <1>6 DEF Work

LEMMA RunnerCalm ==
    ASSUME TypingInv, MonitorInv, Runner
    PROVE  Calm
<1>. "runner" \in Threads
  BY DEF Threads
<1>1. ASSUME history' = history PROVE Grown
  BY <1>1, StayGrows DEF TypingInv
<1>2. CASE Prepare
  BY <1>2, CalmTransition DEF Prepare, Events, InHand
<1>3. CASE StartTask
  BY <1>3, CalmTransition DEF StartTask, Events, InHand
<1>4. CASE AdapterStart
  BY <1>1, <1>4, CalmMove DEF AdapterStart, StartPlace, Go, InHand
<1>5. CASE FirstBeat /\ Transition("runner", "RUNNING", "begun")
  BY <1>5, CalmTransition DEF FirstBeat, Events, InHand
<1>6. CASE FirstBeat /\ ~Transition("runner", "RUNNING", "begun")
  BY <1>1, <1>6, CalmMove DEF FirstBeat, MeetFault, Go, InHand
<1>7. CASE Begun
  <2>. "monitor" \in Threads
    BY DEF Threads
  <2>1. CASE pc' = [pc EXCEPT !["runner"] = "done", !["monitor"] = "watch"]
    BY <1>1, <1>7, <2>1 DEF Begun, Calm, InHand, TypingInv, MonitorInv
  <2>2. CASE Go("runner", "failed") \/ Go("runner", "latch")
    BY <1>1, <1>7, <2>2, CalmMove DEF Begun, Go, InHand
  <2> QED
    BY <1>7, <2>1, <2>2 DEF Begun
<1> QED
  BY <1>2, <1>3, <1>4, <1>5, <1>6, <1>7 DEF Runner

LEMMA MonitorCalm ==
    ASSUME TypingInv, Monitor
    PROVE  Calm
<1>. "monitor" \in Threads
  BY DEF Threads
<1>1. ASSUME history' = history PROVE Grown
  BY <1>1, StayGrows DEF TypingInv
<1>2. CASE MonitorTold
  BY <1>1, <1>2, CalmMove DEF MonitorTold, Watching, Go, InHand
<1>3. CASE MonitorEnded
  BY <1>1, <1>3, CalmMove DEF MonitorEnded, Watching, MeetFault, DrainAll, Go, InHand
<1>4. CASE MonitorPoll
  BY <1>1, <1>4, CalmMove DEF MonitorPoll, Watching, Go, InHand
<1>5. CASE MonitorActs
  <2>. USE <1>5 DEF MonitorActs, InHand
  <2>1. CASE Transition("monitor", "RUNNING", "watch")
    BY <2>1, CalmTransition DEF Events
  <2>2. CASE Transition("monitor", "STOPPED", "over")
    BY <2>2, CalmTransition DEF Events
  <2>3. CASE Go("monitor", "latch") /\ UNCHANGED history
    BY <1>1, <2>3, CalmMove DEF Go
  <2>4. CASE Go("monitor", "watch") /\ UNCHANGED history
    BY <1>1, <2>4, CalmMove DEF Go
  <2>5. CASE MeetFault("monitor", "latch") /\ UNCHANGED history
    BY <1>1, <2>5, CalmMove DEF MeetFault, Go
  <2> QED
    BY <2>1, <2>2, <2>3, <2>4, <2>5
<1> QED
  BY <1>2, <1>3, <1>4, <1>5 DEF Monitor

LEMMA ShutdownCalm ==
    ASSUME TypingInv, Shutdown
    PROVE  Calm
<1>. "shutdown" \in Threads
  BY DEF Threads
<1>1. ASSUME history' = history PROVE Grown
  BY <1>1, StayGrows DEF TypingInv
<1>2. CASE ShutdownBegin
  BY <1>1, <1>2, CalmMove DEF ShutdownBegin, Go, InHand
<1>3. CASE ShutdownEstop
  BY <1>3, CalmStop DEF ShutdownEstop, InHand
<1>4. CASE ShutdownClose
  <2>1. Grown
    BY <1>1, <1>4, AppendGrows DEF TypingInv, ShutdownClose, Events
  <2> QED
    BY <2>1, <1>4, CalmMove DEF ShutdownClose, DrainAll, Go, InHand
<1>5. CASE ShutdownJoin
  BY <1>1, <1>5, CalmMove DEF ShutdownJoin, DrainAll, Go, InHand
<1>6. CASE ShutdownRetire
  BY <1>1, <1>6, CalmMove DEF ShutdownRetire, Go, InHand
<1>7. CASE ShutdownOver
  BY <1>1, <1>7, CalmMove DEF ShutdownOver, Go, InHand
<1> QED
  BY <1>2, <1>3, <1>4, <1>5, <1>6, <1>7 DEF Shutdown

LEMMA WatchdogCalm ==
    ASSUME TypingInv, Watchdog
    PROVE  Calm
<1>1. Grown
  BY AppendGrows DEF TypingInv, Watchdog, Events
<1> QED
  BY <1>1 DEF Calm, Watchdog

\* The steps that write, hand over or give up on a record.
LEMMA RecordDrain ==
    ASSUME TypingInv, DrainInv, NEW t \in Threads,
           \/ DrainTake(t) \/ WorkerWrites(t) \/ WorkerFails(t) \/ AppendExpire(t)
           \/ AppendReturn(t)
    PROVE  DrainInv'
<1>1. CASE DrainTake(t)
  <2>1. next < Len(history)
    BY <1>1 DEF DrainTake, Drainable, TypingInv
  <2>2. \A u \in Threads : pc[u] \notin InHand
    <3>1. None \notin Threads
      BY TrailAssumption DEF Threads
    <3> QED
      BY <1>1, <3>1 DEF DrainTake, MayDrain, DrainInv, InHand
  <2> QED
    BY <1>1, <2>1, <2>2 DEF DrainTake, DrainInv, TypingInv, Go, InHand
<1>2. CASE WorkerWrites(t)
  BY <1>2 DEF WorkerWrites, DrainInv, TypingInv, Go
<1>3. CASE WorkerFails(t)
  BY <1>3 DEF WorkerFails, DrainInv, TypingInv, Go
<1>4. CASE AppendExpire(t)
  BY <1>4 DEF AppendExpire, DrainInv, TypingInv, Go
<1>5. CASE AppendReturn(t)
  BY <1>5 DEF AppendReturn, DrainInv, TypingInv, Go
<1> QED
  BY <1>1, <1>2, <1>3, <1>4, <1>5

LEMMA LateDrain ==
    ASSUME TypingInv, DrainInv, LateWrite
    PROVE  DrainInv'
<1>1. \A t \in Threads : pc[t] \notin InHand
  BY DEF LateWrite, DrainInv, InHand
<1>2. history' = history /\ next' = next /\ pc' = pc /\ accepting' = accepting /\ late' = 0
  BY DEF LateWrite
<1>3. CASE trail' = Append(trail, history[late])
  <2>1. /\ Len(trail') = next + 1
        /\ \A i \in 1..Len(trail) : trail'[i] = trail[i]
        /\ trail'[next + 1] = history[next + 1]
    BY <1>3, AppendProperties DEF LateWrite, DrainInv, TypingInv
  <2>2. Len(trail) = next /\ next + 1 <= Len(history) /\ ~accepting
        /\ next \in Nat /\ Len(history) \in Nat
    BY DEF LateWrite, DrainInv, TypingInv
  <2>3. \A i \in 1..Len(trail') : trail'[i] = history'[i]
    BY <1>2, <2>1, <2>2 DEF DrainInv
  <2>4. Len(trail') \in {next', next' + 1} /\ Len(trail') <= Len(history')
    BY <1>2, <2>1, <2>2
  <2> QED
    BY <1>1, <1>2, <2>2, <2>3, <2>4 DEF DrainInv, InHand
<1>4. CASE trail' = trail
  BY <1>1, <1>2, <1>4 DEF DrainInv, InHand
<1> QED
  BY <1>3, <1>4 DEF LateWrite

LEMMA RestartDrain ==
    ASSUME Restart
    PROVE  DrainInv'
BY DEF Restart, DrainInv, Everywhere

LEMMA NextDrain ==
    ASSUME TypingInv, DrainInv, MonitorInv, Next
    PROVE  DrainInv' /\ MonitorInv'
<1>1. Cancellers \subseteq Threads /\ Estoppers \subseteq Threads /\ Physicals \subseteq Threads
  BY DEF Threads
<1>2. CASE Work
  BY <1>1, <1>2, CalmDrain, ThreadCalm, RoleCalm, RunnerCalm, MonitorCalm, ShutdownCalm,
     WatchdogCalm, RecordDrain, LateDrain, MonitorWork DEF Work, Thread, Append_
<1>3. CASE Restart
  BY <1>3, RestartDrain DEF Restart, MonitorInv, Everywhere, Threads
<1> QED
  BY <1>2, <1>3 DEF Next

AuditInv == TypingInv /\ DrainInv /\ MonitorInv

LEMMA AuditInit ==
    ASSUME Init
    PROVE  AuditInv
<1>1. trail \in Seq(Events) /\ history \in Seq(Events) /\ Len(trail) = 0 /\ Len(history) = 0
  BY EmptySeq DEF Init
<1>2. "runner" \in Threads /\ "monitor" \in Threads
  BY DEF Threads
<1> QED
  BY <1>1, <1>2, TrailAssumption
  DEF Init, AuditInv, TypingInv, DrainInv, MonitorInv, Everywhere, Places, Onwards

LEMMA AuditStep ==
    ASSUME AuditInv, [Next]_vars
    PROVE  AuditInv'
<1>1. CASE Next
  BY <1>1, NextTyping, NextDrain DEF AuditInv
<1>2. CASE UNCHANGED vars
  BY <1>2 DEF AuditInv, TypingInv, DrainInv, MonitorInv
<1> QED
  BY <1>1, <1>2

LEMMA AuditInvariant == Spec => []AuditInv
BY AuditInit, AuditStep, PTL DEF Spec

\* Every variable of the audit's bookkeeping has its type, in particular the
\* numbers a thread, the queue and the worker hold are those of transitions made.
THEOREM TrailTyped == Spec => []TypeOK
<1>1. AuditInv => TypeOK
  BY ElementOfSeq DEF AuditInv, TypingInv, DrainInv, TypeOK, Events, Onwards, Places
<1> QED
  BY <1>1, AuditInvariant, PTL

LEMMA PrefixByElements ==
    ASSUME NEW S, NEW s \in Seq(S), NEW t \in Seq(S), Len(s) <= Len(t),
           \A i \in 1..Len(s) : s[i] = t[i]
    PROVE  IsPrefix(s, t)
<1>1. Len(s) \in 0..Len(t) /\ Len(s) \in Nat
  BY LenProperties
<1>2. /\ SubSeq(s, 1, Len(s)) \in Seq(S) /\ SubSeq(t, 1, Len(s)) \in Seq(S)
      /\ Len(SubSeq(s, 1, Len(s))) = Len(s) /\ Len(SubSeq(t, 1, Len(s))) = Len(s)
      /\ \A i \in 1..Len(s) : SubSeq(s, 1, Len(s))[i] = s[i] /\ SubSeq(t, 1, Len(s))[i] = t[i]
  BY <1>1, SubSeqProperties
<1>3. SubSeq(s, 1, Len(s)) = SubSeq(t, 1, Len(s))
  BY <1>2, SeqEqual
<1> QED
  BY <1>3 DEF IsPrefix

\* Whatever threads drain, give up or are given up on, and whenever the process
\* ends, this session's records are the gateway's first transitions in their
\* order, none left out and none twice, and none counts as recorded before it is.
THEOREM RecordsAreHistory == Spec => []TrailIsHistory
<1>1. ASSUME AuditInv PROVE TrailIsHistory
  <2>1. IsPrefix(trail, history)
    BY <1>1, PrefixByElements DEF AuditInv, TypingInv, DrainInv
  <2> QED
    BY <1>1, <2>1 DEF AuditInv, TypingInv, DrainInv, TrailIsHistory
<1> QED
  BY <1>1, AuditInvariant, PTL

-----------------------------------------------------------------------------
(* The motion of the robot.                                                *)

\* Where the runner is while the record of its start may still be missing.
StartPath == {"register", "drain", "appending", "written", "fail", "halt", "start"}

\* The runner waits for the record of its own start, and is behind it when it
\* comes to the adapter.
MotionInv ==
    /\ pc["runner"] = "fault" => after["runner"] = "latch"
    /\ after["runner"] = "start" /\ pc["runner"] \in StartPath =>
          mine["runner"] > 0 /\ history[mine["runner"]] = "RUNNING"
    /\ after["runner"] = "start" /\ pc["runner"] = "start" => mine["runner"] <= next
    /\ started => \E i \in 1..Len(trail) : trail[i] = "RUNNING"

TrailGrown == /\ Len(trail) \in Nat /\ Len(trail') \in Nat /\ Len(trail) <= Len(trail')
              /\ \A i \in 1..Len(trail) : trail'[i] = trail[i]

LEMMA WorkGrows ==
    ASSUME AuditInv, Work
    PROVE  Grown /\ TrailGrown /\ next \in Nat /\ next' \in Nat /\ next <= next'
<1>. USE DEF AuditInv
<1>1. Cancellers \subseteq Threads /\ Estoppers \subseteq Threads /\ Physicals \subseteq Threads
  BY DEF Threads
<1>2. trail \in Seq(Events) /\ history \in Seq(Events) /\ next \in Nat
  BY DEF TypingInv
<1>3. Len(trail) \in Nat
  BY <1>2
<1>4. CASE Calm
  BY <1>2, <1>3, <1>4 DEF Calm, TrailGrown
<1>5. ASSUME NEW t \in Threads, DrainTake(t) \/ WorkerFails(t) \/ AppendExpire(t)
      PROVE  Grown /\ UNCHANGED <<trail, next>>
  BY <1>2, <1>5, StayGrows DEF DrainTake, WorkerFails, AppendExpire
<1>6. ASSUME NEW t \in Threads, AppendReturn(t)
      PROVE  Grown /\ UNCHANGED trail /\ next' = next + 1
  BY <1>2, <1>6, StayGrows DEF AppendReturn
<1>7. ASSUME NEW e \in Events, trail' = Append(trail, e)
      PROVE  TrailGrown
  BY <1>2, <1>7, AppendProperties DEF TrailGrown
<1>8. ASSUME NEW t \in Threads, WorkerWrites(t)
      PROVE  Grown /\ TrailGrown /\ UNCHANGED next
  <2>1. history[next + 1] \in Events
    BY <1>8 DEF TypingInv, DrainInv, WorkerWrites
  <2> QED
    BY <1>2, <1>7, <1>8, <2>1, StayGrows DEF WorkerWrites
<1>9. CASE LateWrite
  <2>1. history[late] \in Events
    BY <1>9 DEF TypingInv, DrainInv, LateWrite
  <2>2. UNCHANGED trail => TrailGrown
    BY <1>3 DEF TrailGrown
  <2> QED
    BY <1>2, <1>7, <1>9, <2>1, <2>2, StayGrows DEF LateWrite
<1>10. UNCHANGED trail => TrailGrown
  BY <1>3 DEF TrailGrown
<1> QED
  BY <1>1, <1>2, <1>4, <1>5, <1>6, <1>8, <1>9, <1>10, ThreadCalm, RoleCalm, RunnerCalm,
     MonitorCalm, ShutdownCalm, WatchdogCalm DEF Work, Thread, Append_

LEMMA MotionFrame ==
    ASSUME AuditInv, MotionInv, Grown, TrailGrown, next' \in Nat, next <= next',
           started' = started, pc'["runner"] = pc["runner"],
           after'["runner"] = after["runner"], mine'["runner"] = mine["runner"]
    PROVE  MotionInv'
<1>1. "runner" \in Threads
  BY DEF Threads
<1>2. mine["runner"] \in 0..Len(history) /\ next \in Nat
  BY <1>1 DEF AuditInv, TypingInv
<1> QED
  BY <1>2 DEF MotionInv, Grown, TrailGrown, StartPath

\* What a step of a thread does to the places of the others.
Apart(t) == /\ \E place : pc' = [pc EXCEPT ![t] = place]
            /\ after' = after \/ \E place : after' = [after EXCEPT ![t] = place]
            /\ mine' = mine \/ \E i : mine' = [mine EXCEPT ![t] = i]

LEMMA ApartMotion ==
    ASSUME AuditInv, MotionInv, Work, NEW t \in Threads \ {"runner"}, Apart(t), started' = started
    PROVE  MotionInv'
<1>1. pc'["runner"] = pc["runner"] /\ after'["runner"] = after["runner"] /\ mine'["runner"] = mine["runner"]
  BY DEF Apart, AuditInv, TypingInv, Threads
<1> QED
  BY <1>1, WorkGrows, MotionFrame

LEMMA ThreadApart ==
    ASSUME NEW t, Thread(t) \/ DrainExpire(t) \/ AppendExpire(t)
    PROVE  Apart(t) /\ started' = started
<1>1. CASE Register(t) \/ DrainRaise(t) \/ DrainReturn(t) \/ DrainTake(t) \/ DrainExpire(t)
  BY <1>1 DEF Apart, Register, DrainRaise, DrainReturn, DrainTake, DrainExpire, Raised, Go
<1>2. CASE WorkerWrites(t) \/ WorkerFails(t) \/ AppendReturn(t) \/ AppendExpire(t) \/ FailRecord(t)
  BY <1>2 DEF Apart, WorkerWrites, WorkerFails, AppendReturn, AppendExpire, FailRecord, Go
<1>3. CASE FailHalt(t) \/ TellMonitor(t)
  BY <1>3 DEF Apart, FailHalt, TellMonitor, Raised, Go
<1>4. CASE Latch(t)
  BY <1>4 DEF Apart, Latch, StopAt, Transition, Go
<1>5. CASE AppendFault(t)
  BY <1>5 DEF Apart, AppendFault, Go
<1> QED
  BY <1>1, <1>2, <1>3, <1>4, <1>5 DEF Thread, Append_

LEMMA RoleApart ==
    ASSUME NEW t,
           \/ EstopBegin(t) \/ Estop(t) \/ EstopUnsafe(t) \/ PhysicalBegin(t) \/ PhysicalJudge(t)
           \/ CancelBegin(t) \/ Cancel(t)
    PROVE  Apart(t) /\ started' = started
BY DEF Apart, EstopBegin, Estop, EstopUnsafe, PhysicalBegin, PhysicalJudge, CancelBegin, Cancel,
       StopAt, Transition, Go

LEMMA MonitorApart ==
    ASSUME Monitor
    PROVE  Apart("monitor") /\ started' = started
BY DEF Apart, Monitor, MonitorTold, MonitorEnded, MonitorPoll, MonitorActs, MeetFault, DrainAll,
       Transition, Go

LEMMA ShutdownApart ==
    ASSUME Shutdown
    PROVE  Apart("shutdown") /\ started' = started
BY DEF Apart, Shutdown, ShutdownBegin, ShutdownEstop, ShutdownClose, ShutdownJoin, ShutdownRetire,
       ShutdownOver, StopAt, DrainAll, Transition, Go

\* The runner inside the audit: it comes back to its start only when that is
\* recorded, and never when the audit raises.
LEMMA RunnerDrains ==
    ASSUME AuditInv, MotionInv, Work,
           Thread("runner") \/ DrainExpire("runner") \/ AppendExpire("runner")
    PROVE  MotionInv'
<1>. DEFINE r == "runner"
<1>. "runner" \in Threads /\ ~RegistersOnly("runner")
  BY TrailAssumption DEF Threads, RegistersOnly
<1>1. /\ Grown /\ TrailGrown /\ next \in Nat /\ next' \in Nat /\ next <= next'
      /\ mine[r] \in 0..Len(history) /\ started' = started
  BY WorkGrows, ThreadApart DEF AuditInv, TypingInv
<1>2. started' => \E i \in 1..Len(trail') : trail'[i] = "RUNNING"
  BY <1>1 DEF MotionInv, TrailGrown
<1>3. ASSUME pc'[r] \notin StartPath \cup {"fault"} PROVE MotionInv'
  BY <1>2, <1>3 DEF MotionInv, StartPath
<1>4. ASSUME pc'[r] # "fault", after'[r] # "start" PROVE MotionInv'
  BY <1>2, <1>4 DEF MotionInv
<1>5. ASSUME UNCHANGED <<mine, after>>, pc[r] \in StartPath,
             pc'[r] \in StartPath \ {"start"}
      PROVE  MotionInv'
  BY <1>1, <1>2, <1>5 DEF MotionInv, Grown, StartPath
<1>6. ASSUME Raised(r) PROVE pc'[r] \in {"latch", "failed"}
  BY <1>6 DEF Raised, Go, AuditInv, TypingInv
<1>7. CASE Register(r)
  <2>1. Raised(r) \/ pc'[r] = "drain"
    BY <1>7 DEF Register, Go, AuditInv, TypingInv
  <2> QED
    BY <1>3, <1>5, <1>6, <1>7, <2>1 DEF Register, StartPath
<1>8. CASE DrainRaise(r)
  BY <1>3, <1>6, <1>8 DEF DrainRaise, StartPath
<1>9. CASE DrainReturn(r)
  <2>1. pc'[r] = after[r] /\ UNCHANGED <<mine, after, next, history>> /\ pc[r] = "drain"
    BY <1>9 DEF DrainReturn, Go, AuditInv, TypingInv
  <2>2. pc'[r] # "fault"
    BY <2>1 DEF AuditInv, TypingInv, Onwards
  <2>3. CASE after[r] = "start"
    <3>1. mine[r] > 0 /\ history[mine[r]] = "RUNNING"
      BY <2>1, <2>3 DEF MotionInv, StartPath
    <3>2. mine[r] <= next
      BY <1>9, <3>1 DEF DrainReturn, Drained, Recorded
    <3> QED
      BY <1>2, <2>1, <2>3, <3>1, <3>2 DEF MotionInv
  <2> QED
    BY <1>4, <2>1, <2>2, <2>3
<1>10. CASE DrainTake(r) \/ DrainExpire(r)
  <2>1. pc'[r] \in {"appending", "fail"} /\ pc[r] = "drain" /\ UNCHANGED <<mine, after>>
    BY <1>10 DEF DrainTake, DrainExpire, Go, AuditInv, TypingInv
  <2> QED
    BY <1>5, <2>1 DEF StartPath
<1>11. CASE WorkerWrites(r) \/ WorkerFails(r) \/ AppendReturn(r) \/ AppendExpire(r) \/ FailRecord(r)
  <2>1. /\ pc'[r] \in {"written", "fail", "drain", "halt"} /\ UNCHANGED <<mine, after>>
        /\ pc[r] \in {"appending", "written", "fail"}
    BY <1>11 DEF WorkerWrites, WorkerFails, AppendReturn, AppendExpire, FailRecord, Go, AuditInv, TypingInv
  <2> QED
    BY <1>5, <2>1 DEF StartPath
<1>12. CASE FailHalt(r)
  BY <1>3, <1>6, <1>12 DEF FailHalt, StartPath
<1>13. CASE Latch(r)
  <2>1. CASE State # "ESTOPPED"
    <3>1. pc'[r] = "register" /\ after'[r] = "latched"
      BY <1>13, <2>1 DEF Latch, StopAt, Transition, Go, AuditInv, TypingInv
    <3> QED
      BY <1>4, <3>1
  <2>2. CASE State = "ESTOPPED"
    <3>1. pc'[r] = "latched"
      BY <1>13, <2>2 DEF Latch, StopAt, Go, AuditInv, TypingInv
    <3> QED
      BY <1>3, <3>1 DEF StartPath
  <2> QED
    BY <2>1, <2>2
<1>14. CASE AppendFault(r)
  <2>1. after[r] = "latch" /\ after' = after
    BY <1>14 DEF AppendFault, MotionInv
  <2>2. pc'[r] \in {"register", "latch"}
    BY <1>14, <2>1 DEF AppendFault, Go, AuditInv, TypingInv
  <2> QED
    BY <1>4, <2>1, <2>2
<1>15. CASE TellMonitor(r)
  <2>1. pc'[r] \in {"done", "failed"}
    BY <1>15 DEF TellMonitor, Go, AuditInv, TypingInv
  <2> QED
    BY <1>3, <2>1 DEF StartPath
<1> QED
  BY <1>7, <1>8, <1>9, <1>10, <1>11, <1>12, <1>13, <1>14, <1>15 DEF Thread, Append_

LEMMA RunnerMotion ==
    ASSUME AuditInv, MotionInv, Work, Runner
    PROVE  MotionInv'
<1>. DEFINE r == "runner"
<1>. "runner" \in Threads
  BY DEF Threads
<1>1. Grown /\ TrailGrown /\ mine[r] \in 0..Len(history) /\ next \in 0..Len(history)
  BY WorkGrows DEF AuditInv, TypingInv
<1>2. started => \E i \in 1..Len(trail') : trail'[i] = "RUNNING"
  BY <1>1 DEF MotionInv, TrailGrown
<1>3. ASSUME NEW e, NEW place, Transition(r, e, place)
      PROVE  pc'[r] = "register" /\ after'[r] = place /\ mine'[r] = Len(history) + 1
  BY <1>3 DEF Transition, Go, AuditInv, TypingInv
<1>4. CASE Prepare
  BY <1>2, <1>3, <1>4 DEF Prepare, MotionInv
<1>5. CASE StartTask
  <2>1. history'[Len(history) + 1] = "RUNNING" /\ Len(history) + 1 > 0
    BY <1>1, <1>5, AppendGrows DEF StartTask, Transition, Events, AuditInv, TypingInv
  <2> QED
    BY <1>2, <1>3, <1>5, <2>1 DEF StartTask, MotionInv
<1>6. CASE AdapterStart
  <2>1. pc'[r] \in {"beat", "latch"}
    BY <1>6 DEF AdapterStart, Go, AuditInv, TypingInv
  <2>2. /\ mine[r] \in 1..Len(trail) /\ history[mine[r]] = "RUNNING"
    BY <1>1, <1>6 DEF AdapterStart, StartPlace, MotionInv, StartPath, AuditInv, DrainInv
  <2>3. trail[mine[r]] = "RUNNING" /\ trail' = trail
    BY <1>6, <2>2 DEF AdapterStart, AuditInv, DrainInv
  <2> QED
    BY <2>1, <2>2, <2>3 DEF MotionInv, StartPath
<1>7. CASE FirstBeat
  <2>1. \/ pc'[r] = "register" /\ after'[r] = "begun"
        \/ pc'[r] = "latch"
        \/ pc'[r] = "fault" /\ after'[r] = "latch"
    BY <1>3, <1>7 DEF FirstBeat, MeetFault, Go, AuditInv, TypingInv
  <2> QED
    BY <1>2, <1>7, <2>1 DEF FirstBeat, MotionInv, StartPath
<1>8. CASE Begun
  <2>1. pc'[r] \in {"done", "failed", "latch"}
    BY <1>8 DEF Begun, Go, AuditInv, TypingInv, Threads
  <2> QED
    BY <1>2, <1>8, <2>1 DEF Begun, MotionInv, StartPath
<1> QED
  BY <1>4, <1>5, <1>6, <1>7, <1>8 DEF Runner

LEMMA MotionStep ==
    ASSUME AuditInv, MotionInv, [Next]_vars
    PROVE  MotionInv'
<1>1. CASE Work
  <2>1. ASSUME NEW t \in Threads, Thread(t) \/ DrainExpire(t) \/ AppendExpire(t) PROVE MotionInv'
    BY <1>1, <2>1, RunnerDrains, ThreadApart, ApartMotion
  <2>2. ASSUME NEW t \in Cancellers \cup Estoppers \cup Physicals,
               \/ EstopBegin(t) \/ Estop(t) \/ EstopUnsafe(t)
               \/ PhysicalBegin(t) \/ PhysicalJudge(t) \/ CancelBegin(t) \/ Cancel(t)
        PROVE  MotionInv'
    <3>1. t \in Threads \ {"runner"}
      BY TrailAssumption DEF Threads
    <3> QED
      BY <1>1, <2>2, <3>1, RoleApart, ApartMotion
  <2>3. ASSUME Monitor PROVE MotionInv'
    <3>1. "monitor" \in Threads \ {"runner"}
      BY DEF Threads
    <3> QED
      BY <1>1, <2>3, <3>1, MonitorApart, ApartMotion
  <2>4. ASSUME Shutdown PROVE MotionInv'
    <3>1. "shutdown" \in Threads \ {"runner"}
      BY DEF Threads
    <3> QED
      BY <1>1, <2>4, <3>1, ShutdownApart, ApartMotion
  <2>5. ASSUME Watchdog \/ LateWrite PROVE MotionInv'
    BY <1>1, <2>5, WorkGrows, MotionFrame DEF Watchdog, LateWrite
  <2> QED
    BY <1>1, <2>1, <2>2, <2>3, <2>4, <2>5, RunnerMotion DEF Work
<1>2. CASE Restart
  <2>1. "runner" \in Threads
    BY DEF Threads
  <2> QED
    BY <1>2, <2>1 DEF Restart, MotionInv, Everywhere, StartPath
<1>3. CASE UNCHANGED vars
  BY <1>3 DEF MotionInv
<1> QED
  BY <1>1, <1>2, <1>3 DEF Next

LEMMA MotionInvariant == Spec => []MotionInv
<1>1. Init => MotionInv
  <2>1. "runner" \in Threads
    BY DEF Threads
  <2> QED
    BY <2>1 DEF Init, MotionInv, Everywhere, StartPath
<1> QED
  BY <1>1, MotionStep, AuditInvariant, PTL DEF Spec

\* The robot never moves before the start of its task is on disk.
THEOREM MotionOnDisk == Spec => []MotionIsRecorded
<1>1. ASSUME AuditInv, MotionInv PROVE MotionIsRecorded
  BY <1>1 DEF AuditInv, TypingInv, MotionInv, MotionIsRecorded, Moving, ToSet
<1> QED
  BY <1>1, AuditInvariant, MotionInvariant, PTL

-----------------------------------------------------------------------------
(* What a restarted runtime finds.                                         *)

UnderWay == {"ARMED", "RUNNING"}

\* A run that is on has never been off.
HistoryInv ==
    history # <<>> /\ Last(history) \in UnderWay => \A i \in 1..Len(history) : history[i] \in UnderWay

\* The file does not end at rest.
BadEnd == torn \/ earlier \notin Terminal \cup {None}

\* A session in which nothing is discovered, so nothing ever moves: there is only
\* the shutdown, which finds nothing to record.
Cold ==
    /\ history = <<>> /\ draining = None
    /\ \A t \in Threads \ {"shutdown"} : pc[t] = "idle"
    /\ pc["shutdown"] \in {"idle", "close", "drain", "join", "retire", "retired", "over"}
    /\ pc["shutdown"] = "drain" => mine["shutdown"] = 0 /\ after["shutdown"] \in {"join", "retire"}

\* Who starts on a file that does not end at rest is quarantined and stays so, and
\* leaves the file as it is for the next one.
RestInv ==
    /\ HistoryInv
    /\ BadEnd => quarantined /\ Cold
    /\ diedMoving => BadEnd

HistoryMoves ==
    \/ history' = history
    \/ history = <<>> /\ history' = Append(history, "ARMED")
    \/ history # <<>> /\ Last(history) \in UnderWay /\ history' = Append(history, "RUNNING")
    \/ \E e \in Events \ UnderWay : history' = Append(history, e)

LEMMA StateIs ==
    ASSUME TypingInv
    PROVE  /\ State = "NEW" => history = <<>>
           /\ State \in UnderWay => history # <<>> /\ Last(history) = State
<1>1. CASE history = <<>>
  BY <1>1 DEF State, UnderWay
<1>2. CASE history # <<>>
  <2>1. Last(history) \in Events
    BY <1>2 DEF TypingInv, Last
  <2> QED
    BY <1>2, <2>1 DEF State, Events, UnderWay
<1> QED
  BY <1>1, <1>2

LEMMA WorkHistory ==
    ASSUME TypingInv, Work
    PROVE  HistoryMoves
<1>. USE DEF HistoryMoves, Events, UnderWay
<1>1. ASSUME NEW t, Thread(t) \/ DrainExpire(t) \/ AppendExpire(t) PROVE HistoryMoves
  BY <1>1 DEF Thread, Append_, Register, DrainRaise, DrainReturn, DrainTake, WorkerWrites,
              WorkerFails, AppendReturn, FailRecord, FailHalt, HaltRobot, Latch, StopAt, Transition,
              AppendFault, TellMonitor, DrainExpire, AppendExpire
<1>2. ASSUME NEW t,
             \/ EstopBegin(t) \/ Estop(t) \/ EstopUnsafe(t)
             \/ PhysicalBegin(t) \/ PhysicalJudge(t) \/ CancelBegin(t) \/ Cancel(t)
      PROVE  HistoryMoves
  BY <1>2 DEF EstopBegin, Estop, EstopUnsafe, PhysicalBegin, PhysicalJudge, CancelBegin, Cancel,
              StopAt, Transition
<1>3. CASE Runner
  BY <1>3, StateIs DEF Runner, Prepare, StartTask, AdapterStart, FirstBeat, Begun, Running, Transition
<1>4. CASE Monitor
  BY <1>4, StateIs DEF Monitor, MonitorTold, MonitorEnded, MonitorPoll, MonitorActs, Running, Transition
<1>5. CASE Shutdown
  BY <1>5 DEF Shutdown, ShutdownBegin, ShutdownEstop, ShutdownClose, ShutdownJoin, ShutdownRetire,
              ShutdownOver, StopAt, Transition
<1>6. CASE Watchdog \/ LateWrite
  BY <1>6 DEF Watchdog, LateWrite
<1> QED
  BY <1>1, <1>2, <1>3, <1>4, <1>5, <1>6 DEF Work

LEMMA HistoryStep ==
    ASSUME TypingInv, HistoryInv, HistoryMoves
    PROVE  HistoryInv'
<1>1. history \in Seq(Events)
  BY DEF TypingInv
<1>2. CASE history' = history
  BY <1>2 DEF HistoryInv
<1>3. ASSUME NEW e \in Events, history' = Append(history, e),
             e \in UnderWay => \A i \in 1..Len(history) : history[i] \in UnderWay
      PROVE  HistoryInv'
  <2>1. /\ Len(history') = Len(history) + 1 /\ Len(history) \in Nat
        /\ \A i \in 1..Len(history) : history'[i] = history[i]
        /\ history'[Len(history) + 1] = e
    BY <1>1, <1>3, AppendProperties
  <2> QED
    BY <1>3, <2>1 DEF HistoryInv, Last
<1>4. CASE history = <<>> /\ history' = Append(history, "ARMED")
  BY <1>3, <1>4 DEF Events
<1>5. CASE history # <<>> /\ Last(history) \in UnderWay /\ history' = Append(history, "RUNNING")
  BY <1>3, <1>5 DEF HistoryInv, Events
<1>6. CASE \E e \in Events \ UnderWay : history' = Append(history, e)
  BY <1>3, <1>6
<1> QED
  BY <1>2, <1>4, <1>5, <1>6 DEF HistoryMoves

\* Within a session a quarantine is never lifted, and what the sessions before
\* have left on disk is not touched.
LEMMA WorkKeeps ==
    ASSUME TypingInv, Work
    PROVE  /\ UNCHANGED <<earlier, torn, diedMoving>>
           /\ quarantined => quarantined'
<1>1. ASSUME NEW t, Thread(t) \/ DrainExpire(t) \/ AppendExpire(t)
      PROVE  UNCHANGED <<earlier, torn, diedMoving>> /\ (quarantined => quarantined')
  <2>1. CASE FailRecord(t)
    BY <2>1 DEF FailRecord
  <2>2. CASE ~FailRecord(t)
    <3>1. UNCHANGED <<earlier, torn, diedMoving, quarantined>>
      BY <1>1, <2>2 DEF Thread, Append_, Register, DrainRaise, DrainReturn, DrainTake, WorkerWrites,
              WorkerFails, AppendReturn, FailHalt, Latch, StopAt,
              AppendFault, TellMonitor, DrainExpire, AppendExpire
    <3> QED
      BY <3>1
  <2> QED
    BY <2>1, <2>2
<1>2. ASSUME NEW t,
             \/ EstopBegin(t) \/ Estop(t) \/ EstopUnsafe(t)
             \/ PhysicalBegin(t) \/ PhysicalJudge(t) \/ CancelBegin(t) \/ Cancel(t)
      PROVE  UNCHANGED <<earlier, torn, diedMoving>> /\ (quarantined => quarantined')
  <2>1. CASE PhysicalJudge(t)
    <3>1. UNCHANGED <<earlier, torn, diedMoving>>
      BY <2>1 DEF PhysicalJudge
    <3>2. CASE quarantined' = TRUE
      BY <3>1, <3>2
    <3>3. CASE quarantined' = quarantined
      BY <3>1, <3>3
    <3> QED
      BY <2>1, <3>2, <3>3 DEF PhysicalJudge
  <2>2. CASE ~PhysicalJudge(t)
    <3>1. UNCHANGED <<earlier, torn, diedMoving, quarantined>>
      BY <1>2, <2>2 DEF EstopBegin, Estop, EstopUnsafe, PhysicalBegin, CancelBegin, Cancel, StopAt
    <3> QED
      BY <3>1
  <2> QED
    BY <2>1, <2>2
<1>3. CASE Runner \/ Monitor
  BY <1>3 DEF Runner, Prepare, StartTask, AdapterStart, FirstBeat, Begun,
              Monitor, MonitorTold, MonitorEnded, MonitorPoll, MonitorActs
<1>4. CASE Shutdown \/ Watchdog \/ LateWrite
  BY <1>4 DEF Shutdown, ShutdownBegin, ShutdownEstop, ShutdownClose, ShutdownJoin, ShutdownRetire,
              ShutdownOver, StopAt, Watchdog, LateWrite
<1> QED
  BY <1>1, <1>2, <1>3, <1>4 DEF Work

LEMMA ColdWork ==
    ASSUME AuditInv, quarantined, Cold, Work
    PROVE  Cold'
<1>. DEFINE s == "shutdown"
<1>. s \in Threads /\ "runner" \in Threads /\ "monitor" \in Threads
  BY DEF Threads
<1>1. Len(history) = 0 /\ State = "NEW" /\ ~Running /\ ~Available
  BY DEF Cold, State, Running, Available
<1>2. late = 0 /\ next = 0 /\ pending = {} /\ ~Drainable
  BY <1>1 DEF AuditInv, TypingInv, DrainInv, Drainable
<1>3. ASSUME NEW place \in {"close", "drain", "join", "retire", "retired", "over"},
             pc' = [pc EXCEPT ![s] = place], UNCHANGED <<history, draining>>,
             place = "drain" => mine'[s] = 0 /\ after'[s] \in {"join", "retire"}
      PROVE  Cold'
  BY <1>3 DEF Cold, AuditInv, TypingInv
<1>4. ASSUME NEW t \in Threads, Thread(t) \/ DrainExpire(t) \/ AppendExpire(t)
      PROVE  Cold'
  <2>1. t = s /\ pc[s] = "drain"
    BY <1>4 DEF Cold, Thread, Append_, Register, DrainRaise, DrainReturn, DrainTake, WorkerWrites,
                WorkerFails, AppendReturn, FailRecord, FailHalt, Latch, StopAt,
                AppendFault, TellMonitor, DrainExpire, AppendExpire
  <2>2. Drained(s)
    BY <1>2, <2>1 DEF Cold, Drained, MayDrain
  <2>3. DrainRaise(s) \/ DrainReturn(s)
    BY <1>4, <2>1, <2>2 DEF Thread, Append_, Register, DrainTake, WorkerWrites,
                WorkerFails, AppendReturn, FailRecord, FailHalt, Latch, StopAt,
                AppendFault, TellMonitor, DrainExpire, AppendExpire
  <2>4. after[s] \in {"join", "retire"}
    BY <2>1 DEF Cold
  <2>5. pc' = [pc EXCEPT ![s] = after[s]] /\ UNCHANGED <<history, draining>>
    BY <2>3, <2>4 DEF DrainRaise, DrainReturn, Raised, Go, Release, Cold
  <2> QED
    BY <1>3, <2>4, <2>5
<1>5. ASSUME NEW t \in Cancellers \cup Estoppers \cup Physicals,
             \/ EstopBegin(t) \/ Estop(t) \/ EstopUnsafe(t)
             \/ PhysicalBegin(t) \/ PhysicalJudge(t) \/ CancelBegin(t) \/ Cancel(t)
      PROVE  FALSE
  <2>1. t \in Threads \ {s}
    BY TrailAssumption DEF Threads
  <2>2. pc[t] = "idle"
    BY <2>1 DEF Cold
  <2> QED
    BY <1>1, <1>5, <2>2 DEF EstopBegin, Estop, EstopUnsafe, PhysicalBegin, PhysicalJudge, CancelBegin,
                            Cancel, StopAt
<1>6. ~Runner
  BY <1>1 DEF Cold, Runner, Prepare, StartTask, AdapterStart, StartPlace, FirstBeat, Begun
<1>7. ~Monitor
  BY DEF Cold, Monitor, MonitorTold, MonitorEnded, MonitorPoll, MonitorActs, Watching
<1>8. ASSUME Shutdown PROVE Cold'
  <2>1. CASE ShutdownBegin
    BY <1>1, <1>3, <2>1 DEF ShutdownBegin, Go
  <2>2. CASE ShutdownEstop
    BY <2>2 DEF ShutdownEstop, StopAt, Cold
  <2>3. CASE ShutdownClose \/ ShutdownJoin
    <3>1. /\ pc' = [pc EXCEPT ![s] = "drain"] /\ UNCHANGED <<history, draining>>
          /\ mine'[s] = 0 /\ after'[s] \in {"join", "retire"}
      BY <1>1, <2>3 DEF ShutdownClose, ShutdownJoin, DrainAll, Go, AuditInv, TypingInv
    <3> QED
      BY <1>3, <3>1
  <2>4. CASE ShutdownRetire
    BY <1>3, <2>4 DEF ShutdownRetire, Go
  <2>5. CASE ShutdownOver
    BY <1>3, <2>5 DEF ShutdownOver, Go
  <2> QED
    BY <1>8, <2>1, <2>2, <2>3, <2>4, <2>5 DEF Shutdown
<1>9. ~Watchdog /\ ~LateWrite
  BY <1>1, <1>2 DEF Watchdog, LateWrite
<1> QED
  BY <1>4, <1>5, <1>6, <1>7, <1>8, <1>9 DEF Work

LEMMA ColdRestart ==
    ASSUME Restart
    PROVE  Cold'
<1>. "shutdown" \in Threads
  BY DEF Threads
<1> QED
  BY DEF Restart, Cold, Everywhere

\* What a session leaves on disk that ends with the robot moving is a file that
\* does not end at rest.
LEMMA MovingLeavesBadEnd ==
    ASSUME AuditInv, MotionInv, HistoryInv, Restart, Moving
    PROVE  BadEnd'
<1>1. \A i \in 1..Len(history) : history[i] \in UnderWay
  BY StateIs DEF AuditInv, HistoryInv, Moving, Running, UnderWay
<1>2. CASE earlier' = LastOnDisk
  <2>1. trail # <<>> /\ Len(trail) \in 1..Len(history)
    BY DEF MotionInv, Moving, AuditInv, TypingInv, DrainInv
  <2>2. Last(trail) = history[Len(trail)]
    BY <2>1 DEF Last, AuditInv, DrainInv
  <2>3. earlier' \in UnderWay
    BY <1>1, <1>2, <2>1, <2>2 DEF LastOnDisk
  <2> QED
    BY <2>3, TrailAssumption DEF BadEnd, Terminal, UnderWay, Events
<1>3. CASE earlier' = history[next + 1] /\ RecordLanding # {"lost"}
  <2>1. next + 1 \in 1..Len(history)
    BY <1>3 DEF RecordLanding, AuditInv, TypingInv, DrainInv
  <2> QED
    BY <1>1, <1>3, <2>1, TrailAssumption DEF BadEnd, Terminal, UnderWay, Events
<1> QED
  BY <1>2, <1>3 DEF Restart

\* A session that was quarantined from its start leaves the file as it was.
LEMMA ColdLeavesBadEnd ==
    ASSUME AuditInv, Cold, BadEnd, Restart
    PROVE  BadEnd'
<1>1. Len(history) = 0
  BY DEF Cold
<1>2. RecordLanding = {"lost"}
  <2>1. late = 0
    BY <1>1 DEF AuditInv, TypingInv, DrainInv
  <2>2. \A t \in Threads : pc[t] # "appending"
    BY <1>1 DEF AuditInv, TypingInv, DrainInv
  <2> QED
    BY <2>1, <2>2 DEF RecordLanding
<1>3. LastOnDisk = earlier
  BY <1>1 DEF LastOnDisk, AuditInv, TypingInv, DrainInv
<1> QED
  BY <1>2, <1>3 DEF Restart, BadEnd

LEMMA RestStep ==
    ASSUME AuditInv, MotionInv, RestInv, [Next]_vars
    PROVE  RestInv'
<1>1. CASE Work
  BY <1>1, WorkHistory, HistoryStep, WorkKeeps, ColdWork DEF RestInv, AuditInv, BadEnd
<1>2. CASE Restart
  <2>1. HistoryInv'
    BY <1>2 DEF Restart, HistoryInv
  <2>2. BadEnd' => quarantined'
    BY <1>2 DEF Restart, BadEnd, HistoryValid
  <2>3. diedMoving' => BadEnd'
    BY <1>2, MovingLeavesBadEnd, ColdLeavesBadEnd DEF RestInv, Restart
  <2> QED
    BY <1>2, <2>1, <2>2, <2>3, ColdRestart DEF RestInv
<1>3. CASE UNCHANGED vars
  BY <1>3 DEF RestInv, HistoryInv, BadEnd, Cold
<1> QED
  BY <1>1, <1>2, <1>3 DEF Next

LEMMA RestInvariant == Spec => []RestInv
<1>1. Init => RestInv
  BY DEF Init, RestInv, HistoryInv, BadEnd
<1> QED
  BY <1>1, RestStep, AuditInvariant, MotionInvariant, PTL DEF Spec

\* However often the runtime is started again, and whatever failed to be written,
\* the quarantine file included: after a session that died with the robot moving
\* none is available.
THEOREM MotionIsQuarantined == Spec => []RestartAfterMotionIsRefused
<1>1. RestInv => RestartAfterMotionIsRefused
  BY DEF RestInv, RestartAfterMotionIsRefused
<1> QED
  BY <1>1, RestInvariant, PTL

\* A session writes records only behind a whole record that leads to rest: so the
\* end of the file is all there is to validate of the sessions before.
SessionsJoinAtRest == trail # <<>> => ~torn /\ earlier \in Terminal \cup {None}

THEOREM SessionsJoin == Spec => []SessionsJoinAtRest
<1>1. ASSUME AuditInv, RestInv PROVE SessionsJoinAtRest
  BY <1>1 DEF AuditInv, TypingInv, DrainInv, RestInv, BadEnd, Cold, SessionsJoinAtRest
<1> QED
  BY <1>1, AuditInvariant, RestInvariant, PTL

=============================================================================
