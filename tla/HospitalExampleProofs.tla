------------------------ MODULE HospitalExampleProofs ------------------------
(***************************************************************************)
(* Proofs about the two sides of the hospital example's mission.           *)
(*                                                                         *)
(* MissionController, for every route, every limit and every length of the *)
(* burst: a stop is published whole before motion is published again.      *)
(* What makes it inductive is the account of the burst: the zero commands  *)
(* published since the stop and those still owed add up to a burst,        *)
(* whatever the operator does between them.  And the mission reports where *)
(* the robot has been: a tick passes any number of waypoints at once, so   *)
(* what is needed first is that there is a next one.                       *)
(*                                                                         *)
(* HospitalLifecycle, whether calls fail or time out or not: what a stop   *)
(* holds, a cancelled start leaves and a shutdown without an error leaves. *)
(* It rests on Still: the mission is stopped or there is none, the latch   *)
(* is set and no launch is being made.  Whoever is told that all is        *)
(* stopped is told so in such a state, and no step leaves it.              *)
(***************************************************************************)
EXTENDS HospitalLifecycle, MissionController, SequenceTheorems, WellFoundedInduction, TLAPS

-----------------------------------------------------------------------------
(* The burst of zero commands.                                             *)

\* The zero commands published and those owed make a burst.
BurstIsOwed == /\ odomAge \in Nat
               /\ burst \in 0..ZeroBurst
               /\ zeros \in 0..ZeroBurst
               /\ zeros + burst >= ZeroBurst

LEMMA BurstInit == MissionInit => BurstIsOwed
BY LimitAssumption DEF MissionInit, BurstIsOwed

\* What a tick publishes, while the burst is owed and after it.
LEMMA PublishStep ==
    ASSUME BurstIsOwed, NEW moves \in BOOLEAN, Publish(moves), UNCHANGED odomAge
    PROVE  /\ BurstIsOwed'
           /\ cmd' = "moving" /\ state' \notin TerminalStates => moves /\ zeros = ZeroBurst
<1> DEFINE left == IF state' \in TerminalStates /\ lastState \notin TerminalStates
                   THEN ZeroBurst ELSE burst
<1>1. /\ ZeroBurst \in Nat /\ left \in Nat /\ left <= ZeroBurst /\ zeros \in Nat
      /\ zeros <= ZeroBurst
      /\ zeros + left >= ZeroBurst
      BY LimitAssumption DEF BurstIsOwed
<1>2. /\ burst' = IF left > 0 THEN left - 1 ELSE 0
      /\ cmd' = IF moves /\ left = 0 THEN "moving" ELSE "zero"
      /\ zeros' = IF cmd' = "zero" /\ zeros < ZeroBurst THEN zeros + 1 ELSE zeros
      BY DEF Publish
<1> HIDE DEF left
<1>3. zeros' \in 0..ZeroBurst /\ burst' \in 0..ZeroBurst /\ zeros' + burst' >= ZeroBurst
  <2>1. CASE left = 0
        BY <1>1, <1>2, <2>1 DEF BurstIsOwed
  <2>2. CASE left > 0
    <3>1. cmd' = "zero" /\ burst' = left - 1
          BY <1>1, <1>2, <2>2
    <3> QED BY <1>1, <1>2, <2>2, <3>1 DEF BurstIsOwed
  <2> QED BY <1>1, <2>1, <2>2
<1>4. ASSUME cmd' = "moving", state' \notin TerminalStates
      PROVE  moves /\ zeros = ZeroBurst
  <2>1. moves /\ left = 0
        BY <1>2, <1>4
  <2> QED BY <1>1, <2>1
<1> QED BY <1>3, <1>4 DEF BurstIsOwed

\* The burst stays owed, and what moves has paid it on fresh odometry.
LEMMA TickStep ==
    ASSUME BurstIsOwed, Tick
    PROVE  /\ BurstIsOwed'
           /\ cmd' = "moving" => zeros = ZeroBurst /\ odomAge <= OdomTimeout
<1>1. ASSUME TickTail(FALSE)
      PROVE  BurstIsOwed' /\ cmd' = "zero"
    BY <1>1, PublishStep DEF TickTail, Publish, inputs
<1>2. CASE TickDrives
  <2>1. Publish(TRUE) /\ state' = "RUNNING" /\ Failure = Unset
        BY <1>2 DEF TickDrives, TickTail, Going, Drive
  <2>3. UNCHANGED odomAge
        BY <1>2 DEF TickDrives, TickTail, inputs
  <2>2. odomAge <= OdomTimeout
        BY <2>1, UnsetAssumption, LimitAssumption DEF Failure, Failures, BurstIsOwed
  <2> QED BY <2>1, <2>2, <2>3, PublishStep DEF TerminalStates, States
<1> QED BY <1>1, <1>2 DEF Tick, TickIdle, TickFails, TickBlocked, TickArrives

\* The services, the subscriptions and the clocks keep what is owed, or owe a
\* whole burst.
LEMMA OtherStep ==
    ASSUME BurstIsOwed,
           \/ Start \/ Cancel \/ Estop \/ Reset \/ OnOdom \/ OnScan
           \/ SimTime \/ WallTime \/ Close \/ UNCHANGED missionVars
    PROVE  BurstIsOwed' /\ ~(due /\ ~due')
<1>1. CASE Start
    BY <1>1 DEF Start, BurstIsOwed, inputs
<1>2. CASE Cancel \/ Estop \/ Reset
    BY <1>2, LimitAssumption DEF Cancel, Estop, Reset, BurstIsOwed, inputs
<1>3. CASE OnOdom \/ OnScan
    BY <1>3 DEF OnOdom, OnScan, BurstIsOwed, history
<1>4. CASE SimTime \/ WallTime
    BY <1>4 DEF SimTime, WallTime, BurstIsOwed, history, inputs
<1>5. CASE Close \/ UNCHANGED missionVars
    BY <1>5 DEF Close, BurstIsOwed, missionVars, history, inputs
<1> QED BY <1>1, <1>2, <1>3, <1>4, <1>5

\* For every route, every limit and every length of the burst, a tick publishes
\* motion only after a whole burst of zero commands since the last accepted
\* cancel, emergency stop or reset, and on odometry within its limit.
THEOREM MissionStopBeforeMotion == MissionSpec => StopBeforeMotion
<1> DEFINE Paid == due /\ ~due' /\ cmd' = "moving" => zeros = ZeroBurst /\ odomAge <= OdomTimeout
<1>1. BurstIsOwed /\ [MissionNext]_missionVars => BurstIsOwed' /\ Paid
  <2> SUFFICES ASSUME BurstIsOwed, [MissionNext]_missionVars
               PROVE  BurstIsOwed' /\ Paid
      OBVIOUS
  <2>1. CASE Tick
        BY <2>1, TickStep
  <2>2. CASE ~Tick
        BY <2>2, OtherStep DEF MissionNext, Tick
  <2> QED BY <2>1, <2>2
<1>2. BurstIsOwed /\ [MissionNext]_missionVars => BurstIsOwed' /\ [Paid]_missionVars
      BY <1>1
<1> QED BY <1>2, BurstInit, PTL DEF MissionSpec, StopBeforeMotion

-----------------------------------------------------------------------------
(* The route.                                                              *)

LEMMA DivMonotone ==
    ASSUME NEW a \in Nat, NEW b \in Nat, NEW d \in Nat \ {0}, a <= b
    PROVE  a \div d \in Nat /\ b \div d \in Nat /\ a \div d <= b \div d
BY SMTT(30)

LEMMA Smallest ==
    ASSUME NEW S \in SUBSET Nat, S # {}
    PROVE  \E m \in S : \A k \in S : m <= k
<1> DEFINE R == OpToRel(<, Nat)
<1>1. \E m \in S : \A k \in S : ~ (<<k, m>> \in R)
  <2>1. IsWellFoundedOn(R, Nat)
    BY NatLessThanWellFounded
  <2> HIDE DEF R
  <2> QED
    BY <2>1, WFMin
<1>2. \A k, m \in Nat : k < m => <<k, m>> \in R
  BY DEF OpToRel
<1> HIDE DEF R
<1>3. PICK m \in S : \A k \in S : ~ (<<k, m>> \in R)
  BY <1>1
<1>4. \A k \in S : ~(k < m)
  BY <1>2, <1>3
<1> QED
  BY <1>4

\* There is a first waypoint, and the end is behind the last.
LEMMA Route == Waypoints = 1..(End - 1) /\ End \in Nat /\ End > 1
<1>1. Stages * WaypointsPerStage \in Nat /\ Stages * WaypointsPerStage > 0
  BY RouteAssumption, SMTT(30)
<1> QED
  BY <1>1 DEF Waypoints, End

\* NextAfter returns the first waypoint the pose is not at, the end at the latest.
LEMMA NextIsFirst ==
    ASSUME NEW near \in SUBSET Waypoints, NEW w \in 1..End
    PROVE  NextAfter(w, near) \in w..End
<1> DEFINE ahead == {v \in w..End : v \notin near}
<1>1. End \in ahead /\ ahead \in SUBSET Nat
  BY Route
<1>2. PICK v \in ahead : \A u \in ahead : v <= u
  <2> HIDE DEF ahead
  <2> QED
    BY <1>1, Smallest
<1>3. \A u \in w..(v - 1) : u \in near
  BY <1>1, <1>2, Route
<1>4. \E x \in w..End : x \notin near /\ \A u \in w..(x - 1) : u \in near
  BY <1>2, <1>3
<1> QED
  BY <1>4 DEF NextAfter

\* RouteInOrder with the types of what a tick computes the next waypoint from.
RouteInv ==
    /\ RouteInOrder
    /\ next \in 1..End
    /\ visited \subseteq Waypoints
    /\ pose \in Poses \cup {Unset}
    /\ state = "RUNNING" => pose \in Poses

\* A mission begins with an empty report.
LEMMA NewRoute ==
    ASSUME next' = 1, results' = <<>>, visited' = {}, failure' = Unset, state' # "SUCCEEDED",
           pose' \in Poses \cup {Unset}, state' = "RUNNING" => pose' \in Poses
    PROVE  RouteInv'
<1>1. 1 \in Waypoints /\ 1 \in 1..End
  BY Route
<1>2. StageOf(1) = 0
  BY RouteAssumption, SMTT(30) DEF StageOf
<1>3. results' = [i \in 1..StageOf(next') |-> i]
  BY <1>2
<1> QED
  BY <1>1, <1>3 DEF RouteInv, RouteInOrder

\* What passes the waypoints up to v reports the stages up to v.
LEMMA PassInOrder ==
    ASSUME RouteInv, NEW v \in next..End, Pass(v)
    PROVE  /\ next' = v
           /\ results' = [i \in 1..StageOf(v) |-> i]
           /\ 1..(v - 1) \subseteq visited'
           /\ visited' \subseteq Waypoints
<1>1. /\ StageOf(next) \in Nat /\ StageOf(v) \in Nat /\ StageOf(next) <= StageOf(v)
  <2>1. /\ next - 1 \in Nat /\ v - 1 \in Nat /\ next - 1 <= v - 1
        /\ WaypointsPerStage \in Nat \ {0}
    BY Route, RouteAssumption DEF RouteInv
  <2> QED
    BY <2>1, DivMonotone DEF StageOf
<1>2. results' = [i \in 1..StageOf(v) |-> i]
  <2> DEFINE m == StageOf(next)
             n == StageOf(v)
  <2>1. results' = [i \in 1..m |-> i] \o [i \in 1..(n - m) |-> m + i]
    BY DEF Pass, RouteInv, RouteInOrder
  <2>2. m \in Nat /\ n \in Nat /\ m <= n
    BY <1>1
  <2> HIDE DEF m, n
  <2>3. [i \in 1..m |-> i] \o [i \in 1..(n - m) |-> m + i] = [i \in 1..n |-> i]
    BY <2>2
  <2> QED
    BY <2>1, <2>3 DEF n
<1>3. /\ next \in Nat /\ v \in Nat /\ next <= v /\ 1 <= next /\ v <= End /\ End \in Nat
      /\ 1..(next - 1) \subseteq visited /\ visited' = visited \cup next..(v - 1)
      /\ next' = v
  BY Route DEF Pass, RouteInv, RouteInOrder
<1>4. 1..(v - 1) \subseteq visited'
  BY <1>3
<1>5. visited' \subseteq Waypoints
  BY <1>3, Route DEF RouteInv
<1> QED
  BY <1>2, <1>3, <1>4, <1>5

LEMMA RouteTick ==
    ASSUME RouteInv, Tick
    PROVE  RouteInv'
<1>1. pose' = pose
  BY DEF Tick, TickIdle, TickFails, TickBlocked, TickArrives, TickDrives, TickTail, inputs
<1>2. CASE TickIdle \/ TickBlocked
  BY <1>1, <1>2 DEF TickIdle, TickBlocked, Idle, Blocked, core, RouteInv, RouteInOrder
<1>3. CASE TickFails
  BY <1>1, <1>3 DEF TickFails, FailWith, RouteInv, RouteInOrder
<1>4. ASSUME Going
      PROVE  NextAfter(next, pose.near) \in next..End
  <2>1. pose.near \in SUBSET Waypoints
    BY <1>4 DEF Going, RouteInv, Poses
  <2> QED
    BY <2>1, NextIsFirst DEF RouteInv
<1>5. CASE TickArrives
  <2>1. End \in next..End /\ Pass(End) /\ state' = "SUCCEEDED"
    BY <1>4, <1>5 DEF TickArrives, Arrive
  <2>2. /\ next' = End
        /\ results' = [i \in 1..StageOf(End) |-> i]
        /\ 1..(End - 1) \subseteq visited'
        /\ visited' \subseteq Waypoints
    BY <2>1, PassInOrder
  <2>3. RouteInOrder'
    BY <2>1, <2>2, Route DEF RouteInOrder
  <2> QED
    BY <1>1, <2>1, <2>2, <2>3, Route DEF RouteInv
<1>6. CASE TickDrives
  <2> DEFINE v == NextAfter(next, pose.near)
  <2>1. /\ v \in next..End /\ v # End /\ Pass(v)
        /\ UNCHANGED <<state, failure>> /\ state = "RUNNING"
    BY <1>4, <1>6 DEF TickDrives, Going, Drive
  <2> HIDE DEF v
  <2>2. v \in Waypoints
    BY <2>1, Route DEF RouteInv
  <2> QED
    BY <1>1, <2>1, <2>2, PassInOrder, Route DEF RouteInv, RouteInOrder
<1> QED
  BY <1>2, <1>3, <1>5, <1>6 DEF Tick

\* For every route, whatever poses, scans, delays and requests come: the stages
\* reported are the stages before the next waypoint, in order; the robot has been
\* at every waypoint before it in this mission; a mission that has succeeded has
\* passed the whole route.
THEOREM MissionRouteInOrder == MissionSpec => []RouteInOrder
<1>1. MissionInit => RouteInv
  <2> SUFFICES ASSUME MissionInit PROVE RouteInv
    OBVIOUS
  <2>1. StageOf(1) = 0
    BY RouteAssumption, SMTT(30) DEF StageOf
  <2>2. results = [i \in 1..StageOf(next) |-> i]
    BY <2>1 DEF MissionInit
  <2> QED
    BY <2>2, Route DEF MissionInit, RouteInv, RouteInOrder
<1>2. RouteInv /\ [MissionNext]_missionVars => RouteInv'
  <2> SUFFICES ASSUME RouteInv, [MissionNext]_missionVars
               PROVE  RouteInv'
    OBVIOUS
  <2>1. CASE Tick
    BY <2>1, RouteTick
  <2>2. CASE Start
    BY <2>2, NewRoute DEF Start, NewMission, inputs, RouteInv
  <2>3. CASE Reset
    BY <2>3, NewRoute DEF Reset, NewMission, inputs, RouteInv
  <2>4. CASE Cancel \/ Estop
    BY <2>4 DEF Cancel, Estop, inputs, RouteInv, RouteInOrder
  <2>5. CASE OnOdom
    BY <2>5 DEF OnOdom, core, history, RouteInv, RouteInOrder
  <2>6. CASE OnScan \/ WallTime \/ Close \/ UNCHANGED missionVars
    BY <2>6 DEF OnScan, WallTime, Close, missionVars, core, inputs, history, RouteInv, RouteInOrder
  <2>7. CASE SimTime
    BY <2>7 DEF SimTime, inputs, history, RouteInv, RouteInOrder
  <2> QED
    BY <2>1, <2>2, <2>3, <2>4, <2>5, <2>6, <2>7 DEF MissionNext, Tick
<1>3. RouteInv => RouteInOrder
  BY DEF RouteInv
<1> QED
  BY <1>1, <1>2, <1>3, PTL DEF MissionSpec

-----------------------------------------------------------------------------
(* The lifecycle: the inductive invariant.                                 *)

Places == {"idle", "cancelling", "stop", "stopping", "fault", "faulting", "gateway", "done", "run", "wait", "join",
           "close", "close_wait", "transport", "ok", "error"} \cup Workers

TypingInv ==
    /\ TypeOK
    /\ pc \in [Callers -> Places]
    /\ \A w \in Workers : worker[w].step # "idle" => worker[w].job \in Callers
    /\ pc["task"] \in {"cancelling", "stop", "stopping", "fault", "faulting"} => ending \in {"ended", "estopped"}

Queued(w, c) == \E i \in 1..Len(worker[w].queue) : worker[w].queue[i] = c
Pending(w, c) == Queued(w, c) \/ worker[w].job = c

\* The start is the first command of the lifecycle worker and is given to it once.
FirstInv ==
    /\ \A i \in 1..Len(worker[L].queue) : worker[L].queue[i] = "start" => i = 1 /\ worker[L].job = None
    /\ Pending(L, "start") => receipt[L]["start"] = "queued"

\* Before it there is nothing to do and nothing to undo.
FreshInv ==
    task = "none" =>
        /\ worker[L].queue = <<>> /\ worker[L].job = None
        /\ receipt[L]["start"] = "none"
        /\ launch = "down" /\ ~started
        /\ pc["cleanup"] = "idle" /\ pc["runtime"] \notin {"stop", "stopping", "fault", "faulting", "close_wait"}

\* A thread that has ended has left nothing.
ThreadInv == \A w \in Workers : ~worker[w].running => worker[w].queue = <<>> /\ worker[w].job = None

WorldInv ==
    /\ launch = "down" <=> mission = "none"
    /\ lateStart => launch = "up" /\ worker[L].failed

\* Before the latch nobody has been asked to stop.
LatchInv ==
    stopLatched \/
        /\ \A w \in {"channel", "emergency"} : worker[w].queue = <<>> /\ worker[w].job = None
        /\ ~Pending(L, "cleanup") /\ ~Pending(L, "runtime")
        /\ ~At(L, "start", "undo")
        /\ \A w \in {"channel", "emergency"}, c \in Callers : receipt[w][c] # "ok"

\* No mission runs, and none will: a start that is still to come finds the latch.
Still == /\ stopLatched
         /\ mission = "estopped" \/ (launch = "down" /\ ~At(L, "start", "launching"))

\* Who has been told of a stop, or acts as if there were nothing left to stop.
Answered ==
    \/ stopped
    \/ \E w \in {"channel", "emergency"}, c \in Callers : receipt[w][c] = "ok"
    \/ receipt[L]["cleanup"] = "ok" \/ receipt[L]["runtime"] = "ok"
    \/ ~started /\ task # "none" /\ ~worker[L].failed

StillInv == /\ Answered => Still
            /\ receipt[L]["start"] = "cancelled" => launch = "down"

CloseInv ==
    /\ pc["runtime"] = "ok" => ~bad
    /\ ~bad =>
       /\ pc["runtime"] \in {"emergency", "channel", "ok"} => ~worker[L].running /\ ~worker[L].failed
       /\ pc["runtime"] \in {"channel", "ok"} => ~worker["emergency"].running
       /\ pc["runtime"] = "ok" => ~worker["channel"].running

USE DEF client, control, world, L

-----------------------------------------------------------------------------
(* What the steps of a worker do to it.                                    *)

LEMMA Enqueued ==
    ASSUME TypeOK, NEW w \in Workers, NEW c \in Callers, Enqueue(w, c)
    PROVE  /\ worker' \in [Workers -> CommandWorkers]
           /\ receipt' \in [Workers -> [Callers -> Results]]
           /\ \A v \in Workers \ {w} : worker'[v] = worker[v] /\ receipt'[v] = receipt[v]
           /\ worker'[w].job = worker[w].job /\ worker'[w].step = worker[w].step
           /\ worker'[w].failed = worker[w].failed /\ worker'[w].running = worker[w].running
           /\ worker'[w].queue = Append(worker[w].queue, c)
           /\ receipt'[w][c] = "queued"
           /\ \A d \in Callers \ {c} : receipt'[w][d] = receipt[w][d]
<1>1. worker' = [worker EXCEPT ![w] = [worker[w] EXCEPT !.queue = Append(worker[w].queue, c)]]
  BY DEF Enqueue
<1>2. Append(worker[w].queue, c) \in Seq(Callers)
  BY AppendProperties DEF TypeOK, CommandWorkers
<1>3. \A r \in CommandWorkers, q \in Seq(Callers) : [r EXCEPT !.queue = q] \in CommandWorkers
  BY Zenon DEF CommandWorkers
<1> DEFINE new == [worker[w] EXCEPT !.queue = Append(worker[w].queue, c)]
<1>4. new \in CommandWorkers
  BY <1>2, <1>3 DEF TypeOK
<1>5. /\ new.job = worker[w].job /\ new.step = worker[w].step
      /\ new.failed = worker[w].failed /\ new.running = worker[w].running
      /\ new.queue = Append(worker[w].queue, c)
  BY DEF TypeOK, CommandWorkers
<1> HIDE DEF new
<1>6. /\ worker' \in [Workers -> CommandWorkers] /\ worker'[w] = new
      /\ \A v \in Workers \ {w} : worker'[v] = worker[v]
  BY <1>1, <1>4 DEF TypeOK, new
<1>7. /\ receipt' \in [Workers -> [Callers -> Results]]
      /\ \A v \in Workers \ {w} : receipt'[v] = receipt[v]
      /\ receipt'[w][c] = "queued"
      /\ \A d \in Callers \ {c} : receipt'[w][d] = receipt[w][d]
  BY DEF TypeOK, Enqueue, Results
<1> QED
  BY <1>2, <1>5, <1>6, <1>7

LEMMA Appended ==
    ASSUME TypeOK, NEW w \in Workers, NEW c \in Callers, Enqueue(w, c)
    PROVE  /\ Len(worker[w].queue) \in Nat
           /\ Len(worker'[w].queue) = Len(worker[w].queue) + 1
           /\ worker'[w].queue[Len(worker[w].queue) + 1] = c
           /\ \A i \in 1..Len(worker[w].queue) : worker'[w].queue[i] = worker[w].queue[i]
<1>1. worker[w].queue \in Seq(Callers) /\ worker'[w].queue = Append(worker[w].queue, c)
  BY Enqueued DEF TypeOK, CommandWorkers
<1> QED
  BY <1>1, AppendProperties, LenProperties

LEMMA Finished ==
    ASSUME TypeOK, NEW w \in Workers, worker[w].job \in Callers, NEW r \in Results, Finish(w, r)
    PROVE  /\ worker' \in [Workers -> CommandWorkers]
           /\ receipt' \in [Workers -> [Callers -> Results]]
           /\ \A v \in Workers \ {w} : worker'[v] = worker[v] /\ receipt'[v] = receipt[v]
           /\ worker'[w].job = None /\ worker'[w].step = "idle"
           /\ worker'[w].failed = (worker[w].failed \/ r = "error")
           /\ worker'[w].running = worker[w].running
           /\ worker'[w].queue = worker[w].queue
           /\ receipt'[w][worker[w].job] = r
           /\ \A d \in Callers \ {worker[w].job} : receipt'[w][d] = receipt[w][d]
<1>1. worker' = [worker EXCEPT ![w] = [worker[w] EXCEPT !.job = None, !.step = "idle",
                                       !.failed = worker[w].failed \/ r = "error"]]
  BY DEF Finish
<1>2. \A x \in CommandWorkers, b \in BOOLEAN :
         [x EXCEPT !.job = None, !.step = "idle", !.failed = b] \in CommandWorkers
  BY Zenon DEF CommandWorkers
<1> DEFINE fails == worker[w].failed \/ r = "error"
           new == [worker[w] EXCEPT !.job = None, !.step = "idle", !.failed = fails]
<1>3. fails \in BOOLEAN /\ worker[w] \in CommandWorkers
  BY DEF TypeOK
<1> HIDE DEF fails
<1>4. new \in CommandWorkers
  BY <1>2, <1>3, Zenon
<1>5. /\ new.job = None /\ new.step = "idle" /\ new.failed = fails
      /\ new.running = worker[w].running /\ new.queue = worker[w].queue
  BY <1>3 DEF CommandWorkers
<1>6. worker' = [worker EXCEPT ![w] = new]
  BY <1>1 DEF fails
<1> HIDE DEF new
<1>7. /\ worker' \in [Workers -> CommandWorkers] /\ worker'[w] = new
      /\ \A v \in Workers \ {w} : worker'[v] = worker[v]
  BY <1>6, <1>4 DEF TypeOK
<1>8. /\ receipt' \in [Workers -> [Callers -> Results]]
      /\ \A v \in Workers \ {w} : receipt'[v] = receipt[v]
      /\ receipt'[w][worker[w].job] = r
      /\ \A d \in Callers \ {worker[w].job} : receipt'[w][d] = receipt[w][d]
  BY DEF TypeOK, Finish
<1>9. worker'[w].failed = (worker[w].failed \/ r = "error")
  BY <1>5, <1>7 DEF fails
<1> QED
  BY <1>5, <1>7, <1>8, <1>9

LEMMA Stepped ==
    ASSUME TypeOK, NEW s \in {"begin", "launching", "ready", "trigger", "check", "undo", "wait"},
           StepTo(L, s)
    PROVE  /\ worker' \in [Workers -> CommandWorkers]
           /\ receipt' = receipt
           /\ \A v \in Workers \ {L} : worker'[v] = worker[v]
           /\ worker'[L].job = worker[L].job /\ worker'[L].step = s
           /\ worker'[L].failed = worker[L].failed
           /\ worker'[L].running = worker[L].running
           /\ worker'[L].queue = worker[L].queue
<1>1. worker' = [worker EXCEPT ![L] = [worker[L] EXCEPT !.step = s]]
  BY DEF StepTo
<1>2. \A x \in CommandWorkers : [x EXCEPT !.step = s] \in CommandWorkers
  BY Zenon DEF CommandWorkers
<1> QED
  BY <1>1, <1>2 DEF TypeOK, StepTo, CommandWorkers, L, Workers

LEMMA Taken ==
    ASSUME TypeOK, NEW w \in Workers, WorkerTake(w)
    PROVE  /\ worker' \in [Workers -> CommandWorkers]
           /\ \A v \in Workers \ {w} : worker'[v] = worker[v]
           /\ worker'[w].job = worker[w].queue[1] /\ worker'[w].step = "begin"
           /\ worker'[w].job \in Callers
           /\ worker'[w].failed = worker[w].failed
           /\ worker'[w].running = worker[w].running
           /\ Len(worker[w].queue) >= 1
           /\ Len(worker'[w].queue) = Len(worker[w].queue) - 1
           /\ \A i \in 1..Len(worker'[w].queue) : worker'[w].queue[i] = worker[w].queue[i + 1]
<1>1. worker' = [worker EXCEPT ![w] = [worker[w] EXCEPT !.queue = Tail(worker[w].queue),
                                       !.job = Head(worker[w].queue), !.step = "begin"]]
  BY DEF WorkerTake
<1>2. worker[w].queue \in Seq(Callers) /\ worker[w].queue # <<>>
  BY DEF TypeOK, CommandWorkers, WorkerTake
<1>3. /\ Tail(worker[w].queue) \in Seq(Callers)
      /\ Head(worker[w].queue) = worker[w].queue[1] /\ worker[w].queue[1] \in Callers
      /\ Len(worker[w].queue) >= 1
      /\ Len(Tail(worker[w].queue)) = Len(worker[w].queue) - 1
      /\ \A i \in 1..Len(Tail(worker[w].queue)) : Tail(worker[w].queue)[i] = worker[w].queue[i + 1]
  BY <1>2, HeadTailProperties, EmptySeq
<1>4. \A x \in CommandWorkers, q \in Seq(Callers), c \in Callers :
         [x EXCEPT !.queue = q, !.job = c, !.step = "begin"] \in CommandWorkers
  BY Zenon DEF CommandWorkers
<1> DEFINE new == [worker[w] EXCEPT !.queue = Tail(worker[w].queue),
                                    !.job = Head(worker[w].queue), !.step = "begin"]
<1>5. new \in CommandWorkers
  BY <1>2, <1>3, <1>4, HeadTailProperties, Zenon DEF TypeOK
<1>6. /\ new.job = Head(worker[w].queue) /\ new.step = "begin" /\ new.failed = worker[w].failed
      /\ new.running = worker[w].running /\ new.queue = Tail(worker[w].queue)
  BY DEF TypeOK, CommandWorkers
<1> HIDE DEF new
<1>7. /\ worker' \in [Workers -> CommandWorkers] /\ worker'[w] = new
      /\ \A v \in Workers \ {w} : worker'[v] = worker[v]
  BY <1>1, <1>5 DEF TypeOK, new
<1> QED
  BY <1>3, <1>6, <1>7

LEMMA Exited ==
    ASSUME TypeOK, NEW w \in Workers, WorkerExit(w)
    PROVE  /\ worker' \in [Workers -> CommandWorkers]
           /\ \A v \in Workers \ {w} : worker'[v] = worker[v]
           /\ worker'[w].job = worker[w].job /\ worker'[w].step = worker[w].step
           /\ worker'[w].failed = worker[w].failed
           /\ ~worker'[w].running
           /\ worker'[w].queue = worker[w].queue
<1>1. worker' = [worker EXCEPT ![w] = [worker[w] EXCEPT !.running = FALSE]]
  BY DEF WorkerExit
<1>2. \A x \in CommandWorkers : [x EXCEPT !.running = FALSE] \in CommandWorkers
  BY Zenon DEF CommandWorkers
<1> QED
  BY <1>1, <1>2 DEF TypeOK, CommandWorkers

LEMMA Closed ==
    ASSUME TypeOK, NEW w \in Workers, worker' = [worker EXCEPT ![w].open = FALSE]
    PROVE  /\ worker' \in [Workers -> CommandWorkers]
           /\ \A v \in Workers :
                /\ worker'[v].job = worker[v].job /\ worker'[v].step = worker[v].step
                /\ worker'[v].failed = worker[v].failed
                /\ worker'[v].running = worker[v].running
                /\ worker'[v].queue = worker[v].queue
<1>1. worker' = [worker EXCEPT ![w] = [worker[w] EXCEPT !.open = FALSE]]
  OBVIOUS
<1>2. \A x \in CommandWorkers : [x EXCEPT !.open = FALSE] \in CommandWorkers
  BY Zenon DEF CommandWorkers
<1> QED
  BY <1>1, <1>2 DEF TypeOK, CommandWorkers

LEMMA Called ==
    ASSUME TypeOK, NEW c \in Callers, worker["channel"].job = c,
           worker' = [worker EXCEPT !["emergency"].queue = Append(@, c), !["channel"].step = "wait"],
           receipt' = [receipt EXCEPT !["emergency"][c] = "queued"]
    PROVE  /\ worker' \in [Workers -> CommandWorkers]
           /\ receipt' \in [Workers -> [Callers -> Results]]
           /\ worker'[L] = worker[L] /\ receipt'[L] = receipt[L]
           /\ \A v \in Workers :
                /\ worker'[v].job = worker[v].job
                /\ worker'[v].failed = worker[v].failed
                /\ worker'[v].running = worker[v].running
           /\ worker'["channel"].queue = worker["channel"].queue
           /\ worker'["channel"].step = "wait"
           /\ worker'["emergency"].step = worker["emergency"].step
           /\ receipt'["channel"] = receipt["channel"]
           /\ receipt'["emergency"][c] = "queued"
           /\ \A d \in Callers \ {c} : receipt'["emergency"][d] = receipt["emergency"][d]
<1>1. worker' = [worker EXCEPT
                    !["emergency"] = [worker["emergency"] EXCEPT !.queue = Append(worker["emergency"].queue, c)],
                    !["channel"] = [worker["channel"] EXCEPT !.step = "wait"]]
  OBVIOUS
<1>2. /\ \A x \in CommandWorkers, q \in Seq(Callers) : [x EXCEPT !.queue = q] \in CommandWorkers
      /\ \A x \in CommandWorkers : [x EXCEPT !.step = "wait"] \in CommandWorkers
  BY Zenon DEF CommandWorkers
<1>3. Append(worker["emergency"].queue, c) \in Seq(Callers)
  BY AppendProperties DEF TypeOK, CommandWorkers, Workers
<1> DEFINE callee == [worker["emergency"] EXCEPT !.queue = Append(worker["emergency"].queue, c)]
           waiting == [worker["channel"] EXCEPT !.step = "wait"]
<1>4. callee \in CommandWorkers /\ waiting \in CommandWorkers
  BY <1>2, <1>3 DEF TypeOK, Workers
<1>5. /\ callee.job = worker["emergency"].job /\ callee.step = worker["emergency"].step
      /\ callee.failed = worker["emergency"].failed /\ callee.running = worker["emergency"].running
      /\ waiting.job = worker["channel"].job /\ waiting.step = "wait"
      /\ waiting.failed = worker["channel"].failed /\ waiting.running = worker["channel"].running
      /\ waiting.queue = worker["channel"].queue
  BY DEF TypeOK, CommandWorkers, Workers
<1> HIDE DEF callee, waiting
<1>6. /\ worker' \in [Workers -> CommandWorkers] /\ worker'[L] = worker[L]
      /\ worker'["emergency"] = callee /\ worker'["channel"] = waiting
  <2>1. worker' = [worker EXCEPT !["emergency"] = callee, !["channel"] = waiting]
    BY <1>1 DEF callee, waiting
  <2> QED
    BY <1>4, <2>1 DEF TypeOK, Workers
<1>7. /\ receipt' \in [Workers -> [Callers -> Results]]
      /\ receipt'[L] = receipt[L] /\ receipt'["channel"] = receipt["channel"]
      /\ receipt'["emergency"][c] = "queued"
      /\ \A d \in Callers \ {c} : receipt'["emergency"][d] = receipt["emergency"][d]
  BY DEF TypeOK, Workers, L, Results
<1> QED
  BY <1>5, <1>6, <1>7 DEF Workers, L

-----------------------------------------------------------------------------
(* Types.                                                                  *)

\* A step of a worker: what is left to check when the callers do not move.
WorkersTyped ==
    /\ worker' \in [Workers -> CommandWorkers]
    /\ receipt' \in [Workers -> [Callers -> Results]]
    /\ \A w \in Workers : worker'[w].step # "idle" => worker'[w].job \in Callers

LEMMA FinishTyping ==
    ASSUME TypingInv, NEW w \in Workers, worker[w].job \in Callers, NEW r \in Results, Finish(w, r)
    PROVE  WorkersTyped
BY Finished DEF TypingInv, TypeOK, WorkersTyped

LEMMA EnqueueTyping ==
    ASSUME TypingInv, NEW w \in Workers, NEW c \in Callers, Enqueue(w, c)
    PROVE  WorkersTyped
BY Enqueued DEF TypingInv, WorkersTyped

LEMMA TakeTyping ==
    ASSUME TypingInv, NEW w \in Workers, WorkerTake(w)
    PROVE  WorkersTyped
BY Taken DEF TypingInv, TypeOK, WorkersTyped, WorkerTake

LEMMA ExitTyping ==
    ASSUME TypingInv, NEW w \in Workers, WorkerExit(w)
    PROVE  WorkersTyped
<1>1. receipt' = receipt /\ \A v \in Workers : worker'[v].step = worker[v].step /\ worker'[v].job = worker[v].job
  BY Exited DEF TypingInv, WorkerExit
<1> QED
  BY <1>1, Exited DEF TypingInv, TypeOK, WorkersTyped

LEMMA StepTyping ==
    ASSUME TypingInv, At(L, "start", worker[L].step),
           NEW s \in {"launching", "ready", "trigger", "check", "undo"}, StepTo(L, s)
    PROVE  WorkersTyped
BY Stepped DEF TypingInv, TypeOK, WorkersTyped, At, Workers, Callers

LEMMA WorldTyping ==
    ASSUME TypingInv, WorkersTyped, UNCHANGED <<pc, control>>,
           {stopLatched', started', closed', lateStart'} \subseteq BOOLEAN,
           launch' \in {"down", "up"},
           mission' \in {"none", "idle", "running", "cancelled", "ended", "estopped"}
    PROVE  TypingInv'
BY DEF TypingInv, TypeOK, WorkersTyped

LEMMA WorkerTyping ==
    ASSUME TypingInv, WorkerSteps
    PROVE  TypingInv'
<1> USE DEF TypingInv, TypeOK, Workers
<1>1. CASE \E w \in Workers : WorkerTake(w) \/ WorkerExit(w)
  <2>1. PICK w \in Workers : WorkerTake(w) \/ WorkerExit(w)
    BY <1>1
  <2>2. CASE WorkerTake(w)
    BY <2>2, TakeTyping, WorldTyping DEF WorkerTake
  <2>3. CASE WorkerExit(w)
    BY <2>3, ExitTyping, WorldTyping DEF WorkerExit
  <2> QED
    BY <2>1, <2>2, <2>3
<1>2. CASE SpawnStart
  BY <1>2, Stepped DEF SpawnStart, At
<1>3. CASE LaunchComesUp
  BY <1>3 DEF LaunchComesUp
<1>4. CASE LaunchAnswers
  BY <1>4, Stepped DEF LaunchAnswers, At
<1>5. CASE LaunchFails
  <2>1. worker[L].job = "start" /\ "start" \in Callers
    BY <1>5 DEF LaunchFails, At, Callers
  <2>2. CASE stopLatched
    <3>1. WorkersTyped
      BY <1>5, <2>2, StepTyping DEF LaunchFails, At
    <3> QED
      BY <1>5, <3>1, WorldTyping DEF LaunchFails, Down
  <2>3. CASE ~stopLatched
    <3>1. WorkersTyped
      BY <1>5, <2>1, <2>3, FinishTyping DEF LaunchFails, Results
    <3> QED
      BY <1>5, <3>1, WorldTyping DEF LaunchFails, Down
  <2> QED
    BY <2>2, <2>3
<1>6. CASE LaunchTimesOut
  <2>1. WorkersTyped
    BY <1>6, FinishTyping DEF LaunchTimesOut, At, Callers, Results
  <2>2. {stopLatched', started', closed', lateStart'} \subseteq BOOLEAN
    BY <1>6 DEF LaunchTimesOut, Down
  <2> QED
    BY <1>6, <2>1, <2>2, WorldTyping DEF LaunchTimesOut, Down
<1>7. CASE WaitReady
  <2>1. worker[L].job = "start" /\ "start" \in Callers
    BY <1>7 DEF WaitReady, At, Callers
  <2>2. CASE Finish(L, "error")
    BY <1>7, <2>1, <2>2, Finished DEF WaitReady, Results
  <2>3. CASE \E s \in {"undo", "trigger"} : StepTo(L, s)
    BY <1>7, <2>1, <2>3, Stepped DEF WaitReady
  <2> QED
    BY <1>7, <2>2, <2>3 DEF WaitReady
<1>8. CASE TriggerStart
  <2>1. worker[L].job = "start" /\ "start" \in Callers
    BY <1>8 DEF TriggerStart, At, Callers
  <2>2. CASE Finish(L, "error") /\ UNCHANGED world
    BY <1>8, <2>1, <2>2, Finished DEF TriggerStart, Results
  <2>3. CASE StepTo(L, "check") /\ Serve("running")
    BY <1>8, <2>1, <2>3, Stepped DEF TriggerStart, Serve
  <2> QED
    BY <1>8, <2>2, <2>3 DEF TriggerStart
<1>9. CASE TriggerStartTimesOut
  <2>1. WorkersTyped
    BY <1>9, FinishTyping DEF TriggerStartTimesOut, At, Callers, Results
  <2>2. {stopLatched', started', closed', lateStart'} \subseteq BOOLEAN
    BY <1>9 DEF TriggerStartTimesOut
  <2> QED
    BY <1>9, <2>1, <2>2, WorldTyping DEF TriggerStartTimesOut
<1>10. CASE CheckStart
  <2>1. worker[L].job = "start" /\ "start" \in Callers
    BY <1>10 DEF CheckStart, At, Callers
  <2>2. CASE Finish(L, "ok")
    BY <1>10, <2>1, <2>2, Finished DEF CheckStart, Results
  <2>3. CASE StepTo(L, "undo")
    BY <1>10, <2>1, <2>3, Stepped DEF CheckStart
  <2> QED
    BY <1>10, <2>2, <2>3 DEF CheckStart
<1>11. CASE UndoStart
  <2>1. WorkersTyped
    BY <1>11, FinishTyping DEF UndoStart, At, Callers, Results
  <2>2. {stopLatched', started', closed', lateStart'} \subseteq BOOLEAN
    BY <1>11 DEF UndoStart, Down
  <2> QED
    BY <1>11, <2>1, <2>2, WorldTyping DEF UndoStart, Down
<1>12. CASE ExecuteCancel
  BY <1>12, Finished DEF ExecuteCancel, At, Callers, Serve, Results
<1>13. CASE ExecuteStatus
  BY <1>13, Finished DEF ExecuteStatus, At, Callers, Results
<1>14. CASE ExecuteStop
  <2>1. WorkersTyped
    BY <1>14, FinishTyping DEF ExecuteStop, At, Callers, Results
  <2>2. {stopLatched', started', closed', lateStart'} \subseteq BOOLEAN
    BY <1>14 DEF ExecuteStop, Down
  <2> QED
    BY <1>14, <2>1, <2>2, WorldTyping DEF ExecuteStop, Down
<1>15. CASE ChannelCalls
  <2>1. worker["channel"].job \in Callers
    BY <1>15 DEF ChannelCalls
  <2>2. CASE Finish("channel", "error")
    BY <1>15, <2>1, <2>2, Finished DEF ChannelCalls, Results
  <2>3. CASE Accepts("emergency")
    BY <1>15, <2>1, <2>3, Called DEF ChannelCalls
  <2> QED
    BY <1>15, <2>2, <2>3 DEF ChannelCalls
<1>16. CASE TriggerStop
  BY <1>16, Finished DEF TriggerStop, Serve, Results
<1>17. CASE ChannelReceives
  <2>1. WorkersTyped
    BY <1>17, FinishTyping DEF ChannelReceives, Results
  <2>2. {stopLatched', started', closed', lateStart'} \subseteq BOOLEAN
    BY <1>17 DEF ChannelReceives
  <2> QED
    BY <1>17, <2>1, <2>2, WorldTyping DEF ChannelReceives
<1> QED
  BY <1>1, <1>2, <1>3, <1>4, <1>5, <1>6, <1>7, <1>8, <1>9, <1>10, <1>11, <1>12, <1>13, <1>14,
     <1>15, <1>16, <1>17 DEF WorkerSteps

LEMMA OtherTyping ==
    ASSUME TypingInv, LateStart \/ MissionEnds
    PROVE  TypingInv'
<1>1. WorkersTyped
  BY DEF LateStart, MissionEnds, TypingInv, TypeOK, WorkersTyped
<1>2. /\ {stopLatched', started', closed', lateStart'} \subseteq BOOLEAN
      /\ mission' \in {"none", "idle", "running", "cancelled", "ended", "estopped"}
  BY DEF LateStart, MissionEnds, Serve, TypingInv, TypeOK
<1> QED
  BY <1>1, <1>2, WorldTyping DEF LateStart, MissionEnds, Serve, TypingInv, TypeOK

LEMMA RuntimeTyping ==
    ASSUME TypingInv, WorkersTyped, pc' \in [Callers -> Places], pc'["task"] = pc["task"],
           UNCHANGED <<task, ending, latched, chan, stopped, world>>,
           {stopLatched', started', closed', bad'} \subseteq BOOLEAN
    PROVE  TypingInv'
BY DEF TypingInv, TypeOK, WorkersTyped

LEMMA CallerTyping ==
    ASSUME TypingInv, CallerSteps
    PROVE  TypingInv'
<1> USE DEF TypingInv, TypeOK, WorkersTyped, Workers, Callers, Goto, Places
<1>1. CASE StartTask
  BY <1>1, EnqueueTyping DEF StartTask
<1>2. CASE PollStatus
  BY <1>2, EnqueueTyping DEF PollStatus
<1>3. CASE CancelTask
  <2>1. CASE Accepts(L)
    BY <1>3, <2>1, EnqueueTyping DEF CancelTask, EndTask
  <2>2. CASE ~Accepts(L)
    BY <1>3, <2>2 DEF CancelTask, EndTask
  <2> QED
    BY <2>1, <2>2
<1>4. CASE CancelAnswered
  BY <1>4 DEF CancelAnswered
<1>5. CASE StopTask
  BY <1>5 DEF StopTask, EndTask
<1>6. CASE TaskSucceeds
  BY <1>6 DEF TaskSucceeds
<1>7. CASE TaskEnds
  BY <1>7 DEF TaskEnds, StopAnswered
<1>8. CASE CleanupStop
  <2>1. CASE Accepts(L)
    BY <1>8, <2>1, EnqueueTyping DEF CleanupStop
  <2>2. CASE ~Accepts(L)
    BY <1>8, <2>2 DEF CleanupStop
  <2> QED
    BY <2>1, <2>2
<1>9. CASE CleanupDone
  <2>1. started' \in BOOLEAN
    BY <1>9 DEF CleanupDone
  <2> QED
    BY <1>9, <2>1, RuntimeTyping DEF CleanupDone, WorkersTyped
<1>10. CASE \E c \in {"task", "runtime"} : ChannelStop(c)
  <2>1. PICK c \in {"task", "runtime"} : ChannelStop(c)
    BY <1>10
  <2>2. CASE Accepts("channel")
    BY <2>1, <2>2, EnqueueTyping DEF ChannelStop
  <2>3. CASE ~Accepts("channel")
    BY <2>1, <2>3 DEF ChannelStop, Results
  <2> QED
    BY <2>2, <2>3
<1>11. CASE StopRuntime \/ CloseGateway
  BY <1>11 DEF StopRuntime, CloseGateway
<1>12. CASE RuntimeStopped
  <2>1. bad' \in BOOLEAN /\ stopped' \in BOOLEAN
    BY <1>12 DEF RuntimeStopped
  <2>2. /\ task' \in {task, "estopped", "ended"} /\ chan' = None
        /\ pc' \in [Callers -> Places] /\ pc'["task"] = pc["task"]
    BY <1>12 DEF RuntimeStopped, StopAnswered
  <2> QED
    BY <1>12, <2>1, <2>2 DEF RuntimeStopped
<1>13. CASE JoinCleanup
  BY <1>13 DEF JoinCleanup
<1>14. CASE CloseStop
  <2>1. CASE started /\ Accepts(L)
    BY <1>14, <2>1, EnqueueTyping DEF CloseStop
  <2>2. CASE ~(started /\ Accepts(L))
    <3>1. {stopLatched', bad'} \subseteq BOOLEAN
      BY <1>14 DEF CloseStop
    <3>2. UNCHANGED <<worker, receipt>> /\ pc' = [pc EXCEPT !["runtime"] = "transport"]
      BY <1>14, <2>2 DEF CloseStop
    <3> QED
      BY <1>14, <3>1, <3>2, RuntimeTyping DEF CloseStop, WorkersTyped
  <2> QED
    BY <2>1, <2>2
<1>15. CASE CloseStopped
  <2>1. {started', bad'} \subseteq BOOLEAN
    BY <1>15 DEF CloseStopped
  <2> QED
    BY <1>15, <2>1, RuntimeTyping DEF CloseStopped, WorkersTyped
<1>16. CASE CloseTransport
  <2>1. {closed', bad'} \subseteq BOOLEAN
    BY <1>16, Flags DEF CloseTransport
  <2>2. WorkersTyped
    BY <1>16, Closed DEF CloseTransport, WorkersTyped
  <2> QED
    BY <1>16, <2>1, <2>2, RuntimeTyping DEF CloseTransport
<1>17. CASE \E w \in Workers : CloseWorker(w)
  <2>1. PICK w \in Workers : CloseWorker(w)
    BY <1>17
  <2>2. NextWorker(w) \in Workers
    BY DEF NextWorker
  <2>3. CASE w = "channel"
    BY <2>1, <2>3 DEF CloseWorker
  <2>4. CASE w # "channel"
    BY <2>1, <2>2, <2>4, Closed DEF CloseWorker
  <2> QED
    BY <2>3, <2>4
<1> QED
  BY <1>1, <1>2, <1>3, <1>4, <1>5, <1>6, <1>7, <1>8, <1>9, <1>10, <1>11, <1>12, <1>13, <1>14,
     <1>15, <1>16, <1>17 DEF CallerSteps

-----------------------------------------------------------------------------
(* How the workers and the receipts move.                                  *)

Steps == {"launching", "ready", "trigger", "check", "undo"}

\* The channel's worker hands its command to the emergency worker.
Calls(c) ==
    /\ worker["channel"].job = c /\ Accepts("emergency")
    /\ worker' = [worker EXCEPT !["emergency"].queue = Append(@, c), !["channel"].step = "wait"]
    /\ receipt' = [receipt EXCEPT !["emergency"][c] = "queued"]

Finishes(w, r) == worker[w].job \in Callers /\ Finish(w, r)
GoesOn(s) == worker[L].job = "start" /\ StepTo(L, s)

LEMMA WorkerMoves ==
    ASSUME TypingInv, WorkerSteps
    PROVE  \/ \E w \in Workers : WorkerTake(w)
           \/ \E w \in Workers : WorkerExit(w)
           \/ \E w \in Workers, r \in Results : Finishes(w, r)
           \/ \E s \in Steps : GoesOn(s)
           \/ \E c \in Callers : Calls(c)
           \/ UNCHANGED <<worker, receipt>>
<1> USE DEF At, Callers, Results, Workers, Steps, Finishes, GoesOn
<1>1. CASE SpawnStart \/ LaunchComesUp \/ LaunchAnswers \/ LaunchFails \/ LaunchTimesOut \/ WaitReady
  BY <1>1 DEF SpawnStart, LaunchComesUp, LaunchAnswers, LaunchFails, LaunchTimesOut, WaitReady
<1>2. CASE TriggerStart \/ TriggerStartTimesOut \/ CheckStart \/ UndoStart
  BY <1>2 DEF TriggerStart, TriggerStartTimesOut, CheckStart, UndoStart
<1>3. CASE ExecuteCancel \/ ExecuteStatus \/ ExecuteStop
  BY <1>3 DEF ExecuteCancel, ExecuteStatus, ExecuteStop
<1>4. CASE ChannelCalls
  BY <1>4 DEF ChannelCalls, TypingInv, Calls
<1>5. CASE TriggerStop \/ ChannelReceives
  BY <1>5 DEF TriggerStop, ChannelReceives, TypingInv
<1> QED
  BY <1>1, <1>2, <1>3, <1>4, <1>5 DEF WorkerSteps

\* What is pending for a worker was pending before, and nothing is answered by
\* a step that does not finish a command.
LEMMA WorkerKeeps ==
    ASSUME TypingInv, WorkerSteps
    PROVE  /\ \A c \in Callers : Pending(L, c)' => Pending(L, c)
           /\ \A w \in Workers : worker[w].failed => worker'[w].failed
<1>1. CASE \E w \in Workers : WorkerTake(w)
  <2>1. PICK w \in Workers : WorkerTake(w)
    BY <1>1
  <2>2. CASE w # L
    BY <2>1, <2>2, Taken DEF TypingInv, Pending, Queued, Workers
  <2>3. CASE w = L
    <3> DEFINE q == worker[L].queue
    <3>1. /\ worker'[L].job = q[1] /\ Len(q) \in Nat /\ Len(q) >= 1
          /\ Len(worker'[L].queue) = Len(q) - 1
          /\ \A i \in 1..Len(worker'[L].queue) : worker'[L].queue[i] = q[i + 1]
      BY <2>1, <2>3, Taken, LenProperties DEF TypingInv, TypeOK, CommandWorkers
    <3>2. \A i \in 1..Len(worker'[L].queue) : i + 1 \in 1..Len(q)
      BY <3>1
    <3>3. 1 \in 1..Len(q)
      BY <3>1
    <3>4. \A c \in Callers : Pending(L, c)' => Pending(L, c)
      BY <3>1, <3>2, <3>3 DEF Pending, Queued
    <3> QED
      BY <2>1, <2>3, <3>4, Taken DEF TypingInv
  <2> QED
    BY <2>2, <2>3
<1>2. CASE \E w \in Workers : WorkerExit(w)
  BY <1>2, Exited DEF TypingInv, Pending, Queued, Workers
<1>3. CASE \E w \in Workers, r \in Results : Finishes(w, r)
  <2>1. PICK w \in Workers, r \in Results : Finishes(w, r)
    BY <1>3
  <2>2. \A v \in Workers : worker[v].failed => worker'[v].failed
    BY <2>1, Finished DEF Finishes, TypingInv
  <2>3. worker'[L].queue = worker[L].queue /\ worker'[L].job \in {worker[L].job, None}
    BY <2>1, Finished DEF Finishes, TypingInv, Workers
  <2> QED
    BY <2>2, <2>3, Flags DEF Pending, Queued
<1>4. CASE \E s \in Steps : GoesOn(s)
  BY <1>4, Stepped DEF GoesOn, Steps, TypingInv, Pending, Queued, Workers
<1>5. CASE \E c \in Callers : Calls(c)
  BY <1>5, Called DEF Calls, TypingInv, Pending, Queued, Workers
<1> QED
  BY <1>1, <1>2, <1>3, <1>4, <1>5, WorkerMoves DEF Pending, Queued

\* A caller's step leaves the workers alone, hands a command to one that runs, or
\* closes one.
LEMMA CallerMoves ==
    ASSUME TypingInv, CallerSteps
    PROVE  /\ \A w \in Workers :
                /\ worker'[w].job = worker[w].job /\ worker'[w].step = worker[w].step
                /\ worker'[w].failed = worker[w].failed
                /\ worker'[w].running = worker[w].running
                /\ worker'[w].queue = worker[w].queue \/ Accepts(w)
           /\ \A w \in Workers, c \in Callers :
                receipt'[w][c] \in {receipt[w][c], "queued"} \/ (w = "channel" /\ receipt'[w][c] = "none")
           /\ UNCHANGED world
<1> USE DEF Workers, Callers
<1>1. CASE StartTask \/ PollStatus
  <2>1. \E c \in {"start", "monitor"} : Enqueue(L, c)
    BY <1>1 DEF StartTask, PollStatus
  <2>2. Accepts(L) /\ UNCHANGED world
    BY <1>1 DEF StartTask, PollStatus
  <2> QED
    BY <2>1, <2>2, Enqueued DEF TypingInv
<1>2. CASE CancelTask \/ CleanupStop \/ CloseStop
  BY <1>2, Enqueued DEF CancelTask, CleanupStop, CloseStop, TypingInv
<1>3. CASE \E c \in {"task", "runtime"} : ChannelStop(c)
  <2>1. PICK c \in {"task", "runtime"} : ChannelStop(c)
    BY <1>3
  <2>2. CASE Accepts("channel")
    <3>1. Enqueue("channel", c)
      BY <2>1, <2>2 DEF ChannelStop
    <3>2. /\ \A v \in Workers \ {"channel"} : worker'[v] = worker[v] /\ receipt'[v] = receipt[v]
          /\ worker'["channel"].job = worker["channel"].job
          /\ worker'["channel"].step = worker["channel"].step
          /\ worker'["channel"].failed = worker["channel"].failed
          /\ worker'["channel"].running = worker["channel"].running
          /\ receipt'["channel"][c] = "queued"
          /\ \A d \in Callers \ {c} : receipt'["channel"][d] = receipt["channel"][d]
      BY <3>1, Enqueued DEF TypingInv
    <3>3. UNCHANGED world
      BY <2>1 DEF ChannelStop
    <3> QED
      BY <2>2, <3>2, <3>3
  <2>3. CASE ~Accepts("channel")
    BY <2>1, <2>3 DEF ChannelStop, TypingInv, TypeOK
  <2> QED
    BY <2>2, <2>3
<1>4. CASE CancelAnswered \/ StopTask \/ TaskSucceeds \/ TaskEnds \/ CleanupDone
  BY <1>4 DEF CancelAnswered, StopTask, TaskSucceeds, TaskEnds, CleanupDone
<1>5. CASE StopRuntime \/ CloseGateway \/ RuntimeStopped \/ JoinCleanup \/ CloseStopped
  BY <1>5 DEF StopRuntime, CloseGateway, RuntimeStopped, JoinCleanup, CloseStopped
<1>6. CASE CloseTransport
  BY <1>6, Closed DEF CloseTransport, TypingInv
<1>7. CASE \E w \in Workers : CloseWorker(w)
  <2>1. PICK w \in Workers : CloseWorker(w)
    BY <1>7
  <2>2. NextWorker(w) \in Workers
    BY DEF NextWorker
  <2> QED
    BY <2>1, <2>2, Closed DEF CloseWorker, TypingInv
<1> QED
  BY <1>1, <1>2, <1>3, <1>4, <1>5, <1>6, <1>7 DEF CallerSteps

-----------------------------------------------------------------------------
(* The start comes first.                                                  *)

\* The lifecycle worker keeps its commands.
Keeps(w) == /\ worker'[w].queue = worker[w].queue /\ worker'[w].job = worker[w].job
            /\ receipt'[w] = receipt[w]

LEMMA KeepFirst ==
    ASSUME FirstInv, Keeps(L)
    PROVE  FirstInv'
BY DEF FirstInv, Keeps, Pending, Queued

LEMMA EnqueueFirst ==
    ASSUME TypingInv, FirstInv, NEW w \in Workers, NEW c \in Callers, Enqueue(w, c),
           w # L \/ c # "start" \/ (worker[L].queue = <<>> /\ worker[L].job = None)
    PROVE  FirstInv'
<1>1. CASE w # L
  BY <1>1, Enqueued, KeepFirst DEF Keeps, Workers, TypingInv
<1>2. CASE w = L /\ c # "start"
  <2> DEFINE q == worker[L].queue
  <2> DEFINE new == worker'[L].queue
  <2>3. Len(q) \in Nat /\ Len(new) = Len(q) + 1 /\ new[Len(q) + 1] = c /\ \A i \in 1..Len(q) : new[i] = q[i]
    BY <1>2, Appended DEF TypingInv
  <2> HIDE DEF q, new
  <2>4. \A i \in 1..Len(new) : i \in 1..Len(q) \/ i = Len(q) + 1
    BY <2>3
  <2>1. \A i \in 1..Len(new) : new[i] = "start" => i \in 1..Len(q) /\ q[i] = "start"
    BY <1>2, <2>3, <2>4
  <2>2. worker'[L].job = worker[L].job /\ receipt'[L]["start"] = receipt[L]["start"]
    BY <1>2, Enqueued DEF TypingInv, Callers
  <2> QED
    BY <2>1, <2>2 DEF FirstInv, Pending, Queued, q, new
<1>3. CASE w = L /\ c = "start"
  BY <1>3, Enqueued, Appended, EmptySeq DEF FirstInv, TypingInv, Pending, Queued
<1> QED
  BY <1>1, <1>2, <1>3

LEMMA FinishFirst ==
    ASSUME TypingInv, FirstInv, NEW w \in Workers, worker[w].job \in Callers, NEW r \in Results, Finish(w, r)
    PROVE  FirstInv'
<1>1. CASE w # L
  BY <1>1, Finished, KeepFirst DEF Keeps, Workers, TypingInv
<1>2. CASE w = L
  <2>1. /\ worker'[L].queue = worker[L].queue /\ worker'[L].job = None
        /\ worker[L].job # "start" => receipt'[L]["start"] = receipt[L]["start"]
    BY <1>2, Finished DEF TypingInv, Callers
  <2> QED
    BY <1>2, <2>1, Flags DEF FirstInv, Pending, Queued, Callers
<1> QED
  BY <1>1, <1>2

LEMMA TakeFirst ==
    ASSUME TypingInv, FirstInv, NEW w \in Workers, WorkerTake(w)
    PROVE  FirstInv'
<1>1. CASE w # L
  BY <1>1, Taken, KeepFirst DEF Keeps, Workers, TypingInv, WorkerTake
<1>2. CASE w = L
  <2> DEFINE q == worker[L].queue
  <2>1. /\ worker'[L].job = q[1] /\ receipt' = receipt
        /\ Len(q) \in Nat /\ Len(q) >= 1
        /\ Len(worker'[L].queue) = Len(q) - 1
        /\ \A i \in 1..Len(worker'[L].queue) : worker'[L].queue[i] = q[i + 1]
    BY <1>2, Taken, LenProperties DEF TypingInv, TypeOK, CommandWorkers, WorkerTake
  <2>2. \A i \in 1..Len(worker'[L].queue) : worker'[L].queue[i] # "start"
    BY <2>1 DEF FirstInv
  <2>3. ASSUME q[1] = "start" PROVE receipt[L]["start"] = "queued"
    <3>1. Queued(L, "start")
      BY <2>1, <2>3 DEF Queued
    <3> QED
      BY <3>1 DEF FirstInv, Pending
  <2> QED
    BY <2>1, <2>2, <2>3 DEF FirstInv, Pending, Queued
<1> QED
  BY <1>1, <1>2

LEMMA StepFirst ==
    ASSUME TypingInv, FirstInv,
           NEW s \in {"launching", "ready", "trigger", "check", "undo"}, StepTo(L, s)
    PROVE  FirstInv'
BY Stepped, KeepFirst DEF Keeps, TypingInv

LEMMA ExitFirst ==
    ASSUME TypingInv, FirstInv, NEW w \in Workers, WorkerExit(w)
    PROVE  FirstInv'
BY Exited, KeepFirst DEF Keeps, TypingInv, WorkerExit, Workers

LEMMA WorkerFirst ==
    ASSUME TypingInv, FirstInv, WorkerSteps
    PROVE  FirstInv'
<1>1. CASE \E c \in Callers : Calls(c)
  BY <1>1, Called, KeepFirst DEF Calls, TypingInv, Keeps
<1> QED
  BY <1>1, WorkerMoves, TakeFirst, ExitFirst, FinishFirst, StepFirst, KeepFirst
     DEF Finishes, GoesOn, Steps, Keeps

LEMMA CallerFirst ==
    ASSUME TypingInv, FirstInv, FreshInv, CallerSteps
    PROVE  FirstInv'
<1> USE DEF Workers, Callers
<1>1. CASE StartTask
  BY <1>1, EnqueueFirst DEF StartTask, FreshInv
<1>2. CASE PollStatus \/ CancelTask \/ CleanupStop \/ CloseStop
  BY <1>2, EnqueueFirst, KeepFirst DEF PollStatus, CancelTask, CleanupStop, CloseStop, Keeps
<1>3. CASE \E c \in {"task", "runtime"} : ChannelStop(c)
  <2>1. PICK c \in {"task", "runtime"} : ChannelStop(c)
    BY <1>3
  <2>2. CASE Enqueue("channel", c)
    BY <2>1, <2>2, EnqueueFirst
  <2>3. CASE UNCHANGED worker /\ receipt' = [receipt EXCEPT !["channel"][c] = "none"]
    BY <2>3, KeepFirst DEF Keeps, TypingInv, TypeOK
  <2> QED
    BY <2>1, <2>2, <2>3 DEF ChannelStop
<1>4. CASE CancelAnswered \/ StopTask \/ TaskSucceeds \/ TaskEnds \/ CleanupDone
  BY <1>4, KeepFirst DEF CancelAnswered, StopTask, TaskSucceeds, TaskEnds, CleanupDone, Keeps
<1>5. CASE StopRuntime \/ CloseGateway \/ RuntimeStopped \/ JoinCleanup \/ CloseStopped
  BY <1>5, KeepFirst DEF StopRuntime, CloseGateway, RuntimeStopped, JoinCleanup, CloseStopped, Keeps
<1>6. CASE CloseTransport
  BY <1>6, Closed, KeepFirst DEF CloseTransport, Keeps, TypingInv
<1>7. CASE \E w \in Workers : CloseWorker(w)
  <2>1. PICK w \in Workers : CloseWorker(w)
    BY <1>7
  <2>2. NextWorker(w) \in Workers
    BY DEF NextWorker
  <2> QED
    BY <2>1, <2>2, Closed, KeepFirst DEF CloseWorker, Keeps, TypingInv
<1> QED
  BY <1>1, <1>2, <1>3, <1>4, <1>5, <1>6, <1>7 DEF CallerSteps

LEMMA NextFirst ==
    ASSUME TypingInv, FirstInv, FreshInv, Next
    PROVE  FirstInv'
BY WorkerFirst, CallerFirst, KeepFirst DEF Next, LateStart, MissionEnds, Keeps

-----------------------------------------------------------------------------
(* Threads that have ended, the time before the start, and the world.      *)

LEMMA WorkerThreads ==
    ASSUME TypingInv, ThreadInv, WorkerSteps
    PROVE  ThreadInv'
<1>1. CASE \E w \in Workers : WorkerTake(w)
  <2>1. PICK w \in Workers : WorkerTake(w)
    BY <1>1
  <2>2. worker'[w].running /\ \A v \in Workers \ {w} : worker'[v] = worker[v]
    BY <2>1, Taken DEF TypingInv, WorkerTake
  <2> QED
    BY <2>2 DEF ThreadInv
<1>2. CASE \E w \in Workers : WorkerExit(w)
  BY <1>2, Exited DEF TypingInv, ThreadInv, WorkerExit
<1>3. CASE \E w \in Workers, r \in Results : Finishes(w, r)
  BY <1>3, Finished DEF Finishes, TypingInv, ThreadInv
<1>4. CASE \E s \in Steps : GoesOn(s)
  BY <1>4, Stepped DEF GoesOn, Steps, TypingInv, ThreadInv, Workers
<1>5. CASE \E c \in Callers : Calls(c)
  <2>1. PICK c \in Callers : Calls(c)
    BY <1>5
  <2>2. /\ worker'["emergency"].running /\ worker'[L] = worker[L]
        /\ worker'["channel"].queue = worker["channel"].queue
        /\ worker'["channel"].job = worker["channel"].job
        /\ worker'["channel"].running = worker["channel"].running
    BY <2>1, Called DEF Calls, TypingInv, Accepts, Workers
  <2> QED
    BY <2>2 DEF ThreadInv, Workers
<1> QED
  BY <1>1, <1>2, <1>3, <1>4, <1>5, WorkerMoves DEF ThreadInv

LEMMA NextThreads ==
    ASSUME TypingInv, ThreadInv, Next
    PROVE  ThreadInv'
<1>1. CASE CallerSteps
  BY <1>1, CallerMoves DEF ThreadInv, Accepts
<1> QED
  BY <1>1, WorkerThreads DEF Next, LateStart, MissionEnds, ThreadInv

LEMMA NextFresh ==
    ASSUME TypingInv, FreshInv, Next
    PROVE  FreshInv'
<1> SUFFICES ASSUME task' = "none" PROVE FreshInv'
  BY DEF FreshInv
<1> USE DEF At, Callers, Results
<1>1. CASE WorkerSteps
  <2>1. task = "none"
    BY <1>1 DEF WorkerSteps, WorkerTake, WorkerExit, SpawnStart, LaunchComesUp, LaunchAnswers, LaunchFails,
       LaunchTimesOut, WaitReady, TriggerStart, TriggerStartTimesOut, CheckStart, UndoStart,
       ExecuteCancel, ExecuteStatus, ExecuteStop, ChannelCalls, TriggerStop, ChannelReceives
  <2>2. worker[L].queue = <<>> /\ worker[L].job \notin Callers
    BY <2>1, Flags DEF FreshInv
  <2> DEFINE Rest == Keeps(L) /\ launch' = launch /\ started' \in {started, FALSE} /\ pc' = pc
  <2> SUFFICES Rest
    BY <2>1 DEF FreshInv, Keeps
  <2>3. CASE \E w \in Workers : WorkerTake(w) \/ WorkerExit(w)
    <3>1. PICK w \in Workers : WorkerTake(w) \/ WorkerExit(w)
      BY <2>3
    <3>2. CASE WorkerTake(w)
      <4>1. w # L
        BY <3>2, <2>2 DEF WorkerTake
      <4> QED
        BY <3>2, <4>1, Taken DEF WorkerTake, TypingInv, Keeps, Workers
    <3>3. CASE WorkerExit(w)
      BY <3>3, Exited DEF WorkerExit, TypingInv, Keeps, Workers
    <3> QED
      BY <3>1, <3>2, <3>3
  <2>4. CASE ChannelCalls
    <3>1. worker["channel"].job \in Callers
      BY <2>4 DEF ChannelCalls, TypingInv, Workers
    <3>2. CASE Finish("channel", "error")
      BY <2>4, <3>1, <3>2, Finished DEF ChannelCalls, TypingInv, Keeps, Workers
    <3>3. CASE Accepts("emergency")
      BY <2>4, <3>1, <3>3, Called DEF ChannelCalls, TypingInv, Keeps
    <3> QED
      BY <2>4, <3>2, <3>3 DEF ChannelCalls
  <2>5. CASE TriggerStop
    BY <2>5, Finished DEF TriggerStop, Serve, TypingInv, Keeps, Workers
  <2>6. CASE ChannelReceives
    <3>1. \E r \in Results : Finishes("channel", r)
      BY <2>6 DEF ChannelReceives, Finishes, TypingInv, Workers
    <3>2. Keeps(L)
      BY <3>1, Finished DEF Finishes, TypingInv, Keeps, Workers
    <3> QED
      BY <2>6, <3>2 DEF ChannelReceives
  <2> QED
    BY <1>1, <2>2, <2>3, <2>4, <2>5, <2>6 DEF WorkerSteps, SpawnStart, LaunchComesUp, LaunchAnswers,
       LaunchFails, LaunchTimesOut, WaitReady, TriggerStart, TriggerStartTimesOut, CheckStart, UndoStart,
       ExecuteCancel, ExecuteStatus, ExecuteStop
<1>2. CASE CallerSteps
  <2>1. task = "none"
    <3>1. CASE RuntimeStopped
      BY <3>1 DEF RuntimeStopped
    <3>2. CASE TaskEnds
      BY <3>2 DEF TaskEnds, StopAnswered, TypingInv
    <3> QED
      BY <1>2, <3>1, <3>2 DEF CallerSteps, StartTask, PollStatus, CancelTask, EndTask, CancelAnswered, StopTask,
         TaskSucceeds, CleanupStop, CleanupDone, ChannelStop, StopRuntime, CloseGateway, JoinCleanup,
         CloseStop, CloseStopped, CloseTransport, CloseWorker, control
  <2>2. ~RuntimeStopped /\ UNCHANGED <<launch, mission>>
    <3>1. ~RuntimeStopped
      BY <2>1 DEF RuntimeStopped, StopAnswered, FreshInv
    <3> QED
      BY <1>2, <3>1 DEF CallerSteps, StartTask, PollStatus, CancelTask, EndTask, CancelAnswered, StopTask,
         TaskSucceeds, TaskEnds, CleanupStop, CleanupDone, ChannelStop, StopRuntime, CloseGateway, JoinCleanup,
         CloseStop, CloseStopped, CloseTransport, CloseWorker, world
  <2> USE DEF Goto, FreshInv
  <2>3. CASE \E c \in {"task", "runtime"} : ChannelStop(c)
    <3>1. ChannelStop("task") /\ pc' = [pc EXCEPT !["task"] = IF pc["task"] = "stop" THEN "stopping" ELSE "faulting"]
      BY <2>1, <2>2, <2>3 DEF ChannelStop
    <3>2. Keeps(L)
      <4>1. CASE Enqueue("channel", "task")
        <5>1. "channel" \in Workers /\ "task" \in Callers /\ L \in Workers \ {"channel"}
          BY DEF Workers, Callers
        <5> QED
          BY <4>1, <5>1, Enqueued DEF Keeps, TypingInv
      <4>2. CASE UNCHANGED worker /\ receipt' = [receipt EXCEPT !["channel"]["task"] = "none"]
        BY <4>2 DEF Keeps, TypingInv, TypeOK
      <4> QED
        BY <3>1, <4>1, <4>2 DEF ChannelStop
    <3> QED
      BY <2>1, <2>2, <3>1, <3>2 DEF ChannelStop, Keeps, TypingInv, TypeOK
  <2>4. CASE CancelAnswered \/ TaskEnds \/ StopRuntime \/ CloseGateway \/ JoinCleanup \/ CloseStop
    BY <2>1, <2>2, <2>4 DEF CancelAnswered, TaskEnds, StopRuntime, CloseGateway, JoinCleanup, CloseStop, TypingInv, TypeOK
  <2>5. CASE CloseTransport
    BY <2>1, <2>2, <2>5, Closed DEF CloseTransport, TypingInv, TypeOK
  <2>6. CASE \E w \in Workers : CloseWorker(w)
    <3>1. PICK w \in Workers : CloseWorker(w)
      BY <2>6
    <3>2. NextWorker(w) \in Workers
      BY DEF NextWorker, Workers
    <3> QED
      BY <2>1, <2>2, <3>1, <3>2, Closed DEF CloseWorker, TypingInv, TypeOK, Workers
  <2> QED
    BY <1>2, <2>1, <2>3, <2>4, <2>5, <2>6 DEF CallerSteps, StartTask, PollStatus, CancelTask, EndTask, StopTask,
       TaskSucceeds, CleanupStop, CleanupDone, RuntimeStopped, CloseStopped, StopAnswered
<1>3. CASE LateStart \/ MissionEnds
  BY <1>3 DEF LateStart, MissionEnds, Serve, FreshInv
<1> QED
  BY <1>1, <1>2, <1>3 DEF Next

LEMMA NextWorld ==
    ASSUME TypingInv, WorldInv, Next
    PROVE  WorldInv'
<1> USE DEF TypingInv, TypeOK, WorldInv
<1>1. worker[L].failed => worker'[L].failed
  BY WorkerKeeps, CallerMoves DEF Next, LateStart, MissionEnds, Workers
<1>2. CASE UNCHANGED world
  BY <1>1, <1>2
<1>3. CASE Down
  BY <1>3 DEF Down
<1>4. CASE LaunchComesUp
  BY <1>1, <1>4 DEF LaunchComesUp
<1>5. CASE TriggerStart
  BY <1>1, <1>2, <1>5 DEF TriggerStart, Serve, StartsMission
<1>6. CASE TriggerStartTimesOut
  <2>1. worker'[L].failed
    BY <1>6, Finished DEF TriggerStartTimesOut, At, Workers, Callers, Results
  <2> QED
    BY <1>6, <2>1 DEF TriggerStartTimesOut
<1>7. CASE ExecuteCancel
  BY <1>1, <1>2, <1>7 DEF ExecuteCancel, Serve
<1>8. CASE TriggerStop
  BY <1>1, <1>8 DEF TriggerStop, Serve
<1>9. CASE LateStart
  BY <1>1, <1>9 DEF LateStart, StartsMission
<1>10. CASE MissionEnds
  BY <1>1, <1>10 DEF MissionEnds, Serve
<1>11. CASE LaunchFails \/ LaunchTimesOut \/ UndoStart \/ ExecuteStop
  BY <1>2, <1>3, <1>11 DEF LaunchFails, LaunchTimesOut, UndoStart, ExecuteStop
<1>12. CASE CallerSteps
  BY <1>2, <1>12, CallerMoves
<1> QED
  BY <1>2, <1>4, <1>5, <1>6, <1>7, <1>8, <1>9, <1>10, <1>11, <1>12
     DEF Next, WorkerSteps, WorkerTake, WorkerExit, SpawnStart, LaunchAnswers, WaitReady, CheckStart,
     ExecuteStatus, ChannelCalls, ChannelReceives

-----------------------------------------------------------------------------
(* The latch.                                                              *)

\* Who goes on to undo a start has seen the latch, and who spawns one has not.
LEMMA LatchSteps ==
    ASSUME TypingInv, Next
    PROVE  /\ stopLatched => stopLatched'
           /\ At(L, "start", "undo")' => At(L, "start", "undo") \/ stopLatched
           /\ At(L, "start", "launching")' => At(L, "start", "launching") \/ ~stopLatched
<1>1. stopLatched => stopLatched'
  BY DEF Next, WorkerSteps, CallerSteps, WorkerTake, WorkerExit, SpawnStart, LaunchComesUp, LaunchAnswers,
     LaunchFails, LaunchTimesOut, WaitReady, TriggerStart, TriggerStartTimesOut, CheckStart, UndoStart,
     ExecuteCancel, ExecuteStatus, ExecuteStop, ChannelCalls, TriggerStop, ChannelReceives, StartTask,
     PollStatus, CancelTask, CancelAnswered, StopTask, TaskSucceeds, TaskEnds, CleanupStop, CleanupDone,
     ChannelStop, StopRuntime, CloseGateway, RuntimeStopped, JoinCleanup, CloseStop, CloseStopped, CloseTransport,
     CloseWorker, LateStart, MissionEnds
<1>2. CASE UNCHANGED worker \/ CallerSteps
  BY <1>1, <1>2, CallerMoves DEF At, Workers
<1>3. CASE \E w \in Workers : WorkerTake(w) \/ WorkerExit(w)
  BY <1>1, <1>3, Taken, Exited DEF At, TypingInv, Workers
<1>4. CASE worker'[L].step = "idle" \/ worker'[L] = worker[L]
  BY <1>1, <1>4 DEF At
<1>5. CASE SpawnStart
  BY <1>1, <1>5, Stepped DEF SpawnStart, At, TypingInv
<1>6. CASE LaunchAnswers
  BY <1>1, <1>6, Stepped DEF LaunchAnswers, At, TypingInv
<1>7. CASE LaunchFails \/ WaitReady \/ TriggerStart \/ CheckStart
  <2>1. \/ Finish(L, "error") \/ Finish(L, "ok")
        \/ StepTo(L, "trigger") \/ StepTo(L, "check")
        \/ stopLatched /\ StepTo(L, "undo")
    BY <1>7 DEF LaunchFails, WaitReady, TriggerStart, CheckStart
  <2>2. worker[L].job \in Callers
    BY <1>7 DEF LaunchFails, WaitReady, TriggerStart, CheckStart, At, Callers
  <2>3. CASE Finish(L, "error") \/ Finish(L, "ok")
    BY <1>4, <2>2, <2>3, Finished DEF TypingInv, Workers, Results
  <2>4. CASE ~(Finish(L, "error") \/ Finish(L, "ok"))
    BY <1>1, <2>1, <2>4, Stepped DEF TypingInv, At
  <2> QED
    BY <2>3, <2>4
<1>8. CASE LaunchTimesOut \/ TriggerStartTimesOut \/ UndoStart \/ ExecuteCancel \/ ExecuteStatus \/ ExecuteStop
  BY <1>4, <1>8, Finished DEF LaunchTimesOut, TriggerStartTimesOut, UndoStart, ExecuteCancel, ExecuteStatus,
     ExecuteStop, At, TypingInv, Workers, Callers, Results
<1>9. CASE ChannelCalls \/ TriggerStop \/ ChannelReceives
  <2>1. CASE \E c \in Callers : Calls(c)
    BY <1>4, <2>1, Called DEF Calls, TypingInv
  <2>2. CASE \E w \in {"channel", "emergency"}, r \in Results : Finishes(w, r)
    BY <1>4, <2>2, Finished DEF Finishes, TypingInv, Workers
  <2> QED
    BY <1>9, <2>1, <2>2 DEF ChannelCalls, TriggerStop, ChannelReceives, Calls, Finishes, TypingInv, Workers, Results
<1> QED
  BY <1>2, <1>3, <1>5, <1>6, <1>7, <1>8, <1>9 DEF Next, WorkerSteps, LaunchComesUp, LateStart, MissionEnds

LEMMA EnqueuePending ==
    ASSUME TypingInv, NEW c \in Callers, Enqueue(L, c), NEW d \in Callers \ {c}, Pending(L, d)'
    PROVE  Pending(L, d)
<1> DEFINE n == Len(worker[L].queue)
<1>1. /\ n \in Nat /\ Len(worker'[L].queue) = n + 1 /\ worker'[L].queue[n + 1] = c
      /\ \A i \in 1..n : worker'[L].queue[i] = worker[L].queue[i]
  BY Appended DEF TypingInv, Workers
<1>2. \A i \in 1..(n + 1) : i \in 1..n \/ i = n + 1
  BY <1>1
<1>3. Queued(L, d)' => Queued(L, d)
  BY <1>1, <1>2 DEF Queued
<1>4. worker'[L].job = worker[L].job
  BY Enqueued DEF TypingInv, Workers
<1> QED
  BY <1>3, <1>4 DEF Pending

LEMMA NextLatch ==
    ASSUME TypingInv, LatchInv, Next
    PROVE  LatchInv'
<1> SUFFICES ASSUME ~stopLatched' PROVE LatchInv'
  BY DEF LatchInv
<1>1. ~stopLatched /\ ~At(L, "start", "undo")'
  BY LatchSteps DEF LatchInv
<1>2. \A w \in {"channel", "emergency"} : worker[w].queue = <<>> /\ worker[w].job \notin Callers
  BY <1>1, Flags DEF LatchInv
<1> DEFINE Calm == /\ \A w \in {"channel", "emergency"} : worker'[w].queue = <<>> /\ worker'[w].job = None
                   /\ \A w \in {"channel", "emergency"}, c \in Callers : receipt'[w][c] # "ok"
           Quiet == ~Pending(L, "cleanup")' /\ ~Pending(L, "runtime")'
<1> SUFFICES Calm /\ Quiet
  BY <1>1 DEF LatchInv
<1>3. CASE WorkerSteps
  <2>1. Quiet
    BY <1>1, <1>3, WorkerKeeps DEF LatchInv, Callers
  <2> SUFFICES Calm
    BY <2>1
  <2>2. CASE \E w \in Workers : WorkerTake(w)
    <3>1. PICK w \in Workers : WorkerTake(w)
      BY <2>2
    <3>2. w \notin {"channel", "emergency"} /\ receipt' = receipt
      BY <1>2, <3>1 DEF WorkerTake
    <3>3. \A v \in {"channel", "emergency"} : worker'[v] = worker[v]
      BY <3>1, <3>2, Taken DEF TypingInv, Workers
    <3> QED
      BY <1>1, <3>2, <3>3 DEF LatchInv
  <2>3. CASE \E w \in Workers : WorkerExit(w)
    BY <1>1, <2>3, Exited DEF WorkerExit, TypingInv, LatchInv, Workers
  <2>4. CASE \E w \in Workers, r \in Results : Finishes(w, r)
    BY <1>1, <1>2, <2>4, Finished DEF Finishes, TypingInv, LatchInv, Workers
  <2>5. CASE \E s \in Steps : GoesOn(s)
    BY <1>1, <2>5, Stepped DEF GoesOn, Steps, TypingInv, LatchInv, Workers
  <2>6. CASE \E c \in Callers : Calls(c)
    BY <1>2, <2>6 DEF Calls
  <2>7. CASE UNCHANGED <<worker, receipt>>
    BY <1>1, <2>7 DEF LatchInv
  <2> QED
    BY <1>3, <2>2, <2>3, <2>4, <2>5, <2>6, <2>7, WorkerMoves
<1>4. CASE CallerSteps
  <2>1. CASE \E c \in {"start", "monitor", "task"} : Enqueue(L, c)
    <3>1. PICK c \in {"start", "monitor", "task"} : Enqueue(L, c)
      BY <2>1
    <3>2. Quiet
      BY <1>1, <3>1, EnqueuePending DEF LatchInv, Callers
    <3>3. \A w \in {"channel", "emergency"} : worker'[w] = worker[w] /\ receipt'[w] = receipt[w]
      BY <3>1, Enqueued DEF TypingInv, Workers, Callers
    <3> QED
      BY <1>1, <3>2, <3>3 DEF LatchInv
  <2>2. CASE worker' = worker /\ receipt' = receipt
    BY <1>1, <2>2 DEF LatchInv, Pending, Queued
  <2>3. CASE \E w \in Workers : worker' = [worker EXCEPT ![w].open = FALSE] /\ receipt' = receipt
    BY <1>1, <2>3, Closed DEF LatchInv, Pending, Queued, TypingInv, Workers
  <2>4. CASE \E w \in Workers : CloseWorker(w)
    BY <2>2, <2>3, <2>4 DEF CloseWorker, NextWorker, Workers
  <2> QED
    BY <1>4, <2>1, <2>2, <2>3, <2>4 DEF CallerSteps, StartTask, PollStatus, CancelTask, CancelAnswered, StopTask,
       TaskSucceeds, TaskEnds, CleanupStop, CleanupDone, ChannelStop, StopRuntime, CloseGateway, RuntimeStopped, JoinCleanup,
       CloseStop, CloseStopped, CloseTransport, Workers
<1>5. CASE LateStart \/ MissionEnds
  BY <1>1, <1>5 DEF LateStart, MissionEnds, LatchInv, Pending, Queued
<1> QED
  BY <1>3, <1>4, <1>5 DEF Next

-----------------------------------------------------------------------------
(* What a stop leaves behind.                                              *)

\* A stop of the project leaves no launch that is still being made.
LEMMA DownSteps ==
    ASSUME TypingInv, Down, LaunchFails \/ LaunchTimesOut \/ UndoStart \/ ExecuteStop
    PROVE  launch' = "down" /\ mission' = "none" /\ ~At(L, "start", "launching")'
<1>1. worker[L].job \in Callers
  BY DEF LaunchFails, LaunchTimesOut, UndoStart, ExecuteStop, At, Callers
<1>2. \/ \E r \in Results : Finish(L, r)
      \/ StepTo(L, "undo")
  BY DEF LaunchFails, LaunchTimesOut, UndoStart, ExecuteStop, Results
<1>3. worker'[L].step \in {"idle", "undo"}
  BY <1>1, <1>2, Finished, Stepped DEF TypingInv, Workers
<1> QED
  BY <1>3 DEF Down, At

\* It stays that way: the launch that is stopped is not made again, and the mission
\* that is stopped is not started again.
LEMMA StillStays ==
    ASSUME TypingInv, WorldInv, Still, Next
    PROVE  Still'
<1>1. stopLatched' /\ (At(L, "start", "launching")' => At(L, "start", "launching"))
  BY LatchSteps DEF Still
<1> USE DEF TypingInv, TypeOK, WorldInv, Still
<1>2. CASE UNCHANGED <<launch, mission>>
  BY <1>1, <1>2
<1>3. CASE Down /\ (LaunchFails \/ LaunchTimesOut \/ UndoStart \/ ExecuteStop)
  BY <1>1, <1>3, DownSteps
<1>4. CASE LaunchFails \/ LaunchTimesOut \/ UndoStart \/ ExecuteStop
  BY <1>2, <1>3, <1>4 DEF LaunchFails, LaunchTimesOut, UndoStart, ExecuteStop
<1>5. CASE LaunchComesUp
  BY <1>5 DEF LaunchComesUp
<1>6. CASE TriggerStart \/ TriggerStartTimesOut
  BY <1>2, <1>6 DEF TriggerStart, TriggerStartTimesOut, StartsMission
<1>7. CASE ExecuteCancel
  BY <1>2, <1>7 DEF ExecuteCancel
<1>8. CASE TriggerStop
  BY <1>1, <1>2, <1>8 DEF TriggerStop, Serve
<1>9. CASE LateStart \/ MissionEnds
  BY <1>2, <1>9 DEF LateStart, MissionEnds, StartsMission
<1>10. CASE CallerSteps
  BY <1>2, <1>10, CallerMoves
<1> QED
  BY <1>2, <1>4, <1>5, <1>6, <1>7, <1>8, <1>9, <1>10
     DEF Next, WorkerSteps, WorkerTake, WorkerExit, SpawnStart, LaunchAnswers, WaitReady, CheckStart,
     ExecuteStatus, ChannelCalls, ChannelReceives

\* Who has a positive answer at the end of a step, and had none before.
NewAnswer == \/ \E w \in {"channel", "emergency"}, c \in Callers : receipt'[w][c] = "ok" /\ receipt[w][c] # "ok"
             \/ \E c \in {"cleanup", "runtime"} : receipt'[L][c] = "ok" /\ receipt[L][c] # "ok"

LEMMA ErrorAnswersNobody ==
    ASSUME TypingInv, NEW w \in Workers, worker[w].job \in Callers, Finish(w, "error")
    PROVE  ~NewAnswer
<1>1. TypeOK /\ "error" \in Results
  BY DEF TypingInv, Results
<1>2. \A v \in Workers, c \in Callers : receipt'[v][c] \in {receipt[v][c], "error"}
  BY <1>1, Finished
<1> QED
  BY <1>2 DEF NewAnswer, Workers, Callers

LEMMA NewAnswers ==
    ASSUME TypingInv, WorkerSteps, NewAnswer
    PROVE  TriggerStop \/ ChannelReceives \/ ExecuteStop
<1> USE DEF NewAnswer
<1>1. CASE receipt' = receipt
  BY <1>1
<1>2. CASE \E c \in Callers : Calls(c)
  <2>1. PICK c \in Callers : Calls(c)
    BY <1>2
  <2>2. /\ receipt'[L] = receipt[L] /\ receipt'["channel"] = receipt["channel"]
        /\ \A d \in Callers : receipt'["emergency"][d] \in {receipt["emergency"][d], "queued"}
    BY <2>1, Called DEF Calls, TypingInv
  <2> QED
    BY <2>2
<1>3. CASE Finishes("channel", "error")
  BY <1>3, ErrorAnswersNobody DEF Finishes, Workers
<1>4. CASE worker[L].job \in {"start", "task", "monitor"} /\ \E r \in Results : Finish(L, r)
  BY <1>4, Finished DEF TypingInv, Workers, Callers
<1>5. CASE ChannelCalls
  BY <1>2, <1>3, <1>5 DEF ChannelCalls, Calls, Finishes, TypingInv, Workers
<1> QED
  BY <1>1, <1>4, <1>5 DEF WorkerSteps, WorkerTake, WorkerExit, SpawnStart, LaunchComesUp, LaunchAnswers,
     LaunchFails, LaunchTimesOut, WaitReady, TriggerStart, TriggerStartTimesOut, CheckStart, UndoStart,
     ExecuteCancel, ExecuteStatus, StepTo, At, Results

LEMMA NextCancelled ==
    ASSUME TypingInv, FirstInv, StillInv, Next, receipt'[L]["start"] = "cancelled"
    PROVE  launch' = "down"
<1>1. CASE receipt[L]["start"] = "cancelled"
  <2>1. launch = "down" /\ worker[L].job # "start"
    BY <1>1 DEF StillInv, FirstInv, Pending
  <2> QED
    BY <2>1, CallerMoves DEF Next, WorkerSteps, WorkerTake, WorkerExit, SpawnStart, LaunchComesUp, LaunchAnswers,
       LaunchFails, LaunchTimesOut, WaitReady, TriggerStart, TriggerStartTimesOut, CheckStart, UndoStart,
       ExecuteCancel, ExecuteStatus, ExecuteStop, ChannelCalls, TriggerStop, ChannelReceives, LateStart,
       MissionEnds, Down, Serve, At
<1>2. CASE receipt[L]["start"] # "cancelled"
  <2>1. CASE CallerSteps
    BY <1>2, <2>1, CallerMoves DEF Workers, Callers
  <2>2. CASE receipt' = receipt
    BY <1>2, <2>2
  <2>3. CASE \E w \in Workers, r \in Results \ {"cancelled"} : Finishes(w, r)
    BY <1>2, <2>3, Finished DEF Finishes, TypingInv, Workers, Callers
  <2>4. CASE \E c \in Callers : Calls(c)
    BY <1>2, <2>4, Called DEF Calls, TypingInv
  <2>5. CASE UndoStart
    <3>1. Finish(L, "cancelled") \/ Finishes(L, "error")
      BY <2>5 DEF UndoStart, Finishes, At, Callers
    <3> QED
      BY <2>3, <2>5, <3>1 DEF UndoStart, Down, Workers, Results, Finishes, At, Callers
  <2>6. CASE ChannelCalls
    BY <2>3, <2>4, <2>6 DEF ChannelCalls, Calls, Finishes, TypingInv, Workers, Results
  <2>7. CASE TriggerStop \/ ChannelReceives
    BY <2>3, <2>7 DEF TriggerStop, ChannelReceives, Finishes, TypingInv, Workers, Results
  <2> QED
    BY <2>1, <2>2, <2>3, <2>5, <2>6, <2>7 DEF Next, WorkerSteps, WorkerTake, WorkerExit, SpawnStart,
       LaunchComesUp, LaunchAnswers, LaunchFails, LaunchTimesOut, WaitReady, TriggerStart,
       TriggerStartTimesOut, CheckStart, ExecuteCancel, ExecuteStatus, ExecuteStop, LateStart, MissionEnds,
       StepTo, At, Finishes, Results, Workers, Callers
<1> QED
  BY <1>1, <1>2

\* An answer that is the first of its kind comes from the node or the project.
LEMMA FreshAnswer ==
    ASSUME TypingInv, LatchInv, Next, ~Answered, NewAnswer, stopLatched => stopLatched'
    PROVE  Still'
<1>1. WorkerSteps
  BY CallerMoves DEF Next, LateStart, MissionEnds, NewAnswer, Workers, Callers
<1>2. CASE TriggerStop
  <2>1. worker["emergency"].job \in Callers
    BY <1>2 DEF TriggerStop, TypingInv, Workers
  <2>2. stopLatched
    BY <2>1, Flags DEF LatchInv
  <2>3. ~Finish("emergency", "error")
    BY <2>1, ErrorAnswersNobody DEF Workers
  <2> QED
    BY <1>2, <2>2, <2>3 DEF TriggerStop, Serve, Still
<1>3. CASE ChannelReceives
  <2>1. worker["channel"].job \in Callers
    BY <1>3 DEF ChannelReceives, TypingInv, Workers
  <2>2. Finish("channel", "error")
    BY <1>3, <2>1 DEF ChannelReceives, Answered
  <2> QED
    BY <2>1, <2>2, ErrorAnswersNobody DEF Workers
<1>4. CASE ExecuteStop
  <2>1. worker[L].job \in Callers /\ stopLatched
    BY <1>4 DEF ExecuteStop, At, Callers, LatchInv, Pending
  <2>2. ~Finish(L, "error")
    BY <2>1, ErrorAnswersNobody DEF Workers
  <2> QED
    BY <1>4, <2>1, <2>2, DownSteps DEF ExecuteStop, Still
<1> QED
  BY <1>1, <1>2, <1>3, <1>4, NewAnswers

LEMMA NextStill ==
    ASSUME TypingInv, FirstInv, FreshInv, WorldInv, LatchInv, StillInv, Next
    PROVE  StillInv'
<1>1. Still => Still'
  BY StillStays
<1>2. CASE Answered
  BY <1>1, <1>2, NextCancelled DEF StillInv
<1>3. CASE ~Answered
  <2> SUFFICES ASSUME Answered' PROVE Still'
    BY NextCancelled DEF StillInv
  <2>1. stopLatched => stopLatched'
    BY LatchSteps
  <2>2. CASE NewAnswer
    BY <1>3, <2>1, <2>2, FreshAnswer
  <2>3. CASE stopped' # stopped
    <3>1. TaskEnds \/ RuntimeStopped
      BY <2>3 DEF Next, WorkerSteps, CallerSteps, WorkerTake, WorkerExit, SpawnStart, LaunchComesUp, LaunchAnswers,
         LaunchFails, LaunchTimesOut, WaitReady, TriggerStart, TriggerStartTimesOut, CheckStart, UndoStart,
         ExecuteCancel, ExecuteStatus, ExecuteStop, ChannelCalls, TriggerStop, ChannelReceives, StartTask,
         PollStatus, CancelTask, CancelAnswered, StopTask, TaskSucceeds, CleanupStop, CleanupDone,
         ChannelStop, StopRuntime, CloseGateway, JoinCleanup, CloseStop, CloseStopped, CloseTransport,
         CloseWorker, LateStart, MissionEnds, EndTask
    <3>2. ~StopSucceeded("task") /\ ~StopSucceeded("runtime")
      BY <1>3 DEF StopSucceeded, Answered, Callers
    <3> QED
      BY <2>3, <3>1, <3>2 DEF TaskEnds, RuntimeStopped, TypingInv, TypeOK
  <2>4. CASE ~NewAnswer /\ stopped' = stopped
    <3>1. ~started' /\ task' # "none" /\ ~worker'[L].failed
      BY <1>3, <2>4 DEF Answered, NewAnswer
    <3>2. ~worker[L].failed
      BY <3>1, WorkerKeeps, CallerMoves DEF Next, LateStart, MissionEnds, Workers
    <3>3. started \/ task = "none"
      BY <1>3, <3>2 DEF Answered
    <3>4. UndoStart \/ ChannelReceives \/ CleanupDone \/ CloseStopped
      <4>1. CASE started' = started /\ task' = task
        BY <3>1, <3>3, <4>1
      <4>2. CASE StartTask \/ TaskEnds \/ RuntimeStopped
        BY <3>1, <3>3, <4>2 DEF StartTask, TaskEnds, RuntimeStopped
      <4> QED
        BY <4>1, <4>2 DEF Next, WorkerSteps, CallerSteps, WorkerTake, WorkerExit, SpawnStart, LaunchComesUp,
           LaunchAnswers, LaunchFails, LaunchTimesOut, WaitReady, TriggerStart, TriggerStartTimesOut, CheckStart,
           ExecuteCancel, ExecuteStatus, ExecuteStop, ChannelCalls, TriggerStop, PollStatus, CancelTask,
           CancelAnswered, StopTask, TaskSucceeds, CleanupStop, ChannelStop, StopRuntime, CloseGateway, JoinCleanup,
           CloseStop, CloseTransport, CloseWorker, LateStart, MissionEnds, EndTask
    <3>5. CASE UndoStart
      <4>1. worker[L].job \in Callers /\ stopLatched
        BY <3>5 DEF UndoStart, At, Callers, LatchInv
      <4>2. ~Finish(L, "error")
        BY <3>1, <4>1, Finished DEF TypingInv, Workers, Results
      <4> QED
        BY <2>1, <3>5, <4>1, <4>2, DownSteps DEF UndoStart, Still
    <3>6. CASE ChannelReceives
      <4>1. worker["channel"].job \in Callers
        BY <3>6 DEF ChannelReceives, TypingInv, Workers
      <4>2. started' = started /\ task' = task
        BY <1>3, <3>6, <4>1 DEF ChannelReceives, Answered
      <4> QED
        BY <3>1, <3>3, <4>2
    <3>7. CASE CleanupDone \/ CloseStopped
      <4>1. started' = started /\ task' = task
        BY <1>3, <3>7 DEF CleanupDone, CloseStopped, Answered
      <4> QED
        BY <3>1, <3>3, <4>1
    <3> QED
      BY <3>4, <3>5, <3>6, <3>7
  <2> QED
    BY <2>2, <2>3, <2>4
<1> QED
  BY <1>2, <1>3

-----------------------------------------------------------------------------
(* The shutdown.                                                           *)

\* A thread that has ended fails no more.
LEMMA EndedStays ==
    ASSUME TypingInv, ThreadInv, Next, NEW w \in Workers, ~worker[w].running
    PROVE  ~worker'[w].running /\ worker'[w].failed = worker[w].failed
<1>1. worker[w].queue = <<>> /\ worker[w].job \notin Callers /\ ~Accepts(w)
  BY Flags DEF ThreadInv, Accepts
<1>2. CASE \E v \in Workers : WorkerTake(v)
  BY <1>1, <1>2, Taken DEF WorkerTake, TypingInv
<1>3. CASE \E v \in Workers : WorkerExit(v)
  BY <1>3, Exited DEF WorkerExit, TypingInv
<1>4. CASE \E v \in Workers, r \in Results : Finishes(v, r)
  BY <1>1, <1>4, Finished DEF Finishes, TypingInv
<1>5. CASE \E s \in Steps : GoesOn(s)
  BY <1>5, Stepped DEF GoesOn, Steps, TypingInv, Workers
<1>6. CASE \E c \in Callers : Calls(c)
  BY <1>6, Called DEF Calls, TypingInv
<1>7. CASE UNCHANGED <<worker, receipt>>
  BY <1>7
<1>8. CASE CallerSteps
  BY <1>8, CallerMoves
<1> QED
  BY <1>2, <1>3, <1>4, <1>5, <1>6, <1>7, <1>8, WorkerMoves DEF Next, LateStart, MissionEnds

\* Worker after worker is closed, and has ended without a failure if nothing is bad.
LEMMA NextClose ==
    ASSUME TypingInv, ThreadInv, CloseInv, Next
    PROVE  CloseInv'
<1>1. \A w \in Workers : ~worker[w].running => ~worker'[w].running /\ worker'[w].failed = worker[w].failed
  BY EndedStays
<1> USE DEF CloseInv, Workers
<1>3. CASE pc'["runtime"] = pc["runtime"] /\ bad' = bad
  BY <1>1, <1>3
<1>4. CASE StopRuntime \/ CloseGateway \/ RuntimeStopped \/ JoinCleanup
  BY <1>4 DEF StopRuntime, CloseGateway, RuntimeStopped, JoinCleanup, Goto, TypingInv, Callers
<1>5. CASE CloseStop
  BY <1>5 DEF CloseStop, Goto, TypingInv, Callers
<1>6. CASE CloseStopped
  BY <1>6 DEF CloseStopped, Goto, TypingInv, Callers
<1>7. CASE CloseTransport
  BY <1>7 DEF CloseTransport, Goto, TypingInv, Callers
<1>8. CASE \E w \in Workers : CloseWorker(w)
  <2>1. PICK w \in Workers : CloseWorker(w)
    BY <1>8
  <2>2. /\ pc["runtime"] = w
        /\ ~bad' => ~bad /\ ~worker[w].running /\ ~worker[w].failed
        /\ pc'["runtime"] = "ok" => ~bad'
        /\ pc'["runtime"] \in IF w = "channel" THEN {"ok", "error"} ELSE {NextWorker(w)}
    <3>1. pc["runtime"] = w /\ bad' = (bad \/ worker[w].running \/ worker[w].failed)
      BY <2>1 DEF CloseWorker
    <3>2. pc'["runtime"] = IF w = "channel" THEN IF bad' THEN "error" ELSE "ok" ELSE NextWorker(w)
      BY <2>1 DEF CloseWorker, Goto, TypingInv, Callers
    <3>3. NextWorker(w) # "ok"
      BY DEF NextWorker
    <3>4. ~bad' => ~bad /\ ~worker[w].running /\ ~worker[w].failed
      BY <3>1
    <3> QED
      BY <3>1, <3>2, <3>3, <3>4
  <2>3. CASE ~bad'
    BY <1>1, <2>2, <2>3 DEF NextWorker
  <2>4. CASE bad'
    BY <2>2, <2>4 DEF NextWorker
  <2> QED
    BY <2>3, <2>4
<1>9. CASE WorkerSteps \/ LateStart \/ MissionEnds
  BY <1>3, <1>9 DEF WorkerSteps, WorkerTake, WorkerExit, SpawnStart, LaunchComesUp,
     LaunchAnswers, LaunchFails, LaunchTimesOut, WaitReady, TriggerStart, TriggerStartTimesOut, CheckStart,
     UndoStart, ExecuteCancel, ExecuteStatus, ExecuteStop, ChannelCalls, TriggerStop, ChannelReceives,
     LateStart, MissionEnds
<1>10. CASE StartTask \/ PollStatus \/ CancelTask \/ CancelAnswered \/ StopTask \/ TaskSucceeds
  BY <1>3, <1>10 DEF StartTask, PollStatus, CancelTask, CancelAnswered, StopTask, TaskSucceeds, EndTask, Goto,
     TypingInv, Callers
<1>11. CASE TaskEnds \/ CleanupStop \/ CleanupDone \/ \E c \in {"task", "runtime"} : ChannelStop(c)
  BY <1>3, <1>11 DEF TaskEnds, StopAnswered, CleanupStop, CleanupDone, ChannelStop, Goto, TypingInv, Callers
<1> QED
  BY <1>4, <1>5, <1>6, <1>7, <1>8, <1>9, <1>10, <1>11 DEF Next, CallerSteps

-----------------------------------------------------------------------------
(* The theorems.                                                           *)

LifecycleInv == /\ TypingInv /\ FirstInv /\ FreshInv /\ ThreadInv
                /\ WorldInv /\ LatchInv /\ StillInv /\ CloseInv

LEMMA LifecycleInit == Init => LifecycleInv
<1> SUFFICES ASSUME Init PROVE LifecycleInv
  OBVIOUS
<1> USE EmptySeq DEF Init
<1>1. TypingInv
  BY DEF TypingInv, TypeOK, CommandWorkers, Callers, Results, Places
<1>2. FirstInv /\ FreshInv /\ ThreadInv
  BY Flags DEF FirstInv, FreshInv, ThreadInv, Pending, Queued, Workers, Callers
<1>3. WorldInv /\ LatchInv
  BY Flags DEF WorldInv, LatchInv, Pending, Queued, At, Workers, Callers
<1>4. StillInv /\ CloseInv
  BY DEF StillInv, Answered, CloseInv, Workers, Callers
<1> QED
  BY <1>1, <1>2, <1>3, <1>4 DEF LifecycleInv

LEMMA LifecycleStep == LifecycleInv /\ [Next]_vars => LifecycleInv'
<1> SUFFICES ASSUME LifecycleInv, [Next]_vars PROVE LifecycleInv'
  OBVIOUS
<1>1. CASE Next
  BY <1>1, WorkerTyping, CallerTyping, OtherTyping, NextFirst, NextFresh, NextThreads, NextWorld, NextLatch, NextStill, NextClose
     DEF LifecycleInv, Next
<1>2. CASE UNCHANGED vars
  BY <1>2 DEF vars, LifecycleInv, TypingInv, TypeOK, FirstInv, FreshInv, ThreadInv, WorldInv, LatchInv, StillInv,
     CloseInv, Still, Answered, Pending, Queued, At
<1> QED
  BY <1>1, <1>2

LEMMA LifecycleInvariant == Spec => []LifecycleInv
BY LifecycleInit, LifecycleStep, PTL DEF Spec

\* The workers, the receipts and the world keep their types, a failed or closed
\* worker included.
THEOREM HospitalTyped == Spec => []TypeOK
<1>1. LifecycleInv => TypeOK
  BY DEF LifecycleInv, TypingInv
<1> QED
  BY <1>1, LifecycleInvariant, PTL

\* A successful emergency stop holds the mission, whatever start it overtook and
\* wherever, and whichever calls fail or are given up on.
THEOREM EmergencyStopHolds == Spec => []StopHoldsMission
<1>1. LifecycleInv => StopHoldsMission
  BY DEF LifecycleInv, WorldInv, StillInv, Answered, Still, StopHoldsMission
<1> QED
  BY <1>1, LifecycleInvariant, PTL

\* No launch is up once the start has been answered as cancelled.
THEOREM CancelledStartUndone == Spec => []CancelledStartIsUndone
<1>1. LifecycleInv => CancelledStartIsUndone
  BY DEF LifecycleInv, StillInv, CancelledStartIsUndone
<1> QED
  BY <1>1, LifecycleInvariant, PTL

\* A shutdown without an error leaves nothing that moves and no worker that still
\* has something to do, but for the mission of a start it came too early for.
THEOREM CleanStopStill == Spec => []CleanStopIsStill
<1>1. ASSUME LifecycleInv, pc["runtime"] = "ok"
      PROVE  /\ mission = "running" => started
             /\ ~lateStart
             /\ \A w \in Workers : worker[w].job = None /\ worker[w].queue = <<>>
  <2>1. ~bad /\ ~worker[L].failed /\ \A w \in Workers : ~worker[w].running
    BY <1>1 DEF LifecycleInv, CloseInv, Workers
  <2>2. ~started => task = "none" \/ Still
    BY <1>1, <2>1 DEF LifecycleInv, StillInv, Answered
  <2> QED
    BY <1>1, <2>1, <2>2 DEF LifecycleInv, ThreadInv, WorldInv, FreshInv, Still
<1>2. LifecycleInv => CleanStopIsStill
  BY <1>1 DEF CleanStopIsStill
<1> QED
  BY <1>2, LifecycleInvariant, PTL
=============================================================================
