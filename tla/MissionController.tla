-------------------------- MODULE MissionController --------------------------
(***************************************************************************)
(* The mission controller of the hospital example: the core's state        *)
(* machine (smartcar_bringup/controller_core.py) inside its ROS node       *)
(* (mission_controller.py), which alone publishes /cmd_vel.                *)
(*                                                                         *)
(* The node runs in one thread: each service, subscription and timer       *)
(* callback is one step.  Two clocks drive it.  The mission, obstacle and  *)
(* progress limits are in simulated time and the age of the odometry is in *)
(* wall time; the timer itself follows the node's clock, which is the      *)
(* simulated one (use_sim_time in the launch file), so a tick is due only  *)
(* after simulated time has passed.  Times are kept as ages, counted up to *)
(* just past the limit that reads them.                                    *)
(*                                                                         *)
(* The waypoints of the route are numbered in order.  A pose is what the   *)
(* core computes from it: the waypoints within tolerance, the distance to  *)
(* the next one and the error of the heading, both in progress epsilons.   *)
(***************************************************************************)
EXTENDS Naturals, Sequences, FiniteSets

CONSTANTS Stages, WaypointsPerStage,
          MissionTimeout, OdomTimeout, ObstacleFailAfter, ProgressTimeout,
          ZeroBurst,           \* length of the burst of zero commands
          MaxDistance, MaxTurn,
          Unset

ASSUME RouteAssumption == Stages \in Nat \ {0} /\ WaypointsPerStage \in Nat \ {0}
ASSUME LimitAssumption == /\ MissionTimeout \in Nat /\ OdomTimeout \in Nat
                          /\ ObstacleFailAfter \in Nat /\ ProgressTimeout \in Nat
                          /\ ZeroBurst \in Nat /\ MaxDistance \in Nat /\ MaxTurn \in Nat

Waypoints == 1..(Stages * WaypointsPerStage)
Poses == [near : SUBSET Waypoints, distance : 0..MaxDistance, turn : 0..MaxTurn]

States == {"IDLE", "RUNNING", "SUCCEEDED", "FAILED", "CANCELLED", "ESTOPPED"}
TerminalStates == States \ {"IDLE", "RUNNING"}
Failures == {"MISSION_TIMEOUT", "ODOM_STALE", "OBSTACLE_BLOCKED", "WAYPOINT_NO_PROGRESS"}

ASSUME UnsetAssumption == Unset \notin Nat /\ Unset \notin Failures

VARIABLES state, failure,   \* MissionState and failure_code
          next,             \* the next waypoint: stage_index and waypoint_index
          results,          \* stage_results: the stages ended, in order
          age,              \* simulated time since started_at
          obstacle,         \* simulated time since obstacle_since
          progress,         \* the target watched, its best distance and heading, their age
          pose, odomAge,    \* the last odometry and its wall-clock age
          front,            \* the last scan shows an obstacle within the stop distance
          lastState, burst, \* _last_state and _zero_burst_remaining
          due,              \* the timer has expired
          cmd,              \* the last command on /cmd_vel
          alive,            \* the node has not been closed
          visited,          \* waypoints the robot was at in this mission (history)
          zeros             \* zero commands since a stop was last accepted (history)

core == <<state, failure, next, results, age, obstacle, progress>>
inputs == <<pose, odomAge, front>>
history == <<visited, zeros>>
missionVars == <<core, inputs, lastState, burst, due, cmd, alive, history>>

NoProgress == [target |-> Unset, distance |-> Unset, turn |-> Unset, age |-> 0]
End == Stages * WaypointsPerStage + 1
StageOf(w) == (w - 1) \div WaypointsPerStage

MissionTypeOK ==
    /\ state \in States
    /\ failure \in Failures \cup {Unset}
    /\ next \in 1..End
    /\ results \in Seq(1..Stages)
    /\ age \in 0..(MissionTimeout + 1)
    /\ obstacle \in 0..(ObstacleFailAfter + 1) \cup {Unset}
    /\ progress \in [target : Waypoints \cup {Unset}, distance : 0..MaxDistance \cup {Unset},
                     turn : 0..MaxTurn \cup {Unset}, age : 0..(ProgressTimeout + 1)]
    /\ pose \in Poses \cup {Unset}
    /\ odomAge \in 0..(OdomTimeout + 1)
    /\ front \in BOOLEAN
    /\ lastState \in States
    /\ burst \in 0..ZeroBurst
    /\ due \in BOOLEAN
    /\ cmd \in {"zero", "moving"}
    /\ alive \in BOOLEAN
    /\ visited \subseteq Waypoints
    /\ zeros \in 0..ZeroBurst

MissionInit ==
    /\ state = "IDLE" /\ failure = Unset /\ next = 1 /\ results = <<>>
    /\ age = 0 /\ obstacle = Unset /\ progress = NoProgress
    /\ pose = Unset /\ odomAge = 0 /\ front = FALSE
    /\ lastState = "IDLE" /\ burst = 0 /\ due = FALSE
    /\ cmd = "zero" /\ alive = TRUE
    /\ visited = {} /\ zeros = ZeroBurst

-----------------------------------------------------------------------------
(* The services                                                             *)

\* (fault) A new mission goes on from the waypoint of the one before.
ResumedMission ==
    /\ failure' = Unset /\ results' = <<>> /\ UNCHANGED next
    /\ age' = 0 /\ obstacle' = Unset /\ progress' = NoProgress

NewMission ==
    /\ failure' = Unset /\ next' = 1 /\ results' = <<>>
    /\ age' = 0 /\ obstacle' = Unset /\ progress' = NoProgress

(* _on_start refuses until odometry has been received.                      *)
Start ==
    /\ alive /\ pose # Unset
    /\ state \notin {"RUNNING", "ESTOPPED"}
    /\ state' = "RUNNING"
    /\ NewMission
    /\ visited' = {}
    /\ UNCHANGED <<inputs, lastState, burst, due, cmd, alive, zeros>>

\* (fault) A cancelled mission leaves the stop to the edge the next tick sees.
CancelWithoutBurst ==
    /\ alive /\ state = "RUNNING"
    /\ state' = "CANCELLED"
    /\ zeros' = 0
    /\ UNCHANGED <<failure, next, results, age, obstacle, progress, inputs, lastState, burst,
                   due, cmd, alive, visited>>

Cancel ==
    /\ alive /\ state = "RUNNING"
    /\ state' = "CANCELLED"
    /\ burst' = ZeroBurst /\ zeros' = 0
    /\ UNCHANGED <<failure, next, results, age, obstacle, progress, inputs, lastState, due,
                   cmd, alive, visited>>

(* Accepted in every state; a repeated stop starts the burst again.         *)
Estop ==
    /\ alive
    /\ state' = "ESTOPPED"
    /\ burst' = ZeroBurst /\ zeros' = 0
    /\ UNCHANGED <<failure, next, results, age, obstacle, progress, inputs, lastState, due,
                   cmd, alive, visited>>

Reset ==
    /\ alive /\ state # "RUNNING"
    /\ state' = "IDLE"
    /\ NewMission
    /\ burst' = ZeroBurst /\ zeros' = 0
    /\ visited' = {}
    /\ UNCHANGED <<inputs, lastState, due, cmd, alive>>

-----------------------------------------------------------------------------
(* The subscriptions and the clocks                                         *)

OnOdom ==
    /\ alive
    /\ pose' \in Poses
    /\ odomAge' = 0
    /\ UNCHANGED <<core, front, lastState, burst, due, cmd, alive, history>>

(* The last scan stays in force however old it is.                          *)
OnScan ==
    /\ alive
    /\ front' = ~front
    /\ UNCHANGED <<core, pose, odomAge, lastState, burst, due, cmd, alive, history>>

Older(a, limit) == IF a <= limit THEN a + 1 ELSE a

(* Ages are read while a mission runs, and so counted then.                 *)
SimTime ==
    /\ alive /\ ~due
    /\ due' = TRUE
    /\ IF state = "RUNNING"
       THEN /\ age' = Older(age, MissionTimeout)
            /\ obstacle' = IF obstacle = Unset THEN Unset ELSE Older(obstacle, ObstacleFailAfter)
            /\ progress' = IF progress.target = Unset THEN progress
                           ELSE [progress EXCEPT !.age = Older(@, ProgressTimeout)]
       ELSE UNCHANGED <<age, obstacle, progress>>
    /\ UNCHANGED <<state, failure, next, results, inputs, lastState, burst, cmd, alive, history>>

WallTime ==
    /\ alive /\ pose # Unset /\ odomAge <= OdomTimeout
    /\ odomAge' = odomAge + 1
    /\ UNCHANGED <<core, pose, front, lastState, burst, due, cmd, alive, history>>

-----------------------------------------------------------------------------
(* The control tick: update(), then the terminal edge, then the command     *)

(* The waypoints already within tolerance are skipped, one after another.   *)
NextAfter(w, near) == CHOOSE v \in w..End : v \notin near /\ \A u \in w..(v - 1) : u \in near

(* Whether the core fails, in the order of its tests, and why.              *)
Failure ==
    IF age > MissionTimeout THEN "MISSION_TIMEOUT"
    ELSE IF odomAge > OdomTimeout THEN "ODOM_STALE"
    ELSE IF front
    THEN IF obstacle # Unset /\ obstacle > ObstacleFailAfter THEN "OBSTACLE_BLOCKED" ELSE Unset
    ELSE IF /\ next \notin pose.near /\ progress.target = next
            /\ ~(pose.distance < progress.distance) /\ ~(pose.turn < progress.turn)
            /\ progress.age > ProgressTimeout
    THEN "WAYPOINT_NO_PROGRESS" ELSE Unset

Watch(target) ==
    IF progress.target # target
    THEN [target |-> target, distance |-> pose.distance, turn |-> pose.turn, age |-> 0]
    ELSE IF pose.distance < progress.distance
    THEN [progress EXCEPT !.distance = pose.distance, !.turn = pose.turn, !.age = 0]
    ELSE IF pose.turn < progress.turn THEN [progress EXCEPT !.turn = pose.turn, !.age = 0]
    ELSE progress

(* The waypoints the pose passes, and the stages that ends.                 *)
Pass(v) ==
    /\ next' = v
    /\ results' = results \o [i \in 1..(StageOf(v) - StageOf(next)) |-> StageOf(next) + i]
    /\ visited' = visited \cup next..(v - 1)

(* What update() does and the command it returns.                           *)
Idle == UNCHANGED <<core, visited>>

FailWith(code) ==
    /\ state' = "FAILED" /\ failure' = code
    /\ obstacle' = IF code = "WAYPOINT_NO_PROGRESS" THEN Unset ELSE obstacle
    /\ UNCHANGED <<next, results, age, progress, visited>>

Blocked ==
    /\ obstacle' = IF obstacle = Unset THEN 0 ELSE obstacle
    /\ UNCHANGED <<state, failure, next, results, age, progress, visited>>

Arrive ==
    /\ Pass(End) /\ state' = "SUCCEEDED"
    /\ obstacle' = Unset /\ progress' = NoProgress
    /\ UNCHANGED <<failure, age>>

Drive ==
    LET v == NextAfter(next, pose.near)
    IN  /\ Pass(v)
        /\ progress' = Watch(v)
        /\ obstacle' = Unset
        /\ UNCHANGED <<state, failure, age>>

\* (fault) The burst ends one command early.
ShortBurst(moves) ==
    LET left == IF state' \in TerminalStates /\ lastState \notin TerminalStates
                THEN ZeroBurst ELSE burst
    IN  /\ lastState' = state'
        /\ burst' = IF left > 1 THEN left - 1 ELSE 0
        /\ cmd' = IF moves /\ left <= 1 THEN "moving" ELSE "zero"
        /\ zeros' = IF cmd' = "zero" /\ zeros < ZeroBurst THEN zeros + 1 ELSE zeros

Publish(moves) ==
    LET left == IF state' \in TerminalStates /\ lastState \notin TerminalStates
                THEN ZeroBurst ELSE burst
    IN  /\ lastState' = state'
        /\ burst' = IF left > 0 THEN left - 1 ELSE 0
        /\ cmd' = IF moves /\ left = 0 THEN "moving" ELSE "zero"
        /\ zeros' = IF cmd' = "zero" /\ zeros < ZeroBurst THEN zeros + 1 ELSE zeros

TickTail(moves) ==
    /\ due' = FALSE
    /\ Publish(moves)
    /\ UNCHANGED <<inputs, alive>>

Ready == alive /\ due
Going == Ready /\ state = "RUNNING"

TickIdle == Ready /\ state # "RUNNING" /\ Idle /\ TickTail(FALSE)

TickFails == Going /\ Failure # Unset /\ FailWith(Failure) /\ TickTail(FALSE)

TickBlocked == Going /\ Failure = Unset /\ front /\ Blocked /\ TickTail(FALSE)

TickArrives ==
    /\ Going /\ Failure = Unset /\ ~front
    /\ NextAfter(next, pose.near) = End
    /\ Arrive /\ TickTail(FALSE)

TickDrives ==
    /\ Going /\ Failure = Unset /\ ~front
    /\ NextAfter(next, pose.near) # End
    /\ Drive /\ TickTail(TRUE)

Tick == TickIdle \/ TickFails \/ TickBlocked \/ TickArrives \/ TickDrives

(* close() publishes its burst only while the ROS context is still valid.   *)
Close ==
    /\ alive
    /\ alive' = FALSE
    /\ cmd' \in {"zero", cmd}
    /\ UNCHANGED <<core, inputs, lastState, burst, due, history>>

MissionNext ==
    \/ Start \/ Cancel \/ Estop \/ Reset \/ OnOdom \/ OnScan \/ SimTime \/ WallTime
    \/ TickIdle \/ TickFails \/ TickBlocked \/ TickArrives \/ TickDrives \/ Close

MissionSpec == MissionInit /\ [][MissionNext]_missionVars

-----------------------------------------------------------------------------
(* Properties                                                               *)

(* A tick publishes motion only after a whole burst of zero commands since   *)
(* the last accepted cancel, emergency stop or reset, even when a new       *)
(* mission is started inside that burst, and never on stale odometry.       *)
StopBeforeMotion ==
    [][due /\ ~due' /\ cmd' = "moving" => zeros = ZeroBurst /\ odomAge <= OdomTimeout]_missionVars

(* The next waypoint, the stages reported and the state agree with where    *)
(* the robot has been since this mission started: no waypoint is skipped,   *)
(* no stage is reported out of order or from an earlier mission, and only a *)
(* whole route succeeds.                                                    *)
RouteInOrder ==
    /\ results = [i \in 1..StageOf(next) |-> i]
    /\ 1..(next - 1) \subseteq visited
    /\ state = "SUCCEEDED" => visited = Waypoints
    /\ state = "RUNNING" => next \in Waypoints /\ failure = Unset
=============================================================================
