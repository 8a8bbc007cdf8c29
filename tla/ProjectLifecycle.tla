-------------------------- MODULE ProjectLifecycle --------------------------
(***************************************************************************)
(* The command-line lifecycle of the hospital example                      *)
(* (examples/hospital_delivery/scripts/codex_project.py).  Every command   *)
(* is a process of its own: a start builds the workspace, spawns the       *)
(* launch and waits for its graph; a stop ends whatever runs.  They share  *)
(* three files and an flock: state.json with the records of the launches,  *)
(* startup.json with the reservation of a start, and                       *)
(* startup-cleanup-failed.json.  Any command may be killed between two of  *)
(* its writes; the kernel then drops the lock and the files stay.          *)
(*                                                                         *)
(* A launch is a process group.  Its leader is the child of the start that *)
(* spawned it, and a dead leader stays a zombie member of its group until  *)
(* that start reaps it or ends.  Files are replaced atomically, so each    *)
(* write is one step; a region that holds the lock and makes several       *)
(* writes is several steps.                                                *)
(***************************************************************************)
EXTENDS Naturals, FiniteSets, TLC

CONSTANTS Starters,    \* processes that run `start`; each is also its token and its launch
          Stoppers,    \* processes that run `stop`
          None,        \* no file, no holder
          MayKill      \* a command may be killed at any step

ASSUME SomeCommands == /\ IsFiniteSet(Starters) /\ IsFiniteSet(Stoppers)
                       /\ Starters \cap Stoppers = {}
                       /\ None \notin Starters \cup Stoppers
                       /\ MayKill \in BOOLEAN

Procs == Starters \cup Stoppers

VARIABLES lock,      \* holder of lifecycle.lock between two steps of a region
          state,     \* state.json: the recorded launches and startup_token
          startup,   \* startup.json, the reservation
          failure,   \* startup-cleanup-failed.json: the pid it names
          launch,    \* the process group of each start
          pc,        \* where each command is
          known,     \* start: `record` is bound / was terminated, as the step needs
          seen,      \* stop: what it loaded
          ended      \* starts that were under way when a stop answered ok (history)

files == <<state, startup, failure>>
vars == <<lock, state, startup, failure, launch, pc, known, seen, ended>>

Reservation == [token : Starters, cancelled : BOOLEAN, phase : {"building", "handoff"},
                unresolved : Starters \cup {None}, recorded : BOOLEAN]

ASSUME NoFile == None \notin Reservation

(* alive: the leader runs.  zombie: only the unreaped leader is left.       *)
(* orphaned: the leader is gone, other members run.                         *)
Groups == {"none", "alive", "zombie", "orphaned", "gone"}

StartSteps == {"idle", "build", "handoff", "spawn", "commit", "reap", "mark", "mark_startup",
               "unlink", "wait", "cleanup", "rewrite", "release"}
StopSteps == {"idle", "resolve", "terminate", "settle", "write", "clear"}

Sightings == [live : SUBSET Starters, groups : SUBSET Starters, unresolved : BOOLEAN,
              phaseOnly : BOOLEAN, pid : Starters \cup {None}, recorded : BOOLEAN,
              left : SUBSET Starters, token : Starters \cup {None}]

NothingSeen == [live |-> {}, groups |-> {}, unresolved |-> FALSE,
                phaseOnly |-> FALSE, pid |-> None, recorded |-> FALSE,
                left |-> {}, token |-> None]

TypeOK ==
    /\ lock \in Procs \cup {None}
    /\ state \in [records : SUBSET Starters, token : Starters \cup {None}]
    /\ startup \in Reservation \cup {None}
    /\ failure \in Starters \cup {None}
    /\ launch \in [Starters -> Groups]
    /\ pc \in [Procs -> StartSteps \cup StopSteps \cup {"ok", "error", "killed"}]
    /\ known \in [Starters -> BOOLEAN]
    /\ seen \in [Stoppers -> Sightings]
    /\ ended \subseteq Starters

Init ==
    /\ lock = None
    /\ state = [records |-> {}, token |-> None]
    /\ startup = None
    /\ failure = None
    /\ launch = [s \in Starters |-> "none"]
    /\ pc = [p \in Procs |-> "idle"]
    /\ known = [s \in Starters |-> FALSE]
    /\ seen = [p \in Stoppers |-> NothingSeen]
    /\ ended = {}

-----------------------------------------------------------------------------
(* What /proc tells of a launch.  A zombie has an empty command line, so it *)
(* matches no record, and still counts as a member of its group.            *)

Matches(s) == launch[s] = "alive"
Members(s) == launch[s] \in {"alive", "zombie", "orphaned"}

(* load_runtime_state                                                       *)
Live == {s \in state.records : Matches(s)}
Unresolved == {s \in state.records : ~Matches(s) /\ Members(s)}

Final(p) == pc[p] \in {"ok", "error", "killed"}

(* Ending the leader of s: its parent, the start, leaves it a zombie until  *)
(* it reaps it or ends.                                                     *)
DeadLeader(s) == IF Final(s) THEN "gone" ELSE "zombie"

(* terminate_managed_process: the state of the group after it and what it   *)
(* returns.  It signals only a group whose leader matches, and returns TRUE *)
(* only once the group has no member.                                       *)
Terminated(s) ==
    IF Matches(s)
    THEN {[group |-> DeadLeader(s), done |-> Final(s)],
          [group |-> "alive", done |-> FALSE], [group |-> "orphaned", done |-> FALSE]}
    ELSE {[group |-> launch[s], done |-> FALSE]}

(* terminate_spawned_launch polls its own child and so reaps it; a group    *)
(* that ends before the signal reaches it counts as a failure.              *)
Reaped(s) ==
    IF launch[s] \in {"alive", "orphaned"}
    THEN {[group |-> "gone", done |-> TRUE], [group |-> "gone", done |-> FALSE],
          [group |-> launch[s], done |-> FALSE], [group |-> "orphaned", done |-> FALSE]}
    ELSE {[group |-> "gone", done |-> TRUE]}

Goto(p, l) == pc' = [pc EXCEPT ![p] = l]

(* The end of a command: the kernel closes its files, which drops the lock, *)
(* and hands its child to init, which reaps it.                             *)
Exit(p, l) ==
    /\ Goto(p, l)
    /\ lock' = IF lock = p THEN None ELSE lock
    /\ launch' = IF p \in Starters /\ launch[p] = "zombie"
                 THEN [launch EXCEPT ![p] = "gone"] ELSE launch

Reserve(s, cancelled, phase, unresolved, recorded) ==
    [token |-> s, cancelled |-> cancelled, phase |-> phase,
     unresolved |-> unresolved, recorded |-> recorded]

-----------------------------------------------------------------------------
(* start                                                                    *)

\* (fault) A start looks only at records whose leader still matches.
ReserveOverOrphans(s) ==
    /\ pc[s] = "idle" /\ lock = None
    /\ Live = {} /\ startup = None /\ failure = None
    /\ startup' = Reserve(s, FALSE, "building", None, FALSE)
    /\ Goto(s, "build")
    /\ UNCHANGED <<lock, state, failure, launch, known, seen, ended>>

StartReserve(s) ==
    /\ pc[s] = "idle" /\ lock = None
    /\ Live = {} /\ startup = None /\ failure = None /\ Unresolved = {}
    /\ startup' = Reserve(s, FALSE, "building", None, FALSE)
    /\ Goto(s, "build")
    /\ UNCHANGED <<lock, state, failure, launch, known, seen, ended>>

StartRefused(s) ==
    /\ pc[s] = "idle" /\ lock = None
    /\ Live # {} \/ startup # None \/ failure # None \/ Unresolved # {}
    /\ Goto(s, "error")
    /\ UNCHANGED <<lock, files, launch, known, seen, ended>>

(* The inspection of /cmd_vel or the build may fail.                        *)
Build(s) ==
    /\ pc[s] = "build"
    /\ \E l \in {"handoff", "release"} : Goto(s, l)
    /\ UNCHANGED <<lock, files, launch, known, seen, ended>>

HandoffCancelled(s) ==
    /\ pc[s] = "handoff" /\ lock = None
    /\ IF startup = None THEN TRUE ELSE startup.token # s \/ startup.cancelled
    /\ Goto(s, "release")
    /\ UNCHANGED <<lock, files, launch, known, seen, ended>>

\* (fault) The handoff does not look at its reservation again.
HandoffUnchecked(s) ==
    /\ pc[s] = "handoff" /\ lock = None
    /\ lock' = s
    /\ startup' = Reserve(s, FALSE, "handoff", None, FALSE)
    /\ Goto(s, "spawn")
    /\ UNCHANGED <<state, failure, launch, known, seen, ended>>

Handoff(s) ==
    /\ pc[s] = "handoff" /\ lock = None
    /\ startup # None
    /\ startup.token = s /\ ~startup.cancelled
    /\ lock' = s
    /\ startup' = Reserve(s, FALSE, "handoff", None, FALSE)
    /\ Goto(s, "spawn")
    /\ UNCHANGED <<state, failure, launch, known, seen, ended>>

Spawn(s) ==
    /\ pc[s] = "spawn"
    /\ launch' = [launch EXCEPT ![s] = "alive"]
    /\ Goto(s, "commit")
    /\ UNCHANGED <<lock, files, known, seen, ended>>

SpawnFails(s) ==
    /\ pc[s] = "spawn"
    /\ lock' = None
    /\ Goto(s, "release")
    /\ UNCHANGED <<files, launch, known, seen, ended>>

(* record_process reads /proc of the child.                                 *)
Commit(s) ==
    /\ pc[s] = "commit" /\ Matches(s)
    /\ state' = [records |-> {s}, token |-> s]
    /\ Goto(s, "unlink")
    /\ UNCHANGED <<lock, startup, failure, launch, known, seen, ended>>

CommitFails(s) ==
    /\ pc[s] = "commit"
    /\ \E r \in BOOLEAN : known' = [known EXCEPT ![s] = r]
    /\ Goto(s, "reap")
    /\ UNCHANGED <<lock, files, launch, seen, ended>>

Reap(s) ==
    /\ pc[s] = "reap"
    /\ \E r \in Reaped(s) :
         /\ launch' = [launch EXCEPT ![s] = r.group]
         /\ IF r.done THEN Goto(s, "release") /\ lock' = None
                      ELSE Goto(s, "mark") /\ UNCHANGED lock
    /\ UNCHANGED <<files, known, seen, ended>>

(* Both markers are best effort; the region ends with an exception and the  *)
(* reservation is preserved.                                                *)
Mark(s) ==
    /\ pc[s] = "mark"
    /\ failure' \in {s, failure}
    /\ Goto(s, "mark_startup")
    /\ UNCHANGED <<lock, state, startup, launch, known, seen, ended>>

MarkStartup(s) ==
    /\ pc[s] = "mark_startup"
    /\ startup' \in {Reserve(s, TRUE, "handoff", s, known[s]), startup}
    /\ Exit(s, "error")
    /\ UNCHANGED <<state, failure, known, seen, ended>>

(* The unlink may fail; the exception skips the wait.                       *)
Unlink(s) ==
    /\ pc[s] = "unlink"
    /\ lock' = None
    /\ \/ startup' = None /\ Goto(s, "wait")
       \/ Goto(s, "release") /\ UNCHANGED startup
    /\ known' = [known EXCEPT ![s] = FALSE]
    /\ UNCHANGED <<state, failure, launch, seen, ended>>

WaitForGraph(s) ==
    /\ pc[s] = "wait"
    /\ \E up \in BOOLEAN :
         /\ Goto(s, IF up THEN "release" ELSE "cleanup")
         /\ known' = [known EXCEPT ![s] = up]
    /\ UNCHANGED <<lock, files, launch, seen, ended>>

(* Without the lock: the start ends its own launch.                         *)
StartCleanup(s) ==
    /\ pc[s] = "cleanup"
    /\ \E r \in Terminated(s) :
         /\ launch' = [launch EXCEPT ![s] = r.group]
         /\ known' = [known EXCEPT ![s] = r.done \/ r.group = "gone"]
    /\ Goto(s, "rewrite")
    /\ UNCHANGED <<lock, files, seen, ended>>

StartRewrite(s) ==
    /\ pc[s] = "rewrite" /\ lock = None
    /\ state' = [records |-> Live \cup Unresolved \cup (IF known[s] THEN {} ELSE {s}),
                 token |-> IF startup = None THEN None
                           ELSE IF state.token = startup.token THEN state.token ELSE None]
    /\ known' = [known EXCEPT ![s] = FALSE]
    /\ Goto(s, "release")
    /\ UNCHANGED <<lock, startup, failure, launch, seen, ended>>

(* The finally clause, which may fail to unlink; known tells that the graph *)
(* came up.                                                                 *)
Mine(s) == IF startup = None THEN FALSE ELSE startup.token = s /\ startup.unresolved = None

StartRelease(s) ==
    /\ pc[s] = "release" /\ lock = None
    /\ IF Mine(s) THEN startup' \in {None, startup} ELSE UNCHANGED startup
    /\ \E l \in {"ok", "error"} :
         /\ l = "ok" => known[s] /\ (Mine(s) => startup' = None)
         /\ l = "error" => ~known[s] \/ (Mine(s) /\ startup' # None)
         /\ Exit(s, l)
    /\ UNCHANGED <<state, failure, known, seen, ended>>

-----------------------------------------------------------------------------
(* stop: one region under the lock                                          *)

(* A reservation in its building phase is cancelled; one in handoff cannot  *)
(* be, and counts as an unresolved startup.                                 *)
InHandoff == IF startup = None THEN FALSE
             ELSE startup.unresolved # None \/ startup.phase = "handoff"

PhaseOnlyCommitted ==
    /\ InHandoff
    /\ startup.unresolved = None /\ failure = None
    /\ state.token = startup.token
    /\ state.records # {}

UnresolvedPid == IF InHandoff /\ startup.unresolved # None THEN startup.unresolved ELSE failure

StopBegin(p) ==
    /\ pc[p] = "idle" /\ lock = None
    /\ lock' = p
    /\ LET open == InHandoff \/ failure # None
       IN  /\ startup' = IF startup # None /\ ~open
                         THEN [startup EXCEPT !.cancelled = TRUE] ELSE startup
           /\ seen' = [seen EXCEPT ![p] =
                [live |-> Live, groups |-> Unresolved, unresolved |-> open,
                 phaseOnly |-> PhaseOnlyCommitted,
                 pid |-> IF open THEN UnresolvedPid ELSE None,
                 recorded |-> InHandoff /\ startup.unresolved # None /\ startup.recorded,
                 left |-> {}, token |-> IF startup = None THEN None ELSE startup.token]]
    /\ Goto(p, "resolve")
    /\ UNCHANGED <<state, failure, launch, known, ended>>

(* The launch an unresolved startup names: ended if its record is known,    *)
(* forgotten once its group is empty.                                       *)
StopResolve(p) ==
    /\ pc[p] = "resolve"
    /\ LET s == seen[p].pid
       IN  IF s = None THEN UNCHANGED <<startup, failure, launch, seen>>
           ELSE \E r \in IF Members(s) /\ seen[p].recorded THEN Terminated(s)
                         ELSE {[group |-> launch[s], done |-> FALSE]} :
                  /\ launch' = [launch EXCEPT ![s] = r.group]
                  /\ IF r.group = "gone"
                     THEN /\ startup' = None /\ failure' = None
                          /\ seen' = [seen EXCEPT ![p].unresolved = FALSE]
                     ELSE UNCHANGED <<startup, failure, seen>>
    /\ Goto(p, "terminate")
    /\ UNCHANGED <<lock, state, known, ended>>

(* The mission's emergency stop is called first (timeouts ignored), then    *)
(* every live record is terminated in turn.                                 *)
StopTerminate(p) ==
    /\ pc[p] = "terminate"
    /\ \E s \in seen[p].live : \E r \in Terminated(s) :
         /\ launch' = [launch EXCEPT ![s] = r.group]
         /\ seen' = [seen EXCEPT ![p].live = @ \ {s},
                                 ![p].left = IF r.done THEN @ ELSE @ \cup {s}]
    /\ UNCHANGED <<lock, files, pc, known, ended>>

StopSettle(p) ==
    /\ pc[p] = "terminate"
    /\ seen[p].live = {}
    /\ IF seen[p].phaseOnly /\ seen[p].left = {} /\ seen[p].groups = {}
       THEN /\ startup' = None /\ failure' = None
            /\ seen' = [seen EXCEPT ![p].unresolved = FALSE]
       ELSE UNCHANGED <<startup, failure, seen>>
    /\ Goto(p, "write")
    /\ UNCHANGED <<lock, state, launch, known, ended>>

\* (fault) Groups whose leader is dead are not kept in the state.
StopForgetsGroups(p) ==
    /\ pc[p] = "write"
    /\ state' = [records |-> seen[p].left,
                 token |-> IF seen[p].phaseOnly /\ seen[p].unresolved
                           THEN seen[p].token ELSE None]
    /\ Goto(p, "clear")
    /\ UNCHANGED <<lock, startup, failure, launch, known, seen, ended>>

StopWrite(p) ==
    /\ pc[p] = "write"
    /\ state' = [records |-> seen[p].left \cup seen[p].groups,
                 token |-> IF seen[p].phaseOnly /\ seen[p].unresolved
                           THEN seen[p].token ELSE None]
    /\ Goto(p, "clear")
    /\ UNCHANGED <<lock, startup, failure, launch, known, seen, ended>>

(* The files of a settled startup go, the lock is released, the answer is   *)
(* printed.                                                                 *)
StopClear(p) ==
    /\ pc[p] = "clear"
    /\ IF seen[p].unresolved THEN UNCHANGED <<startup, failure>>
       ELSE startup' = None /\ failure' = None
    /\ LET ok == seen[p].left = {} /\ seen[p].groups = {} /\ ~seen[p].unresolved
       IN  /\ Exit(p, IF ok THEN "ok" ELSE "error")
           /\ ended' = IF ok THEN ended \cup {s \in Starters : pc[s] # "idle"} ELSE ended
    /\ UNCHANGED <<state, known, seen>>

-----------------------------------------------------------------------------
(* The world: a command is killed, a leader dies, the last member leaves.   *)

Kill(p) ==
    /\ MayKill
    /\ pc[p] # "idle" /\ ~Final(p)
    /\ Exit(p, "killed")
    /\ UNCHANGED <<files, known, seen, ended>>

LeaderDies(s) ==
    /\ launch[s] = "alive"
    /\ launch' = [launch EXCEPT ![s] = "orphaned"]
    /\ UNCHANGED <<lock, files, pc, known, seen, ended>>

GroupEnds(s) ==
    /\ launch[s] \in {"alive", "orphaned"}
    /\ launch' = [launch EXCEPT ![s] = DeadLeader(s)]
    /\ UNCHANGED <<lock, files, pc, known, seen, ended>>

Start(s) ==
    \/ StartReserve(s) \/ StartRefused(s) \/ Build(s) \/ HandoffCancelled(s) \/ Handoff(s)
    \/ Spawn(s) \/ SpawnFails(s) \/ Commit(s) \/ CommitFails(s) \/ Reap(s) \/ Mark(s)
    \/ MarkStartup(s) \/ Unlink(s) \/ WaitForGraph(s) \/ StartCleanup(s) \/ StartRewrite(s)
    \/ StartRelease(s)

Stop(p) ==
    \/ StopBegin(p) \/ StopResolve(p) \/ StopTerminate(p) \/ StopSettle(p) \/ StopWrite(p)
    \/ StopClear(p)

Next == \/ \E s \in Starters : Start(s) \/ LeaderDies(s) \/ GroupEnds(s)
        \/ \E p \in Stoppers : Stop(p)
        \/ \E p \in Procs : Kill(p)

Spec == Init /\ [][Next]_vars

-----------------------------------------------------------------------------
(* Properties                                                               *)

(* Whenever the lock is free, a launch that has processes left is known to  *)
(* the files: its record is in state.json, a marker names it, or a handoff  *)
(* reservation of its start still blocks every later start.  No failed      *)
(* write, failed termination, kill or late cleanup of an older start makes  *)
(* the commands forget a running launch.                                    *)
RunningLaunchIsKnown ==
    lock = None => \A s \in Starters : launch[s] \in {"alive", "orphaned"} =>
        \/ s \in state.records
        \/ failure = s
        \/ IF startup = None THEN FALSE
           ELSE startup.unresolved = s \/ (startup.token = s /\ startup.phase = "handoff")

(* Two launches never run at once, whichever starts and stops overlap: a    *)
(* second simulation would put a second /cmd_vel publisher on the robot.    *)
OneLaunch ==
    \A s, t \in Starters :
        launch[s] \in {"alive", "orphaned"} /\ launch[t] \in {"alive", "orphaned"} => s = t

(* A stop that answers ok ends every start that was under way: none of them *)
(* has a process left then, and none spawns one afterwards.                 *)
StoppedStartsStayDown == \A s \in ended : launch[s] \in {"none", "gone"}
=============================================================================
