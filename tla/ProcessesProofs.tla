-------------------------- MODULE ProcessesProofs --------------------------
(***************************************************************************)
(* Proofs about two components whose work is done by others: the project's *)
(* launch, which is a group of processes, and the navigation goal, which   *)
(* is at the action server.                                                *)
(*                                                                         *)
(* ProjectLifecycle, for any set of commands, killed or not.  The files    *)
(* need not know a launch that was never spawned or is over; the invariant *)
(* is about those that have members, a zombie included: it is members that *)
(* a start looks for.  At most one launch has them, and what the files say *)
(* of other launches is never about one that has.                          *)
(*                                                                         *)
(* Nav2Transport, for any number of stages, cancellers and stop callbacks, *)
(* and whether calls raise or are given up on: what the transport says of  *)
(* its goal is true, and a run that has ended has asked for the            *)
(* cancellation of every goal at work.  Everything rests on there being    *)
(* one goal to speak of: a goal is sent only between two stages, when all  *)
(* before it have succeeded and their callbacks have run, so that an       *)
(* answer, a result or a cancellation that comes late is about the last    *)
(* goal sent or about none.                                                *)
(***************************************************************************)
EXTENDS ProjectLifecycle, Nav2Transport, TLAPS

-----------------------------------------------------------------------------
(* The project: the inductive invariant.                                   *)

\* The launches that have members.
Up == {s \in Starters : Members(s)}

Handing(s) == startup # None /\ startup.token = s /\ startup.phase = "handoff"
Building == startup # None /\ startup.phase = "building"

\* What the files say of the one launch that has members.
FilesInv ==
    /\ \A s, t \in Up : s = t
    /\ \A s \in Up : s \in state.records \/ failure = s \/ Handing(s)
    /\ failure # None => Up \subseteq {failure}
    /\ \A s \in Starters : Handing(s) => Up \subseteq {s}
    /\ Building => Up = {} /\ failure = None
    /\ startup # None =>
          startup.unresolved = None \/ (startup.unresolved = startup.token /\ ~Building)
    /\ state.token \in Up => state.token \in state.records

StartRegion == {"spawn", "commit", "reap", "mark", "mark_startup", "unlink"}
Unspawned == {"idle", "build", "handoff", "spawn"}
Spawned == {"unlink", "wait", "cleanup", "rewrite", "release"}
StopRegion == {"resolve", "terminate", "write", "clear"}

\* What a start has left in the files at each of its steps.
StartAt(s) ==
    /\ pc[s] \in Unspawned => s \notin Up /\ state.token # s
    /\ pc[s] \in {"idle", "build", "handoff"} => ~Handing(s)
    /\ pc[s] \in StartRegion => lock = s /\ Handing(s)
    /\ pc[s] = "spawn" => failure = None
    /\ pc[s] \in Spawned /\ s \in Up => s \in state.records

StartInv == \A s \in Starters : StartAt(s)

\* What a stop has seen still holds while it keeps the lock.
StopAt(p) ==
    /\ pc[p] \in StopRegion =>
          lock = p /\ (~seen[p].unresolved => failure = None /\ ~InHandoff)
    /\ pc[p] = "resolve" /\ seen[p].pid # None => Up \subseteq {seen[p].pid}
    /\ pc[p] \in {"resolve", "terminate"} /\ seen[p].phaseOnly => Up \subseteq state.records
    /\ pc[p] \in {"resolve", "terminate", "write"} =>
          /\ Up \cap state.records \subseteq seen[p].live \cup seen[p].groups \cup seen[p].left
          /\ seen[p].phaseOnly => seen[p].token = state.token
    /\ pc[p] = "write" => seen[p].live = {}
    /\ pc[p] = "clear" => state.records \subseteq seen[p].groups \cup seen[p].left

StopInv == \A p \in Stoppers : StopAt(p)

\* A start that a stop has answered for stays without a launch.
EndedAt(s) == /\ s \notin Up
              /\ pc[s] \notin {"idle"} \cup StartRegion
              /\ startup # None => startup.token # s

EndedInv == \A s \in ended : EndedAt(s)

LifecycleInv == FilesInv /\ StartInv /\ StopInv /\ EndedInv

USE DEF files

-----------------------------------------------------------------------------
(* What the operators on groups return.                                    *)

LEMMA Apart == /\ \A s \in Starters : s \in Procs /\ s \notin Stoppers /\ s # None
               /\ \A p \in Stoppers : p \in Procs /\ p \notin Starters /\ p # None
BY SomeCommands DEF Procs

\* A group that is signalled is ended, or stays; it has no member when the call
\* tells that it ended.
LEMMA TerminatedLeft ==
    ASSUME NEW s \in Starters, launch[s] \in Groups, NEW r \in Terminated(s)
    PROVE  /\ r.group \in Groups
           /\ r.group \in {"alive", "zombie", "orphaned"} => Members(s)
           /\ launch[s] \in {"none", "gone"} => r.group = launch[s]
           /\ r.done => r.group = "gone"
BY DEF Terminated, DeadLeader, Matches, Members, Groups

LEMMA ReapedLeft ==
    ASSUME NEW s \in Starters, launch[s] \in Groups, NEW r \in Reaped(s)
    PROVE  /\ r.group \in Groups
           /\ r.group \in {"alive", "zombie", "orphaned"} => Members(s)
           /\ r.done => r.group = "gone"
BY DEF Reaped, Members, Groups

\* What load_runtime_state returns are the recorded launches that have members.
LEMMA RecordedUp ==
    ASSUME TypeOK
    PROVE  Live \cup Unresolved = state.records \cap Up
BY DEF TypeOK, Live, Unresolved, Matches, Members, Up

-----------------------------------------------------------------------------
(* Types.                                                                  *)

LEMMA ExitTyped ==
    ASSUME TypeOK, NEW p \in Procs, NEW l \in {"ok", "error", "killed"}, Exit(p, l)
    PROVE  /\ lock' \in Procs \cup {None}
           /\ launch' \in [Starters -> Groups]
           /\ pc' = [pc EXCEPT ![p] = l]
BY DEF TypeOK, Exit, Goto, Groups

LEMMA ForgetTyped ==
    ASSUME TypeOK, NEW p \in Stoppers, seen' = [seen EXCEPT ![p].unresolved = FALSE]
    PROVE  seen' \in [Stoppers -> Sightings]
<1>1. \A r \in Sightings : [r EXCEPT !.unresolved = FALSE] \in Sightings
  BY Zenon DEF Sightings
<1>2. seen' = [seen EXCEPT ![p] = [seen[p] EXCEPT !.unresolved = FALSE]]
  OBVIOUS
<1> QED
  BY <1>1, <1>2 DEF TypeOK

LEMMA TakeTyped ==
    ASSUME TypeOK, NEW p \in Stoppers, NEW s \in Starters, NEW stays \in SUBSET Starters,
           seen' = [seen EXCEPT ![p].live = @ \ {s}, ![p].left = stays]
    PROVE  seen' \in [Stoppers -> Sightings]
<1>1. \A r \in Sightings, live \in SUBSET Starters :
         [r EXCEPT !.live = live, !.left = stays] \in Sightings
  BY Zenon DEF Sightings
<1>2. seen[p].live \ {s} \in SUBSET Starters
  BY DEF TypeOK, Sightings
<1>3. seen' = [seen EXCEPT ![p] = [seen[p] EXCEPT !.live = seen[p].live \ {s}, !.left = stays]]
  BY DEF TypeOK
<1> DEFINE sight == [seen[p] EXCEPT !.live = seen[p].live \ {s}, !.left = stays]
<1>4. sight \in Sightings
  BY <1>1, <1>2, Zenon DEF TypeOK
<1> HIDE DEF sight
<1> QED
  BY <1>3, <1>4 DEF TypeOK, sight

LEMMA StartTyped ==
    ASSUME TypeOK, NEW s \in Starters, Start(s)
    PROVE  TypeOK'
<1> s \in Procs /\ s # None
  BY Apart
<1>0. \A c \in BOOLEAN, h \in {"building", "handoff"}, u \in Starters \cup {None}, k \in BOOLEAN :
         Reserve(s, c, h, u, k) \in Reservation
  BY DEF Reserve, Reservation
<1>1. CASE StartReserve(s) \/ Handoff(s)
  <2>1. startup' \in Reservation
    BY <1>0, <1>1 DEF StartReserve, Handoff
  <2> QED
    BY <1>1, <2>1 DEF StartReserve, Handoff, Goto, TypeOK, StartSteps
<1>9. CASE StartRefused(s) \/ Build(s) \/ HandoffCancelled(s)
  BY <1>9 DEF StartRefused, Build, HandoffCancelled, Goto, TypeOK, StartSteps
<1>2. CASE Spawn(s) \/ SpawnFails(s) \/ Commit(s) \/ CommitFails(s)
  BY <1>2 DEF Spawn, SpawnFails, Commit, CommitFails, Goto, TypeOK, StartSteps, Groups
<1>3. CASE Reap(s)
  <2>1. \E r \in Reaped(s) : launch' = [launch EXCEPT ![s] = r.group]
    BY <1>3 DEF Reap
  <2>2. launch' \in [Starters -> Groups]
    BY <2>1, ReapedLeft DEF TypeOK
  <2> QED
    BY <1>3, <2>2 DEF Reap, Goto, TypeOK, StartSteps
<1>4. CASE Mark(s)
  BY <1>4 DEF Mark, Goto, TypeOK, StartSteps
<1>10. CASE Unlink(s)
  BY <1>10 DEF Unlink, Goto, TypeOK, StartSteps
<1>11. CASE WaitForGraph(s)
  BY <1>11 DEF WaitForGraph, Goto, TypeOK, StartSteps
<1>5. CASE MarkStartup(s)
  <2>1. Reserve(s, TRUE, "handoff", s, known[s]) \in Reservation
    BY <1>0 DEF TypeOK
  <2> QED
    BY <1>5, <2>1, ExitTyped DEF MarkStartup, TypeOK
<1>6. CASE StartCleanup(s)
  <2>1. PICK r \in Terminated(s) : /\ launch' = [launch EXCEPT ![s] = r.group]
                                   /\ known' = [known EXCEPT ![s] = r.done \/ r.group = "gone"]
    BY <1>6 DEF StartCleanup
  <2>2. r.group \in Groups
    BY <2>1, TerminatedLeft DEF TypeOK
  <2>3. (r.done \/ r.group = "gone") \in BOOLEAN
    OBVIOUS
  <2> QED
    BY <1>6, <2>1, <2>2, <2>3 DEF StartCleanup, Goto, TypeOK, StartSteps
<1>7. CASE StartRewrite(s)
  <2>1. Live \cup Unresolved \cup (IF known[s] THEN {} ELSE {s}) \subseteq Starters
    BY DEF TypeOK, Live, Unresolved
  <2> QED
    BY <1>7, <2>1 DEF StartRewrite, Goto, TypeOK, StartSteps, Reservation
<1>8. CASE StartRelease(s)
  BY <1>8, ExitTyped DEF StartRelease, TypeOK
<1> QED
  BY <1>1, <1>2, <1>3, <1>4, <1>5, <1>6, <1>7, <1>8, <1>9, <1>10, <1>11 DEF Start

LEMMA StopTyped ==
    ASSUME TypeOK, NEW p \in Stoppers, Stop(p)
    PROVE  TypeOK'
<1> p \in Procs /\ p # None
  BY Apart
<1>1. CASE StopBegin(p)
  <2>1. Live \subseteq Starters /\ Unresolved \subseteq Starters
    BY DEF TypeOK, Live, Unresolved
  <2>2. seen' \in [Stoppers -> Sightings]
    BY <1>1, <2>1 DEF StopBegin, InHandoff, PhaseOnlyCommitted, UnresolvedPid, TypeOK,
            Reservation, Sightings
  <2>3. startup' \in Reservation \cup {None}
    BY <1>1 DEF StopBegin, TypeOK, Reservation
  <2> QED
    BY <1>1, <2>2, <2>3 DEF StopBegin, Goto, TypeOK, StopSteps
<1>2. CASE StopResolve(p)
  <2>1. pc' \in [Procs -> StartSteps \cup StopSteps \cup {"ok", "error", "killed"}]
    BY <1>2 DEF StopResolve, Goto, TypeOK, StopSteps
  <2>2. CASE seen[p].pid = None
    BY <1>2, <2>1, <2>2 DEF StopResolve, TypeOK
  <2>3. CASE seen[p].pid # None
    <3> DEFINE s == seen[p].pid
    <3>1. s \in Starters
      BY <2>3 DEF TypeOK, Sightings
    <3>2. /\ launch' \in [Starters -> Groups]
          /\ startup' \in {startup, None} /\ failure' \in {failure, None}
          /\ seen' = seen \/ seen' = [seen EXCEPT ![p].unresolved = FALSE]
      <4>1. PICK r \in IF Members(s) /\ seen[p].recorded THEN Terminated(s)
                       ELSE {[group |-> launch[s], done |-> FALSE]} :
                  /\ launch' = [launch EXCEPT ![s] = r.group]
                  /\ IF r.group = "gone"
                     THEN /\ startup' = None /\ failure' = None
                          /\ seen' = [seen EXCEPT ![p].unresolved = FALSE]
                     ELSE UNCHANGED <<startup, failure, seen>>
        BY <1>2, <2>3 DEF StopResolve
      <4>2. r.group \in Groups
        BY <3>1, <4>1, TerminatedLeft DEF TypeOK
      <4> QED
        BY <4>1, <4>2 DEF TypeOK
    <3>3. seen' \in [Stoppers -> Sightings]
      BY <3>2, ForgetTyped DEF TypeOK
    <3> QED
      BY <1>2, <2>1, <3>2, <3>3 DEF StopResolve, TypeOK
  <2> QED
    BY <2>2, <2>3
<1>3. CASE StopTerminate(p)
  <2>0. PICK s \in seen[p].live : \E r \in Terminated(s) :
           /\ launch' = [launch EXCEPT ![s] = r.group]
           /\ seen' = [seen EXCEPT ![p].live = @ \ {s},
                                   ![p].left = IF r.done THEN @ ELSE @ \cup {s}]
    BY <1>3 DEF StopTerminate
  <2>1. PICK r \in Terminated(s) :
           /\ launch' = [launch EXCEPT ![s] = r.group]
           /\ seen' = [seen EXCEPT ![p].live = @ \ {s},
                                   ![p].left = IF r.done THEN @ ELSE @ \cup {s}]
    BY <2>0
  <2>2. s \in Starters /\ r.group \in Groups
    BY <2>0, <2>1, TerminatedLeft DEF TypeOK, Sightings
  <2>3. seen' \in [Stoppers -> Sightings]
    <3>1. (IF r.done THEN seen[p].left ELSE seen[p].left \cup {s}) \in SUBSET Starters
      BY <2>2 DEF TypeOK, Sightings
    <3> QED
      BY <2>1, <2>2, <3>1, TakeTyped
  <2> QED
    BY <1>3, <2>1, <2>2, <2>3 DEF StopTerminate, TypeOK
<1>4. CASE StopSettle(p)
  <2>1. seen' \in [Stoppers -> Sightings]
    BY <1>4, ForgetTyped DEF StopSettle, TypeOK
  <2> QED
    BY <1>4, <2>1 DEF StopSettle, Goto, TypeOK, StopSteps
<1>6. CASE StopWrite(p)
  BY <1>6 DEF StopWrite, Goto, TypeOK, StopSteps, Sightings
<1>5. CASE StopClear(p)
  BY <1>5, ExitTyped DEF StopClear, TypeOK
<1> QED
  BY <1>1, <1>2, <1>3, <1>4, <1>5, <1>6 DEF Stop

LEMMA WorldTyped ==
    ASSUME TypeOK, \/ \E s \in Starters : LeaderDies(s) \/ GroupEnds(s)
                   \/ \E p \in Procs : Kill(p)
    PROVE  TypeOK'
<1>1. ASSUME NEW s \in Starters, LeaderDies(s) \/ GroupEnds(s)
      PROVE  TypeOK'
  BY <1>1 DEF LeaderDies, GroupEnds, DeadLeader, Groups, TypeOK
<1>2. ASSUME NEW p \in Procs, Kill(p)
      PROVE  TypeOK'
  BY <1>2, ExitTyped DEF Kill, TypeOK
<1> QED
  BY <1>1, <1>2

-----------------------------------------------------------------------------
(* What a step of one command leaves to the others.                        *)

\* Whoever is not at work keeps what it has, as long as no launch gets members
\* and no record of one that has is dropped.
LEMMA FilesKept ==
    ASSUME FilesInv, Up' \subseteq Up, UNCHANGED files
    PROVE  FilesInv'
BY DEF FilesInv, Handing, Building

LEMMA StartKept ==
    ASSUME NEW t \in Starters, StartAt(t), pc'[t] = pc[t],
           t \in Up' => t \in Up,
           t \in Up' /\ t \in state.records => t \in state'.records,
           state'.token = t => state.token = t,
           lock = t => UNCHANGED <<lock, startup, failure>>,
           Handing(t)' => Handing(t)
    PROVE  StartAt(t)'
BY DEF StartAt, Handing, StartRegion, Unspawned, Spawned

LEMMA StopKept ==
    ASSUME NEW p \in Stoppers, StopAt(p), pc'[p] = pc[p], seen'[p] = seen[p],
           lock = p => Up' \subseteq Up /\ UNCHANGED <<lock, state, startup, failure>>
    PROVE  StopAt(p)'
BY DEF StopAt, StopRegion, InHandoff

LEMMA EndedKept ==
    ASSUME NEW s \in ended, EndedAt(s), pc'[s] \notin {"idle"} \cup StartRegion,
           s \in Up' => s \in Up,
           startup' = None \/ (startup # None /\ startup'.token = startup.token)
    PROVE  EndedAt(s)'
BY DEF EndedAt

\* Groups only lose members, except by a spawn.
LEMMA GroupLess ==
    ASSUME TypeOK, NEW s \in Starters, NEW g \in Groups, launch' = [launch EXCEPT ![s] = g],
           g \in {"alive", "zombie", "orphaned"} => Members(s)
    PROVE  Up' \subseteq Up /\ (g = "gone" => s \notin Up')
BY DEF TypeOK, Up, Members

LEMMA ExitLess ==
    ASSUME TypeOK, NEW p, NEW l, Exit(p, l)
    PROVE  Up' \subseteq Up
BY DEF TypeOK, Exit, Up, Members

LEMMA SameLaunch ==
    ASSUME launch' = launch
    PROVE  Up' = Up
BY DEF Up, Members

\* A start at work disturbs the invariant only in its own part and in the files;
\* a change of the files it makes while no stop keeps the lock.
LEMMA StartMoves ==
    ASSUME TypeOK, LifecycleInv,
           NEW s \in Starters, NEW l, pc' = [pc EXCEPT ![s] = l],
           UNCHANGED <<seen, ended>>,
           Up' \subseteq Up \cup {s},
           lock \in {None, s} \/ (Up' \subseteq Up /\ UNCHANGED <<lock, state, startup, failure>>),
           \A t \in (Up \cap state.records) \ {s} : t \in state'.records,
           state'.token \in {state.token, None, s},
           startup' \in {startup, None} \/ startup'.token = s,
           FilesInv', StartAt(s)',
           s \in ended => EndedAt(s)'
    PROVE  LifecycleInv'
<1>1. ASSUME NEW t \in Starters PROVE StartAt(t)'
  <2>1. CASE t = s
    BY <2>1
  <2>2. CASE t # s
    <3>1. pc'[t] = pc[t] /\ StartAt(t) /\ t # None
      BY <2>2, Apart DEF TypeOK, LifecycleInv, StartInv
    <3>2. state'.token = t => state.token = t
      BY <2>2, <3>1
    <3>3. Handing(t)' => Handing(t)
      BY <2>2 DEF Handing
    <3>4. lock = t => UNCHANGED <<lock, startup, failure>>
      BY <2>2, <3>1
    <3>5. t \in Up' => t \in Up
      BY <2>2
    <3>6. t \in Up' /\ t \in state.records => t \in state'.records
      BY <2>2, <3>5
    <3> QED
      BY <3>1, <3>2, <3>3, <3>4, <3>5, <3>6, StartKept
  <2> QED
    BY <2>1, <2>2
<1>2. ASSUME NEW p \in Stoppers PROVE StopAt(p)'
  <2>1. pc'[p] = pc[p] /\ StopAt(p) /\ p # s /\ p # None
    BY Apart DEF TypeOK, LifecycleInv, StopInv
  <2>2. lock = p => Up' \subseteq Up /\ UNCHANGED <<lock, state, startup, failure>>
    BY <2>1
  <2> QED
    BY <2>1, <2>2, StopKept
<1>3. ASSUME NEW t \in ended' PROVE EndedAt(t)'
  <2>1. CASE t = s
    BY <1>3, <2>1
  <2>2. CASE t # s
    <3>1. pc'[t] = pc[t] /\ EndedAt(t) /\ t \in Starters
      BY <2>2, Apart DEF TypeOK, LifecycleInv, EndedInv
    <3> QED
      BY <2>2, <3>1 DEF EndedAt
  <2> QED
    BY <2>1, <2>2
<1> QED
  BY <1>1, <1>2, <1>3 DEF LifecycleInv, StartInv, StopInv, EndedInv

\* A stop at work drops no record of a launch with members and reserves nothing.
LEMMA StopMoves ==
    ASSUME TypeOK, LifecycleInv,
           NEW p \in Stoppers, NEW l, pc' = [pc EXCEPT ![p] = l],
           \A q \in Stoppers \ {p} : seen'[q] = seen[q],
           Up' \subseteq Up,
           lock \in {None, p} \/ UNCHANGED <<lock, state, startup, failure>>,
           Up' \cap state.records \subseteq state'.records,
           state'.token \in {state.token, None},
           startup' = None \/ (/\ startup # None /\ startup'.token = startup.token
                               /\ startup'.phase = startup.phase),
           FilesInv', StopAt(p)',
           \A s \in ended' \ ended : EndedAt(s)'
    PROVE  LifecycleInv'
<1>1. ASSUME NEW t \in Starters PROVE StartAt(t)'
  <2>1. pc'[t] = pc[t] /\ StartAt(t) /\ t # p /\ t # None
    BY Apart DEF TypeOK, LifecycleInv, StartInv
  <2>2. Handing(t)' => Handing(t)
    BY DEF Handing
  <2>3. state'.token = t => state.token = t
    BY <2>1
  <2>4. lock = t => UNCHANGED <<lock, startup, failure>>
    BY <2>1
  <2> QED
    BY <2>1, <2>2, <2>3, <2>4, StartKept
<1>2. ASSUME NEW q \in Stoppers PROVE StopAt(q)'
  <2>1. CASE q = p
    BY <2>1
  <2>2. CASE q # p
    <3>1. pc'[q] = pc[q] /\ StopAt(q) /\ q # None /\ seen'[q] = seen[q]
      BY <2>2, Apart DEF TypeOK, LifecycleInv, StopInv
    <3>2. lock = q => Up' \subseteq Up /\ UNCHANGED <<lock, state, startup, failure>>
      BY <2>2, <3>1
    <3> QED
      BY <3>1, <3>2, StopKept
  <2> QED
    BY <2>1, <2>2
<1>3. ASSUME NEW t \in ended' PROVE EndedAt(t)'
  <2>1. CASE t \in ended
    <3>1. pc'[t] = pc[t] /\ EndedAt(t)
      BY <2>1, Apart DEF TypeOK, LifecycleInv, EndedInv
    <3> QED
      BY <2>1, <3>1 DEF EndedAt
  <2>2. CASE t \notin ended
    BY <1>3, <2>2
  <2> QED
    BY <2>1, <2>2
<1> QED
  BY <1>1, <1>2, <1>3 DEF LifecycleInv, StartInv, StopInv, EndedInv

-----------------------------------------------------------------------------
(* The steps of a start.                                                   *)

\* A step that changes no file.
LEMMA QuietStart ==
    ASSUME TypeOK, LifecycleInv,
           NEW s \in Starters, NEW l, pc' = [pc EXCEPT ![s] = l],
           UNCHANGED <<state, startup, failure, seen, ended>>,
           Up' \subseteq Up,
           lock' = lock \/ lock \in {None, s},
           StartAt(s)',
           l \notin {"idle"} \cup StartRegion \/ (pc[s] \in StartRegion /\ l # "idle")
    PROVE  LifecycleInv'
<1>1. FilesInv'
  BY FilesKept DEF LifecycleInv
<1>2. s \in ended => EndedAt(s)'
  BY Apart DEF TypeOK, LifecycleInv, EndedInv, EndedAt
<1>3. /\ Up' \subseteq Up \cup {s}
      /\ lock \in {None, s} \/ (Up' \subseteq Up /\ UNCHANGED <<lock, state, startup, failure>>)
      /\ \A t \in (Up \cap state.records) \ {s} : t \in state'.records
      /\ state'.token \in {state.token, None, s}
      /\ startup' \in {startup, None} \/ startup'.token = s
      /\ UNCHANGED <<seen, ended>>
  OBVIOUS
<1> QED
  BY <1>1, <1>2, <1>3, StartMoves

LEMMA QuietSteps ==
    ASSUME TypeOK, LifecycleInv, NEW s \in Starters,
           \/ StartRefused(s) \/ Build(s) \/ HandoffCancelled(s) \/ SpawnFails(s)
           \/ CommitFails(s) \/ WaitForGraph(s)
    PROVE  LifecycleInv'
<1>1. PICK l : /\ pc' = [pc EXCEPT ![s] = l]
               /\ \/ pc[s] = "idle" /\ l = "error" /\ lock' = lock
                  \/ pc[s] = "build" /\ l \in {"handoff", "release"} /\ lock' = lock
                  \/ pc[s] = "handoff" /\ l = "release" /\ lock' = lock
                  \/ pc[s] = "spawn" /\ l = "release" /\ lock' = None
                  \/ pc[s] = "commit" /\ l = "reap" /\ lock' = lock
                  \/ pc[s] = "wait" /\ l \in {"release", "cleanup"} /\ lock' = lock
  BY DEF StartRefused, Build, HandoffCancelled, SpawnFails, CommitFails, WaitForGraph, Goto
<1>2. UNCHANGED <<state, startup, failure, seen, ended, launch>>
  BY DEF StartRefused, Build, HandoffCancelled, SpawnFails, CommitFails, WaitForGraph
<1>3. Up' = Up
  BY <1>2, SameLaunch
<1>4. StartAt(s) /\ pc'[s] = l
  BY <1>1, Apart DEF TypeOK, LifecycleInv, StartInv
<1>5. StartAt(s)'
  BY <1>1, <1>2, <1>3, <1>4 DEF StartAt, StartRegion, Unspawned, Spawned, Handing
<1>6. lock' = lock \/ lock \in {None, s}
  BY <1>1, <1>4 DEF StartAt, StartRegion
<1>7. l \notin {"idle"} \cup StartRegion \/ (pc[s] \in StartRegion /\ l # "idle")
  BY <1>1 DEF StartRegion
<1> QED
  BY <1>1, <1>2, <1>3, <1>5, <1>6, <1>7, QuietStart

\* The steps that end a launch: reap and cleanup.
LEMMA EndingSteps ==
    ASSUME TypeOK, LifecycleInv, NEW s \in Starters, Reap(s) \/ StartCleanup(s)
    PROVE  LifecycleInv'
<1>1. StartAt(s) /\ launch[s] \in Groups
  BY DEF TypeOK, LifecycleInv, StartInv
<1>2. UNCHANGED <<state, startup, failure, seen, ended>>
  BY DEF Reap, StartCleanup
<1>3. CASE Reap(s)
  <2>1. PICK r \in Reaped(s) :
          /\ launch' = [launch EXCEPT ![s] = r.group]
          /\ IF r.done THEN Goto(s, "release") /\ lock' = None
                       ELSE Goto(s, "mark") /\ UNCHANGED lock
    BY <1>3 DEF Reap
  <2>2. Up' \subseteq Up /\ (r.done => s \notin Up')
    BY <1>1, <2>1, ReapedLeft, GroupLess
  <2>3. pc[s] = "reap" /\ lock = s
    BY <1>1, <1>3 DEF Reap, StartAt, StartRegion
  <2>4. CASE r.done
    <3>1. pc' = [pc EXCEPT ![s] = "release"] /\ pc'[s] = "release"
      BY <2>1, <2>4, Apart DEF Goto, TypeOK
    <3>2. StartAt(s)'
      BY <2>2, <2>4, <3>1 DEF StartAt, StartRegion, Unspawned, Spawned
    <3> QED
      BY <1>2, <2>2, <2>3, <3>1, <3>2, QuietStart DEF StartRegion
  <2>5. CASE ~r.done
    <3>1. pc' = [pc EXCEPT ![s] = "mark"] /\ pc'[s] = "mark" /\ lock' = lock
      BY <2>1, <2>5, Apart DEF Goto, TypeOK
    <3>2. StartAt(s)'
      BY <1>1, <1>2, <2>2, <2>3, <3>1 DEF StartAt, StartRegion, Unspawned, Spawned, Handing
    <3> QED
      BY <1>2, <2>2, <2>3, <3>1, <3>2, QuietStart DEF StartRegion
  <2> QED
    BY <2>4, <2>5
<1>4. CASE StartCleanup(s)
  <2>1. PICK r \in Terminated(s) : launch' = [launch EXCEPT ![s] = r.group]
    BY <1>4 DEF StartCleanup
  <2>2. Up' \subseteq Up
    BY <1>1, <2>1, TerminatedLeft, GroupLess
  <2>3. pc' = [pc EXCEPT ![s] = "rewrite"] /\ pc'[s] = "rewrite" /\ lock' = lock
        /\ pc[s] = "cleanup"
    BY <1>4, Apart DEF StartCleanup, Goto, TypeOK
  <2>4. StartAt(s)'
    BY <1>1, <1>2, <2>2, <2>3 DEF StartAt, StartRegion, Unspawned, Spawned
  <2> QED
    BY <1>2, <2>2, <2>3, <2>4, QuietStart DEF StartRegion
<1> QED
  BY <1>3, <1>4

\* A start reserves when no launch has members: whatever has is known.
LEMMA ReserveStep ==
    ASSUME TypeOK, LifecycleInv, NEW s \in Starters, StartReserve(s)
    PROVE  LifecycleInv'
<1>1. Up = {}
  <2>1. startup = None /\ failure = None /\ state.records \cap Up = {}
    BY RecordedUp DEF StartReserve
  <2> QED
    BY <2>1, Apart DEF LifecycleInv, FilesInv, Handing, Up
<1>2. Up' = {}
  BY <1>1, SameLaunch DEF StartReserve
<1>3. /\ startup' # None /\ startup'.token = s /\ startup'.phase = "building"
      /\ startup'.unresolved = None /\ failure' = None
  <2>1. startup' = Reserve(s, FALSE, "building", None, FALSE)
    BY DEF StartReserve
  <2>3. failure' = None
    BY DEF StartReserve
  <2>2. startup' \in Reservation
    BY <2>1 DEF Reserve, Reservation
  <2> QED
    BY <2>1, <2>2, <2>3, NoFile DEF Reserve
<1>4. pc' = [pc EXCEPT ![s] = "build"] /\ pc'[s] = "build" /\ pc[s] = "idle" /\ lock = None
      /\ UNCHANGED <<seen, ended, lock, state>>
  BY Apart DEF StartReserve, Goto, TypeOK
<1>5. FilesInv'
  BY <1>2, <1>3 DEF FilesInv, Handing, Building
<1>6. StartAt(s)'
  <2>1. state.token # s
    BY <1>4 DEF LifecycleInv, StartInv, StartAt, Unspawned
  <2> QED
    BY <1>2, <1>3, <1>4, <2>1 DEF StartAt, Handing, StartRegion, Unspawned, Spawned
<1>7. s \notin ended
  BY <1>4 DEF LifecycleInv, EndedInv, EndedAt
<1> QED
  BY <1>1, <1>2, <1>3, <1>4, <1>5, <1>6, <1>7, StartMoves

LEMMA HandoffStep ==
    ASSUME TypeOK, LifecycleInv, NEW s \in Starters, Handoff(s)
    PROVE  LifecycleInv'
<1>1. StartAt(s) /\ pc[s] = "handoff" /\ lock = None
  BY DEF LifecycleInv, StartInv, Handoff
<1>2. Building /\ Up = {} /\ failure = None
  <2>1. Building
    BY <1>1 DEF Handoff, StartAt, Handing, Building, TypeOK, Reservation
  <2> QED
    BY <2>1 DEF LifecycleInv, FilesInv
<1>3. Up' = {} /\ failure' = None
  BY <1>2, SameLaunch DEF Handoff
<1>4. /\ startup' # None /\ startup'.token = s /\ startup'.phase = "handoff"
      /\ startup'.unresolved = None
  <2>1. startup' = Reserve(s, FALSE, "handoff", None, FALSE)
    BY DEF Handoff
  <2>2. startup' \in Reservation
    BY <2>1 DEF Reserve, Reservation
  <2> QED
    BY <2>1, <2>2, NoFile DEF Reserve
<1>5. pc' = [pc EXCEPT ![s] = "spawn"] /\ pc'[s] = "spawn" /\ lock' = s
      /\ UNCHANGED <<seen, ended, state>>
  BY Apart DEF Handoff, Goto, TypeOK
<1>6. FilesInv'
  BY <1>3, <1>4 DEF FilesInv, Handing, Building
<1>7. StartAt(s)'
  BY <1>1, <1>3, <1>4, <1>5 DEF StartAt, Handing, StartRegion, Unspawned, Spawned
<1>8. s \notin ended
  BY DEF LifecycleInv, EndedInv, EndedAt, Handoff
<1> QED
  BY <1>1, <1>2, <1>3, <1>4, <1>5, <1>6, <1>7, <1>8, StartMoves

LEMMA SpawnStep ==
    ASSUME TypeOK, LifecycleInv, NEW s \in Starters, Spawn(s)
    PROVE  LifecycleInv'
<1>1. /\ StartAt(s) /\ pc[s] = "spawn" /\ lock = s /\ Handing(s) /\ failure = None
  BY DEF LifecycleInv, StartInv, Spawn, StartAt, StartRegion
<1>2. Up' \subseteq Up \cup {s} /\ Up \subseteq {s}
  <2>1. Up \subseteq {s}
    BY <1>1 DEF LifecycleInv, FilesInv
  <2> QED
    BY <2>1 DEF Spawn, Up, Members, TypeOK
<1>3. UNCHANGED <<state, startup, failure, lock, seen, ended>>
  BY DEF Spawn
<1>4. pc' = [pc EXCEPT ![s] = "commit"] /\ pc'[s] = "commit"
  BY Apart DEF Spawn, Goto, TypeOK
<1>5. Handing(s)' /\ \A t \in Starters : Handing(t)' => t = s
  BY <1>1, <1>3 DEF Handing
<1>6. FilesInv'
  <2>1. state.token # s
    BY <1>1 DEF StartAt, Unspawned
  <2>3. ~Building'
    BY <1>5 DEF Building, Handing
  <2>2. startup'.unresolved = None \/ (startup'.unresolved = startup'.token /\ ~Building')
    BY <1>1, <1>3, <2>3 DEF LifecycleInv, FilesInv, Handing
  <2> QED
    BY <1>1, <1>2, <1>3, <1>5, <2>1, <2>2, <2>3 DEF FilesInv
<1>7. StartAt(s)'
  BY <1>1, <1>3, <1>4, <1>5 DEF StartAt, StartRegion, Unspawned, Spawned
<1>8. s \notin ended
  BY <1>1 DEF LifecycleInv, EndedInv, EndedAt, StartRegion
<1> QED
  BY <1>1, <1>2, <1>3, <1>4, <1>6, <1>7, <1>8, StartMoves

\* The record replaces whatever was recorded: no other launch has members.
LEMMA CommitStep ==
    ASSUME TypeOK, LifecycleInv, NEW s \in Starters, Commit(s)
    PROVE  LifecycleInv'
<1>1. /\ StartAt(s) /\ pc[s] = "commit" /\ lock = s /\ Handing(s)
  BY DEF LifecycleInv, StartInv, Commit, StartAt, StartRegion
<1>2. Up' = Up /\ Up \subseteq {s}
  BY <1>1, SameLaunch DEF LifecycleInv, FilesInv, Commit
<1>3. UNCHANGED <<startup, failure, lock, seen, ended>>
      /\ state'.records = {s} /\ state'.token = s
  BY DEF Commit
<1>4. pc' = [pc EXCEPT ![s] = "unlink"] /\ pc'[s] = "unlink"
  BY Apart DEF Commit, Goto, TypeOK
<1>5. FilesInv'
  BY <1>2, <1>3 DEF LifecycleInv, FilesInv, Handing, Building
<1>6. StartAt(s)'
  BY <1>1, <1>3, <1>4 DEF StartAt, StartRegion, Unspawned, Spawned, Handing
<1>7. s \notin ended
  BY <1>1 DEF LifecycleInv, EndedInv, EndedAt, StartRegion
<1> QED
  BY <1>1, <1>2, <1>3, <1>4, <1>5, <1>6, <1>7, StartMoves

LEMMA MarkSteps ==
    ASSUME TypeOK, LifecycleInv, NEW s \in Starters, Mark(s) \/ MarkStartup(s)
    PROVE  LifecycleInv'
<1>1. /\ StartAt(s) /\ pc[s] \in {"mark", "mark_startup"} /\ lock = s /\ Handing(s)
      /\ Up \subseteq {s} /\ s \notin ended
  <2>1. StartAt(s) /\ pc[s] \in {"mark", "mark_startup"} /\ lock = s /\ Handing(s)
    BY DEF LifecycleInv, StartInv, Mark, MarkStartup, StartAt, StartRegion
  <2> QED
    BY <2>1 DEF LifecycleInv, FilesInv, EndedInv, EndedAt, StartRegion
<1>2. UNCHANGED <<state, seen, ended>>
  BY DEF Mark, MarkStartup
<1>3. CASE Mark(s)
  <2>1. Up' = Up /\ UNCHANGED <<startup, lock>> /\ failure' \in {s, failure}
        /\ pc' = [pc EXCEPT ![s] = "mark_startup"] /\ pc'[s] = "mark_startup"
    BY <1>3, SameLaunch, Apart DEF Mark, Goto, TypeOK
  <2>2. FilesInv'
    BY <1>1, <1>2, <2>1 DEF LifecycleInv, FilesInv, Handing, Building
  <2>3. StartAt(s)'
    BY <1>1, <2>1 DEF StartAt, StartRegion, Unspawned, Spawned, Handing
  <2> QED
    BY <1>1, <1>2, <2>1, <2>2, <2>3, StartMoves
<1>4. CASE MarkStartup(s)
  <2>1. Up' \subseteq Up /\ UNCHANGED failure
        /\ pc' = [pc EXCEPT ![s] = "error"] /\ pc'[s] = "error"
    BY <1>4, ExitLess, Apart DEF MarkStartup, Exit, Goto, TypeOK
  <2>2. /\ startup' # None /\ startup'.token = s /\ startup'.phase = "handoff"
        /\ startup'.unresolved \in {s, None}
    <3>1. CASE startup' = startup
      BY <1>1, <3>1, Apart DEF Handing, LifecycleInv, FilesInv
    <3>2. CASE startup' = Reserve(s, TRUE, "handoff", s, known[s])
      <4>1. startup' \in Reservation
        BY <3>2 DEF Reserve, Reservation, TypeOK
      <4> QED
        BY <3>2, <4>1, NoFile DEF Reserve
    <3> QED
      BY <1>4, <3>1, <3>2 DEF MarkStartup
  <2>3. FilesInv'
    BY <1>1, <1>2, <2>1, <2>2 DEF LifecycleInv, FilesInv, Handing, Building
  <2>4. StartAt(s)'
    BY <2>1 DEF StartAt, StartRegion, Unspawned, Spawned
  <2> QED
    BY <1>1, <1>2, <2>1, <2>2, <2>3, <2>4, StartMoves
<1> QED
  BY <1>3, <1>4

\* From here on state.json alone tells of the launch.
LEMMA UnlinkStep ==
    ASSUME TypeOK, LifecycleInv, NEW s \in Starters, Unlink(s)
    PROVE  LifecycleInv'
<1>1. /\ StartAt(s) /\ pc[s] = "unlink" /\ lock = s /\ Handing(s)
      /\ Up \subseteq {s} /\ s \notin ended
  <2>1. StartAt(s) /\ pc[s] = "unlink" /\ lock = s /\ Handing(s)
    BY DEF LifecycleInv, StartInv, Unlink, StartAt, StartRegion
  <2> QED
    BY <2>1 DEF LifecycleInv, FilesInv, EndedInv, EndedAt, StartRegion
<1>2. Up' = Up /\ UNCHANGED <<state, failure, seen, ended>> /\ startup' \in {startup, None}
  BY SameLaunch DEF Unlink
<1>3. PICK l \in {"wait", "release"} : pc' = [pc EXCEPT ![s] = l] /\ pc'[s] = l
  BY Apart DEF Unlink, Goto, TypeOK
<1>4. Up \subseteq state.records
  BY <1>1 DEF StartAt, Spawned
<1>5. FilesInv'
  BY <1>1, <1>2, <1>4 DEF LifecycleInv, FilesInv, Handing, Building
<1>6. StartAt(s)'
  BY <1>1, <1>2, <1>3 DEF StartAt, StartRegion, Unspawned, Spawned
<1> QED
  BY <1>1, <1>2, <1>3, <1>5, <1>6, StartMoves

\* A late rewrite keeps the record of whatever has members.
LEMMA RewriteStep ==
    ASSUME TypeOK, LifecycleInv, NEW s \in Starters, StartRewrite(s)
    PROVE  LifecycleInv'
<1>1. StartAt(s) /\ pc[s] = "rewrite" /\ lock = None
  BY DEF LifecycleInv, StartInv, StartRewrite
<1>2. Up' = Up /\ UNCHANGED <<startup, failure, lock, seen, ended>>
  BY SameLaunch DEF StartRewrite
<1>3. /\ state.records \cap Up \subseteq state'.records
      /\ state'.token \in {state.token, None}
  <2>1. state' = [records |-> Live \cup Unresolved \cup (IF known[s] THEN {} ELSE {s}),
                  token |-> IF startup = None THEN None
                            ELSE IF state.token = startup.token THEN state.token ELSE None]
    BY DEF StartRewrite
  <2> QED
    BY <2>1, RecordedUp
<1>4. pc' = [pc EXCEPT ![s] = "release"] /\ pc'[s] = "release"
  BY Apart DEF StartRewrite, Goto, TypeOK
<1>5. FilesInv'
  <2>1. None \notin Up
    BY Apart DEF Up
  <2> QED
    BY <1>2, <1>3, <2>1 DEF LifecycleInv, FilesInv, Handing, Building
<1>6. StartAt(s)'
  BY <1>1, <1>2, <1>3, <1>4 DEF StartAt, StartRegion, Unspawned, Spawned
<1>7. s \in ended => EndedAt(s)'
  BY <1>2, <1>4 DEF LifecycleInv, EndedInv, EndedAt, StartRegion
<1> QED
  BY <1>1, <1>2, <1>3, <1>4, <1>5, <1>6, <1>7, StartMoves

\* Nothing is forgotten with the reservation of a start that is over.
LEMMA ReleaseStep ==
    ASSUME TypeOK, LifecycleInv, NEW s \in Starters, StartRelease(s)
    PROVE  LifecycleInv'
<1>1. StartAt(s) /\ pc[s] = "release" /\ lock = None
  BY DEF LifecycleInv, StartInv, StartRelease
<1>2. UNCHANGED <<state, failure, seen, ended>> /\ startup' \in {startup, None}
  BY DEF StartRelease
<1>3. PICK l \in {"ok", "error"} : Exit(s, l)
  BY DEF StartRelease
<1>4. Up' \subseteq Up
  BY <1>3, ExitLess
<1>5. pc' = [pc EXCEPT ![s] = l] /\ pc'[s] = l /\ lock' = None
  BY <1>1, <1>3, Apart DEF Exit, Goto, TypeOK
<1>6. FilesInv'
  <2>1. CASE startup' = startup
    BY <1>2, <1>4, <2>1, FilesKept DEF LifecycleInv
  <2>2. CASE startup' # startup
    <3>1. startup # None /\ startup.token = s /\ startup' = None
      BY <1>2, <2>2 DEF StartRelease, Mine
    <3>2. Up \subseteq state.records
      <4>1. CASE Building
        BY <4>1 DEF LifecycleInv, FilesInv
      <4>2. CASE ~Building
        <5>1. Up \subseteq {s}
          BY <3>1, <4>2 DEF LifecycleInv, FilesInv, Handing, Building, TypeOK, Reservation
        <5> QED
          BY <1>1, <5>1 DEF StartAt, Spawned
      <4> QED
        BY <4>1, <4>2
    <3> QED
      BY <1>2, <1>4, <3>1, <3>2 DEF LifecycleInv, FilesInv, Handing, Building
  <2> QED
    BY <2>1, <2>2
<1>7. StartAt(s)'
  BY <1>5 DEF StartAt, StartRegion, Unspawned, Spawned
<1>8. s \in ended => EndedAt(s)'
  BY <1>2, <1>4, <1>5 DEF LifecycleInv, EndedInv, EndedAt, StartRegion
<1> QED
  BY <1>1, <1>2, <1>4, <1>5, <1>6, <1>7, <1>8, StartMoves

LEMMA StartStep ==
    ASSUME TypeOK, LifecycleInv, NEW s \in Starters, Start(s)
    PROVE  LifecycleInv'
BY QuietSteps, EndingSteps, ReserveStep, HandoffStep, SpawnStep, CommitStep, MarkSteps,
   UnlinkStep, RewriteStep, ReleaseStep DEF Start

-----------------------------------------------------------------------------
(* The steps of a stop, and the world.                                     *)

\* Removing the reservation or a marker forgets nothing once no launch has
\* members.
LEMMA FilesCleared ==
    ASSUME FilesInv, Up = {}, Up' = {}, startup' \in {startup, None}, failure' \in {failure, None},
           UNCHANGED state
    PROVE  FilesInv'
BY DEF FilesInv, Handing, Building

LEMMA BeginStep ==
    ASSUME TypeOK, LifecycleInv, NEW p \in Stoppers, StopBegin(p)
    PROVE  LifecycleInv'
<1>1. /\ lock = None /\ lock' = p /\ Up' = Up
      /\ UNCHANGED <<state, failure, ended>>
      /\ pc' = [pc EXCEPT ![p] = "resolve"] /\ pc'[p] = "resolve"
  BY SameLaunch, Apart DEF StopBegin, Goto, TypeOK
<1> DEFINE open == InHandoff \/ failure # None
           sight == [live |-> Live, groups |-> Unresolved, unresolved |-> open,
                     phaseOnly |-> PhaseOnlyCommitted,
                     pid |-> IF open THEN UnresolvedPid ELSE None,
                     recorded |-> InHandoff /\ startup.unresolved # None /\ startup.recorded,
                     left |-> {}, token |-> IF startup = None THEN None ELSE startup.token]
<1>2. /\ seen' = [seen EXCEPT ![p] = sight]
      /\ startup' = IF startup # None /\ ~open THEN [startup EXCEPT !.cancelled = TRUE]
                    ELSE startup
  BY DEF StopBegin
<1>3. /\ seen'[p].live = Live /\ seen'[p].groups = Unresolved /\ seen'[p].left = {}
      /\ seen'[p].unresolved <=> open
      /\ seen'[p].phaseOnly <=> PhaseOnlyCommitted
      /\ seen'[p].pid = IF open THEN UnresolvedPid ELSE None
      /\ seen'[p].token = IF startup = None THEN None ELSE startup.token
  BY <1>2 DEF TypeOK
<1>4. \A q \in Stoppers \ {p} : seen'[q] = seen[q]
  BY <1>2 DEF TypeOK
<1>5. \/ startup' = None /\ startup = None
      \/ /\ startup # None /\ startup' # None /\ startup'.token = startup.token
         /\ startup'.phase = startup.phase /\ startup'.unresolved = startup.unresolved
  BY <1>2, NoFile DEF TypeOK, Reservation
<1>6. FilesInv'
  BY <1>1, <1>5 DEF LifecycleInv, FilesInv, Handing, Building
<1> HIDE DEF open, sight
<1>7. InHandoff' <=> InHandoff
  BY <1>5 DEF InHandoff
<1>8. StopAt(p)'
  <2>1. ~seen'[p].unresolved => failure' = None /\ ~InHandoff'
    BY <1>1, <1>3, <1>7 DEF open
  <2>2. seen'[p].pid # None => Up' \subseteq {seen'[p].pid}
    BY <1>1, <1>3 DEF open, UnresolvedPid, LifecycleInv, FilesInv, Handing, Building, InHandoff,
            TypeOK, Reservation
  <2>3. seen'[p].phaseOnly => Up' \subseteq state'.records /\ seen'[p].token = state'.token
    BY <1>1, <1>3 DEF PhaseOnlyCommitted, InHandoff, LifecycleInv, FilesInv, Handing, TypeOK,
            Reservation
  <2>4. Up' \cap state'.records \subseteq
           seen'[p].live \cup seen'[p].groups \cup seen'[p].left
    BY <1>1, <1>3, RecordedUp
  <2> QED
    BY <1>1, <2>1, <2>2, <2>3, <2>4 DEF StopAt, StopRegion
<1> QED
  BY <1>1, <1>4, <1>5, <1>6, <1>8, StopMoves

\* The markers go only with the group they name, which is the only one with
\* members.
LEMMA ResolveStep ==
    ASSUME TypeOK, LifecycleInv, NEW p \in Stoppers, StopResolve(p)
    PROVE  LifecycleInv'
<1>1. /\ StopAt(p) /\ pc[p] = "resolve" /\ lock = p /\ UNCHANGED <<lock, state, ended>>
      /\ pc' = [pc EXCEPT ![p] = "terminate"] /\ pc'[p] = "terminate"
      /\ seen[p].pid \in Starters \cup {None}
  BY Apart DEF LifecycleInv, StopInv, StopResolve, Goto, TypeOK, StopAt, StopRegion, Sightings
<1>2. CASE seen[p].pid = None
  <2>1. UNCHANGED <<startup, failure, seen>> /\ Up' = Up
    BY <1>2, SameLaunch DEF StopResolve
  <2>2. FilesInv'
    BY <1>1, <2>1, FilesKept DEF LifecycleInv
  <2>3. StopAt(p)'
    BY <1>1, <2>1 DEF StopAt, StopRegion, InHandoff
  <2> QED
    BY <1>1, <2>1, <2>2, <2>3, StopMoves
<1>3. CASE seen[p].pid # None
  <2> DEFINE s == seen[p].pid
  <2>1. s \in Starters /\ Up \subseteq {s} /\ launch[s] \in Groups
    BY <1>1, <1>3 DEF StopAt, TypeOK
  <2>2. PICK r \in IF Members(s) /\ seen[p].recorded THEN Terminated(s)
                   ELSE {[group |-> launch[s], done |-> FALSE]} :
          /\ launch' = [launch EXCEPT ![s] = r.group]
          /\ IF r.group = "gone"
             THEN /\ startup' = None /\ failure' = None
                  /\ seen' = [seen EXCEPT ![p].unresolved = FALSE]
             ELSE UNCHANGED <<startup, failure, seen>>
    BY <1>3 DEF StopResolve
  <2>3. r.group \in Groups /\ (r.group \in {"alive", "zombie", "orphaned"} => Members(s))
    BY <2>1, <2>2, TerminatedLeft DEF Members
  <2> HIDE DEF s
  <2>4. Up' \subseteq Up /\ (r.group = "gone" => s \notin Up')
    BY <2>1, <2>2, <2>3, GroupLess
  <2>5. CASE r.group = "gone"
    <3>1. Up' = {}
      BY <2>1, <2>4, <2>5
    <3>2. startup' = None /\ failure' = None /\ seen' = [seen EXCEPT ![p].unresolved = FALSE]
      BY <2>2, <2>5
    <3>3. FilesInv'
      BY <3>1, <3>2 DEF FilesInv, Handing, Building
    <3>4. /\ seen'[p].live = seen[p].live /\ seen'[p].groups = seen[p].groups
          /\ seen'[p].left = seen[p].left /\ seen'[p].token = seen[p].token
          /\ seen'[p].phaseOnly = seen[p].phaseOnly
      BY <3>2 DEF TypeOK, Sightings
    <3>5. StopAt(p)'
      BY <1>1, <3>1, <3>2, <3>4 DEF StopAt, StopRegion, InHandoff
    <3>6. \A q \in Stoppers \ {p} : seen'[q] = seen[q]
      BY <3>2 DEF TypeOK
    <3> QED
      BY <1>1, <3>1, <3>2, <3>3, <3>5, <3>6, StopMoves
  <2>6. CASE r.group # "gone"
    <3>1. UNCHANGED <<startup, failure, seen>>
      BY <2>2, <2>6
    <3>2. FilesInv'
      BY <1>1, <2>4, <3>1, FilesKept DEF LifecycleInv
    <3>3. StopAt(p)'
      BY <1>1, <2>4, <3>1 DEF StopAt, StopRegion, InHandoff
    <3> QED
      BY <1>1, <2>4, <3>1, <3>2, <3>3, StopMoves
  <2> QED
    BY <2>5, <2>6
<1> QED
  BY <1>2, <1>3

LEMMA TerminateStep ==
    ASSUME TypeOK, LifecycleInv, NEW p \in Stoppers, StopTerminate(p)
    PROVE  LifecycleInv'
<1>1. /\ StopAt(p) /\ pc[p] = "terminate" /\ lock = p
      /\ UNCHANGED <<lock, state, startup, failure, ended>>
      /\ pc' = [pc EXCEPT ![p] = "terminate"] /\ pc'[p] = "terminate"
  BY Apart DEF LifecycleInv, StopInv, StopTerminate, TypeOK, StopAt, StopRegion
<1>2. PICK s \in seen[p].live : \E r \in Terminated(s) :
         /\ launch' = [launch EXCEPT ![s] = r.group]
         /\ seen' = [seen EXCEPT ![p].live = @ \ {s},
                                 ![p].left = IF r.done THEN @ ELSE @ \cup {s}]
  BY DEF StopTerminate
<1>3. PICK r \in Terminated(s) :
         /\ launch' = [launch EXCEPT ![s] = r.group]
         /\ seen' = [seen EXCEPT ![p].live = @ \ {s},
                                 ![p].left = IF r.done THEN @ ELSE @ \cup {s}]
  BY <1>2
<1>4. s \in Starters /\ launch[s] \in Groups
  BY <1>2 DEF TypeOK, Sightings
<1>5. Up' \subseteq Up /\ (r.done => s \notin Up')
  BY <1>3, <1>4, TerminatedLeft, GroupLess
<1>6. /\ seen'[p].live = seen[p].live \ {s}
      /\ seen'[p].left = IF r.done THEN seen[p].left ELSE seen[p].left \cup {s}
      /\ seen'[p].groups = seen[p].groups /\ seen'[p].token = seen[p].token
      /\ seen'[p].phaseOnly = seen[p].phaseOnly
      /\ seen'[p].unresolved = seen[p].unresolved
      /\ \A q \in Stoppers \ {p} : seen'[q] = seen[q]
  BY <1>3 DEF TypeOK, Sightings
<1>7. FilesInv'
  BY <1>1, <1>5, FilesKept DEF LifecycleInv
<1>8. StopAt(p)'
  BY <1>1, <1>5, <1>6 DEF StopAt, StopRegion, InHandoff
<1> QED
  BY <1>1, <1>5, <1>6, <1>7, <1>8, StopMoves

LEMMA SettleStep ==
    ASSUME TypeOK, LifecycleInv, NEW p \in Stoppers, StopSettle(p)
    PROVE  LifecycleInv'
<1>1. /\ StopAt(p) /\ pc[p] = "terminate" /\ lock = p
      /\ UNCHANGED <<lock, state, ended>> /\ Up' = Up /\ seen[p].live = {}
      /\ pc' = [pc EXCEPT ![p] = "write"] /\ pc'[p] = "write"
  BY Apart, SameLaunch DEF LifecycleInv, StopInv, StopSettle, Goto, TypeOK, StopAt, StopRegion
<1>2. CASE seen[p].phaseOnly /\ seen[p].left = {} /\ seen[p].groups = {}
  <2>1. startup' = None /\ failure' = None /\ seen' = [seen EXCEPT ![p].unresolved = FALSE]
    BY <1>2 DEF StopSettle
  <2>2. Up = {}
    BY <1>1, <1>2 DEF StopAt
  <2>3. FilesInv'
    BY <1>1, <2>1, <2>2, FilesCleared DEF LifecycleInv
  <2>4. /\ seen'[p].live = seen[p].live /\ seen'[p].groups = seen[p].groups
        /\ seen'[p].left = seen[p].left /\ seen'[p].token = seen[p].token
        /\ seen'[p].phaseOnly = seen[p].phaseOnly
        /\ \A q \in Stoppers \ {p} : seen'[q] = seen[q]
    BY <2>1 DEF TypeOK, Sightings
  <2>5. StopAt(p)'
    BY <1>1, <2>1, <2>2, <2>4 DEF StopAt, StopRegion, InHandoff
  <2> QED
    BY <1>1, <2>1, <2>3, <2>4, <2>5, StopMoves
<1>3. CASE ~(seen[p].phaseOnly /\ seen[p].left = {} /\ seen[p].groups = {})
  <2>1. UNCHANGED <<startup, failure, seen>>
    BY <1>3 DEF StopSettle
  <2>2. FilesInv'
    BY <1>1, <2>1, FilesKept DEF LifecycleInv
  <2>3. StopAt(p)'
    BY <1>1, <2>1 DEF StopAt, StopRegion, InHandoff
  <2> QED
    BY <1>1, <2>1, <2>2, <2>3, StopMoves
<1> QED
  BY <1>2, <1>3

\* What is written is what has been left running, known or not by its record.
LEMMA WriteStep ==
    ASSUME TypeOK, LifecycleInv, NEW p \in Stoppers, StopWrite(p)
    PROVE  LifecycleInv'
<1>1. /\ StopAt(p) /\ pc[p] = "write" /\ lock = p
      /\ UNCHANGED <<lock, startup, failure, seen, ended>> /\ Up' = Up
      /\ pc' = [pc EXCEPT ![p] = "clear"] /\ pc'[p] = "clear"
  BY Apart, SameLaunch DEF LifecycleInv, StopInv, StopWrite, Goto, TypeOK, StopAt, StopRegion
<1>2. /\ state'.records = seen[p].left \cup seen[p].groups
      /\ state'.token = IF seen[p].phaseOnly /\ seen[p].unresolved THEN seen[p].token ELSE None
  BY DEF StopWrite
<1>3. Up \cap state.records \subseteq state'.records /\ state'.token \in {state.token, None}
  BY <1>1, <1>2 DEF StopAt
<1>4. FilesInv'
  <2>1. None \notin Up
    BY Apart DEF Up
  <2> QED
    BY <1>1, <1>3, <2>1 DEF LifecycleInv, FilesInv, Handing, Building
<1>5. StopAt(p)'
  BY <1>1, <1>2 DEF StopAt, StopRegion, InHandoff
<1> QED
  BY <1>1, <1>3, <1>4, <1>5, StopMoves

\* An answer that all is well is right: whatever has members would be known.
LEMMA ClearStep ==
    ASSUME TypeOK, LifecycleInv, NEW p \in Stoppers, StopClear(p)
    PROVE  LifecycleInv'
<1>1. /\ StopAt(p) /\ pc[p] = "clear" /\ lock = p /\ UNCHANGED <<state, seen>>
  BY DEF LifecycleInv, StopInv, StopClear, StopAt, StopRegion
<1> DEFINE ok == seen[p].left = {} /\ seen[p].groups = {} /\ ~seen[p].unresolved
<1>2. PICK l \in {"ok", "error"} : Exit(p, l)
  BY DEF StopClear
<1>3. Up' \subseteq Up
  BY <1>2, ExitLess
<1>4. pc' = [pc EXCEPT ![p] = l] /\ pc'[p] = l
  BY <1>2, Apart DEF Exit, Goto, TypeOK
<1>5. CASE seen[p].unresolved
  <2>1. UNCHANGED <<startup, failure, ended>>
    BY <1>5 DEF StopClear
  <2>2. FilesInv'
    BY <1>1, <1>3, <2>1, FilesKept DEF LifecycleInv
  <2>3. StopAt(p)'
    BY <1>4 DEF StopAt, StopRegion
  <2> QED
    BY <1>1, <1>3, <1>4, <2>1, <2>2, <2>3, StopMoves
<1>6. CASE ~seen[p].unresolved
  <2>1. startup' = None /\ failure' = None /\ failure = None /\ ~InHandoff
    BY <1>1, <1>6 DEF StopClear, StopAt, StopRegion
  <2>2. Up \subseteq state.records
    BY <2>1, Apart DEF LifecycleInv, FilesInv, Handing, InHandoff, Up
  <2>3. FilesInv'
    BY <1>1, <1>3, <2>1, <2>2 DEF LifecycleInv, FilesInv, Handing, Building
  <2>4. StopAt(p)'
    BY <1>4 DEF StopAt, StopRegion
  <2>5. ASSUME NEW s \in ended' \ ended PROVE EndedAt(s)'
    <3>1. ok /\ s \in Starters /\ pc[s] # "idle"
      BY <2>5 DEF StopClear
    <3>2. s \notin Up'
      BY <1>1, <1>3, <2>2, <3>1 DEF StopAt
    <3>3. pc'[s] = pc[s] /\ pc[s] \notin StartRegion
      BY <1>1, <1>4, <3>1, Apart DEF LifecycleInv, StartInv, StartAt, TypeOK
    <3> QED
      BY <2>1, <3>1, <3>2, <3>3 DEF EndedAt
  <2> QED
    BY <1>1, <1>3, <1>4, <2>1, <2>2, <2>3, <2>4, <2>5, StopMoves
<1> QED
  BY <1>5, <1>6

LEMMA StopStep ==
    ASSUME TypeOK, LifecycleInv, NEW p \in Stoppers, Stop(p)
    PROVE  LifecycleInv'
BY BeginStep, ResolveStep, TerminateStep, SettleStep, WriteStep, ClearStep DEF Stop

LEMMA WorldStep ==
    ASSUME TypeOK, LifecycleInv,
           \/ \E s \in Starters : LeaderDies(s) \/ GroupEnds(s)
           \/ \E p \in Procs : Kill(p)
    PROVE  LifecycleInv'
<1>1. ASSUME NEW s \in Starters, LeaderDies(s) \/ GroupEnds(s)
      PROVE  LifecycleInv'
  <2>1. Up' \subseteq Up /\ UNCHANGED <<lock, state, startup, failure, pc, known, seen, ended>>
    BY <1>1 DEF LeaderDies, GroupEnds, Up, Members, TypeOK, DeadLeader
  <2> QED
    BY <2>1 DEF LifecycleInv, FilesInv, StartInv, StopInv, EndedInv, StartAt, StopAt, EndedAt,
            Handing, Building, InHandoff
<1>2. ASSUME NEW p \in Procs, Kill(p)
      PROVE  LifecycleInv'
  <2>1. /\ Up' \subseteq Up /\ UNCHANGED <<state, startup, failure, seen, ended>>
        /\ pc' = [pc EXCEPT ![p] = "killed"] /\ pc'[p] = "killed"
        /\ lock' = IF lock = p THEN None ELSE lock
    BY <1>2, ExitLess DEF Kill, Exit, Goto, TypeOK
  <2>2. FilesInv'
    BY <2>1, FilesKept DEF LifecycleInv
  <2>3. CASE p \in Starters
    <3>1. StartAt(p)'
      BY <2>1 DEF StartAt, StartRegion, Unspawned, Spawned
    <3>2. p \in ended => EndedAt(p)'
      BY <2>1 DEF LifecycleInv, EndedInv, EndedAt, StartRegion
    <3> QED
      BY <2>1, <2>2, <2>3, <3>1, <3>2, StartMoves
  <2>4. CASE p \in Stoppers
    <3>1. StopAt(p)'
      BY <2>1 DEF StopAt, StopRegion
    <3>2. startup' = None \/ (/\ startup # None /\ startup'.token = startup.token
                              /\ startup'.phase = startup.phase)
      BY <2>1
    <3> QED
      BY <2>1, <2>2, <2>4, <3>1, <3>2, StopMoves
  <2> QED
    BY <2>3, <2>4 DEF Procs
<1> QED
  BY <1>1, <1>2

-----------------------------------------------------------------------------
(* What follows.                                                           *)

LEMMA LifecycleInvariant == Spec => [](TypeOK /\ LifecycleInv)
<1>1. Init => TypeOK /\ LifecycleInv
  BY Apart DEF Init, TypeOK, NothingSeen, Sightings, Groups, StartSteps, LifecycleInv, FilesInv,
          StartInv, StartAt, StopInv, StopAt, EndedInv, Up, Members, Handing, Building,
          StartRegion, Unspawned, Spawned, StopRegion
<1>2. TypeOK /\ LifecycleInv /\ [Next]_vars => (TypeOK /\ LifecycleInv)'
  <2> SUFFICES ASSUME TypeOK, LifecycleInv, [Next]_vars
               PROVE  (TypeOK /\ LifecycleInv)'
    OBVIOUS
  <2>1. CASE UNCHANGED vars
    BY <2>1 DEF vars, TypeOK, LifecycleInv, FilesInv, StartInv, StopInv, EndedInv, StartAt,
            StopAt, EndedAt, Handing, Building, InHandoff, Up, Members
  <2>2. ASSUME NEW s \in Starters, Start(s)
        PROVE  (TypeOK /\ LifecycleInv)'
    BY <2>2, StartTyped, StartStep
  <2>3. ASSUME NEW p \in Stoppers, Stop(p)
        PROVE  (TypeOK /\ LifecycleInv)'
    BY <2>3, StopTyped, StopStep
  <2>4. CASE \/ \E s \in Starters : LeaderDies(s) \/ GroupEnds(s)
             \/ \E p \in Procs : Kill(p)
    BY <2>4, WorldTyped, WorldStep
  <2> QED
    BY <2>1, <2>2, <2>3, <2>4 DEF Next
<1> QED
  BY <1>1, <1>2, PTL DEF Spec

\* The types of the lock, the files, the groups and what the commands have seen.
THEOREM LifecycleTyped == Spec => []TypeOK
BY LifecycleInvariant, PTL

\* Whichever commands run, fail or are killed between two writes, the files know
\* the launch that has processes left; even while the lock is held.
THEOREM LaunchIsKnown == Spec => []RunningLaunchIsKnown
<1>1. TypeOK /\ LifecycleInv => RunningLaunchIsKnown
  BY DEF LifecycleInv, FilesInv, RunningLaunchIsKnown, Up, Members, Handing
<1> QED
  BY <1>1, LifecycleInvariant, PTL

\* Whichever starts and stops overlap, no two launches have processes at once.
THEOREM AtMostOneLaunch == Spec => []OneLaunch
<1>1. LifecycleInv => OneLaunch
  BY DEF LifecycleInv, FilesInv, OneLaunch, Up, Members
<1> QED
  BY <1>1, LifecycleInvariant, PTL

\* A start that was under way when a stop answered ok has no process left and
\* spawns none.
THEOREM StartsStayDown == Spec => []StoppedStartsStayDown
<1>1. TypeOK /\ LifecycleInv => StoppedStartsStayDown
  BY DEF TypeOK, Groups, LifecycleInv, EndedInv, EndedAt, StoppedStartsStayDown, Up, Members
<1> QED
  BY <1>1, LifecycleInvariant, PTL

-----------------------------------------------------------------------------
(* The goal: the inductive invariant.                                      *)

Working == {"sent", "executing", "canceling"}
Places == {"idle", "start", "submitted", "check", "started", "watch", "burst", "record", "over",
           "stop", "stopped", "polling"}

TypingInv ==
    /\ goal \in [Goals -> {"unsent"} \cup Working \cup Terminal]
    /\ sent \in 0..Stages /\ handle \in {0, sent}
    /\ where \in [RunThreads -> Places]
    /\ zeros \in Nat /\ cancelGen \in Nat
    /\ local \in Nat \X Nat \X Nat
    /\ latched \in BOOLEAN /\ runEnded \in BOOLEAN
    /\ worker \in {"idle", "reset", "forget", "send"}
    /\ executor \in {"idle", "judge", "run", "cancel"}
    /\ submission \in {"none", "queued", "running", "done", "rejected"}
    /\ \A r \in cancels : r.goal \in 1..sent
    /\ asked \subseteq 1..sent

\* Who is in no burst yet has made no call of one, and a burst has its length.
CountInv ==
    /\ calls \in [RunThreads -> 0..BurstCount]
    /\ \A t \in RunThreads :
         /\ where[t] \notin {"burst", "record", "over"} => calls[t] = 0
         /\ where[t] = "burst" => calls[t] < BurstCount

Settled(g) == goal[g] = "succeeded" /\ g \in resulted

\* Every goal but the last one sent has succeeded, and its callbacks have run.
GoalsInv ==
    /\ resulted \subseteq watched /\ watched \subseteq answered /\ answered \subseteq tracked
    /\ tracked \in {1..sent, 1..(sent - 1)}
    /\ \A g \in Goals :
         /\ g < sent => Settled(g)
         /\ g > sent => goal[g] = "unsent"
         /\ g \in tracked => goal[g] # "unsent"
         /\ g \in answered => goal[g] # "sent"
    /\ executor # "idle" => sent \in answered /\ sent \notin resulted

\* The last goal is done with: the moment between two stages.
Between == /\ executor = "idle" /\ sent < Stages /\ goalState # "cancelled"
           /\ tracked = 1..sent /\ \A g \in 1..sent : Settled(g)

\* A goal is sent between two stages, by a command the runtime waits for or has
\* given up on.
StageInv ==
    /\ where["runtime"] = "start" => worker = "idle" /\ submission \in {"none", "done"} /\ Between
    /\ where["runtime"] \in {"check", "started", "watch"} => submission = "done" /\ sent \in tracked
    /\ where["runtime"] # "submitted" => submission \in {"none", "done", "rejected"}
    /\ where["runtime"] = "submitted" /\ submission = "done" =>
          sent > 0 /\ tracked = 1..(sent - 1) /\ goal[sent] # "unsent"
    /\ where["runtime"] # "submitted" /\ submission = "done" => tracked = 1..sent
    /\ submission = "none" => where["runtime"] = "start"
    /\ submission = "queued" => worker = "idle" /\ Between
    /\ submission = "running" => worker # "idle"
    /\ submission = "done" => worker = "idle"
    /\ worker # "idle" => where["runtime"] \in {"submitted", "burst", "record", "over"}
                       /\ submission \in {"running", "rejected"}
    /\ worker \in {"reset", "forget"} => Between
    /\ worker = "send" => sent > 0 /\ tracked = 1..(sent - 1) /\ goal[sent] = "unsent"
                       /\ goalState # "cancelled"

\* What the transport says is true of the last goal sent.
StateInv ==
    /\ goalState = "succeeded" => sent > 0 /\ (goal[sent] = "unsent" \/ Settled(sent))
    /\ goalState = "cancelled" => sent \in answered /\ goal[sent] \in {"rejected", "canceled"}

\* The key of a cancellation is set by whoever asks for it.
KeyInv ==
    /\ emergency \in {"key", "mark", "cancel"} => local[1] = local[2] /\ local[1] \in 1..sent
    /\ enqueuedFor[1] = sent /\ sent > 0 =>
          sent \in asked \/ raised \/ (emergency = "cancel" /\ local[1] = sent)

\* Somebody is about to ask for the cancellation of a goal that was answered.
Underway == \/ sent \in asked
            \/ executor \in {"judge", "cancel"}
            \/ zeros > 0 \/ emergency = "read"
            \/ emergency \in {"key", "mark", "cancel"} /\ local[1] = sent

LatchedInv ==
    /\ runEnded \/ (\E t \in RunThreads : where[t] = "record") \/ zeros > 0 => latched
    /\ failed => raised
    /\ sent \in answered /\ ~raised => handle = sent
    /\ latched /\ ~raised /\ sent \in answered /\ goal[sent] \notin Terminal => Underway

Nav2Inv == /\ TypingInv /\ CountInv /\ GoalsInv /\ StageInv
           /\ StateInv /\ KeyInv /\ LatchedInv

LEMMA Nav2Start == Nav2Init => Nav2Inv
<1> SUFFICES ASSUME Nav2Init PROVE Nav2Inv
  OBVIOUS
<1> USE Nav2Assumption DEF Nav2Init
<1>1. /\ goal \in [Goals -> {"unsent"} \cup Working \cup Terminal]
      /\ where \in [RunThreads -> Places] /\ calls \in [RunThreads -> 0..BurstCount]
  BY DEF Places
<1>2. local \in Nat \X Nat \X Nat
  OBVIOUS
<1>8. sent \in 0..Stages /\ handle \in {0, sent} /\ cancels = {} /\ asked \subseteq 1..sent
  OBVIOUS
<1>3. TypingInv
  BY <1>1, <1>2, <1>8, Zenon DEF TypingInv
<1>4. CountInv
  BY <1>1 DEF CountInv
<1>5. GoalsInv
  BY DEF GoalsInv, Goals
<1>6. StageInv /\ StateInv /\ KeyInv
  BY DEF StageInv, StateInv, KeyInv, Between, RunThreads
<1>7. LatchedInv
  BY DEF LatchedInv
<1> QED
  BY <1>3, <1>4, <1>5, <1>6, <1>7 DEF Nav2Inv

-----------------------------------------------------------------------------
(* What the callbacks can be about.                                        *)

LEMMA OnlyTheLast ==
    ASSUME TypingInv, GoalsInv, NEW g \in tracked, g \notin resulted
    PROVE  g = sent /\ g \in Goals /\ tracked = 1..sent
BY Nav2Assumption DEF TypingInv, GoalsInv, Settled, Goals

LEMMA ResponseIsLast ==
    ASSUME TypingInv, GoalsInv, executor # "idle"
    PROVE  ResponseGoal = sent /\ sent \in Goals /\ tracked = 1..sent /\ handle \in 0..Stages
<1>1. sent \in answered /\ sent \in Goals /\ tracked = 1..sent
  BY OnlyTheLast DEF GoalsInv
<1>2. \A h \in answered : h \in 1..sent
  BY <1>1 DEF GoalsInv
<1>3. \A g \in answered : (\A h \in answered : h <= g) => g = sent
  BY <1>1, <1>2 DEF Goals
<1>4. \E g \in answered : \A h \in answered : h <= g
  BY <1>1, <1>2 DEF Goals
<1>5. ResponseGoal \in answered /\ \A h \in answered : h <= ResponseGoal
  BY <1>4, Zenon DEF ResponseGoal
<1> QED
  BY <1>1, <1>3, <1>5, Nav2Assumption DEF TypingInv, Goals

-----------------------------------------------------------------------------
(* The action server.                                                      *)

LEMMA ServerMoves ==
    ASSUME TypingInv, Server
    PROVE  /\ goal' \in [Goals -> {"unsent"} \cup Working \cup Terminal]
           /\ \A g \in Goals : \/ goal'[g] = goal[g]
                               \/ goal[g] \in Working /\ goal'[g] \in {"executing", "canceling"} \cup Terminal
           /\ cancels' \subseteq cancels
<1> USE DEF TypingInv, Working, Terminal
<1>1. CASE \E g \in Goals : ServerDecides(g) \/ ServerFinishes(g)
  BY <1>1 DEF ServerDecides, ServerFinishes
<1>2. CASE \E r \in cancels : ServerCancels(r)
  <2>1. PICK r \in cancels : ServerCancels(r)
    BY <1>2
  <2>2. r.goal \in Goals
    BY Nav2Assumption DEF Goals
  <2> QED
    BY <2>1, <2>2 DEF ServerCancels
<1> QED
  BY <1>1, <1>2 DEF Server

LEMMA ServerStep == Nav2Inv /\ Server => Nav2Inv'
<1> SUFFICES ASSUME Nav2Inv, Server PROVE Nav2Inv'
  OBVIOUS
<1> USE ServerMoves, Nav2Assumption
        DEF Nav2Inv, callbacks, client, cancelling, flags, sequencer, zeroing, controlling, burst
<1> DEFINE same == <<asked, cancelGen, enqueuedFor, tracked, answered, watched, resulted, handle, goalState,
                     sent, executor, latched, submission, worker, zeros, emergency, local, failed, raised,
                     calls, runEnded, where>>
<1>1. UNCHANGED same
  BY DEF Server
<1>2. \A g \in Goals : /\ goal'[g] = goal[g] \/ goal[g] \in Working
                       /\ goal[g] # "unsent" => goal'[g] # "unsent"
                       /\ goal[g] \in Terminal => goal'[g] = goal[g]
                       /\ goal[g] # "sent" => goal'[g] # "sent"
  BY DEF Working, Terminal
<1>3. TypingInv' /\ CountInv'
  BY <1>1 DEF TypingInv, CountInv
<1>4. \A g \in Goals : Settled(g) => Settled(g)'
  BY <1>1, <1>2 DEF Settled, Terminal
<1>5. GoalsInv'
  BY <1>1, <1>2, <1>4 DEF GoalsInv, Working
<1>6. sent \in 1..Stages => sent \in Goals
  BY DEF Goals
<1>7. Between => Between'
  BY <1>1, <1>4 DEF Between, Goals, TypingInv
<1>8. StageInv'
  BY <1>1, <1>2, <1>6, <1>7 DEF StageInv, TypingInv, Working
<1>11. sent \in answered => sent \in Goals
  BY DEF GoalsInv, TypingInv, Goals
<1>12. StateInv'
  BY <1>1, <1>2, <1>4, <1>6, <1>11 DEF StateInv, TypingInv, GoalsInv, Terminal, Working
<1>9. KeyInv'
  BY <1>1 DEF KeyInv
<1>10. LatchedInv'
  BY <1>1, <1>2 DEF LatchedInv, Underway, GoalsInv, TypingInv, Terminal, Goals
<1> QED
  BY <1>3, <1>5, <1>8, <1>9, <1>10, <1>12

-----------------------------------------------------------------------------
(* Steps that touch no goal.                                               *)

LEMMA Calm ==
    ASSUME Nav2Inv, UNCHANGED <<goal, sent, tracked, answered, watched, resulted, executor>>,
           goalState' \in {goalState, "cancelling", "faulted"}
    PROVE  GoalsInv' /\ StateInv' /\ (Between => Between')
<1>1. GoalsInv'
  BY DEF Nav2Inv, GoalsInv, Settled
<1>2. StateInv'
  BY DEF Nav2Inv, StateInv, Settled
<1>3. Between => Between'
  BY DEF Between, Settled
<1> QED
  BY <1>1, <1>2, <1>3

LEMMA CalmStage ==
    ASSUME Nav2Inv, UNCHANGED <<goal, sent, tracked, answered, watched, resulted, executor>>,
           goalState' \in {goalState, "cancelling", "faulted"}, UNCHANGED <<worker, submission>>,
           where'["runtime"] = where["runtime"]
    PROVE  StageInv'
BY Calm DEF Nav2Inv, StageInv

LEMMA Begun ==
    ASSUME TypingInv, NEW g \in 1..sent, NEW n, NEW by, NEW o, BeginCancel(g, n, by, o)
    PROVE  /\ cancelGen' \in Nat
           /\ asked \subseteq asked' /\ asked' \subseteq 1..sent
           /\ \A r \in cancels' : r.goal \in 1..sent
           /\ goalState' \in {o, "faulted"}
           /\ raised => raised'
           /\ \/ enqueuedFor = <<g, n>> /\ enqueuedFor' = enqueuedFor /\ asked' = asked /\ raised' = raised
              \/ enqueuedFor' = <<g, n>> /\ (g \in asked' \/ raised')
<1> USE DEF TypingInv
<1>1. CASE enqueuedFor = <<g, n>>
  BY <1>1 DEF BeginCancel, cancelling
<1>2. CASE enqueuedFor # <<g, n>> /\ RequestCancel(g, cancelGen + 1, by) /\ goalState' = o /\ UNCHANGED raised
  <2>1. cancelGen' = cancelGen + 1 /\ enqueuedFor' = <<g, n>>
    BY <1>2 DEF BeginCancel
  <2>2. asked' = asked \cup {g} /\ \A r \in cancels' : r \in cancels \/ r.goal = g
    BY <1>2 DEF RequestCancel
  <2> QED
    BY <1>2, <2>1, <2>2
<1>3. CASE enqueuedFor # <<g, n>> /\ raised' = TRUE /\ goalState' = "faulted" /\ UNCHANGED <<cancels, asked>>
  <2>1. cancelGen' = cancelGen + 1 /\ enqueuedFor' = <<g, n>>
    BY <1>3 DEF BeginCancel
  <2> QED
    BY <1>3, <2>1
<1> QED
  BY <1>1, <1>2, <1>3 DEF BeginCancel

-----------------------------------------------------------------------------
(* The executor.                                                           *)

LEMMA StoreStep == Nav2Inv /\ (\E g \in Goals : ResponseStore(g)) => Nav2Inv'
<1> SUFFICES ASSUME Nav2Inv, NEW g \in Goals, ResponseStore(g) PROVE Nav2Inv'
  OBVIOUS
<1> USE DEF Nav2Inv, server, client, cancelling, flags, sequencer, zeroing, controlling, burst
<1>1. g = sent /\ tracked = 1..sent /\ g \notin answered /\ g \notin resulted /\ goal[g] \notin {"unsent", "sent"}
  BY OnlyTheLast DEF ResponseStore, GoalsInv
<1>2. UNCHANGED <<goal, cancels, asked, enqueuedFor, cancelGen, tracked, resulted, sent, latched, submission,
                  worker, zeros, emergency, local, failed, calls, runEnded, where>>
  BY DEF ResponseStore
<1>3. /\ answered' = answered \cup {g} /\ watched \subseteq watched' /\ watched' \subseteq watched \cup {g}
      /\ goalState' \in {goalState, "faulted"}
      /\ raised => raised'
      /\ handle' \in {handle, g}
      /\ executor = "idle" /\ executor' \in {"idle", "judge"}
      /\ raised' \/ (executor' = "judge" /\ handle' = g)
  BY DEF ResponseStore, LockFree
<1>4. TypingInv' /\ CountInv'
  BY <1>1, <1>2, <1>3 DEF TypingInv, CountInv
<1>5. GoalsInv'
  <2>1. resulted' \subseteq watched' /\ watched' \subseteq answered' /\ answered' \subseteq tracked'
    <3>1. resulted' = resulted /\ tracked' = tracked /\ g \in tracked
      BY <1>1 DEF ResponseStore
    <3>2. resulted \subseteq watched /\ watched \subseteq answered /\ answered \subseteq tracked
      BY DEF GoalsInv
    <3> QED
      BY <1>3, <3>1, <3>2, Zenon
  <2>2. executor' # "idle" => sent' \in answered' /\ sent' \notin resulted'
    BY <1>1, <1>2, <1>3
  <2> QED
    BY <1>1, <1>2, <1>3, <2>1, <2>2 DEF GoalsInv, Settled
<1>6. ~Between /\ sent \notin resulted
  BY <1>1 DEF Between, Settled, TypingInv, Goals
<1>7. StageInv'
  BY <1>1, <1>2, <1>3, <1>6 DEF StageInv, TypingInv, Goals
<1>8. StateInv'
  BY <1>1, <1>2, <1>3 DEF StateInv, Settled
<1>9. KeyInv' /\ LatchedInv'
  BY <1>1, <1>2, <1>3 DEF KeyInv, LatchedInv, Underway
<1> QED
  BY <1>4, <1>5, <1>7, <1>8, <1>9

LEMMA JudgeStep == Nav2Inv /\ (ResponseJudge \/ ResponseRun) => Nav2Inv'
<1> SUFFICES ASSUME Nav2Inv, ResponseJudge \/ ResponseRun PROVE Nav2Inv'
  OBVIOUS
<1> USE DEF Nav2Inv, server, client, cancelling, flags, callbacks, sequencer, zeroing, controlling, burst
<1>1. UNCHANGED <<goal, cancels, asked, enqueuedFor, cancelGen, tracked, answered, watched, resulted, sent, handle,
                  latched, submission, worker, zeros, emergency, local, failed, raised, calls, runEnded, where>>
  BY DEF ResponseJudge, ResponseRun
<1>2. /\ executor # "idle" /\ executor' \in {"idle", "run", "cancel"}
      /\ goalState' \in {goalState, "running", "rejected"}
      /\ latched /\ executor = "judge" => executor' = "cancel"
      /\ executor \in {"judge", "run"}
  BY DEF ResponseJudge, ResponseRun, StopWanted
<1>3. sent \in answered /\ sent \notin resulted
  BY <1>2 DEF GoalsInv
<1>4. TypingInv' /\ CountInv'
  BY <1>1, <1>2 DEF TypingInv, CountInv
<1>5. GoalsInv'
  BY <1>1, <1>2, <1>3 DEF GoalsInv, Settled
<1>6. ~Between
  BY <1>2 DEF Between
<1>7. StageInv'
  BY <1>1, <1>2, <1>6 DEF StageInv
<1>8. StateInv'
  BY <1>1, <1>2 DEF StateInv, Settled
<1>9. KeyInv' /\ LatchedInv'
  BY <1>1, <1>2 DEF KeyInv, LatchedInv, Underway
<1> QED
  BY <1>4, <1>5, <1>7, <1>8, <1>9

LEMMA ResponseCancelStep == Nav2Inv /\ ResponseCancel => Nav2Inv'
<1> SUFFICES ASSUME Nav2Inv, ResponseCancel PROVE Nav2Inv'
  OBVIOUS
<1> USE DEF Nav2Inv, server, client, cancelling, flags, callbacks, sequencer, zeroing, controlling, burst
<1>1. UNCHANGED <<goal, tracked, answered, watched, resulted, sent, handle,
                  latched, submission, worker, zeros, emergency, local, failed, calls, runEnded, where>>
  BY DEF ResponseCancel
<1>2. /\ executor = "cancel" /\ executor' = "idle"
      /\ ResponseGoal = sent /\ sent \in Goals /\ sent \in 1..sent /\ tracked = 1..sent
      /\ sent \in answered /\ sent \notin resulted
  BY ResponseIsLast DEF ResponseCancel, GoalsInv, Goals
<1>5. /\ TypingInv' /\ KeyInv' /\ LatchedInv'
      /\ goalState' \in {"cancelling", "faulted"} \/ (goalState' = "cancelled" /\ goal[sent] = "rejected")
  <2>1. CASE goal[sent] # "rejected"
    <3>1. BeginCancel(sent, sent, "executor", "cancelling")
      BY <1>2, <2>1 DEF ResponseCancel, Accepted
    <3>2. goalState' \in {"cancelling", "faulted"}
      BY <1>2, <3>1, Begun
    <3>3. TypingInv'
      BY <1>1, <1>2, <3>1, Begun DEF TypingInv
    <3>4. KeyInv'
      BY <1>1, <1>2, <3>1, Begun DEF KeyInv
    <3>5. sent \in asked' \/ raised' \/ (emergency = "cancel" /\ local[1] = sent)
      BY <1>2, <3>1, Begun DEF KeyInv
    <3>6. LatchedInv'
      BY <1>1, <1>2, <3>1, <3>5, Begun DEF LatchedInv, Underway
    <3> QED
      BY <3>2, <3>3, <3>4, <3>6
  <2>2. CASE goal[sent] = "rejected"
    <3>1. goalState' = "cancelled" /\ UNCHANGED <<asked, enqueuedFor, cancelGen, cancels, raised>>
      BY <1>2, <2>2 DEF ResponseCancel, Accepted
    <3>2. TypingInv' /\ KeyInv'
      BY <1>1, <1>2, <3>1 DEF TypingInv, KeyInv
    <3>3. LatchedInv'
      BY <1>1, <1>2, <2>2, <3>1 DEF LatchedInv, Underway, Terminal
    <3> QED
      BY <3>1, <3>2, <3>3, <2>2
  <2> QED
    BY <2>1, <2>2
<1>7. CountInv' /\ GoalsInv'
  BY <1>1, <1>2 DEF CountInv, GoalsInv, Settled
<1>8. ~Between /\ worker # "send"
  BY <1>2 DEF Between, StageInv, Goals
<1>9. StageInv'
  BY <1>1, <1>8 DEF StageInv
<1>10. StateInv'
  BY <1>1, <1>2, <1>5 DEF StateInv
<1> QED
  BY <1>5, <1>7, <1>9, <1>10

LEMMA ResultStep == Nav2Inv /\ (\E g \in Goals : GoalResult(g)) => Nav2Inv'
<1> SUFFICES ASSUME Nav2Inv, NEW g \in Goals, GoalResult(g) PROVE Nav2Inv'
  OBVIOUS
<1> USE DEF Nav2Inv, server, client, cancelling, flags, callbacks, sequencer, zeroing, controlling, burst
<1>1. UNCHANGED <<goal, cancels, asked, enqueuedFor, cancelGen, tracked, answered, watched, sent, handle, executor,
                  latched, submission, worker, zeros, emergency, local, failed, calls, runEnded, where>>
  BY DEF GoalResult
<1>2. g = sent /\ tracked = 1..sent /\ g \in answered /\ g \in watched /\ g \notin resulted /\ goal[g] \in Terminal
  BY OnlyTheLast DEF GoalResult, GoalsInv
<1>3. /\ resulted' = resulted \cup {g} /\ executor = "idle" /\ (raised => raised')
      /\ goalState' = "succeeded" => goal[g] = "succeeded"
      /\ goalState' = "cancelled" => goal[g] = "canceled"
  BY DEF GoalResult, LockFree, ResultState
<1>4. TypingInv' /\ CountInv'
  BY <1>1 DEF TypingInv, CountInv
<1>5. GoalsInv'
  BY <1>1, <1>2, <1>3 DEF GoalsInv, Settled
<1>6. ~Between /\ worker # "send"
  BY <1>2 DEF Between, Settled, StageInv, Goals
<1>7. StageInv'
  BY <1>1, <1>6 DEF StageInv
<1>8. StateInv'
  BY <1>1, <1>2, <1>3 DEF StateInv, Settled, Goals
<1>9. KeyInv' /\ LatchedInv'
  BY <1>1, <1>3 DEF KeyInv, LatchedInv, Underway
<1> QED
  BY <1>4, <1>5, <1>7, <1>8, <1>9

LEMMA CancelResponseStep == Nav2Inv /\ (\E a \in answers : CancelResponse(a)) => Nav2Inv'
<1> SUFFICES ASSUME Nav2Inv, NEW a \in answers, CancelResponse(a) PROVE Nav2Inv'
  OBVIOUS
<1> USE DEF Nav2Inv, server, cancelling, flags, callbacks, sequencer, zeroing, controlling, burst
<1>1. UNCHANGED <<goal, cancels, asked, enqueuedFor, cancelGen, tracked, answered, watched, resulted, sent, handle,
                  executor, raised,
                  latched, submission, worker, zeros, emergency, local, failed, calls, runEnded, where>>
  BY DEF CancelResponse
<1>2. goalState' \in {goalState, "cancelling", "faulted"}
  BY DEF CancelResponse
<1>3. TypingInv' /\ CountInv'
  BY <1>1 DEF TypingInv, CountInv
<1>4. KeyInv' /\ LatchedInv'
  BY <1>1 DEF KeyInv, LatchedInv, Underway
<1> QED
  BY <1>1, <1>2, <1>3, <1>4, Calm, CalmStage

LEMMA ExecutorStep == Nav2Inv /\ Executor => Nav2Inv'
BY StoreStep, JudgeStep, ResponseCancelStep, ResultStep, CancelResponseStep DEF Executor

-----------------------------------------------------------------------------
(* The activation worker.                                                  *)

LEMMA TakeStep == Nav2Inv /\ Worker /\ (WorkerTake \/ SendReset) => Nav2Inv'
<1> SUFFICES ASSUME Nav2Inv, Worker, WorkerTake \/ SendReset PROVE Nav2Inv'
  OBVIOUS
<1> USE DEF Nav2Inv, callbacks, zeroing, controlling, burst
<1>1. UNCHANGED <<goal, cancels, asked, enqueuedFor, cancelGen, tracked, answered, watched, resulted, sent, handle,
                  goalState, executor, raised, latched, zeros, emergency, local, failed, calls, runEnded, where>>
  BY DEF Worker, WorkerTake, SendReset
<1>2. \/ submission = "queued" /\ submission' = "running" /\ worker = "idle" /\ worker' = "reset"
      \/ submission' = submission /\ worker = "reset" /\ worker' = "forget"
  BY DEF WorkerTake, SendReset
<1>3. TypingInv' /\ CountInv' /\ KeyInv' /\ LatchedInv'
  BY <1>1, <1>2 DEF TypingInv, CountInv, KeyInv, LatchedInv, Underway
<1>4. GoalsInv' /\ StateInv' /\ (Between => Between')
  BY <1>1, Calm
<1>5. StageInv'
  BY <1>1, <1>2, <1>4 DEF StageInv
<1> QED
  BY <1>3, <1>4, <1>5

LEMMA ForgetStep == Nav2Inv /\ Worker /\ SendForget => Nav2Inv'
<1> SUFFICES ASSUME Nav2Inv, Worker, SendForget PROVE Nav2Inv'
  OBVIOUS
<1> USE DEF Nav2Inv, callbacks, zeroing, controlling, burst, flags
<1>1. UNCHANGED <<goal, cancels, asked, cancelGen, tracked, answered, watched, resulted, submission,
                  goalState, executor, raised, latched, zeros, emergency, local, failed, calls, runEnded, where>>
  BY DEF Worker, SendForget
<1>2. /\ worker = "forget" /\ worker' = "send"
      /\ sent' = sent + 1 /\ handle' = 0 /\ enqueuedFor' = <<0, 0>>
  BY DEF SendForget
<1>3. /\ executor = "idle" /\ sent < Stages /\ goalState # "cancelled"
      /\ tracked = 1..sent /\ \A g \in 1..sent : Settled(g)
      /\ sent \in Nat /\ sent + 1 \in Goals
  BY <1>2, Nav2Assumption DEF StageInv, Between, TypingInv, Goals
<1>4. goal[sent + 1] = "unsent" /\ sent + 1 \notin tracked /\ sent + 1 \notin answered
  BY <1>3 DEF GoalsInv
<1>10. 1..sent \subseteq 1..sent' /\ sent' \in 0..Stages
  BY <1>2, <1>3 DEF Goals
<1>11. asked' \subseteq 1..sent' /\ \A r \in cancels' : r.goal \in 1..sent'
  BY <1>1, <1>10 DEF TypingInv
<1>5. TypingInv' /\ CountInv'
  BY <1>1, <1>2, <1>10, <1>11 DEF TypingInv, CountInv
<1>6. GoalsInv'
  BY <1>1, <1>2, <1>3 DEF GoalsInv, Settled, Goals
<1>7. StageInv'
  BY <1>1, <1>2, <1>3, <1>4 DEF StageInv
<1>8. StateInv' /\ KeyInv'
  BY <1>1, <1>2, <1>3, <1>4 DEF StateInv, KeyInv
<1>9. LatchedInv'
  BY <1>1, <1>2, <1>4 DEF LatchedInv, Underway
<1> QED
  BY <1>5, <1>6, <1>7, <1>8, <1>9

LEMMA SendStep == Nav2Inv /\ Worker /\ SendGoal => Nav2Inv'
<1> SUFFICES ASSUME Nav2Inv, Worker, SendGoal PROVE Nav2Inv'
  OBVIOUS
<1> USE DEF Nav2Inv, callbacks, zeroing, controlling, burst, flags
<1>1. UNCHANGED <<cancels, asked, enqueuedFor, cancelGen, tracked, answered, watched, resulted, sent, handle,
                  executor, zeros, emergency, local, failed, calls, runEnded, where>>
  BY DEF Worker, SendGoal
<1>2. worker = "send" /\ worker' = "idle"
  BY DEF SendGoal
<1>3. /\ sent > 0 /\ tracked = 1..(sent - 1) /\ goal[sent] = "unsent" /\ goalState # "cancelled"
      /\ sent \in Goals /\ sent \notin tracked /\ sent \notin answered /\ executor = "idle"
      /\ ~Between /\ submission \in {"running", "rejected"}
      /\ where["runtime"] \in {"submitted", "burst", "record", "over"}
  BY <1>2, Nav2Assumption DEF StageInv, Between, GoalsInv, TypingInv, Goals
<1>4. \/ /\ goal' = [goal EXCEPT ![sent] = "sent"] /\ goalState' = "pending"
         /\ submission' = IF submission = "running" THEN "done" ELSE submission
         /\ latched' = latched /\ raised' = raised
      \/ goal' = goal /\ goalState' = goalState /\ latched' = TRUE /\ submission' = "rejected" /\ raised' = TRUE
  BY DEF SendGoal
<1>5. /\ goal' \in [Goals -> {"unsent"} \cup Working \cup Terminal]
      /\ \A g \in Goals : g # sent => goal'[g] = goal[g]
      /\ goal'[sent] \in {"unsent", "sent"} /\ (submission' = "done" => goal'[sent] = "sent")
  BY <1>3, <1>4 DEF TypingInv, Working
<1>6. TypingInv' /\ CountInv'
  BY <1>1, <1>2, <1>3, <1>4, <1>5 DEF TypingInv, CountInv
<1>7. GoalsInv'
  BY <1>1, <1>3, <1>5 DEF GoalsInv, Settled, TypingInv, Goals
<1>8. StageInv'
  BY <1>1, <1>2, <1>3, <1>4, <1>5 DEF StageInv
<1>9. StateInv'
  BY <1>1, <1>3, <1>4 DEF StateInv
<1>10. KeyInv' /\ LatchedInv'
  BY <1>1, <1>3, <1>4 DEF KeyInv, LatchedInv, Underway
<1> QED
  BY <1>6, <1>7, <1>8, <1>9, <1>10

LEMMA WorkerStep == Nav2Inv /\ Worker => Nav2Inv'
BY TakeStep, ForgetStep, SendStep DEF Worker

-----------------------------------------------------------------------------
(* The emergency worker.                                                   *)

LEMMA EmergencyStep == Nav2Inv /\ Emergency => Nav2Inv'
<1> SUFFICES ASSUME Nav2Inv, Emergency PROVE Nav2Inv'
  OBVIOUS
<1> USE DEF Nav2Inv, callbacks, cancelling, sequencer, controlling, burst, flags
<1>1. UNCHANGED <<goal, tracked, answered, watched, resulted, sent, handle, executor, latched, submission, worker,
                  calls, runEnded, where>>
  BY DEF Emergency
<1>2. goalState' \in {goalState, "cancelling", "faulted"}
  BY DEF Emergency, EmergencyZero, EmergencyRead, EmergencyKey, EmergencyMark, EmergencyCancel
<1>3. CountInv' /\ GoalsInv' /\ StateInv' /\ StageInv'
  BY <1>1, <1>2, Calm, CalmStage DEF CountInv
<1>4. TypingInv' /\ KeyInv' /\ LatchedInv'
  <2>1. CASE EmergencyZero
    <3>1. UNCHANGED <<local, asked, enqueuedFor, cancelGen, cancels>> /\ emergency = "idle" /\ zeros' \in Nat /\ zeros > 0
      BY <2>1 DEF EmergencyZero, TypingInv
    <3>2. \/ emergency' = "read" /\ failed' = failed /\ raised' = raised
          \/ emergency' = emergency /\ failed' = TRUE /\ raised' = TRUE
      BY <2>1 DEF EmergencyZero
    <3>3. TypingInv' /\ KeyInv'
      BY <1>1, <3>1, <3>2 DEF TypingInv, KeyInv
    <3>4. LatchedInv'
      BY <1>1, <3>1, <3>2 DEF LatchedInv, Underway
    <3> QED
      BY <3>3, <3>4
  <2>2. CASE EmergencyRead
    <3>1. UNCHANGED <<asked, enqueuedFor, cancelGen, cancels, zeros, failed, raised>> /\ emergency = "read"
      BY <2>2 DEF EmergencyRead
    <3>2. \/ handle = 0 /\ emergency' = "idle" /\ local' = local
          \/ handle # 0 /\ handle = sent /\ emergency' = "key" /\ local' = <<sent, sent, 0>>
      BY <2>2 DEF EmergencyRead, TypingInv
    <3>3. sent \in Nat /\ (sent \in answered => sent # 0)
      BY Nav2Assumption DEF TypingInv, GoalsInv
    <3>4. TypingInv' /\ KeyInv'
      BY <1>1, <3>1, <3>2, <3>3 DEF TypingInv, KeyInv
    <3>5. LatchedInv'
      BY <1>1, <3>1, <3>2, <3>3 DEF LatchedInv, Underway
    <3> QED
      BY <3>4, <3>5
  <2>3. CASE EmergencyKey
    <3>1. UNCHANGED <<asked, enqueuedFor, cancelGen, cancels, zeros, failed, raised>> /\ emergency = "key"
      BY <2>3 DEF EmergencyKey
    <3>2. \/ enqueuedFor[1] = local[1] /\ emergency' = "idle" /\ local' = <<0, 0, 0>>
          \/ emergency' = "mark" /\ local' = local
      BY <2>3 DEF EmergencyKey
    <3>3. TypingInv' /\ KeyInv'
      BY <1>1, <3>1, <3>2 DEF TypingInv, KeyInv
    <3>4. local[1] = sent => sent > 0
      BY <3>1 DEF KeyInv
    <3>5. LatchedInv'
      BY <1>1, <3>1, <3>2, <3>4 DEF LatchedInv, Underway, KeyInv
    <3> QED
      BY <3>3, <3>5
  <2>4. CASE EmergencyMark
    <3>1. UNCHANGED <<asked, cancelGen, cancels, zeros, failed, raised>> /\ emergency = "mark" /\ emergency' = "cancel"
      BY <2>4 DEF EmergencyMark
    <3>2. /\ enqueuedFor'[1] = local[1]
          /\ local'[1] = local[1] /\ local'[2] = local[2] /\ local' \in Nat \X Nat \X Nat
      BY <2>4 DEF EmergencyMark, TypingInv
    <3>3. TypingInv' /\ KeyInv'
      BY <1>1, <3>1, <3>2 DEF TypingInv, KeyInv
    <3>4. LatchedInv'
      BY <1>1, <3>1, <3>2 DEF LatchedInv, Underway
    <3> QED
      BY <3>3, <3>4
  <2>5. CASE EmergencyCancel
    <3>1. /\ UNCHANGED <<enqueuedFor, zeros, failed>> /\ emergency = "cancel" /\ emergency' = "idle"
          /\ local' = <<0, 0, 0>> /\ cancelGen' \in Nat /\ local[1] \in 1..sent
      BY <2>5 DEF EmergencyCancel, TypingInv, KeyInv
    <3>2. \/ asked' = asked \cup {local[1]} /\ raised' = raised /\ \A r \in cancels' : r \in cancels \/ r.goal = local[1]
          \/ UNCHANGED <<asked, cancels>> /\ raised'
      BY <2>5 DEF EmergencyCancel, RequestCancel
    <3>3. asked' \subseteq 1..sent /\ \A r \in cancels' : r.goal \in 1..sent
      BY <3>1, <3>2 DEF TypingInv
    <3>5. TypingInv'
      BY <1>1, <3>1, <3>3 DEF TypingInv
    <3>6. KeyInv'
      BY <1>1, <3>1, <3>2 DEF KeyInv
    <3>4. LatchedInv'
      BY <1>1, <3>1, <3>2 DEF LatchedInv, Underway
    <3> QED
      BY <3>4, <3>5, <3>6
  <2> QED
    BY <2>1, <2>2, <2>3, <2>4, <2>5 DEF Emergency
<1> QED
  BY <1>3, <1>4

-----------------------------------------------------------------------------
(* The adapter's callers, and the bursts of the gateway.                   *)

LEMMA CancelGoalStep ==
    ASSUME Nav2Inv, NEW t \in {"cleanup"} \cup Cancellers, NEW from \in {"stop", "idle"}, CancelGoal(t, from)
    PROVE  Nav2Inv'
<1> USE DEF Nav2Inv, server, callbacks, cancelling, sequencer, zeroing, burst
<1>1. UNCHANGED <<goal, tracked, answered, watched, resulted, sent, handle, executor, latched, submission, worker,
                  zeros, emergency, local, failed, calls, runEnded>>
  BY DEF CancelGoal
<1>2. /\ where' \in [RunThreads -> Places] /\ where'["runtime"] = where["runtime"]
      /\ \A u \in RunThreads : where'[u] = where[u] \/ (where[u] \in {"stop", "idle"} /\ where'[u] = "stopped")
  BY Nav2Assumption DEF CancelGoal, Move, TypingInv, RunThreads, Places
<1>3. CountInv'
  BY <1>1, <1>2 DEF CountInv
<1>4. /\ TypingInv' /\ KeyInv' /\ LatchedInv'
      /\ goalState' \in {goalState, "cancelling", "faulted"}
  <2>1. CASE UNCHANGED <<goalState, cancelling, cancels, raised>>
    BY <1>1, <1>2, <2>1 DEF TypingInv, KeyInv, LatchedInv, Underway
  <2>2. CASE goalState' = "cancelling" /\ UNCHANGED <<cancelling, cancels, raised>>
    BY <1>1, <1>2, <2>2 DEF TypingInv, KeyInv, LatchedInv, Underway
  <2>3. CASE handle # 0 /\ BeginCancel(handle, sent, t, "cancelling")
    <3>1. handle = sent /\ sent \in 1..sent
      BY <2>3, Nav2Assumption DEF TypingInv
    <3>2. BeginCancel(sent, sent, t, "cancelling")
      BY <2>3, <3>1
    <3>3. goalState' \in {"cancelling", "faulted"} /\ TypingInv'
      BY <1>1, <1>2, <3>1, <3>2, Begun DEF TypingInv
    <3>4. KeyInv'
      BY <1>1, <3>1, <3>2, Begun DEF KeyInv
    <3>5. LatchedInv'
      BY <1>1, <1>2, <3>1, <3>2, Begun DEF LatchedInv, Underway
    <3> QED
      BY <3>3, <3>4, <3>5
  <2> QED
    BY <2>1, <2>2, <2>3 DEF CancelGoal
<1> QED
  BY <1>1, <1>2, <1>3, <1>4, Calm, CalmStage

LEMMA StopCallStep ==
    ASSUME Nav2Inv, NEW t \in RunThreads, NEW from \in {"burst", "idle"}, StopCall(t, from),
           t = "runtime" => from = "burst"
    PROVE  Nav2Inv'
<1> USE Nav2Assumption DEF Nav2Inv, server, callbacks, client, cancelling, flags, sequencer, zeroing, burst
<1>1. UNCHANGED <<goal, cancels, asked, enqueuedFor, cancelGen, tracked, answered, watched, resulted, sent, handle,
                  goalState, executor, raised, worker, emergency, local, failed, runEnded>>
  BY DEF StopCall
<1>2. where[t] = from /\ calls[t] \in 0..BurstCount /\ calls[t] < BurstCount
  BY DEF StopCall, CountInv
<1>3. /\ calls' = [calls EXCEPT ![t] = calls[t] + 1]
      /\ where' = [where EXCEPT ![t] = IF calls[t] + 1 = BurstCount THEN "record" ELSE "burst"]
  BY DEF StopCall, Move
<1>4. CountInv' /\ where' \in [RunThreads -> Places]
  BY <1>2, <1>3 DEF CountInv, TypingInv, Places
<1>5. /\ latched' /\ latched' \in BOOLEAN
      /\ submission' = IF submission = "queued" THEN "rejected" ELSE submission
      /\ zeros' \in Nat /\ zeros' >= zeros /\ (~failed => zeros' > 0)
  BY DEF StopCall, TypingInv
<1>6. TypingInv' /\ KeyInv'
  BY <1>1, <1>4, <1>5 DEF TypingInv, KeyInv
<1>7. LatchedInv'
  BY <1>1, <1>5 DEF LatchedInv, Underway
<1>8. GoalsInv' /\ StateInv' /\ (Between => Between')
  BY <1>1, Calm
<1>9. \/ where'["runtime"] = where["runtime"]
      \/ where["runtime"] = "burst" /\ where'["runtime"] \in {"burst", "record"}
  BY <1>2, <1>3 DEF TypingInv
<1>10. StageInv'
  BY <1>1, <1>5, <1>8, <1>9 DEF StageInv
<1> QED
  BY <1>4, <1>6, <1>7, <1>8, <1>10

LEMMA RecordStep ==
    ASSUME Nav2Inv, NEW t \in RunThreads, RecordEnd(t)
    PROVE  Nav2Inv'
<1> USE DEF Nav2Inv, server, callbacks, client, cancelling, flags, sequencer, zeroing
<1>1. UNCHANGED <<goal, cancels, asked, enqueuedFor, cancelGen, tracked, answered, watched, resulted, sent, handle,
                  goalState, executor, raised, latched, submission, worker, zeros, emergency, local, failed, calls>>
  BY DEF RecordEnd
<1>2. where[t] = "record" /\ where' = [where EXCEPT ![t] = "over"] /\ runEnded' = TRUE
  BY DEF RecordEnd, Move
<1>3. /\ where' \in [RunThreads -> Places]
      /\ \A u \in RunThreads : where'[u] = where[u] \/ (where[u] = "record" /\ where'[u] = "over")
  BY <1>2 DEF TypingInv, Places
<1>4. TypingInv' /\ CountInv' /\ KeyInv'
  BY <1>1, <1>2, <1>3 DEF TypingInv, CountInv, KeyInv
<1>5. LatchedInv'
  BY <1>1, <1>2, <1>3 DEF LatchedInv, Underway
<1>6. GoalsInv' /\ StateInv' /\ (Between => Between')
  BY <1>1, Calm
<1>7. StageInv'
  BY <1>1, <1>3, <1>6 DEF StageInv, RunThreads
<1> QED
  BY <1>4, <1>5, <1>6, <1>7

\* A caller reads the status and goes on.
LEMMA StatusStep ==
    ASSUME Nav2Inv, NEW t \in {"cleanup"} \cup Cancellers,
           (\E to \in {"over", "polling"} : StopStatus(t, to)) \/ CancelAnswer(t)
    PROVE  Nav2Inv'
<1> USE DEF Nav2Inv, server, callbacks, client, cancelling, flags, sequencer, zeroing, burst
<1>1. UNCHANGED <<goal, cancels, asked, enqueuedFor, cancelGen, tracked, answered, watched, resulted, sent, handle,
                  executor, raised, latched, submission, worker, zeros, emergency, local, failed, calls, runEnded>>
  BY DEF StopStatus, CancelAnswer
<1>2. goalState' \in {goalState, "faulted"}
  BY DEF StopStatus, CancelAnswer, ReadStatus, Statuses
<1>3. /\ where[t] \in {"stopped", "polling"}
      /\ \E p \in {"over", "polling", "burst"} : where' = [where EXCEPT ![t] = p]
  BY DEF StopStatus, CancelAnswer, Move
<1>4. /\ where' \in [RunThreads -> Places] /\ where'["runtime"] = where["runtime"]
      /\ \A u \in RunThreads : where'[u] = where[u]
                             \/ (where[u] \in {"stopped", "polling"} /\ where'[u] \in {"over", "polling", "burst"})
  BY <1>3, Nav2Assumption DEF TypingInv, Places, RunThreads
<1>5. TypingInv' /\ KeyInv'
  BY <1>1, <1>4 DEF TypingInv, KeyInv
<1>6. CountInv'
  BY <1>1, <1>4, Nav2Assumption DEF CountInv
<1>7. LatchedInv'
  BY <1>1, <1>4 DEF LatchedInv, Underway
<1> QED
  BY <1>1, <1>2, <1>4, <1>5, <1>6, <1>7, Calm, CalmStage

-----------------------------------------------------------------------------
(* The runtime.                                                            *)

\* What every step of the runtime leaves to be shown: where it goes from where,
\* and what it makes of the receipt.
LEMMA RuntimeKeeps ==
    ASSUME Nav2Inv,
           UNCHANGED <<goal, cancels, asked, enqueuedFor, cancelGen, answered, watched, resulted, sent, handle,
                       executor, raised, worker, zeros, emergency, local, failed, calls, runEnded>>,
           where' \in [RunThreads -> Places],
           \A u \in RunThreads : /\ where'[u] \in {"burst", "over"} => where[u] \notin {"record", "over"} \/ where'[u] = where[u]
                                 /\ where'[u] = "record" => where[u] = "record"
                                 /\ where[u] \in {"burst", "record", "over"} => where'[u] = where[u],
           latched' \in BOOLEAN, latched => latched',
           submission' \in {"none", "queued", "running", "done", "rejected"}
    PROVE  TypingInv' /\ CountInv' /\ KeyInv' /\ (latched' = latched => LatchedInv')
<1> USE DEF Nav2Inv
<1>1. TypingInv' /\ KeyInv'
  BY DEF TypingInv, KeyInv
<1>2. CountInv'
  BY Nav2Assumption DEF CountInv
<1>3. latched' = latched => LatchedInv'
  BY DEF LatchedInv, Underway
<1> QED
  BY <1>1, <1>2, <1>3

\* A step of the runtime may start the cleanup thread.
LEMMA RuntimeMoves ==
    ASSUME TypingInv, NEW p \in Places, Move("runtime", p) \/ BeginCleanup(p)
    PROVE  /\ where' \in [RunThreads -> Places]
           /\ where'["runtime"] = p
           /\ \A u \in RunThreads : \/ where'[u] = where[u]
                                    \/ u = "cleanup" /\ where[u] = "idle" /\ where'[u] = "stop"
                                    \/ u = "runtime"
<1>3. "runtime" \in RunThreads /\ "cleanup" \in RunThreads /\ "stop" \in Places /\ where \in [RunThreads -> Places]
  BY DEF RunThreads, Places, TypingInv
<1>1. CASE Move("runtime", p)
  BY <1>1, <1>3 DEF Move
<1>2. CASE BeginCleanup(p)
  <2> DEFINE moved == [where EXCEPT !["runtime"] = p]
  <2>1. moved \in [RunThreads -> Places] /\ moved["runtime"] = p /\ \A u \in RunThreads : u # "runtime" => moved[u] = where[u]
    BY <1>3
  <2>2. where' = [moved EXCEPT !["cleanup"] = IF moved["cleanup"] = "idle" THEN "stop" ELSE moved["cleanup"]]
    BY <1>2 DEF BeginCleanup
  <2> HIDE DEF moved
  <2> QED
    BY <1>3, <2>1, <2>2
<1> QED
  BY <1>1, <1>2

LEMMA SubmitStep == Nav2Inv /\ (Submit \/ SubmitTimeout \/ Refused) => Nav2Inv'
<1> SUFFICES ASSUME Nav2Inv, Submit \/ SubmitTimeout \/ Refused PROVE Nav2Inv'
  OBVIOUS
<1> USE DEF Nav2Inv, server, callbacks, client, cancelling, flags, sequencer, zeroing, burst
<1>1. UNCHANGED <<goal, cancels, asked, enqueuedFor, cancelGen, tracked, answered, watched, resulted, sent, handle,
                  goalState, executor, raised, worker, zeros, emergency, local, failed, calls, runEnded>>
  BY DEF Submit, SubmitTimeout, Refused, RuntimeOnly
<1>2. GoalsInv' /\ StateInv' /\ (Between => Between')
  BY <1>1, Calm
<1>3. "runtime" \in RunThreads
  BY DEF RunThreads
<1>4. CASE Submit
  <2>1. /\ where["runtime"] = "start" /\ where' = [where EXCEPT !["runtime"] = "submitted"]
        /\ latched' = latched /\ submission' \in {"queued", "rejected"}
    BY <1>4 DEF Submit, Move
  <2>2. where' \in [RunThreads -> Places] /\ \A u \in RunThreads : where'[u] = where[u] \/ (where[u] = "start" /\ where'[u] = "submitted")
    BY <2>1 DEF TypingInv, Places
  <2>3. TypingInv' /\ CountInv' /\ KeyInv' /\ LatchedInv'
    BY <1>1, <2>1, <2>2, RuntimeKeeps DEF TypingInv
  <2>4. where'["runtime"] = "submitted"
    BY <1>3, <2>1 DEF TypingInv
  <2>5. StageInv'
    BY <1>1, <1>2, <2>1, <2>4 DEF StageInv
  <2> QED
    BY <1>2, <2>3, <2>5
<1>5. CASE SubmitTimeout
  <2>1. /\ where["runtime"] = "submitted" /\ where' = where
        /\ latched' = TRUE /\ submission \in {"queued", "running"} /\ submission' = "rejected"
    BY <1>5 DEF SubmitTimeout
  <2>2. TypingInv' /\ CountInv' /\ KeyInv'
    BY <1>1, <2>1, RuntimeKeeps DEF TypingInv
  <2>3. sent \in answered => goal[sent] \in Terminal
    BY <2>1 DEF StageInv, Between, Settled, Terminal, GoalsInv, TypingInv
  <2>4. LatchedInv'
    BY <1>1, <2>1, <2>3 DEF LatchedInv, Underway
  <2>5. StageInv'
    BY <1>1, <1>2, <2>1 DEF StageInv
  <2> QED
    BY <1>2, <2>2, <2>4, <2>5
<1>6. CASE Refused
  <2>1. /\ where["runtime"] = "submitted" /\ where' = [where EXCEPT !["runtime"] = "burst"]
        /\ UNCHANGED <<latched, submission>> /\ submission = "rejected"
    BY <1>6 DEF Refused, Move
  <2>2. where' \in [RunThreads -> Places] /\ \A u \in RunThreads : where'[u] = where[u] \/ (where[u] = "submitted" /\ where'[u] = "burst")
    BY <2>1 DEF TypingInv, Places
  <2>3. TypingInv' /\ CountInv' /\ KeyInv' /\ LatchedInv'
    BY <1>1, <2>1, <2>2, RuntimeKeeps DEF TypingInv
  <2>4. where'["runtime"] = "burst"
    BY <1>3, <2>1 DEF TypingInv
  <2>5. StageInv'
    BY <1>1, <1>2, <2>1, <2>4 DEF StageInv
  <2> QED
    BY <1>2, <2>3, <2>5
<1> QED
  BY <1>4, <1>5, <1>6

LEMMA TrackStep == Nav2Inv /\ TrackGoal => Nav2Inv'
<1> SUFFICES ASSUME Nav2Inv, TrackGoal PROVE Nav2Inv'
  OBVIOUS
<1> USE DEF Nav2Inv, server, callbacks, client, cancelling, flags, sequencer, zeroing, burst
<1>1. UNCHANGED <<goal, cancels, asked, enqueuedFor, cancelGen, answered, watched, resulted, sent, handle, submission,
                  latched, goalState, executor, raised, worker, zeros, emergency, local, failed, calls, runEnded>>
  BY DEF TrackGoal
<1>2. /\ where["runtime"] = "submitted" /\ where' = [where EXCEPT !["runtime"] = "check"]
      /\ submission = "done" /\ tracked' = tracked \cup {sent}
  BY DEF TrackGoal, Move
<1>3. /\ sent > 0 /\ tracked = 1..(sent - 1) /\ goal[sent] # "unsent" /\ sent \in Goals
  BY <1>2, Nav2Assumption DEF StageInv, TypingInv, Goals
<1>4. tracked' = 1..sent /\ sent \in tracked'
  BY <1>2, <1>3 DEF Goals
<1>5. where' \in [RunThreads -> Places] /\ \A u \in RunThreads : where'[u] = where[u] \/ (where[u] = "submitted" /\ where'[u] = "check")
  BY <1>2 DEF TypingInv, Places
<1>6. TypingInv' /\ CountInv' /\ KeyInv' /\ LatchedInv'
  BY <1>1, <1>5, RuntimeKeeps DEF TypingInv
<1>7. GoalsInv'
  <2>1. resulted \subseteq watched /\ watched \subseteq answered /\ answered \subseteq tracked'
    BY <1>2 DEF GoalsInv
  <2>2. \A g \in Goals : g \in tracked' => goal[g] # "unsent"
    BY <1>2, <1>3 DEF GoalsInv
  <2> QED
    BY <1>1, <1>4, <2>1, <2>2 DEF GoalsInv, Settled
<1>8. StateInv'
  BY <1>1 DEF StateInv, Settled
<1>9. where'["runtime"] = "check"
  BY <1>2 DEF TypingInv, RunThreads
<1>10. StageInv'
  BY <1>1, <1>2, <1>4, <1>9 DEF StageInv
<1> QED
  BY <1>6, <1>7, <1>8, <1>10

LEMMA StartedStep == Nav2Inv /\ (StartCurrent \/ Started \/ WatchEnded) => Nav2Inv'
<1> SUFFICES ASSUME Nav2Inv, StartCurrent \/ Started \/ WatchEnded PROVE Nav2Inv'
  OBVIOUS
<1> USE DEF Nav2Inv, server, callbacks, client, cancelling, flags, sequencer, zeroing, burst
<1>1. UNCHANGED <<goal, cancels, asked, enqueuedFor, cancelGen, tracked, answered, watched, resulted, sent, handle,
                  submission, latched, goalState, executor, raised, worker, zeros, emergency, local, failed, calls,
                  runEnded>>
  BY DEF StartCurrent, Started, WatchEnded, RuntimeOnly
<1>2. GoalsInv' /\ StateInv' /\ (Between => Between')
  BY <1>1, Calm
<1>3. where["runtime"] \in {"check", "started", "watch"}
  BY DEF StartCurrent, Started, WatchEnded
<1>4. /\ where' \in [RunThreads -> Places]
      /\ where'["runtime"] \in {"started", "watch", "burst", "over"}
      /\ \A u \in RunThreads : \/ where'[u] = where[u]
                               \/ u = "cleanup" /\ where[u] = "idle" /\ where'[u] = "stop"
                               \/ u = "runtime"
  <2>1. \E p \in {"started", "watch", "burst", "over"} : Move("runtime", p) \/ BeginCleanup(p)
    BY DEF StartCurrent, Started, WatchEnded
  <2>2. PICK p \in {"started", "watch", "burst", "over"} : Move("runtime", p) \/ BeginCleanup(p)
    BY <2>1
  <2> QED
    BY <2>2, RuntimeMoves DEF Places
<1>5. TypingInv' /\ CountInv' /\ KeyInv' /\ LatchedInv'
  BY <1>1, <1>3, <1>4, RuntimeKeeps DEF TypingInv
<1>6. StageInv'
  BY <1>1, <1>2, <1>3, <1>4 DEF StageInv
<1> QED
  BY <1>2, <1>5, <1>6

\* The next stage begins only when the last goal is done with.
LEMMA PollStep == Nav2Inv /\ Poll => Nav2Inv'
<1> SUFFICES ASSUME Nav2Inv, Poll PROVE Nav2Inv'
  OBVIOUS
<1> USE DEF Nav2Inv, server, callbacks, client, cancelling, flags, sequencer, zeroing, burst
<1>1. UNCHANGED <<goal, cancels, asked, enqueuedFor, cancelGen, tracked, answered, watched, resulted, sent, handle,
                  submission, latched, executor, raised, worker, zeros, emergency, local, failed, calls, runEnded>>
  BY DEF Poll
<1>2. /\ executor = "idle" /\ where["runtime"] = "watch"
      /\ goalState' \in {goalState, "faulted"}
  BY DEF Poll, ReadStatus, Statuses, LockFree
<1>3. GoalsInv' /\ StateInv' /\ (Between => Between')
  BY <1>1, <1>2, Calm
<1>4. /\ where' \in [RunThreads -> Places]
      /\ where'["runtime"] \in {"watch", "burst", "over"} \/ (where'["runtime"] = "start" /\ goalState' = "succeeded" /\ sent # Stages)
      /\ \A u \in RunThreads : \/ where'[u] = where[u]
                               \/ u = "cleanup" /\ where[u] = "idle" /\ where'[u] = "stop"
                               \/ u = "runtime"
  <2>1. CASE UNCHANGED where
    <3>1. where' = where /\ where \in [RunThreads -> Places]
      BY <2>1 DEF TypingInv
    <3> QED
      BY <1>2, <3>1, Zenon
  <2>2. CASE \E p \in {"burst", "over"} : Move("runtime", p) \/ BeginCleanup(p)
    BY <2>2, RuntimeMoves DEF Places
  <2>3. CASE Move("runtime", "start") /\ goalState' = "succeeded" /\ sent # Stages
    BY <2>3, RuntimeMoves DEF Places
  <2> QED
    BY <2>1, <2>2, <2>3 DEF Poll, ReadStatus
<1>5. TypingInv' /\ CountInv' /\ KeyInv' /\ LatchedInv'
  BY <1>1, <1>2, <1>4, RuntimeKeeps DEF TypingInv
<1>6. submission = "done" /\ worker = "idle" /\ sent \in tracked
  BY <1>2 DEF StageInv
<1>7. ASSUME goalState' = "succeeded", sent # Stages PROVE Between'
  <2>1. sent \in Goals /\ tracked = 1..sent /\ sent < Stages
    BY <1>6, <1>7, Nav2Assumption DEF GoalsInv, TypingInv, Goals
  <2>2. Settled(sent)
    BY <1>1, <1>2, <1>3, <1>6, <1>7, <2>1 DEF StateInv, GoalsInv, Settled
  <2>3. \A g \in 1..sent : Settled(g)
    <3>1. \A g \in 1..sent : g \in Goals /\ (g = sent \/ g < sent)
      BY <2>1, Nav2Assumption DEF Goals
    <3> QED
      BY <2>2, <3>1 DEF GoalsInv
  <2> QED
    BY <1>1, <1>2, <1>7, <2>1, <2>3 DEF Between, Settled
<1>9. tracked = 1..sent
  BY <1>6, Nav2Assumption DEF GoalsInv, TypingInv
<1>8. StageInv'
  BY <1>1, <1>3, <1>4, <1>6, <1>7, <1>9 DEF StageInv
<1> QED
  BY <1>3, <1>5, <1>8

-----------------------------------------------------------------------------
(* The theorems.                                                           *)

LEMMA Nav2Step == Nav2Inv /\ [Nav2Next]_nav2 => Nav2Inv'
<1> SUFFICES ASSUME Nav2Inv, [Nav2Next]_nav2 PROVE Nav2Inv'
  OBVIOUS
<1>1. CASE Server \/ Executor \/ Worker \/ Emergency
  BY <1>1, ServerStep, ExecutorStep, WorkerStep, EmergencyStep
<1>2. CASE SubmitTimeout \/ Runtime
  BY <1>2, SubmitStep, TrackStep, StartedStep, PollStep, StopCallStep, RecordStep DEF Runtime, Burst, RunThreads
<1>3. CASE EstopBegin \/ Burst("stopper")
  BY <1>3, StopCallStep, RecordStep DEF EstopBegin, Burst, RunThreads
<1>4. CASE Cleanup
  BY <1>4, CancelGoalStep, StatusStep DEF Cleanup
<1>5. CASE \E t \in Cancellers : CancelBegin(t) \/ CancelStep(t)
  BY <1>5, Nav2Assumption, CancelGoalStep, StatusStep, StopCallStep, RecordStep
     DEF CancelBegin, CancelStep, Burst, RunThreads
<1>6. CASE UNCHANGED nav2
  BY <1>6 DEF nav2, server, callbacks, flags, cancelling, sequencer, zeroing, burst, Nav2Inv, TypingInv, CountInv,
     GoalsInv, StageInv, Between, Settled, StateInv, KeyInv, LatchedInv, Underway
<1> QED
  BY <1>1, <1>2, <1>3, <1>4, <1>5, <1>6 DEF Nav2Next

LEMMA Nav2Invariant == Nav2Spec => []Nav2Inv
BY Nav2Start, Nav2Step, PTL DEF Nav2Spec

\* The server's goals, the callbacks that have run and the counts of the bursts keep
\* their types.
THEOREM Nav2Typed == Nav2Spec => []Nav2TypeOK
<1>1. Nav2Inv => Nav2TypeOK
  BY Nav2Assumption, SMTT(20) DEF Nav2Inv, TypingInv, CountInv, GoalsInv, Nav2TypeOK, Working, Goals
<1> QED
  BY <1>1, Nav2Invariant, PTL

\* For any number of stages, whichever calls raise or are given up on: a transport
\* that says "cancelled" or "succeeded" has no goal at work, although a goal is sent
\* and an emergency zero acts without its lock.
THEOREM StatusIsTrue == Nav2Spec => []StateIsTruthful
<1>1. ASSUME Nav2Inv PROVE StateIsTruthful
  <2>1. goalState = "cancelled" => goal[sent] \in {"rejected", "canceled"}
    BY <1>1 DEF Nav2Inv, StateInv
  <2>2. ASSUME goalState = "succeeded", NEW g \in 1..sent PROVE goal[g] \in {"unsent", "succeeded"}
    <3>1. g \in Goals /\ (g = sent \/ g < sent)
      BY <1>1, Nav2Assumption DEF Nav2Inv, TypingInv, Goals
    <3> QED
      BY <1>1, <2>2, <3>1 DEF Nav2Inv, StateInv, GoalsInv, Settled
  <2> QED
    BY <2>1, <2>2 DEF StateIsTruthful
<1> QED
  BY <1>1, Nav2Invariant, PTL

\* Once a run has ended and everybody is done, every goal the server still works on
\* was asked to cancel, a call has raised, or it is the goal of a send_goal whose
\* submitter had timed out, for any number of stages, cancellers and stop callbacks.
THEOREM EndedRunIsCancelled == Nav2Spec => []EndedRunCancelsGoal
<1>1. ASSUME Nav2Inv, runEnded, Quiet, NEW g \in Goals, goal[g] = "executing"
      PROVE  g \in asked \/ raised \/ GivenUp(g)
  <2>1. g = sent
    BY <1>1, Nav2Assumption DEF Nav2Inv, GoalsInv, Settled, TypingInv, Goals
  <2>2. CASE g \in tracked
    <3>1. g \in answered
      BY <1>1, <2>2 DEF Quiet
    <3> QED
      BY <1>1, <2>1, <3>1 DEF Nav2Inv, LatchedInv, Underway, Quiet, Terminal
  <2>3. CASE g \notin tracked
    <3>1. where["runtime"] \in {"idle", "over"}
      BY <1>1 DEF Quiet, RunThreads
    <3>2. submission # "done"
      BY <1>1, <2>1, <2>3, <3>1 DEF Nav2Inv, StageInv, Goals
    <3> QED
      BY <1>1, <2>1, <2>3, <3>1, <3>2 DEF Nav2Inv, StageInv, GivenUp
  <2> QED
    BY <2>2, <2>3
<1>2. Nav2Inv => EndedRunCancelsGoal
  BY <1>1 DEF EndedRunCancelsGoal
<1> QED
  BY <1>2, Nav2Invariant, PTL

=============================================================================
