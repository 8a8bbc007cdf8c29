------------------------ MODULE TwistTransportProofs ------------------------
(***************************************************************************)
(* A stop of the twist adapter that is reported as successful leaves the   *)
(* robot commanded to stand still, for any number of threads and stages    *)
(* and any burst of at least two callbacks.                                *)
(*                                                                         *)
(* One callback is not enough: the zero it hands over may be published     *)
(* before the command it then waits for.  Once it has returned, though,    *)
(* nothing is in flight and nothing will be (Silent), and the zero of the  *)
(* next callback is the last message of all (Owed).  Which also makes it   *)
(* last: nothing moves the robot after it any more.                        *)
(***************************************************************************)
EXTENDS TwistTransport, SequenceTheorems, TLAPS

Codes == {"ESTOP_LATCHED", "SAFETY_COMMAND_REJECTED", "TRANSPORT_UNQUIESCED"}

Places == {"idle", "start", "submitted", "watch", "decide", "zero", "stop", "stopped",
           "burst", "quiesce", "record", "over", "gone"}

TypingInv ==
    /\ queue \in Seq(Submitters)
    /\ zeros \in Nat
    /\ sent \in [Threads -> Nat]
    /\ worst \in [Threads -> Codes]
    /\ result \in [Threads -> Codes \cup {None}]
    /\ pc \in [Threads -> Places]

\* A latched sequencer has nothing queued, and a worker without a command is idle.
WorkerInv == /\ latched => queue = <<>>
             /\ inFlight = None => worker = "idle"

\* No command is published any more.
Silent == latched /\ inFlight = None

\* The robot is told to stand still, or will be unless the publisher fails.
Owed == motion = "zero" \/ zeros > 0 \/ emergency # "idle" \/ failed

\* Every callback of the burst so far has found the transport quiet in time.
Clean(t) == worst[t] = "ESTOP_LATCHED"

BurstInv ==
    \A t \in Threads :
      /\ pc[t] = "quiesce" => latched
      /\ pc[t] = "record" => sent[t] >= BurstCount
      /\ Clean(t) /\ sent[t] >= 1 => Silent /\ pc[t] # "quiesce"
      /\ Clean(t) /\ sent[t] >= 2 => Owed
      /\ result[t] = "ESTOP_LATCHED" => Silent /\ Owed

TwistInv == TypingInv /\ WorkerInv /\ BurstInv

USE DEF adapter, sequencer, zeroing, burst, locals

LEMMA TwistStart == ASSUME BurstCount > 1 PROVE Init => TwistInv
<1> SUFFICES ASSUME Init PROVE TwistInv
  OBVIOUS
<1> USE DEF Init
<1>1. TypingInv
  BY EmptySeq DEF TypingInv, Codes, Places
<1>2. WorkerInv /\ BurstInv
  BY TwistThreadsAssumption DEF WorkerInv, BurstInv, Clean
<1> QED
  BY <1>1, <1>2 DEF TwistInv

-----------------------------------------------------------------------------
(* Silence lasts, and so does a zero that is owed in it.                   *)

StopSteps == \E t \in Threads : Burst(t) \/ \E from \in {"idle", "burst"} : BurstCall(t, from)

\* The steps of those who move the robot or disable its stage.
DriveSteps == \/ WorkerStep \/ TimerStep \/ RuntimeStart \/ RuntimeStale \/ RuntimeStarted \/ RuntimeRejected
              \/ WatchSucceeded \/ WatchFailed \/ WatchTimeout \/ WatchEnded \/ CleanupDisable
              \/ WatchdogLeaves \/ \E t \in Threads : StopZero(t)
              \/ \E s \in Submitters : SubmitTimeout(s)
              \/ \E t \in Cancellers : CancelBegin(t) \/ CancelAnnounce(t)

LEMMA NextIsDriveOrStop == Next => DriveSteps \/ EmergencyStep \/ StopSteps
BY DEF Next, DriveSteps, StopSteps, RuntimeStep, CleanupStep, WatchdogStep, WatchdogExpires, CancelStep, EstopBegin,
       Burst, Threads, TimerStep, Submitters

LEMMA DriveKeeps ==
    ASSUME TwistInv, DriveSteps
    PROVE  /\ UNCHANGED <<zeros, emergency, failed, sent, worst, result>>
           /\ latched => latched'
           /\ Silent => Silent'
           /\ Silent => motion' \in {motion, "zero"}
<1> USE DEF TwistInv, WorkerInv, Silent
<1>1. CASE WorkerStep
  BY <1>1 DEF WorkerStep, WorkerTake, StartStep, StartRead, StartWrite, StartAdopt, StartSet, StartAnnounce,
     CommandCheck, CommandPublish, CommandEnds
<1>2. CASE TimerStep
  BY <1>2 DEF TimerStep, ControlRead, ControlConcludes, ControlVerdict, ControlSubmit, ControlAnswered, StopDisable,
     Disable, StopZero, Submit, Forget
<1>3. CASE RuntimeStart \/ RuntimeStale \/ RuntimeStarted \/ RuntimeRejected
  BY <1>3 DEF RuntimeStart, RuntimeStale, RuntimeStarted, RuntimeRejected, Submit, Forget, StopDisable
<1>4. CASE WatchSucceeded \/ WatchFailed \/ WatchTimeout \/ WatchEnded
  BY <1>4 DEF WatchSucceeded, WatchFailed, WatchTimeout, WatchEnded
<1>5. CASE CleanupDisable \/ WatchdogLeaves \/ \E t \in Cancellers : CancelBegin(t) \/ CancelAnnounce(t)
  BY <1>5 DEF CleanupDisable, WatchdogLeaves, CancelBegin, CancelAnnounce, StopDisable
<1>6. CASE \E t \in Threads : StopZero(t)
  BY <1>6 DEF StopZero
<1>7. CASE \E s \in Submitters : SubmitTimeout(s)
  <2>1. PICK s \in Submitters : SubmitTimeout(s)
    BY <1>7
  <2>2. latched' = TRUE /\ UNCHANGED <<inFlight, motion, zeros, emergency, failed, sent, worst, result>>
    BY <2>1 DEF SubmitTimeout, LatchRejecting
  <2> QED
    BY <2>2
<1> QED
  BY <1>1, <1>2, <1>3, <1>4, <1>5, <1>6, <1>7 DEF DriveSteps

LEMMA EmergencyKeeps ==
    ASSUME TwistInv, EmergencyStep
    PROVE  /\ UNCHANGED <<latched, queue, inFlight, worker, sent, worst, result, pc>>
           /\ zeros' \in Nat
           /\ Owed => Owed'
BY DEF EmergencyStep, EmergencyRead, EmergencyDisable, EmergencyPublish, TwistInv, TypingInv, Owed

LEMMA StopKeeps ==
    ASSUME TwistInv, StopSteps
    PROVE  /\ UNCHANGED <<inFlight, worker, motion, emergency>>
           /\ latched => latched'
           /\ latched' => queue' = <<>>
           /\ zeros' \in Nat
           /\ Owed => Owed'
<1> USE DEF TwistInv, WorkerInv, TypingInv, Owed
<1>1. CASE \E t \in Threads : \E from \in {"idle", "burst"} : BurstCall(t, from)
  <2>1. PICK t \in Threads, from \in {"idle", "burst"} : BurstCall(t, from)
    BY <1>1
  <2>2. latched' = TRUE /\ queue' = <<>> /\ UNCHANGED <<inFlight, worker, motion, emergency>>
    BY <2>1 DEF BurstCall, LatchRejecting
  <2>3. \/ failed' /\ zeros' = zeros
        \/ ~failed /\ zeros' = zeros + 1
    BY <2>1 DEF BurstCall
  <2> QED
    BY <2>2, <2>3
<1>2. CASE \E t \in Threads : BurstReturn(t) \/ Record(t)
  BY <1>2 DEF BurstReturn, Record, CallbackReturns
<1>3. CASE \E t \in Threads : BurstCall(t, "burst")
  BY <1>1, <1>3
<1> QED
  BY <1>1, <1>2, <1>3 DEF StopSteps, Burst

-----------------------------------------------------------------------------
(* The steps of a burst.                                                   *)

LEMMA Worse ==
    ASSUME NEW a \in Codes, NEW b \in Codes
    PROVE  WorseOf(a, b) \in Codes /\ (WorseOf(a, b) = "ESTOP_LATCHED" <=> a = "ESTOP_LATCHED" /\ b = "ESTOP_LATCHED")
BY DEF WorseOf, Severity, Codes

LEMMA Returned ==
    ASSUME TwistInv, BurstCount > 1, NEW t \in Threads, NEW code \in Codes, CallbackReturns(t, code)
    PROVE  /\ sent' \in [Threads -> Nat] /\ worst' \in [Threads -> Codes]
           /\ sent'[t] = sent[t] + 1 /\ (Clean(t)' => Clean(t) /\ code = "ESTOP_LATCHED")
           /\ pc'[t] \in {"record", "burst"} /\ (pc'[t] = "record" => sent'[t] = BurstCount)
           /\ \A u \in Threads \ {t} : sent'[u] = sent[u] /\ worst'[u] = worst[u] /\ pc'[u] = pc[u]
<1> USE DEF TwistInv, TypingInv
<1>1. WorseOf(worst[t], code) \in Codes
  BY Worse
<1>2. /\ worst' = [worst EXCEPT ![t] = WorseOf(worst[t], code)]
      /\ sent' = [sent EXCEPT ![t] = sent[t] + 1]
      /\ pc' = [pc EXCEPT ![t] = IF sent[t] + 1 = BurstCount THEN "record" ELSE "burst"]
  BY DEF CallbackReturns, Move
<1> QED
  BY <1>1, <1>2, Worse DEF Clean

-----------------------------------------------------------------------------
(* Where the steps lead.                                                   *)

\* A thread goes to a place where it is not in a burst's callback.
Elsewhere == /\ pc' \in [Threads -> Places]
             /\ \A u \in Threads : pc'[u] = pc[u] \/ pc'[u] \notin {"quiesce", "record"}

LEMMA MoveElsewhere ==
    ASSUME TypingInv, NEW t \in Threads, NEW p \in Places \ {"quiesce", "record"}, Move(t, p)
    PROVE  Elsewhere
BY DEF TypingInv, Move, Elsewhere

LEMMA CleanupElsewhere ==
    ASSUME TypingInv, NEW p \in Places \ {"quiesce", "record"}, StartCleanup(p)
    PROVE  Elsewhere
<1> DEFINE moved == [pc EXCEPT !["runtime"] = p]
<1>1. "runtime" \in Threads /\ "cleanup" \in Threads /\ "stop" \in Places
  BY DEF Threads, Submitters, Places
<1>2. moved \in [Threads -> Places] /\ \A u \in Threads : moved[u] = pc[u] \/ moved[u] \notin {"quiesce", "record"}
  BY <1>1 DEF TypingInv
<1>3. pc' = [moved EXCEPT !["cleanup"] = IF moved["cleanup"] = "idle" THEN "stop" ELSE moved["cleanup"]]
  BY DEF StartCleanup
<1> HIDE DEF moved
<1> QED
  BY <1>1, <1>2, <1>3 DEF Elsewhere

LEMMA DrivePlaces ==
    ASSUME TwistInv, DriveSteps
    PROVE  Elsewhere
<1> USE DEF TwistInv
<1>1. {"runtime", "timer", "cleanup", "watchdog"} \subseteq Threads /\ Cancellers \subseteq Threads
  BY DEF Threads, Submitters
<1>2. UNCHANGED pc => Elsewhere
  BY DEF Elsewhere, TypingInv
<1>3. CASE WorkerStep \/ \E s \in Submitters : SubmitTimeout(s)
  BY <1>2, <1>3 DEF WorkerStep, WorkerTake, StartStep, StartRead, StartWrite, StartAdopt, StartSet, StartAnnounce,
     CommandCheck, CommandPublish, SubmitTimeout
<1>4. CASE \E t \in Threads : StopZero(t)
  <2>1. PICK t \in Threads : StopZero(t)
    BY <1>4
  <2>2. Move(t, AfterStop(t)) /\ AfterStop(t) \in Places \ {"quiesce", "record"}
    BY <2>1 DEF StopZero, AfterStop, Places
  <2> QED
    BY <2>2, MoveElsewhere
<1>5. CASE TimerStep
  <2>1. StopZero("timer") => Elsewhere
    BY <1>1, <1>4
  <2>2. \/ Move("timer", "decide") \/ Move("timer", "zero") \/ Move("timer", "idle") \/ Move("timer", "submitted")
        \/ StopZero("timer")
    BY <1>5 DEF TimerStep, ControlRead, ControlConcludes, ControlVerdict, ControlSubmit, ControlAnswered, StopDisable
  <2> QED
    BY <1>1, <2>1, <2>2, MoveElsewhere DEF Places
<1>6. CASE RuntimeStart \/ RuntimeStale \/ RuntimeStarted \/ RuntimeRejected
  <2>1. \/ Move("runtime", "submitted") \/ Move("runtime", "zero") \/ Move("runtime", "watch")
        \/ Move("runtime", "burst") \/ StartCleanup("over") \/ StartCleanup("burst")
    BY <1>6 DEF RuntimeStart, RuntimeStale, RuntimeStarted, RuntimeRejected, StopDisable
  <2> QED
    BY <1>1, <2>1, MoveElsewhere, CleanupElsewhere DEF Places
<1>7. CASE WatchSucceeded \/ WatchFailed \/ WatchTimeout \/ WatchEnded
  <2>1. \/ Move("runtime", "over") \/ Move("runtime", "start")
        \/ Move("runtime", "burst") \/ StartCleanup("burst")
    BY <1>7 DEF WatchSucceeded, WatchFailed, WatchTimeout, WatchEnded
  <2> QED
    BY <1>1, <2>1, MoveElsewhere, CleanupElsewhere DEF Places
<1>8. CASE CleanupDisable \/ WatchdogLeaves \/ \E t \in Cancellers : CancelBegin(t) \/ CancelAnnounce(t)
  <2>1. \E t \in Threads, p \in {"zero", "over", "burst", "gone"} : Move(t, p)
    BY <1>1, <1>8 DEF CleanupDisable, WatchdogLeaves, CancelBegin, CancelAnnounce, StopDisable
  <2> QED
    BY <2>1, MoveElsewhere DEF Places
<1> QED
  BY <1>3, <1>4, <1>5, <1>6, <1>7, <1>8 DEF DriveSteps

LEMMA DriveQueue ==
    ASSUME TwistInv, DriveSteps
    PROVE  /\ queue' \in Seq(Submitters)
           /\ latched' => queue' = <<>>
           /\ inFlight' = None => worker' = "idle"
<1> USE DEF TwistInv, TypingInv, WorkerInv
<1>1. CASE UNCHANGED <<latched, queue, inFlight, worker>>
  BY <1>1
<1>2. CASE \E s \in Submitters : Submit(s)
  <2>1. PICK s \in Submitters : Submit(s)
    BY <1>2
  <2>2. UNCHANGED <<latched, inFlight, worker>>
    BY <2>1 DEF Submit
  <2>3. queue' = queue \/ (~latched /\ queue' = Append(queue, s))
    BY <2>1 DEF Submit
  <2>4. Append(queue, s) \in Seq(Submitters)
    BY AppendProperties
  <2> QED
    BY <2>2, <2>3, <2>4
<1>3. CASE \E s \in Submitters : SubmitTimeout(s)
  BY <1>3, EmptySeq DEF SubmitTimeout, LatchRejecting
<1>4. CASE WorkerTake
  <2>1. Head(queue) \in Submitters /\ Tail(queue) \in Seq(Submitters)
    BY <1>4, HeadTailProperties DEF WorkerTake
  <2>2. ~latched /\ latched' = latched /\ inFlight' = Head(queue) /\ queue' = Tail(queue)
    BY <1>4 DEF WorkerTake
  <2> QED
    BY <2>1, <2>2, TwistThreadsAssumption DEF Submitters
<1>5. CASE StartRead \/ StartWrite \/ StartAdopt \/ StartSet
  BY <1>5 DEF StartRead, StartWrite, StartAdopt, StartSet, StartStep
<1>6. CASE StartAnnounce \/ CommandCheck \/ CommandPublish
  BY <1>6 DEF StartAnnounce, CommandCheck, CommandPublish, CommandEnds
<1>7. CASE TimerStep
  <2>1. Submit("timer") \/ UNCHANGED <<latched, queue, inFlight, worker>>
    BY <1>7 DEF TimerStep, ControlRead, ControlConcludes, ControlVerdict, ControlSubmit, ControlAnswered, StopDisable,
       StopZero, Forget
  <2> QED
    BY <1>1, <1>2, <2>1 DEF Submitters
<1>8. CASE RuntimeStart \/ RuntimeStale \/ RuntimeStarted \/ RuntimeRejected
  <2>1. Submit("runtime") \/ UNCHANGED <<latched, queue, inFlight, worker>>
    BY <1>8 DEF RuntimeStart, RuntimeStale, RuntimeStarted, RuntimeRejected, StopDisable, Forget
  <2> QED
    BY <1>1, <1>2, <2>1 DEF Submitters
<1>9. CASE WatchSucceeded \/ WatchFailed \/ WatchTimeout \/ WatchEnded \/ CleanupDisable \/ WatchdogLeaves
  BY <1>1, <1>9 DEF WatchSucceeded, WatchFailed, WatchTimeout, WatchEnded, CleanupDisable, WatchdogLeaves, StopDisable
<1>10. CASE (\E t \in Threads : StopZero(t)) \/ \E t \in Cancellers : CancelBegin(t) \/ CancelAnnounce(t)
  BY <1>1, <1>10 DEF StopZero, CancelBegin, CancelAnnounce, StopDisable
<1> QED
  BY <1>3, <1>4, <1>5, <1>6, <1>7, <1>8, <1>9, <1>10 DEF DriveSteps, WorkerStep

-----------------------------------------------------------------------------
(* The theorem.                                                            *)

LEMMA DriveStep ==
    ASSUME BurstCount > 1, TwistInv, DriveSteps
    PROVE  TwistInv'
<1>1. TypingInv'
  BY DriveKeeps, DrivePlaces, DriveQueue DEF TwistInv, TypingInv, Elsewhere
<1>2. WorkerInv'
  BY DriveQueue DEF WorkerInv
<1>3. Silent /\ Owed => Owed'
  BY DriveKeeps DEF Owed
<1>4. /\ UNCHANGED <<sent, worst, result>> /\ (latched => latched') /\ (Silent => Silent')
      /\ \A u \in Threads : pc'[u] = pc[u] \/ pc'[u] \notin {"quiesce", "record"}
  BY DriveKeeps, DrivePlaces DEF Elsewhere
<1>5. BurstInv
  BY DEF TwistInv
<1>6. BurstInv'
  <2> SUFFICES ASSUME NEW u \in Threads
               PROVE  /\ pc'[u] = "quiesce" => latched'
                      /\ pc'[u] = "record" => sent'[u] >= BurstCount
                      /\ Clean(u)' /\ sent'[u] >= 1 => Silent' /\ pc'[u] # "quiesce"
                      /\ Clean(u)' /\ sent'[u] >= 2 => Owed'
                      /\ result'[u] = "ESTOP_LATCHED" => Silent' /\ Owed'
    BY DEF BurstInv
  <2>1. Clean(u)' = Clean(u) /\ sent' = sent /\ result' = result
    BY <1>4 DEF Clean
  <2>2. /\ pc[u] = "quiesce" => latched
        /\ pc[u] = "record" => sent[u] >= BurstCount
        /\ Clean(u) /\ sent[u] >= 1 => Silent /\ pc[u] # "quiesce"
        /\ Clean(u) /\ sent[u] >= 2 => Owed
        /\ result[u] = "ESTOP_LATCHED" => Silent /\ Owed
    BY <1>5 DEF BurstInv
  <2>3. sent[u] \in Nat
    BY DEF TwistInv, TypingInv
  <2>4. Clean(u) /\ sent[u] >= 2 => Silent
    BY <2>2, <2>3
  <2> QED
    BY <1>3, <1>4, <2>1, <2>2, <2>4
<1> QED
  BY <1>1, <1>2, <1>6 DEF TwistInv

LEMMA EmergencyWorkerStep ==
    ASSUME TwistInv, EmergencyStep
    PROVE  TwistInv'
BY EmergencyKeeps DEF TwistInv, TypingInv, WorkerInv, BurstInv, Clean, Silent

LEMMA CallStep ==
    ASSUME BurstCount > 1, TwistInv, NEW t \in Threads, NEW from \in {"idle", "burst"}, BurstCall(t, from)
    PROVE  TwistInv'
<1> DEFINE code == IF ~failed /\ zeros < ZeroCapacity THEN "ESTOP_LATCHED" ELSE "SAFETY_COMMAND_REJECTED"
<1>1. /\ UNCHANGED <<inFlight, worker, motion, emergency, result>>
      /\ latched' = TRUE /\ queue' = <<>> /\ zeros' \in Nat
      /\ code = "ESTOP_LATCHED" => zeros' > 0
  BY DEF BurstCall, LatchRejecting, TwistInv, TypingInv
<1>2. Owed => Owed'
  BY StopKeeps DEF StopSteps
<1>3. code \in Codes
  BY DEF Codes
<1>4. \/ inFlight = None /\ CallbackReturns(t, code)
      \/ /\ inFlight # None /\ sent' = sent
         /\ worst' = [worst EXCEPT ![t] = WorseOf(worst[t], code)]
         /\ pc' = [pc EXCEPT ![t] = "quiesce"]
  BY DEF BurstCall, Move
<1> HIDE DEF code
<1>5. /\ sent' \in [Threads -> Nat] /\ worst' \in [Threads -> Codes] /\ pc' \in [Threads -> Places]
      /\ \A u \in Threads \ {t} : sent'[u] = sent[u] /\ worst'[u] = worst[u] /\ pc'[u] = pc[u]
      /\ Clean(t)' => Clean(t) /\ code = "ESTOP_LATCHED"
      /\ \/ inFlight = None /\ pc'[t] \in {"record", "burst"} /\ (pc'[t] = "record" => sent'[t] = BurstCount)
         \/ inFlight # None /\ pc'[t] = "quiesce" /\ sent'[t] = sent[t]
  <2>1. CASE inFlight = None /\ CallbackReturns(t, code)
    BY <1>3, <2>1, Returned DEF TwistInv, TypingInv, CallbackReturns, Move, Places
  <2>2. CASE /\ inFlight # None /\ sent' = sent
             /\ worst' = [worst EXCEPT ![t] = WorseOf(worst[t], code)]
             /\ pc' = [pc EXCEPT ![t] = "quiesce"]
    <3>1. worst[t] \in Codes /\ "quiesce" \in Places
      BY DEF TwistInv, TypingInv, Places
    <3> QED
      BY <1>3, <2>2, <3>1, Worse DEF TwistInv, TypingInv, Clean
  <2> QED
    BY <1>4, <2>1, <2>2
<1>6. TypingInv' /\ WorkerInv'
  BY <1>1, <1>5, EmptySeq DEF TwistInv, TypingInv, WorkerInv
<1>7. BurstInv'
  <2> SUFFICES ASSUME NEW u \in Threads
               PROVE  /\ pc'[u] = "quiesce" => latched'
                      /\ pc'[u] = "record" => sent'[u] >= BurstCount
                      /\ Clean(u)' /\ sent'[u] >= 1 => Silent' /\ pc'[u] # "quiesce"
                      /\ Clean(u)' /\ sent'[u] >= 2 => Owed'
                      /\ result'[u] = "ESTOP_LATCHED" => Silent' /\ Owed'
    BY DEF BurstInv
  <2>1. CASE u # t
    BY <1>1, <1>2, <1>5, <2>1 DEF TwistInv, BurstInv, Clean, Silent
  <2>2. CASE u = t
    BY <1>1, <1>2, <1>5, <2>2, StagesAssumption DEF TwistInv, TypingInv, BurstInv, Silent, Owed
  <2> QED
    BY <2>1, <2>2
<1> QED
  BY <1>6, <1>7 DEF TwistInv

LEMMA ReturnStep ==
    ASSUME BurstCount > 1, TwistInv, NEW t \in Threads, BurstReturn(t)
    PROVE  TwistInv'
<1> DEFINE code == IF inFlight = None THEN "ESTOP_LATCHED" ELSE "TRANSPORT_UNQUIESCED"
<1>1. UNCHANGED <<inFlight, worker, motion, emergency, result, latched, queue, zeros, failed>>
  BY DEF BurstReturn
<1>2. code \in Codes /\ CallbackReturns(t, code) /\ pc[t] = "quiesce"
  BY DEF BurstReturn, Codes
<1>3. pc' \in [Threads -> Places]
  BY <1>2 DEF CallbackReturns, Move, TwistInv, TypingInv, Places
<1>4. TypingInv' /\ WorkerInv'
  BY <1>1, <1>2, <1>3, Returned DEF TwistInv, TypingInv, WorkerInv
<1>5. Clean(t)' => sent'[t] = 1 /\ Silent
  BY <1>2, Returned DEF TwistInv, TypingInv, BurstInv, Silent
<1>6. BurstInv'
  BY <1>1, <1>2, <1>5, Returned, StagesAssumption DEF TwistInv, TypingInv, BurstInv, Clean, Silent, Owed
<1> QED
  BY <1>4, <1>6 DEF TwistInv

LEMMA RecordStep ==
    ASSUME BurstCount > 1, TwistInv, NEW t \in Threads, Record(t)
    PROVE  TwistInv'
<1>1. UNCHANGED <<inFlight, worker, motion, emergency, latched, queue, zeros, failed>>
  BY DEF Record
<1>2. /\ pc[t] = "record" /\ pc' = [pc EXCEPT ![t] = "over"] /\ result' = [result EXCEPT ![t] = worst[t]]
      /\ sent' = [sent EXCEPT ![t] = 0] /\ worst' = [worst EXCEPT ![t] = "ESTOP_LATCHED"]
  BY DEF Record, Move
<1>3. TypingInv' /\ WorkerInv'
  BY <1>1, <1>2 DEF TwistInv, TypingInv, WorkerInv, Places, Codes
<1>4. worst[t] = "ESTOP_LATCHED" => Silent /\ Owed
  BY <1>2, StagesAssumption DEF TwistInv, TypingInv, BurstInv, Clean
<1>5. BurstInv'
  BY <1>1, <1>2, <1>4 DEF TwistInv, TypingInv, BurstInv, Clean, Silent, Owed
<1> QED
  BY <1>3, <1>5 DEF TwistInv

LEMMA TwistStep == ASSUME BurstCount > 1 PROVE TwistInv /\ [Next]_vars => TwistInv'
<1> SUFFICES ASSUME TwistInv, [Next]_vars PROVE TwistInv'
  OBVIOUS
<1>1. CASE DriveSteps \/ EmergencyStep
  BY <1>1, DriveStep, EmergencyWorkerStep
<1>2. CASE StopSteps
  BY <1>2, CallStep, ReturnStep, RecordStep DEF StopSteps, Burst
<1>3. CASE UNCHANGED vars
  BY <1>3 DEF vars, TwistInv, TypingInv, WorkerInv, BurstInv, Clean, Silent, Owed
<1> QED
  BY <1>1, <1>2, <1>3, NextIsDriveOrStop

\* Any stop whose result is successful leaves a zero as the last message once the
\* emergency worker is done, whoever stops, whatever was in flight and however the
\* timer, the stages and the other stops run into it, with a burst of two callbacks
\* or more (the code makes three).
THEOREM SuccessfulStopHolds ==
    ASSUME BurstCount > 1
    PROVE  Spec => []SuccessfulStopIsZero
<1>1. TwistInv => SuccessfulStopIsZero
  BY DEF TwistInv, BurstInv, Owed, SuccessfulStopIsZero
<1>2. Init => TwistInv
  BY TwistStart
<1>3. TwistInv /\ [Next]_vars => TwistInv'
  BY TwistStep
<1> QED
  BY <1>1, <1>2, <1>3, PTL DEF Spec

\* A successful stop is for good: once the robot is told to stand still after it, no
\* message of anyone tells it to move again, whatever the timer had computed before.
\* (That it is told so is what the run twist_live shows, with the fairness it needs.)
SuccessfulStopLasts ==
    [][\A t \in Threads : result[t] = "ESTOP_LATCHED" /\ motion = "zero" => motion' = "zero"]_vars

THEOREM SuccessfulStopIsForGood ==
    ASSUME BurstCount > 1
    PROVE  Spec => SuccessfulStopLasts
<1>1. ASSUME TwistInv, [Next]_vars, NEW t \in Threads, result[t] = "ESTOP_LATCHED", motion = "zero"
      PROVE  motion' = "zero"
  <2>1. Silent
    BY <1>1 DEF TwistInv, BurstInv
  <2>2. CASE DriveSteps
    BY <1>1, <2>1, <2>2, DriveKeeps
  <2>3. CASE EmergencyStep
    BY <1>1, <2>3 DEF EmergencyStep, EmergencyRead, EmergencyDisable, EmergencyPublish
  <2>4. CASE StopSteps
    BY <1>1, <2>4, StopKeeps
  <2>5. CASE UNCHANGED vars
    BY <1>1, <2>5 DEF vars
  <2> QED
    BY <1>1, <2>2, <2>3, <2>4, <2>5, NextIsDriveOrStop
<1>2. Init => TwistInv
  BY TwistStart
<1>3. TwistInv /\ [Next]_vars => TwistInv'
  BY TwistStep
<1>4. TwistInv /\ [Next]_vars =>
         \A t \in Threads : result[t] = "ESTOP_LATCHED" /\ motion = "zero" => motion' = "zero"
  BY <1>1
<1> QED
  BY <1>2, <1>3, <1>4, PTL DEF Spec, SuccessfulStopLasts

-----------------------------------------------------------------------------
(* Type correctness.  Each submitter's command is in the queue at most     *)
(* once, because a submitter waits for the answer to the one that is; and  *)
(* a burst makes no more than its callbacks, because it starts at none.    *)

Queues == {<<>>, <<"runtime">>, <<"timer">>, <<"runtime", "timer">>, <<"timer", "runtime">>}

QueueInv == \A s \in Submitters : s \in Range(queue) => pc[s] = "submitted" /\ receipt[s] = "queued"

CountInv ==
    \A t \in Threads :
      /\ pc[t] \in {"burst", "quiesce"} => sent[t] < BurstCount
      /\ pc[t] \notin {"burst", "quiesce", "record"} => sent[t] = 0

TimerInv == pc["timer"] \in {"zero", "stopped"} => verdict \in {"faulted", "succeeded"}

TypesInv == /\ TypeOK /\ QueueInv /\ CountInv /\ TimerInv
            /\ pc \in [Threads -> Places]
            /\ read \in [{"worker", "emergency"} -> Nat]

LEMMA AppendOne ==
    ASSUME NEW r \in Submitters, NEW s \in Submitters
    PROVE  Append(<<r>>, s) = <<r, s>> /\ Tail(<<r>>) = <<>>
<1>1. <<r>> \in Seq(Submitters) /\ Len(<<r>>) = 1 /\ <<r>> # <<>>
  OBVIOUS
<1>2. <<r, s>> \in Seq(Submitters) /\ Len(<<r, s>>) = 2 /\ <<r, s>>[1] = r /\ <<r, s>>[2] = s
  OBVIOUS
<1>3. /\ Append(<<r>>, s) \in Seq(Submitters) /\ Len(Append(<<r>>, s)) = 2
      /\ Append(<<r>>, s)[1] = r /\ Append(<<r>>, s)[2] = s
  BY <1>1, AppendProperties
<1> DEFINE a == Append(<<r>>, s)
           b == <<r, s>>
<1>4. Append(<<r>>, s) = <<r, s>>
  <2>1. a \in Seq(Submitters) /\ b \in Seq(Submitters) /\ Len(a) = Len(b) /\ \A i \in 1..Len(a) : a[i] = b[i]
    BY <1>2, <1>3
  <2> HIDE DEF a, b
  <2>2. a = b
    BY ONLY <2>1, SeqEqual
  <2> QED
    BY <2>2 DEF a, b
<1>5. Tail(<<r>>) \in Seq(Submitters) /\ Len(Tail(<<r>>)) = 0
  BY <1>1, HeadTailProperties
<1>6. Tail(<<r>>) = <<>>
  BY <1>5, EmptySeq
<1> QED
  BY <1>4, <1>6

LEMMA QueueFacts ==
    ASSUME NEW q \in Queues
    PROVE  /\ Range(q) \subseteq Submitters
           /\ q # <<>> => /\ Head(q) \in Submitters /\ Head(q) \in Range(q)
                          /\ Tail(q) \in Queues
                          /\ Range(Tail(q)) \subseteq Range(q) \ {Head(q)}
           /\ \A s \in Submitters \ Range(q) : Append(q, s) \in Queues /\ Range(Append(q, s)) = Range(q) \cup {s}
<1> USE DEF Queues, Submitters, Range
<1>1. CASE q = <<>>
  BY <1>1
<1>2. CASE q = <<"runtime">>
  <2>1. Append(q, "timer") = <<"runtime", "timer">> /\ Tail(q) = <<>>
    BY <1>2, AppendOne
  <2>2. Range(<<"runtime", "timer">>) = {"runtime", "timer"} /\ Range(q) = {"runtime"} /\ Range(<<>>) = {}
    BY <1>2
  <2> QED
    BY <1>2, <2>1, <2>2
<1>3. CASE q = <<"timer">>
  <2>1. Append(q, "runtime") = <<"timer", "runtime">> /\ Tail(q) = <<>>
    BY <1>3, AppendOne
  <2>2. Range(<<"timer", "runtime">>) = {"runtime", "timer"} /\ Range(q) = {"timer"} /\ Range(<<>>) = {}
    BY <1>3
  <2> QED
    BY <1>3, <2>1, <2>2
<1>4. CASE q = <<"runtime", "timer">>
  BY <1>4
<1>5. CASE q = <<"timer", "runtime">>
  BY <1>5
<1> QED
  BY <1>1, <1>2, <1>3, <1>4, <1>5

LEMMA TypesStart == Init => TypesInv
<1> SUFFICES ASSUME Init PROVE TypesInv
  OBVIOUS
<1> USE StagesAssumption, TwistThreadsAssumption DEF Init
<1>1. TypeOK
  <2>1. BurstCount \in Nat /\ ZeroCapacity \in Nat /\ Stages \in Nat /\ Stages # 0
    OBVIOUS
  <2>2. sent \in [Threads -> 0..BurstCount] /\ zeros \in 0..ZeroCapacity /\ stagesLeft \in 1..Stages
    BY <2>1
  <2> QED
    BY <2>2 DEF TypeOK
<1>2. QueueInv /\ CountInv /\ TimerInv
  BY DEF QueueInv, CountInv, TimerInv, Range, Threads, Submitters
<1>3. pc \in [Threads -> Places] /\ read \in [{"worker", "emergency"} -> Nat]
  BY DEF Places
<1> QED
  BY <1>1, <1>2, <1>3 DEF TypesInv

\* A step that moves a thread and leaves the bursts alone.
LEMMA Moved ==
    ASSUME TypesInv, NEW t \in Threads, NEW p \in Places \ {"quiesce", "record"},
           Move(t, p), UNCHANGED sent, pc[t] \notin {"burst", "quiesce", "record"}
    PROVE  CountInv' /\ pc' \in [Threads -> Places] /\ pc'[t] = p /\ \A u \in Threads \ {t} : pc'[u] = pc[u]
BY StagesAssumption DEF TypesInv, CountInv, Move, Places

LEMMA WorkerTypes ==
    ASSUME TypesInv, WorkerStep
    PROVE  TypesInv'
<1> USE DEF TypesInv
<1>1. UNCHANGED <<pc, sent, verdict>>
  BY DEF WorkerStep, WorkerTake, StartStep, StartRead, StartWrite, StartAdopt, StartSet, StartAnnounce,
     CommandCheck, CommandPublish
<1>2. CountInv' /\ TimerInv'
  BY <1>1 DEF CountInv, TimerInv
<1>3. CASE WorkerTake
  <2>1. queue \in Queues /\ queue # <<>>
    BY <1>3 DEF WorkerTake, TypeOK, Queues
  <2>2. /\ Head(queue) \in Submitters /\ Tail(queue) \in Queues
        /\ Range(Tail(queue)) \subseteq Range(queue) \ {Head(queue)}
    BY <2>1, QueueFacts
  <2>3. QueueInv'
    BY <1>1, <1>3, <2>2 DEF WorkerTake, QueueInv, TypeOK
  <2>4. TypeOK'
    BY <1>3, <2>2, TwistThreadsAssumption DEF WorkerTake, TypeOK, Queues, Submitters
  <2> QED
    BY <1>1, <1>2, <1>3, <2>3, <2>4 DEF WorkerTake
<1>4. CASE StartRead \/ StartWrite \/ StartAdopt \/ StartSet
  <2>1. read["worker"] \in Nat
    OBVIOUS
  <2>2. QueueInv'
    BY <1>1, <1>4 DEF StartRead, StartWrite, StartAdopt, StartSet, StartStep, QueueInv
  <2>3. TypeOK' /\ read' \in [{"worker", "emergency"} -> Nat]
    <3>1. CASE StartRead
      BY <1>1, <3>1 DEF StartRead, StartStep, TypeOK
    <3>2. CASE StartWrite
      BY <1>1, <2>1, <3>2 DEF StartWrite, StartStep, TypeOK
    <3>3. CASE StartAdopt
      BY <1>1, <3>3 DEF StartAdopt, StartStep, TypeOK
    <3>4. CASE StartSet
      BY <1>1, <3>4 DEF StartSet, StartStep, TypeOK
    <3> QED
      BY <1>4, <3>1, <3>2, <3>3, <3>4
  <2> QED
    BY <1>1, <1>2, <2>2, <2>3
<1>5. CASE StartAnnounce \/ CommandCheck \/ CommandPublish
  <2>1. TypeOK'
    BY <1>5, TwistThreadsAssumption DEF StartAnnounce, CommandCheck, CommandPublish, CommandEnds, TypeOK, Submitters
  <2>2. QueueInv'
    BY <1>1, <1>5 DEF StartAnnounce, CommandCheck, CommandPublish, CommandEnds, QueueInv, TypeOK
  <2> QED
    BY <1>1, <1>2, <1>5, <2>1, <2>2 DEF StartAnnounce, CommandCheck, CommandPublish
<1> QED
  BY <1>3, <1>4, <1>5 DEF WorkerStep

LEMMA EmergencyTypes ==
    ASSUME TypesInv, EmergencyStep
    PROVE  TypesInv'
<1> USE DEF EmergencyRead, EmergencyDisable, EmergencyPublish, TypesInv
<1>1. UNCHANGED <<pc, sent, queue, receipt, verdict>>
  BY DEF EmergencyStep
<1>2. QueueInv' /\ CountInv' /\ TimerInv' /\ pc' \in [Threads -> Places]
  BY <1>1 DEF QueueInv, CountInv, TimerInv
<1>3. CASE EmergencyRead
  BY <1>2, <1>3, StagesAssumption DEF TypeOK
<1>4. CASE EmergencyDisable
  <2>1. read["emergency"] \in Nat
    OBVIOUS
  <2>2. generation' \in Nat /\ read' \in [{"worker", "emergency"} -> Nat]
    BY <1>4, <2>1
  <2>3. TypeOK'
    BY <1>4, <2>2 DEF TypeOK
  <2> QED
    BY <1>2, <2>2, <2>3
<1>5. CASE EmergencyPublish
  <2>1. motion' \in {"zero", "moving"} /\ failed' \in BOOLEAN /\ UNCHANGED read
    BY <1>5 DEF TypeOK
  <2>2. TypeOK'
    BY <1>5, <2>1 DEF TypeOK
  <2> QED
    BY <1>2, <2>1, <2>2
<1> QED
  BY <1>3, <1>4, <1>5 DEF EmergencyStep

\* Submitting, and giving up, keep the queue what it is.
LEMMA SubmitTypes ==
    ASSUME TypesInv, NEW s \in Submitters, Submit(s), pc[s] # "submitted"
    PROVE  /\ queue' \in Queues
           /\ receipt' \in [Submitters -> {None, "queued", "running", "done", "rejected"}]
           /\ \A u \in Submitters : u \in Range(queue') => receipt'[u] = "queued" /\ (u = s \/ u \in Range(queue))
<1> USE DEF TypesInv, TypeOK, QueueInv
<1>1. queue \in Queues /\ s \notin Range(queue)
  BY DEF Queues
<1>2. Append(queue, s) \in Queues /\ Range(Append(queue, s)) = Range(queue) \cup {s}
  BY <1>1, QueueFacts
<1>3. CASE latched
  BY <1>1, <1>3 DEF Submit
<1>4. CASE ~latched
  <2>1. receipt' = [receipt EXCEPT ![s] = "queued"] /\ queue' = Append(queue, s)
    BY <1>4 DEF Submit
  <2> QED
    BY <1>2, <2>1
<1> QED
  BY <1>3, <1>4

LEMMA Disabled ==
    ASSUME TypesInv, NEW v, Disable(v)
    PROVE  generation' \in Nat /\ stage' = FALSE /\ status' = v /\ stageGen' = stageGen
BY DEF Disable, TypesInv, TypeOK

LEMMA TimerTypes ==
    ASSUME TypesInv, TimerStep
    PROVE  TypesInv'
<1> USE DEF TypesInv
<1>1. "timer" \in Threads /\ "timer" \in Submitters
  BY DEF Threads, Submitters
<1>2. CASE ControlRead
  <2>1. Move("timer", "decide") /\ UNCHANGED <<sent, queue, receipt, verdict, read>> /\ pc["timer"] = "idle"
    BY <1>2 DEF ControlRead
  <2>2. CountInv' /\ pc' \in [Threads -> Places] /\ pc'["timer"] = "decide" /\ \A u \in Threads \ {"timer"} : pc'[u] = pc[u]
    BY <1>1, <2>1, Moved DEF Places
  <2>3. TypeOK'
    BY <1>2 DEF ControlRead, TypeOK
  <2>4. QueueInv' /\ TimerInv'
    BY <1>1, <2>1, <2>2 DEF QueueInv, TimerInv, Submitters, Threads
  <2> QED
    BY <2>1, <2>2, <2>3, <2>4
<1>3. CASE ControlConcludes
  <2>1. /\ Move("timer", "zero") /\ UNCHANGED <<sent, queue, receipt, read>> /\ pc["timer"] = "decide"
        /\ verdict' \in {"faulted", "succeeded"}
    BY <1>3 DEF ControlConcludes, StopDisable
  <2>2. CountInv' /\ pc' \in [Threads -> Places] /\ pc'["timer"] = "zero" /\ \A u \in Threads \ {"timer"} : pc'[u] = pc[u]
    BY <1>1, <2>1, Moved DEF Places
  <2>3. TypeOK'
    <3>1. Disable("stopped") /\ UNCHANGED <<motion, sequencer, zeroing, burst, commandGen, stagesLeft>> /\ captured' = 0
      BY <1>3 DEF ControlConcludes, StopDisable
    <3> QED
      BY <3>1, Disabled DEF TypeOK
  <2>4. QueueInv' /\ TimerInv'
    BY <1>1, <2>1, <2>2 DEF QueueInv, TimerInv, Submitters, Threads
  <2> QED
    BY <2>1, <2>2, <2>3, <2>4
<1>4. CASE ControlVerdict
  <2>1. /\ Move("timer", "idle") /\ UNCHANGED <<sent, queue, receipt, read>> /\ pc["timer"] = "stopped"
        /\ status' \in {"faulted", "succeeded"}
    BY <1>4 DEF ControlVerdict, TimerInv
  <2>2. CountInv' /\ pc' \in [Threads -> Places] /\ pc'["timer"] = "idle" /\ \A u \in Threads \ {"timer"} : pc'[u] = pc[u]
    BY <1>1, <2>1, Moved DEF Places
  <2>3. TypeOK'
    BY <1>4, <2>1 DEF ControlVerdict, TypeOK
  <2>4. QueueInv' /\ TimerInv'
    BY <1>1, <2>1, <2>2 DEF QueueInv, TimerInv, Submitters, Threads
  <2> QED
    BY <2>1, <2>2, <2>3, <2>4
<1>5. CASE ControlSubmit
  <2>1. /\ Move("timer", "submitted") /\ UNCHANGED <<sent, verdict, read>> /\ pc["timer"] = "decide"
        /\ Submit("timer")
    BY <1>5 DEF ControlSubmit
  <2>2. CountInv' /\ pc' \in [Threads -> Places] /\ pc'["timer"] = "submitted" /\ \A u \in Threads \ {"timer"} : pc'[u] = pc[u]
    BY <1>1, <2>1, Moved DEF Places
  <2>3. /\ queue' \in Queues
        /\ receipt' \in [Submitters -> {None, "queued", "running", "done", "rejected"}]
        /\ \A u \in Submitters : u \in Range(queue') => receipt'[u] = "queued" /\ (u = "timer" \/ u \in Range(queue))
    BY <1>1, <2>1, SubmitTypes
  <2>4. commandGen' \in Nat /\ UNCHANGED <<latched, inFlight, worker>>
    BY <1>5 DEF ControlSubmit, Submit, TypeOK
  <2>5. TypeOK'
    BY <1>5, <2>3, <2>4 DEF ControlSubmit, TypeOK, Queues
  <2>6. QueueInv' /\ TimerInv'
    BY <1>1, <2>1, <2>2, <2>3 DEF QueueInv, TimerInv, Submitters, Threads
  <2> QED
    BY <2>1, <2>2, <2>5, <2>6
<1>6. CASE ControlAnswered
  <2>1. /\ Move("timer", "idle") /\ UNCHANGED <<sent, queue, verdict, read>> /\ pc["timer"] = "submitted"
        /\ receipt' = [receipt EXCEPT !["timer"] = None] /\ receipt["timer"] # "queued"
    BY <1>6 DEF ControlAnswered, Forget
  <2>2. CountInv' /\ pc' \in [Threads -> Places] /\ pc'["timer"] = "idle" /\ \A u \in Threads \ {"timer"} : pc'[u] = pc[u]
    BY <1>1, <2>1, Moved DEF Places
  <2>3. generation' \in Nat /\ stage' \in BOOLEAN /\ status' \in {"faulted", status} /\ UNCHANGED <<stageGen, motion>>
    <3>1. (Disable("faulted") /\ UNCHANGED motion) \/ UNCHANGED adapter
      BY <1>6 DEF ControlAnswered
    <3> QED
      BY <3>1, Disabled DEF TypeOK
  <2>4. TypeOK'
    <3>1. UNCHANGED <<captured, commandGen, latched, failed, ended, queue, inFlight, worker, zeros, sent, stagesLeft>>
      BY <1>6 DEF ControlAnswered, Forget
    <3>2. receipt' \in [Submitters -> {None, "queued", "running", "done", "rejected"}]
      BY <2>1 DEF TypeOK
    <3> QED
      BY <2>3, <3>1, <3>2 DEF TypeOK
  <2>5. QueueInv' /\ TimerInv'
    BY <1>1, <2>1, <2>2 DEF QueueInv, TimerInv, Submitters, Threads, TypeOK
  <2> QED
    BY <2>1, <2>2, <2>4, <2>5
<1>7. CASE StopZero("timer")
  <2>1. Move("timer", "stopped") /\ UNCHANGED <<sent, queue, receipt, verdict, read>> /\ pc["timer"] = "zero"
    BY <1>7 DEF StopZero, AfterStop
  <2>2. CountInv' /\ pc' \in [Threads -> Places] /\ pc'["timer"] = "stopped" /\ \A u \in Threads \ {"timer"} : pc'[u] = pc[u]
    BY <1>1, <2>1, Moved DEF Places
  <2>3. TypeOK'
    BY <1>7 DEF StopZero, TypeOK
  <2>4. QueueInv' /\ TimerInv'
    BY <1>1, <2>1, <2>2 DEF QueueInv, TimerInv, Submitters, Threads
  <2> QED
    BY <2>1, <2>2, <2>3, <2>4
<1> QED
  BY <1>2, <1>3, <1>4, <1>5, <1>6, <1>7 DEF TimerStep

\* A step that moves a thread which is not in the queue, and queues nobody.
LEMMA MoveTypes ==
    ASSUME TypesInv, TypeOK', NEW t \in Threads \ {"timer"}, NEW p \in Places \ {"quiesce", "record"}, Move(t, p),
           pc[t] \notin {"burst", "quiesce", "record"}, UNCHANGED <<sent, verdict, read, queue>>,
           t \in Submitters => t \notin Range(queue),
           \A s \in Submitters \ {t} : receipt'[s] = receipt[s]
    PROVE  TypesInv'
<1>1. CountInv' /\ pc' \in [Threads -> Places] /\ pc'[t] = p /\ \A u \in Threads \ {t} : pc'[u] = pc[u]
  BY Moved
<1>2. QueueInv' /\ TimerInv'
  BY <1>1 DEF TypesInv, QueueInv, TimerInv, Submitters, Threads
<1> QED
  BY <1>1, <1>2 DEF TypesInv

LEMMA DisableTypes ==
    ASSUME TypesInv, NEW t \in Threads \ {"timer"}, NEW from \in {"idle", "start", "stop"}, StopDisable(t, from), UNCHANGED locals
    PROVE  TypesInv'
<1>1. Disable("stopped") /\ Move(t, "zero") /\ pc[t] = from /\ UNCHANGED <<motion, sequencer, zeroing, burst, locals>>
  BY DEF StopDisable
<1>2. TypeOK'
  BY <1>1, Disabled DEF TypesInv, TypeOK
<1>3. t \in Submitters => t \notin Range(queue)
  BY <1>1 DEF TypesInv, QueueInv
<1> QED
  BY <1>1, <1>2, <1>3, MoveTypes DEF Places

LEMMA ZeroTypes ==
    ASSUME TypesInv, NEW t \in Threads, StopZero(t)
    PROVE  TypesInv'
<1>1. CASE t = "timer"
  BY <1>1, TimerTypes DEF TimerStep
<1>2. CASE t # "timer"
  <2>1. Move(t, AfterStop(t)) /\ AfterStop(t) \in Places \ {"quiesce", "record"} /\ pc[t] = "zero"
    BY DEF StopZero, AfterStop, Places
  <2>2. TypeOK'
    BY DEF StopZero, TypesInv, TypeOK
  <2>3. t \in Submitters => t \notin Range(queue)
    BY <2>1 DEF TypesInv, QueueInv
  <2>4. UNCHANGED <<sent, verdict, read, queue, receipt>>
    BY DEF StopZero
  <2> QED
    BY <1>2, <2>1, <2>2, <2>3, <2>4, MoveTypes
<1> QED
  BY <1>1, <1>2

\* Latching empties the queue.
LEMMA LatchTypes ==
    ASSUME TypesInv, NEW S, LatchRejecting(S)
    PROVE  /\ latched' = TRUE /\ queue' = <<>> /\ UNCHANGED <<inFlight, worker>>
           /\ receipt' \in [Submitters -> {None, "queued", "running", "done", "rejected"}]
BY DEF LatchRejecting, Rejecting, TypesInv, TypeOK

LEMMA TimeoutTypes ==
    ASSUME TypesInv, NEW s \in Submitters, SubmitTimeout(s)
    PROVE  TypesInv'
<1>1. UNCHANGED <<adapter, zeroing, burst, locals, pc>> /\ LatchRejecting({s})
  BY DEF SubmitTimeout
<1>2. TypeOK'
  BY <1>1, LatchTypes DEF TypesInv, TypeOK
<1>3. QueueInv'
  <2>1. Range(<<>>) = {}
    BY DEF Range
  <2>2. queue' = <<>>
    BY <1>1, LatchTypes
  <2> QED
    BY <2>1, <2>2 DEF QueueInv
<1>4. CountInv' /\ TimerInv'
  BY <1>1 DEF TypesInv, CountInv, TimerInv
<1> QED
  BY <1>1, <1>2, <1>3, <1>4 DEF TypesInv

LEMMA CleanupTypes ==
    ASSUME TypesInv, TypeOK', NEW p \in {"over", "burst"}, StartCleanup(p),
           pc["runtime"] \notin {"burst", "quiesce", "record"}, "runtime" \notin Range(queue),
           UNCHANGED <<sent, verdict, read, queue>>, receipt'["timer"] = receipt["timer"]
    PROVE  TypesInv'
<1> USE DEF TypesInv
<1>1. "runtime" \in Threads /\ "cleanup" \in Threads /\ "timer" \in Threads
  BY DEF Threads, Submitters
<1> DEFINE moved == [pc EXCEPT !["runtime"] = p]
<1>2. moved \in [Threads -> Places] /\ moved["runtime"] = p /\ \A u \in Threads \ {"runtime"} : moved[u] = pc[u]
  BY <1>1 DEF Places
<1>3. pc' = [moved EXCEPT !["cleanup"] = IF moved["cleanup"] = "idle" THEN "stop" ELSE moved["cleanup"]]
  BY DEF StartCleanup
<1> HIDE DEF moved
<1>4. /\ pc' \in [Threads -> Places] /\ pc'["runtime"] = p
      /\ pc'["cleanup"] = pc["cleanup"] \/ (pc["cleanup"] = "idle" /\ pc'["cleanup"] = "stop")
      /\ \A u \in Threads \ {"runtime", "cleanup"} : pc'[u] = pc[u]
  BY <1>1, <1>2, <1>3 DEF Places
<1>5. CountInv'
  <2> SUFFICES ASSUME NEW u \in Threads
               PROVE  /\ pc'[u] \in {"burst", "quiesce"} => sent'[u] < BurstCount
                      /\ pc'[u] \notin {"burst", "quiesce", "record"} => sent'[u] = 0
    BY DEF CountInv
  <2>1. CASE u = "runtime"
    BY <1>1, <1>4, <2>1, StagesAssumption DEF CountInv
  <2>2. CASE u # "runtime"
    BY <1>1, <1>4, <2>2 DEF CountInv
  <2> QED
    BY <2>1, <2>2
<1>6. QueueInv' /\ TimerInv'
  BY <1>1, <1>4 DEF QueueInv, TimerInv, Submitters
<1> QED
  BY <1>4, <1>5, <1>6

LEMMA RuntimeTypes ==
    ASSUME TypesInv,
           RuntimeStart \/ RuntimeStale \/ RuntimeStarted \/ RuntimeRejected
             \/ WatchSucceeded \/ WatchFailed \/ WatchTimeout \/ WatchEnded
    PROVE  TypesInv'
<1> USE DEF TypesInv
<1>1. "runtime" \in Threads \ {"timer"} /\ "runtime" \in Submitters /\ "timer" \in Threads
  BY DEF Threads, Submitters
<1>2. "runtime" \in Range(queue) => pc["runtime"] = "submitted" /\ receipt["runtime"] = "queued"
  BY <1>1 DEF QueueInv
<1>3. CASE RuntimeStart
  <2>1. /\ Move("runtime", "submitted") /\ pc["runtime"] = "start" /\ Submit("runtime")
        /\ UNCHANGED <<adapter, zeroing, burst, locals>>
    BY <1>3 DEF RuntimeStart
  <2>2. /\ CountInv' /\ pc' \in [Threads -> Places] /\ pc'["runtime"] = "submitted"
        /\ \A u \in Threads \ {"runtime"} : pc'[u] = pc[u]
    BY <1>1, <2>1, Moved DEF Places
  <2>3. /\ queue' \in Queues
        /\ receipt' \in [Submitters -> {None, "queued", "running", "done", "rejected"}]
        /\ \A u \in Submitters : u \in Range(queue') => receipt'[u] = "queued" /\ (u = "runtime" \/ u \in Range(queue))
    BY <1>1, <2>1, SubmitTypes
  <2>4. UNCHANGED <<latched, inFlight, worker>>
    BY <2>1 DEF Submit
  <2>5. TypeOK'
    BY <2>1, <2>3, <2>4 DEF TypeOK, Queues
  <2>6. QueueInv' /\ TimerInv'
    BY <1>1, <2>1, <2>2, <2>3 DEF QueueInv, TimerInv, Submitters, Threads
  <2> QED
    BY <2>1, <2>2, <2>5, <2>6
<1>4. CASE RuntimeStale
  BY <1>1, <1>4, DisableTypes DEF RuntimeStale
<1>5. CASE RuntimeStarted \/ RuntimeRejected
  <2>1. /\ pc["runtime"] = "submitted" /\ receipt["runtime"] # "queued" /\ Forget("runtime")
        /\ UNCHANGED <<adapter, zeroing, burst, locals>>
        /\ \/ \E p \in {"watch", "burst"} : Move("runtime", p)
           \/ \E p \in {"over", "burst"} : StartCleanup(p)
    BY <1>5 DEF RuntimeStarted, RuntimeRejected
  <2>2. receipt' = [receipt EXCEPT !["runtime"] = None] /\ UNCHANGED <<latched, queue, inFlight, worker>>
    BY <2>1 DEF Forget
  <2>3. TypeOK'
    <3>1. UNCHANGED <<generation, stageGen, captured, commandGen, stage, latched, failed, ended, status, motion, queue>>
      BY <2>1, <2>2
    <3>2. UNCHANGED <<inFlight, worker, zeros, sent, stagesLeft>>
      BY <2>1, <2>2
    <3>3. receipt' \in [Submitters -> {None, "queued", "running", "done", "rejected"}]
      BY <2>2 DEF TypeOK
    <3> QED
      BY <3>1, <3>2, <3>3 DEF TypeOK
  <2>4. receipt \in [Submitters -> {None, "queued", "running", "done", "rejected"}] /\ {"watch", "burst"} \subseteq Places
    BY DEF TypeOK, Places
  <2>5. ASSUME NEW p \in {"watch", "burst"}, Move("runtime", p) PROVE TypesInv'
    BY <1>1, <1>2, <2>1, <2>2, <2>3, <2>4, <2>5, MoveTypes
  <2>6. ASSUME NEW p \in {"over", "burst"}, StartCleanup(p) PROVE TypesInv'
    BY <1>1, <1>2, <2>1, <2>2, <2>3, <2>4, <2>6, CleanupTypes DEF Submitters
  <2> QED
    BY <2>1, <2>5, <2>6
<1>6. CASE WatchSucceeded \/ WatchFailed \/ WatchTimeout \/ WatchEnded
  <2>1. /\ pc["runtime"] = "watch"
        /\ UNCHANGED <<adapter, sequencer, zeroing, burst, captured, commandGen, verdict, read>>
        /\ \/ \E p \in {"over", "start", "burst"} : Move("runtime", p)
           \/ StartCleanup("burst")
    BY <1>6 DEF WatchSucceeded, WatchFailed, WatchTimeout, WatchEnded
  <2>2. stagesLeft' \in 1..Stages
    BY <1>6, StagesAssumption DEF WatchSucceeded, WatchFailed, WatchTimeout, WatchEnded, TypeOK
  <2>3. TypeOK'
    <3>1. UNCHANGED <<generation, stageGen, captured, commandGen, stage, latched, failed, ended, status, motion, queue>>
      BY <2>1
    <3>2. UNCHANGED <<inFlight, worker, receipt, zeros, sent>>
      BY <2>1
    <3> QED
      BY <2>2, <3>1, <3>2 DEF TypeOK
  <2>4. {"over", "start", "burst"} \subseteq Places
    BY DEF Places
  <2>5. ASSUME NEW p \in {"over", "start", "burst"}, Move("runtime", p) PROVE TypesInv'
    BY <1>1, <1>2, <2>1, <2>3, <2>4, <2>5, MoveTypes
  <2>6. ASSUME StartCleanup("burst") PROVE TypesInv'
    BY <1>1, <1>2, <2>1, <2>3, <2>6, CleanupTypes
  <2> QED
    BY <2>1, <2>5, <2>6
<1> QED
  BY <1>3, <1>4, <1>5, <1>6

LEMMA CancelTypes ==
    ASSUME TypesInv, NEW t \in Cancellers, CancelBegin(t) \/ CancelAnnounce(t)
    PROVE  TypesInv'
<1>1. t \in Threads \ {"timer"} /\ t \notin Submitters
  BY TwistThreadsAssumption DEF Threads, Submitters
<1>2. CASE CancelBegin(t)
  BY <1>1, <1>2, DisableTypes DEF CancelBegin
<1>3. CASE CancelAnnounce(t)
  <2>1. \E p \in {"over", "burst"} : Move(t, p)
    BY <1>3 DEF CancelAnnounce
  <2>2. pc[t] = "stopped" /\ UNCHANGED <<sent, verdict, read, queue, receipt>>
    BY <1>3 DEF CancelAnnounce
  <2>3. TypeOK'
    BY <1>3 DEF CancelAnnounce, TypesInv, TypeOK
  <2> QED
    BY <1>1, <2>1, <2>2, <2>3, MoveTypes DEF Places
<1> QED
  BY <1>2, <1>3

LEMMA LeavingTypes ==
    ASSUME TypesInv, WatchdogLeaves
    PROVE  TypesInv'
<1>1. Move("watchdog", "gone") /\ pc["watchdog"] = "idle" /\ UNCHANGED <<adapter, sequencer, zeroing, burst, locals>>
  BY DEF WatchdogLeaves
<1>2. "watchdog" \in Threads \ {"timer"} /\ "watchdog" \notin Submitters
  BY DEF Threads, Submitters
<1>3. TypeOK'
  BY <1>1 DEF TypesInv, TypeOK
<1> QED
  BY <1>1, <1>2, <1>3, MoveTypes DEF Places

\* A callback of a burst: the count stays below the whole until the burst is to be recorded.
LEMMA CountedTypes ==
    ASSUME TypesInv, NEW t \in Threads, NEW code \in Codes, CallbackReturns(t, code), sent[t] < BurstCount
    PROVE  /\ sent' \in [Threads -> 0..BurstCount] /\ pc' \in [Threads -> Places] /\ CountInv'
           /\ pc'[t] \in {"record", "burst"} /\ \A u \in Threads \ {t} : pc'[u] = pc[u]
<1> USE StagesAssumption DEF TypesInv, TypeOK
<1>1. sent[t] \in 0..BurstCount /\ BurstCount \in Nat
  OBVIOUS
<1>2. /\ sent' = [sent EXCEPT ![t] = sent[t] + 1]
      /\ pc' = [pc EXCEPT ![t] = IF sent[t] + 1 = BurstCount THEN "record" ELSE "burst"]
  BY DEF CallbackReturns, Move
<1>3. pc' \in [Threads -> Places] /\ sent' \in [Threads -> 0..BurstCount]
  BY <1>1, <1>2 DEF Places
<1>4. CountInv'
  BY <1>1, <1>2 DEF CountInv
<1> QED
  BY <1>2, <1>3, <1>4

LEMMA StopTypes ==
    ASSUME TypesInv, StopSteps
    PROVE  TypesInv'
<1> USE DEF TypesInv
<1>1. UNCHANGED <<generation, stageGen, stage, status, motion, emergency, locals, inFlight, worker>>
  BY DEF StopSteps, Burst, BurstCall, BurstReturn, Record, LatchRejecting
<1>2. ASSUME NEW t \in Threads, NEW from \in {"idle", "burst"}, BurstCall(t, from) PROVE TypesInv'
  <2> DEFINE code == IF ~failed /\ zeros < ZeroCapacity THEN "ESTOP_LATCHED" ELSE "SAFETY_COMMAND_REJECTED"
  <2>1. pc[t] = from /\ LatchRejecting({}) /\ UNCHANGED ended
    BY <1>2 DEF BurstCall
  <2>2. failed' \in BOOLEAN /\ zeros' \in 0..ZeroCapacity
    BY <1>2, StagesAssumption DEF BurstCall, TypeOK
  <2>3. \/ CallbackReturns(t, code)
        \/ pc' = [pc EXCEPT ![t] = "quiesce"] /\ sent' = sent
    BY <1>2 DEF BurstCall, Move
  <2>4. code \in Codes
    BY DEF Codes
  <2> HIDE DEF code
  <2>5. sent[t] < BurstCount
    BY <2>1, StagesAssumption DEF CountInv
  <2>6. /\ sent' \in [Threads -> 0..BurstCount] /\ pc' \in [Threads -> Places] /\ CountInv'
        /\ pc'[t] \in {"record", "burst", "quiesce"} /\ \A u \in Threads \ {t} : pc'[u] = pc[u]
    <3>1. CASE CallbackReturns(t, code)
      BY <2>4, <2>5, <3>1, CountedTypes
    <3>2. CASE pc' = [pc EXCEPT ![t] = "quiesce"] /\ sent' = sent
      BY <2>5, <3>2 DEF CountInv, Places, TypeOK
    <3> QED
      BY <2>3, <3>1, <3>2
  <2>7. TypeOK'
    BY <1>1, <2>1, <2>2, <2>6, LatchTypes DEF TypeOK
  <2>8. QueueInv'
    <3>1. Range(<<>>) = {}
      BY DEF Range
    <3>2. queue' = <<>>
      BY <2>1, LatchTypes
    <3> QED
      BY <3>1, <3>2 DEF QueueInv
  <2>9. TimerInv'
    BY <1>1, <2>6 DEF TimerInv, Threads, Submitters
  <2> QED
    BY <1>1, <2>6, <2>7, <2>8, <2>9
<1>3. ASSUME NEW t \in Threads, BurstReturn(t) PROVE TypesInv'
  <2>1. /\ pc[t] = "quiesce" /\ UNCHANGED <<sequencer, zeroing, ended>>
        /\ \E code \in Codes : CallbackReturns(t, code)
    BY <1>3 DEF BurstReturn, Codes
  <2>2. sent[t] < BurstCount
    BY <2>1 DEF CountInv
  <2>3. /\ sent' \in [Threads -> 0..BurstCount] /\ pc' \in [Threads -> Places] /\ CountInv'
        /\ pc'[t] \in {"record", "burst"} /\ \A u \in Threads \ {t} : pc'[u] = pc[u]
    BY <2>1, <2>2, CountedTypes
  <2>4. TypeOK'
    BY <1>1, <2>1, <2>3 DEF TypeOK
  <2>5. QueueInv' /\ TimerInv'
    BY <1>1, <2>1, <2>3 DEF QueueInv, TimerInv, Threads, Submitters
  <2> QED
    BY <1>1, <2>3, <2>4, <2>5
<1>4. ASSUME NEW t \in Threads, Record(t) PROVE TypesInv'
  <2>1. /\ pc[t] = "record" /\ UNCHANGED <<sequencer, zeroing>> /\ ended' = TRUE
        /\ pc' = [pc EXCEPT ![t] = "over"] /\ sent' = [sent EXCEPT ![t] = 0]
    BY <1>4 DEF Record, Move
  <2>2. sent' \in [Threads -> 0..BurstCount] /\ pc' \in [Threads -> Places]
    BY <2>1, StagesAssumption DEF TypeOK, Places
  <2>3. CountInv'
    BY <2>1 DEF CountInv, TypeOK
  <2>4. TypeOK'
    BY <1>1, <2>1, <2>2 DEF TypeOK
  <2>5. QueueInv' /\ TimerInv'
    BY <1>1, <2>1 DEF QueueInv, TimerInv, Threads, Submitters
  <2> QED
    BY <1>1, <2>2, <2>3, <2>4, <2>5
<1> QED
  BY <1>2, <1>3, <1>4 DEF StopSteps, Burst

LEMMA TypesStep == TypesInv /\ [Next]_vars => TypesInv'
<1> SUFFICES ASSUME TypesInv, [Next]_vars PROVE TypesInv'
  OBVIOUS
<1>1. CASE DriveSteps
  <2>1. CASE CleanupDisable
    BY <2>1, DisableTypes DEF CleanupDisable, Threads, Submitters
  <2> QED
    BY <1>1, <2>1, WorkerTypes, TimerTypes, RuntimeTypes, CancelTypes, ZeroTypes, TimeoutTypes, LeavingTypes DEF DriveSteps
<1>2. CASE EmergencyStep
  BY <1>2, EmergencyTypes
<1>3. CASE StopSteps
  BY <1>3, StopTypes
<1>4. CASE UNCHANGED vars
  BY <1>4 DEF vars, TypesInv, TypeOK, QueueInv, CountInv, TimerInv
<1> QED
  BY <1>1, <1>2, <1>3, <1>4, NextIsDriveOrStop

\* Every variable has its type: the queue never holds two commands of one
\* submitter and no burst makes a callback too many.
THEOREM TwistTyped == Spec => []TypeOK
<1>1. TypesInv => TypeOK
  BY DEF TypesInv
<1> QED
  BY <1>1, TypesStart, TypesStep, PTL DEF Spec

=============================================================================
